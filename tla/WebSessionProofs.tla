--------------------------- MODULE WebSessionProofs ---------------------------
(***************************************************************************)
(* Theorems about WebSession, for any number of browsers, users, logins    *)
(* and sessions, and any life of states and sessions.                      *)
(***************************************************************************)
EXTENDS WebSession, TLAPS

\* Somebody calls back in browser b.
LoggingIn(b) == login[b].pc # "idle"

\* States that are stored were given out, and none is stored after a callback.
StatesOK == DOMAIN states \subseteq DOMAIN starter /\ DOMAIN starter \subseteq States

\* A browser's cookies name a state that it was given, and a session that exists
\* or existed.
CookiesOK ==
  \A b \in Browsers :
    /\ cookies[b].state \in DOMAIN starter \cup {None}
    /\ cookies[b].state # None => starter[cookies[b].state] = b
    /\ cookies[b].session \in DOMAIN origin \cup {None}

\* The state of a callback being served was this browser's, has been consumed,
\* and has not brought a session yet.
TokensOK ==
  \A b \in Browsers : LoggingIn(b) =>
    /\ login[b].token \in DOMAIN starter \ DOMAIN states
    /\ starter[login[b].token] = b
    /\ \A s \in DOMAIN origin : origin[s][1] # login[b].token

\* The state behind a session was given out and has been consumed.
OriginsOK ==
  \A s \in DOMAIN origin : origin[s][1] \in DOMAIN starter \ DOMAIN states

\* A role that a callback has found was held since the callback began.
RolesOK ==
  \A b \in Browsers : LoggingIn(b) =>
    /\ login[b].since <= now
    /\ login[b].pc = "session" =>
         /\ login[b].role \in Roles
         /\ \E t \in login[b].since..now : <<login[b].user, login[b].role, t>> \in held

\* A stored session is one that was created and not logged out, expires as long
\* after its creation as sessions live, and its role was held during its login.
SessionsOK ==
  /\ out \subseteq DOMAIN origin
  /\ DOMAIN origin \subseteq Sessions
  /\ \A s \in DOMAIN origin : origin[s][3] \in Nat
  /\ \A s \in sessions :
       /\ s.id \in DOMAIN origin \ out
       /\ s.expires = origin[s.id][3] + SessionTTL
       /\ \E t \in s.since..origin[s.id][3] : <<s.user, s.role, t>> \in held

\* The present holders of a role are recorded with the present time.
HeldNow == \A h \in Holding : <<h[1], h[2], now>> \in held

\* The inductive invariant.
IndInv ==
  /\ TypeOK /\ StatesOK /\ CookiesOK /\ TokensOK /\ OriginsOK
  /\ RolesOK /\ SessionsOK /\ HeldNow /\ OneSessionPerLogin
-----------------------------------------------------------------------------
\* The initial states satisfy it.
LEMMA InitOK == Init => IndInv
<1> SUFFICES ASSUME Init PROVE IndInv
  OBVIOUS
<1> USE ConstantsAssumption DEF Init
<1>1. TypeOK
  BY DEF TypeOK, NoLogin, NoSession, Session, Login
<1>2. StatesOK /\ CookiesOK /\ TokensOK /\ OriginsOK /\ RolesOK /\ SessionsOK
  BY DEF StatesOK, CookiesOK, TokensOK, OriginsOK, RolesOK, SessionsOK, LoggingIn, NoLogin
<1>3. HeldNow /\ OneSessionPerLogin
  BY DEF HeldNow, OneSessionPerLogin
<1> QED BY <1>1, <1>2, <1>3 DEF IndInv

\* A login keeps the invariant: the state is new.
LEMMA HandleLoginOK ==
  ASSUME IndInv, NEW b \in Browsers, HandleLogin(b)
  PROVE  IndInv'
<1> USE ConstantsAssumption
<1>0. PICK t \in States \ DOMAIN starter :
       /\ states' = Put(states, t, now + StateTTL)
       /\ cookies' = [cookies EXCEPT ![b].state = t, ![b].until = now + StateTTL]
       /\ starter' = Put(starter, t, b)
  BY DEF HandleLogin
<1>a. /\ DOMAIN starter' = DOMAIN starter \cup {t} /\ starter'[t] = b
      /\ \A x \in DOMAIN starter : starter'[x] = starter[x]
      /\ DOMAIN states' = DOMAIN states \cup {t}
      /\ states'[t] = now + StateTTL
      /\ \A x \in DOMAIN states : x # t => states'[x] = states[x]
  BY <1>0 DEF Put
<1>b. UNCHANGED <<now, registry, sessions, login, wire, serving, changes, origin, out, held>>
  BY DEF HandleLogin
<1>1. TypeOK'
  <2>1. cookies' \in [Browsers -> [state : States \cup {None}, until : Nat,
                                   session : Sessions \cup {None}]]
    <3>1. /\ cookies \in [Browsers -> [state : States \cup {None}, until : Nat,
                                       session : Sessions \cup {None}]]
          /\ now + StateTTL \in Nat
      BY DEF IndInv, TypeOK
    <3> QED BY <1>0, <3>1
  <2>2. \A x \in DOMAIN states' : x \in States /\ states'[x] \in Nat
    <3>1. now + StateTTL \in Nat /\ \A x \in DOMAIN states : x \in States /\ states[x] \in Nat
      BY DEF IndInv, TypeOK
    <3> QED BY <1>a, <3>1
  <2> QED BY <1>b, <2>1, <2>2 DEF IndInv, TypeOK, registry
<1>2. StatesOK'
  BY <1>0, <1>a DEF IndInv, StatesOK
<1>3. CookiesOK'
  BY <1>0, <1>a, <1>b DEF IndInv, CookiesOK, TypeOK
<1>4. TokensOK'
  BY <1>0, <1>a, <1>b DEF IndInv, TokensOK, LoggingIn, StatesOK
<1>5. OriginsOK'
  BY <1>0, <1>a, <1>b DEF IndInv, OriginsOK
<1>6. (RolesOK /\ SessionsOK /\ HeldNow)'
  BY <1>b DEF IndInv, RolesOK, SessionsOK, HeldNow, LoggingIn, Holding, registry
<1>7. OneSessionPerLogin'
  BY <1>0, <1>a, <1>b DEF IndInv, OneSessionPerLogin, OriginsOK
<1> QED BY <1>1, <1>2, <1>3, <1>4, <1>5, <1>6, <1>7 DEF IndInv

\* A callback keeps the invariant: the state is consumed.
LEMMA HandleCallbackOK ==
  ASSUME IndInv, NEW b \in Browsers, HandleCallback(b)
  PROVE  IndInv'
<1> USE ConstantsAssumption
<1>0. PICK t \in DOMAIN states, u \in Users :
       /\ CookieMatches(b, t)
       /\ states' = Consumed(t)
       /\ IF now <= states[t]
          THEN login' = [login EXCEPT ![b] = [pc |-> "exchange", user |-> u, token |-> t,
                                              role |-> None, since |-> now]]
          ELSE UNCHANGED login
  BY DEF HandleCallback
<1>a. UNCHANGED <<now, staff, maintainers, sessions, cookies, wire, serving, changes,
                  starter, origin, out, held>>
  BY DEF HandleCallback, history, registry
<1>b. /\ DOMAIN states' = DOMAIN states \ {t}
      /\ \A x \in DOMAIN states' : states'[x] = states[x]
  BY <1>0 DEF Consumed
<1>c. t \in States /\ starter[t] = b
  BY <1>0 DEF IndInv, TypeOK, CookiesOK, CookieMatches
<1>d. \A c \in Browsers : LoggingIn(c)' =>
        \/ login'[c] = login[c] /\ LoggingIn(c)
        \/ /\ c = b /\ login'[c].token = t /\ login'[c].since = now
           /\ login'[c].pc = "exchange"
  BY <1>0 DEF IndInv, TypeOK, LoggingIn
<1>1. TypeOK'
  <2>1. login' \in [Browsers -> Login \cup {NoLogin}]
    BY <1>0, <1>c DEF IndInv, TypeOK, Login
  <2> QED BY <1>a, <1>b, <2>1 DEF IndInv, TypeOK
<1>2. StatesOK' /\ CookiesOK' /\ OriginsOK'
  BY <1>a, <1>b DEF IndInv, StatesOK, CookiesOK, OriginsOK
<1>3. TokensOK'
  <2> SUFFICES ASSUME NEW c \in Browsers, LoggingIn(c)'
               PROVE  /\ login'[c].token \in DOMAIN starter' \ DOMAIN states'
                      /\ starter'[login'[c].token] = c
                      /\ \A s \in DOMAIN origin' : origin'[s][1] # login'[c].token
    BY DEF TokensOK
  <2>1. CASE login'[c] = login[c] /\ LoggingIn(c)
    BY <1>a, <1>b, <2>1 DEF IndInv, TokensOK
  <2>2. CASE c = b /\ login'[c].token = t
    BY <1>a, <1>b, <1>c, <2>2 DEF IndInv, OriginsOK, StatesOK
  <2> QED BY <1>d, <2>1, <2>2
<1>4. RolesOK'
  <2>1. now \in Nat /\ now <= now
    BY DEF IndInv, TypeOK
  <2> QED BY <1>a, <1>d, <2>1 DEF IndInv, RolesOK
<1>5. (SessionsOK /\ HeldNow /\ OneSessionPerLogin)'
  BY <1>a DEF IndInv, SessionsOK, HeldNow, Holding, OneSessionPerLogin
<1> QED BY <1>1, <1>2, <1>3, <1>4, <1>5 DEF IndInv

\* A step of a callback that goes on, or is given up, and concerns nothing else.
LEMMA CallbackStep ==
  ASSUME IndInv, NEW b \in Browsers, LoggingIn(b), NEW r \in Login \cup {NoLogin},
         login' = [login EXCEPT ![b] = r],
         UNCHANGED <<now, registry, store, cookies, wire, serving, changes, history>>,
         r.pc # "idle" => r.token = login[b].token /\ r.since = login[b].since,
         r.pc = "session" => /\ r.role \in Roles
                             /\ <<r.user, r.role, now>> \in held
  PROVE  IndInv'
<1> USE DEF registry, store, history
<1>1. \A c \in Browsers : login'[c] = IF c = b THEN r ELSE login[c]
  BY DEF IndInv, TypeOK
<1>2. TypeOK'
  BY DEF IndInv, TypeOK
<1>3. TokensOK'
  BY <1>1 DEF IndInv, TokensOK, LoggingIn
<1>4. RolesOK'
  <2>1. now \in Nat /\ login[b].since <= now
    BY DEF IndInv, TypeOK, RolesOK
  <2>2. login[b].since \in Nat
    BY DEF IndInv, TypeOK, LoggingIn, Login, NoLogin
  <2>3. now \in login[b].since..now
    BY <2>1, <2>2
  <2> QED BY <1>1, <2>1, <2>3 DEF IndInv, RolesOK, LoggingIn
<1>5. (StatesOK /\ CookiesOK /\ OriginsOK /\ SessionsOK /\ HeldNow /\ OneSessionPerLogin)'
  BY DEF IndInv, StatesOK, CookiesOK, OriginsOK, SessionsOK, HeldNow, Holding,
         OneSessionPerLogin
<1> QED BY <1>2, <1>3, <1>4, <1>5 DEF IndInv

\* The exchange with GitHub and the look at the registry keep the invariant.
LEMMA CallbackOK ==
  ASSUME IndInv, NEW b \in Browsers,
         Exchange(b) \/ AuthorizeStaff(b) \/ AuthorizeMaintainer(b)
  PROVE  IndInv'
<1> DEFINE r == login[b]
<1>1. LoggingIn(b) /\ r \in Login /\ login \in [Browsers -> Login \cup {NoLogin}]
  BY DEF IndInv, TypeOK, LoggingIn, NoLogin, Exchange, AuthorizeStaff, AuthorizeMaintainer
<1>2. NoLogin \in Login \cup {NoLogin} /\ NoLogin.pc = "idle"
  BY DEF NoLogin
<1>3. CASE Exchange(b)
  <2> DEFINE s == [r EXCEPT !.pc = "staff"]
  <2>1. s \in Login /\ s.pc = "staff" /\ s.token = r.token /\ s.since = r.since
    BY <1>1 DEF Login
  <2>2. login' = [login EXCEPT ![b] = s] \/ login' = [login EXCEPT ![b] = NoLogin]
    BY <1>1, <1>3 DEF Exchange
  <2> QED BY <1>1, <1>2, <1>3, <2>1, <2>2, CallbackStep DEF Exchange
<1>4. CASE AuthorizeStaff(b)
  <2> DEFINE s == [r EXCEPT !.pc = "session", !.role = "staff"]
             q == [r EXCEPT !.pc = "maintainers"]
  <2>1. /\ s \in Login /\ s.token = r.token /\ s.since = r.since
        /\ s.role = "staff" /\ s.user = r.user
        /\ q \in Login /\ q.pc = "maintainers" /\ q.token = r.token /\ q.since = r.since
    BY <1>1 DEF Login, Roles
  <2>2. CASE r.user \in staff
    <3>1. <<r.user, "staff">> \in Holding
      BY <2>2 DEF Holding
    <3>2. <<r.user, "staff", now>> \in held
      BY <3>1 DEF IndInv, HeldNow
    <3>3. /\ login' = [login EXCEPT ![b] = s]
          /\ UNCHANGED <<now, registry, store, cookies, wire, serving, changes, history>>
      BY <1>1, <1>4, <2>2 DEF AuthorizeStaff
    <3> HIDE DEF s
    <3> QED BY <1>1, <2>1, <3>2, <3>3, CallbackStep DEF Roles
  <2>3. CASE r.user \notin staff
    BY <1>1, <1>4, <2>1, <2>3, CallbackStep DEF AuthorizeStaff
  <2> QED BY <2>2, <2>3
<1>5. CASE AuthorizeMaintainer(b)
  <2> DEFINE s == [r EXCEPT !.pc = "session", !.role = "maintainer"]
  <2>1. /\ s \in Login /\ s.token = r.token /\ s.since = r.since
        /\ s.role = "maintainer" /\ s.user = r.user
    BY <1>1 DEF Login, Roles
  <2>2. CASE r.user \in maintainers
    <3>1. <<r.user, "maintainer">> \in Holding
      BY <2>2 DEF Holding
    <3>2. <<r.user, "maintainer", now>> \in held
      BY <3>1 DEF IndInv, HeldNow
    <3>3. /\ login' = [login EXCEPT ![b] = s]
          /\ UNCHANGED <<now, registry, store, cookies, wire, serving, changes, history>>
      BY <1>1, <1>5, <2>2 DEF AuthorizeMaintainer
    <3> HIDE DEF s
    <3> QED BY <1>1, <2>1, <3>2, <3>3, CallbackStep DEF Roles
  <2>3. CASE r.user \notin maintainers
    BY <1>1, <1>2, <1>5, <2>3, CallbackStep DEF AuthorizeMaintainer
  <2> QED BY <2>2, <2>3
<1> QED BY <1>3, <1>4, <1>5

\* A new session keeps the invariant: its id is new, its login's state was consumed.
LEMMA CreateSessionOK ==
  ASSUME IndInv, NEW b \in Browsers, CreateSession(b)
  PROVE  IndInv'
<1> DEFINE r == login[b]
<1>0. PICK s \in Sessions \ DOMAIN origin :
       /\ sessions' = sessions \cup
            {[id |-> s, user |-> r.user, role |-> r.role,
              expires |-> Expiry(now), since |-> r.since]}
       /\ cookies' = [cookies EXCEPT ![b].session = s]
       /\ origin' = Put(origin, s, <<r.token, b, now>>)
  BY DEF CreateSession
<1> DEFINE new == [id |-> s, user |-> r.user, role |-> r.role,
                   expires |-> Expiry(now), since |-> r.since]
<1>a. /\ UNCHANGED <<now, staff, maintainers, states, wire, serving, changes, starter,
                     out, held>>
      /\ login' = [login EXCEPT ![b] = NoLogin]
      /\ r.pc = "session"
  BY DEF CreateSession, registry
<1>b. LoggingIn(b) /\ r \in Login /\ login \in [Browsers -> Login \cup {NoLogin}]
  BY <1>a DEF IndInv, TypeOK, LoggingIn, NoLogin
<1>c. /\ r.role \in Roles /\ r.user \in Users /\ r.since \in Nat /\ now \in Nat
      /\ Expiry(now) \in Nat /\ Expiry(now) = now + SessionTTL
      /\ \E t \in r.since..now : <<r.user, r.role, t>> \in held
  BY <1>a, <1>b, ConstantsAssumption DEF IndInv, TypeOK, RolesOK, Login, Expiry
<1>d. /\ DOMAIN origin' = DOMAIN origin \cup {s}
      /\ origin'[s] = <<r.token, b, now>>
      /\ \A x \in DOMAIN origin : origin'[x] = origin[x]
  BY <1>0 DEF Put
<1>e. /\ new \in Session /\ new.id = s /\ new.user = r.user /\ new.role = r.role
      /\ new.expires = now + SessionTTL /\ new.since = r.since
      /\ sessions' = sessions \cup {new}
  BY <1>0, <1>c DEF Session
<1>f. \A c \in Browsers : LoggingIn(c)' => c # b /\ login'[c] = login[c] /\ LoggingIn(c)
  BY <1>a, <1>b DEF LoggingIn, NoLogin
<1>g. \A x \in sessions : x.id \in DOMAIN origin
  BY DEF IndInv, SessionsOK
<1> HIDE DEF new
<1>1. TypeOK'
  <2>1. login' \in [Browsers -> Login \cup {NoLogin}]
    BY <1>a, <1>b
  <2>2. cookies' \in [Browsers -> [state : States \cup {None}, until : Nat,
                                   session : Sessions \cup {None}]]
    BY <1>0 DEF IndInv, TypeOK
  <2>3. \A x \in sessions', y \in sessions' : x.id = y.id => x = y
    <3>1. \A x \in sessions, y \in sessions : x.id = y.id => x = y
      BY DEF IndInv, TypeOK
    <3> QED BY <1>e, <1>g, <3>1
  <2> QED BY <1>a, <1>e, <2>1, <2>2, <2>3 DEF IndInv, TypeOK
<1>2. StatesOK' /\ RolesOK' /\ HeldNow'
  BY <1>a, <1>f DEF IndInv, StatesOK, RolesOK, HeldNow, Holding
<1>3. CookiesOK'
  BY <1>0, <1>a, <1>d DEF IndInv, CookiesOK, TypeOK
<1>4. TokensOK'
  BY <1>a, <1>b, <1>d, <1>f DEF IndInv, TokensOK
<1>5. OriginsOK'
  BY <1>a, <1>b, <1>d DEF IndInv, TokensOK, OriginsOK
<1>6. SessionsOK'
  <2>1. out' \subseteq DOMAIN origin' /\ DOMAIN origin' \subseteq Sessions
    BY <1>a, <1>d DEF IndInv, SessionsOK
  <2>2. \A x \in DOMAIN origin' : origin'[x][3] \in Nat
    BY <1>c, <1>d DEF IndInv, SessionsOK
  <2>3. ASSUME NEW x \in sessions'
        PROVE  /\ x.id \in DOMAIN origin' \ out'
               /\ x.expires = origin'[x.id][3] + SessionTTL
               /\ \E t \in x.since..origin'[x.id][3] : <<x.user, x.role, t>> \in held'
    <3>1. CASE x = new
      BY <1>a, <1>c, <1>d, <1>e, <3>1 DEF IndInv, SessionsOK
    <3>2. CASE x \in sessions
      BY <1>a, <1>d, <1>g, <3>2 DEF IndInv, SessionsOK
    <3> QED BY <1>e, <3>1, <3>2
  <2> QED BY <2>1, <2>2, <2>3 DEF SessionsOK
<1>7. OneSessionPerLogin'
  BY <1>a, <1>b, <1>d DEF IndInv, OneSessionPerLogin, TokensOK
<1> QED BY <1>1, <1>2, <1>3, <1>4, <1>5, <1>6, <1>7 DEF IndInv

\* A logout keeps the invariant.
LEMMA HandleLogoutOK ==
  ASSUME IndInv, NEW b \in Browsers, HandleLogout(b)
  PROVE  IndInv'
<1> DEFINE s == cookies[b].session
<1>0. /\ s # None
      /\ sessions' = Deleted(s)
      /\ cookies' = [cookies EXCEPT ![b].session = None]
      /\ out' = out \cup {s}
      /\ UNCHANGED <<now, staff, maintainers, states, login, wire, serving, changes,
                     starter, origin, held>>
  BY DEF HandleLogout, registry
<1>a. s \in DOMAIN origin
  BY <1>0 DEF IndInv, CookiesOK
<1>b. \A x \in sessions' : x \in sessions /\ x.id # s
  BY <1>0 DEF Deleted
<1>1. TypeOK'
  <2>1. cookies' \in [Browsers -> [state : States \cup {None}, until : Nat,
                                   session : Sessions \cup {None}]]
    BY <1>0 DEF IndInv, TypeOK
  <2>2. sessions' \subseteq Session /\ \A x \in sessions', y \in sessions' : x.id = y.id => x = y
    BY <1>b DEF IndInv, TypeOK
  <2> QED BY <1>0, <2>1, <2>2 DEF IndInv, TypeOK
<1>2. CookiesOK'
  BY <1>0 DEF IndInv, CookiesOK, TypeOK
<1>3. SessionsOK'
  BY <1>0, <1>a, <1>b DEF IndInv, SessionsOK
<1>4. (StatesOK /\ TokensOK /\ OriginsOK /\ RolesOK /\ HeldNow /\ OneSessionPerLogin)'
  BY <1>0 DEF IndInv, StatesOK, TokensOK, OriginsOK, RolesOK, HeldNow, Holding,
              OneSessionPerLogin, LoggingIn
<1> QED BY <1>1, <1>2, <1>3, <1>4 DEF IndInv

\* Requests to the API, and their answers, touch nothing but themselves.
LEMMA RequestsOK ==
  ASSUME IndInv, NEW b \in Browsers, Send(b) \/ RequireSession(b) \/ Answer(b)
  PROVE  IndInv'
<1>0. UNCHANGED <<now, staff, maintainers, states, sessions, cookies, login, changes,
                  starter, origin, out, held>>
  BY DEF Send, RequireSession, Answer, registry, store, history
<1>1. wire' \in [Browsers -> Sessions \cup {None}]
  BY DEF Send, RequireSession, Answer, IndInv, TypeOK
<1>2. serving' \in [Browsers -> (Session \cup {NoSession})]
  BY DEF Send, RequireSession, Answer, IndInv, TypeOK
<1>3. TypeOK'
  BY <1>0, <1>1, <1>2 DEF IndInv, TypeOK
<1>4. (/\ StatesOK /\ CookiesOK /\ TokensOK /\ OriginsOK /\ RolesOK /\ SessionsOK
       /\ HeldNow /\ OneSessionPerLogin)'
  BY <1>0 DEF IndInv, StatesOK, CookiesOK, TokensOK, OriginsOK, RolesOK, SessionsOK,
              HeldNow, Holding, OneSessionPerLogin, LoggingIn
<1> QED BY <1>3, <1>4 DEF IndInv

\* Roles that were held before are still on record when the record grows.
LEMMA HeldGrows ==
  ASSUME IndInv, held \subseteq held', now' \in Nat, now <= now',
         UNCHANGED <<sessions, login, origin, out>>
  PROVE  RolesOK' /\ SessionsOK'
<1>0. now \in Nat
  BY DEF IndInv, TypeOK
<1>1. RolesOK'
  <2> SUFFICES ASSUME NEW b \in Browsers, LoggingIn(b)
               PROVE  /\ login[b].since <= now'
                      /\ login[b].pc = "session" =>
                           /\ login[b].role \in Roles
                           /\ \E t \in login[b].since..now' :
                                <<login[b].user, login[b].role, t>> \in held'
    BY DEF RolesOK, LoggingIn
  <2>1. login[b].since \in Nat
    BY DEF IndInv, TypeOK, LoggingIn, Login, NoLogin
  <2> QED BY <1>0, <2>1 DEF IndInv, RolesOK
<1>2. SessionsOK'
  BY DEF IndInv, SessionsOK
<1> QED BY <1>1, <1>2

\* Changes of the registry, restarts and time keep the invariant.
LEMMA EnvironmentOK ==
  ASSUME IndInv, ChangeRegistry \/ Restart \/ Tick
  PROVE  IndInv'
<1> USE ConstantsAssumption DEF registry, store, history
<1>0. now \in Nat /\ changes \in 0..MaxChanges
  BY DEF IndInv, TypeOK
<1>1. CASE ChangeRegistry
  <2>1. /\ staff' \subseteq Users /\ maintainers' \subseteq Users
        /\ changes' \in 0..MaxChanges
    BY <1>0, <1>1 DEF ChangeRegistry, IndInv, TypeOK
  <2>2. TypeOK'
    BY <1>1, <2>1 DEF ChangeRegistry, IndInv, TypeOK
  <2>3. HeldNow'
    BY <1>1 DEF ChangeRegistry, HeldNow
  <2>4. RolesOK' /\ SessionsOK'
    BY <1>0, <1>1, HeldGrows DEF ChangeRegistry
  <2>5. (StatesOK /\ CookiesOK /\ TokensOK /\ OriginsOK /\ OneSessionPerLogin)'
    BY <1>1 DEF ChangeRegistry, IndInv, StatesOK, CookiesOK, TokensOK, OriginsOK,
                OneSessionPerLogin, LoggingIn
  <2> QED BY <2>2, <2>3, <2>4, <2>5 DEF IndInv
<1>2. CASE Restart
  <2>1. changes' \in 0..MaxChanges
    BY <1>0, <1>2 DEF Restart
  <2>2. TypeOK'
    BY <1>2, <2>1 DEF Restart, IndInv, TypeOK
  <2>3. \A b \in Browsers : ~LoggingIn(b)'
    BY <1>2 DEF Restart, LoggingIn, NoLogin
  <2>4. (TokensOK /\ RolesOK)'
    BY <2>3 DEF TokensOK, RolesOK
  <2>5. (StatesOK /\ CookiesOK /\ OriginsOK /\ SessionsOK /\ HeldNow /\ OneSessionPerLogin)'
    BY <1>2 DEF Restart, IndInv, StatesOK, CookiesOK, OriginsOK, SessionsOK, HeldNow,
                Holding, OneSessionPerLogin
  <2> QED BY <2>2, <2>4, <2>5 DEF IndInv
<1>3. CASE Tick
  <2>1. now' \in 0..MaxTime /\ now' \in Nat /\ now <= now'
    BY <1>0, <1>3 DEF Tick
  <2>2. TypeOK'
    BY <1>3, <2>1 DEF Tick, IndInv, TypeOK
  <2>3. HeldNow'
    BY <1>3 DEF Tick, HeldNow, Holding
  <2>4. RolesOK' /\ SessionsOK'
    BY <1>3, <2>1, HeldGrows DEF Tick
  <2>5. (StatesOK /\ CookiesOK /\ TokensOK /\ OriginsOK /\ OneSessionPerLogin)'
    BY <1>3 DEF Tick, IndInv, StatesOK, CookiesOK, TokensOK, OriginsOK,
                OneSessionPerLogin, LoggingIn
  <2> QED BY <2>2, <2>3, <2>4, <2>5 DEF IndInv
<1> QED BY <1>1, <1>2, <1>3

\* Every step keeps the inductive invariant.
LEMMA NextOK == IndInv /\ [Next]_vars => IndInv'
<1> SUFFICES ASSUME IndInv, [Next]_vars PROVE IndInv'
  OBVIOUS
<1>1. CASE Next
  BY <1>1, HandleLoginOK, HandleCallbackOK, CallbackOK, CreateSessionOK, HandleLogoutOK,
     RequestsOK, EnvironmentOK DEF Next
<1>2. CASE UNCHANGED vars
  BY <1>2 DEF vars, registry, store, history, IndInv, TypeOK, StatesOK, CookiesOK, TokensOK,
     OriginsOK, RolesOK, SessionsOK, HeldNow, Holding, OneSessionPerLogin, LoggingIn
<1> QED BY <1>1, <1>2

\* What a request is admitted with is a stored session that has not expired.
LEMMA Admitted ==
  ASSUME IndInv, [Next]_vars, NEW b \in Browsers,
         serving'[b] \notin {serving[b], NoSession}
  PROVE  serving'[b] \in sessions /\ now <= serving'[b].expires
<1>1. serving \in [Browsers -> (Session \cup {NoSession})]
  BY DEF IndInv, TypeOK
<1>2. PICK c \in Browsers : RequireSession(c)
  <2>1. CASE \E c \in Browsers : Answer(c)
    BY <1>1, <2>1 DEF Answer
  <2>2. CASE Restart
    BY <2>2 DEF Restart
  <2>3. CASE UNCHANGED serving
    BY <2>3
  <2> QED BY <2>1, <2>2, <2>3 DEF Next, vars, HandleLogin, HandleCallback, Exchange,
          AuthorizeStaff, AuthorizeMaintainer, CreateSession, HandleLogout, Send,
          ChangeRegistry, Tick
<1> QED BY <1>1, <1>2 DEF RequireSession
-----------------------------------------------------------------------------
\* The state is well formed, and session ids are never given out twice.
THEOREM TypeCorrect == Spec => []TypeOK
<1>1. IndInv => TypeOK
  BY DEF IndInv
<1> QED BY InitOK, NextOK, <1>1, PTL DEF Spec

\* However callbacks are repeated and interleaved, one login gives one session,
\* to the browser that began it: stateStore.Consume and the state cookie.
THEOREM LoginsGiveOneSession == Spec => []OneSessionPerLogin
<1>1. IndInv => OneSessionPerLogin
  BY DEF IndInv
<1> QED BY InitOK, NextOK, <1>1, PTL DEF Spec

\* Whoever is admitted with a role held it during a login that ended at most
\* SessionTTL before, whatever happened to the registry since: authorizeLogin and
\* requireSession.
THEOREM AdmissionsAreEarned == Spec => AdmittedHeldRole
<1>1. IndInv /\ [Next]_vars =>
        [\A b \in Browsers : serving'[b] \notin {serving[b], NoSession} =>
           LET s == serving'[b]
               created == origin[s.id][3]
           IN /\ now <= created + SessionTTL
              /\ \E t \in s.since..created : <<s.user, s.role, t>> \in held]_vars
  BY Admitted DEF IndInv, SessionsOK
<1> QED BY InitOK, NextOK, <1>1, PTL DEF Spec, AdmittedHeldRole

\* A session that was logged out admits nobody any more: handleLogout deletes it
\* and its id is not given out again.
THEOREM LogoutIsFinal == Spec => LoggedOutIsOut
<1>1. IndInv /\ [Next]_vars =>
        [\A b \in Browsers : serving'[b] \notin {serving[b], NoSession} =>
           serving'[b].id \notin out]_vars
  BY Admitted DEF IndInv, SessionsOK
<1> QED BY InitOK, NextOK, <1>1, PTL DEF Spec, LoggedOutIsOut
===============================================================================
