------------------------------ MODULE WebSession ------------------------------
(***************************************************************************)
(* Login and sessions of the web backend (src/cmd/web-bff/main.go): OAuth  *)
(* states and sessions are kept in maps of the process, the role is read   *)
(* from the registry once, at login, and every request to the API is       *)
(* admitted by the session its cookie names.                               *)
(*                                                                         *)
(* A browser may have several requests under way: one that calls back      *)
(* after a login, one to the API, and logins and logouts at any time.  A   *)
(* request carries the cookies of when it was sent.  Time is a clock that  *)
(* ticks between any two steps.                                            *)
(***************************************************************************)
EXTENDS Naturals

CONSTANTS
  Browsers, Users,
  States,     \* OAuth states that randomToken may return, each once
  Sessions,   \* session ids that randomToken may return, each once
  StateTTL, SessionTTL,
  MaxTime,    \* bound: the last tick
  MaxChanges  \* bound: how often staff and maintainers change, and restarts

\* No cookie, no role.
None == "none"

ASSUME ConstantsAssumption ==
  /\ StateTTL \in Nat /\ SessionTTL \in Nat
  /\ MaxTime \in Nat /\ MaxChanges \in Nat
  /\ None \notin States \cup Sessions

VARIABLES
  now,
  staff, maintainers, \* registry: GitHub logins of each
  states,    \* stateStore: when each state expires
  sessions,  \* sessionStore
  cookies,   \* each browser's state and session cookie
  login,     \* the callback of each browser that is served
  wire,      \* the session cookie of each browser's request that is under way
  serving,   \* the session of each browser's request that is served
  changes,   \* how many are still to come
  starter,   \* history: browser to which each state was given
  origin,    \* history: state with which each session was obtained, and where
  out,       \* history: sessions that were logged out
  held       \* history: <<user, role, time>>

registry == <<staff, maintainers>>
store == <<states, sessions>>
history == <<starter, origin, out, held>>
vars == <<now, registry, store, cookies, login, wire, serving, changes, history>>
-----------------------------------------------------------------------------
Roles == {"staff", "maintainer"}
Session == [id : Sessions, user : Users, role : Roles, expires : Nat,
            since : Nat] \* history: when its login was first served
NoSession == [id |-> None]
Login == [pc : {"exchange", "staff", "maintainers", "session"}, user : Users,
          token : States, role : Roles \cup {None}, since : Nat]
NoLogin == [pc |-> "idle"]

TypeOK ==
  /\ now \in 0..MaxTime
  /\ staff \subseteq Users /\ maintainers \subseteq Users
  /\ \A t \in DOMAIN states : t \in States /\ states[t] \in Nat
  /\ sessions \subseteq Session
  /\ cookies \in [Browsers -> [state : States \cup {None}, until : Nat,
                               session : Sessions \cup {None}]]
  /\ login \in [Browsers -> Login \cup {NoLogin}]
  /\ wire \in [Browsers -> Sessions \cup {None}]
  /\ serving \in [Browsers -> (Session \cup {NoSession})]
  /\ changes \in 0..MaxChanges
  /\ \A s \in sessions, t \in sessions : s.id = t.id => s = t

Holding == (staff \X {"staff"}) \cup (maintainers \X {"maintainer"})

Init ==
  /\ now = 0
  /\ staff \in SUBSET Users /\ maintainers \in SUBSET Users
  /\ states = [t \in {} |-> 0] /\ sessions = {}
  /\ cookies = [b \in Browsers |-> [state |-> None, until |-> 0, session |-> None]]
  /\ login = [b \in Browsers |-> NoLogin]
  /\ wire = [b \in Browsers |-> None]
  /\ serving = [b \in Browsers |-> NoSession]
  /\ changes = MaxChanges
  /\ starter = [t \in {} |-> None] /\ origin = [s \in {} |-> <<>>]
  /\ out = {}
  /\ held = {<<h[1], h[2], 0>> : h \in Holding}
-----------------------------------------------------------------------------
Put(f, k, v) == [x \in DOMAIN f \cup {k} |-> IF x = k THEN v ELSE f[x]]

\* GET /auth/login: a new state, stored and set as a cookie for as long.
HandleLogin(b) ==
  /\ \E t \in States \ DOMAIN starter :
       /\ states' = Put(states, t, now + StateTTL)
       /\ cookies' = [cookies EXCEPT ![b].state = t, ![b].until = now + StateTTL]
       /\ starter' = Put(starter, t, b)
  /\ UNCHANGED <<now, registry, sessions, login, wire, serving, changes, origin, out, held>>

\* Variant: a state is good for several callbacks.
KeepState(t) == states

\* Consume deletes the state, expired or not.
Consumed(t) == [x \in DOMAIN states \ {t} |-> states[x]]

\* Variant: the state need not be the browser's own.
CookieIgnored(b, t) == TRUE

\* The cookie, while the browser keeps it, must name the state.
CookieMatches(b, t) == cookies[b].state = t /\ now <= cookies[b].until

\* GET /auth/callback: any browser may open the address, any number of times.
HandleCallback(b) ==
  /\ login[b] = NoLogin
  /\ \E t \in DOMAIN states, u \in Users :
       /\ CookieMatches(b, t)
       /\ states' = Consumed(t)
       /\ IF now <= states[t]
          THEN login' = [login EXCEPT ![b] = [pc |-> "exchange", user |-> u, token |-> t,
                                              role |-> None, since |-> now]]
          ELSE UNCHANGED login
  /\ UNCHANGED <<now, registry, sessions, cookies, wire, serving, changes, history>>

\* GitHub takes the code and names the user, or does not.
Exchange(b) ==
  /\ login[b].pc = "exchange"
  /\ \/ login' = [login EXCEPT ![b].pc = "staff"]
     \/ login' = [login EXCEPT ![b] = NoLogin]
  /\ UNCHANGED <<now, registry, store, cookies, wire, serving, changes, history>>

\* authorizeLogin reads the staff, ...
AuthorizeStaff(b) ==
  /\ login[b].pc = "staff"
  /\ login' = IF login[b].user \in staff
              THEN [login EXCEPT ![b].pc = "session", ![b].role = "staff"]
              ELSE [login EXCEPT ![b].pc = "maintainers"]
  /\ UNCHANGED <<now, registry, store, cookies, wire, serving, changes, history>>

\* Variant: who is neither is let in without a role.
AuthorizeAnyone(b) ==
  /\ login[b].pc = "maintainers"
  /\ login' = [login EXCEPT ![b].pc = "session"]
  /\ UNCHANGED <<now, registry, store, cookies, wire, serving, changes, history>>

\* ... and for others the maintainers; who is neither is refused.
AuthorizeMaintainer(b) ==
  /\ login[b].pc = "maintainers"
  /\ login' = IF login[b].user \in maintainers
              THEN [login EXCEPT ![b].pc = "session", ![b].role = "maintainer"]
              ELSE [login EXCEPT ![b] = NoLogin]
  /\ UNCHANGED <<now, registry, store, cookies, wire, serving, changes, history>>

\* Variant: a session lives for ever.
NeverExpires(t) == t + MaxTime

Expiry(t) == t + SessionTTL

CreateSession(b) ==
  /\ login[b].pc = "session"
  /\ \E s \in Sessions \ DOMAIN origin :
       /\ sessions' = sessions \cup
            {[id |-> s, user |-> login[b].user, role |-> login[b].role,
              expires |-> Expiry(now), since |-> login[b].since]}
       /\ cookies' = [cookies EXCEPT ![b].session = s]
       /\ origin' = Put(origin, s, <<login[b].token, b, now>>)
  /\ login' = [login EXCEPT ![b] = NoLogin]
  /\ UNCHANGED <<now, registry, states, wire, serving, changes, starter, out, held>>

\* Variant: the cookie is cleared and the session kept.
KeepSession(s) == sessions

Deleted(s) == {x \in sessions : x.id # s}

\* POST /auth/logout
HandleLogout(b) ==
  LET s == cookies[b].session
  IN /\ s # None
     /\ sessions' = Deleted(s)
     /\ cookies' = [cookies EXCEPT ![b].session = None]
     /\ out' = out \cup {s}
     /\ UNCHANGED <<now, registry, states, login, wire, serving, changes, starter,
                    origin, held>>
-----------------------------------------------------------------------------
\* A request to the API leaves the browser, with its cookie.
Send(b) ==
  /\ wire[b] = None /\ serving[b] = NoSession /\ cookies[b].session # None
  /\ wire' = [wire EXCEPT ![b] = cookies[b].session]
  /\ UNCHANGED <<now, registry, store, cookies, login, serving, changes, history>>

\* requireSession: the session as it is now, for the whole request.
RequireSession(b) ==
  LET found == {s \in sessions : s.id = wire[b] /\ now <= s.expires}
  IN /\ wire[b] # None
     /\ wire' = [wire EXCEPT ![b] = None]
     /\ IF found = {} THEN UNCHANGED serving
        ELSE \E s \in found : serving' = [serving EXCEPT ![b] = s]
     /\ UNCHANGED <<now, registry, store, cookies, login, changes, history>>

\* The handler, handleMe for one, ends.
Answer(b) ==
  /\ serving[b] # NoSession
  /\ serving' = [serving EXCEPT ![b] = NoSession]
  /\ UNCHANGED <<now, registry, store, cookies, login, wire, changes, history>>
-----------------------------------------------------------------------------
\* Someone becomes, or is no longer, staff or a maintainer.
ChangeRegistry ==
  /\ changes > 0 /\ changes' = changes - 1
  /\ \E u \in Users :
       \/ /\ staff' = IF u \in staff THEN staff \ {u} ELSE staff \cup {u}
          /\ UNCHANGED maintainers
       \/ /\ maintainers' = IF u \in maintainers THEN maintainers \ {u}
                            ELSE maintainers \cup {u}
          /\ UNCHANGED staff
  /\ held' = held \cup {<<h[1], h[2], now>> : h \in Holding'}
  /\ UNCHANGED <<now, store, cookies, login, wire, serving, starter, origin, out>>

\* The process restarts with empty maps.
Restart ==
  /\ changes > 0 /\ changes' = changes - 1
  /\ states' = [t \in {} |-> 0] /\ sessions' = {}
  /\ login' = [b \in Browsers |-> NoLogin]
  /\ wire' = [b \in Browsers |-> None]
  /\ serving' = [b \in Browsers |-> NoSession]
  /\ UNCHANGED <<now, registry, cookies, history>>

Tick ==
  /\ now < MaxTime
  /\ now' = now + 1
  /\ held' = held \cup {<<h[1], h[2], now + 1>> : h \in Holding}
  /\ UNCHANGED <<registry, store, cookies, login, wire, serving, changes, starter,
                 origin, out>>

Next ==
  \/ \E b \in Browsers :
       \/ HandleLogin(b) \/ HandleCallback(b) \/ Exchange(b)
       \/ AuthorizeStaff(b) \/ AuthorizeMaintainer(b) \/ CreateSession(b)
       \/ HandleLogout(b) \/ Send(b) \/ RequireSession(b) \/ Answer(b)
  \/ ChangeRegistry \/ Restart \/ Tick

Spec == Init /\ [][Next]_vars
-----------------------------------------------------------------------------
\* A login gives one session, to the browser that began it: a state is consumed
\* even if two callbacks carry it, and the state cookie ties it to its browser.
OneSessionPerLogin ==
  \A s \in DOMAIN origin :
    /\ origin[s][2] = starter[origin[s][1]]
    /\ \A t \in DOMAIN origin : s # t => origin[s][1] # origin[t][1]

\* The role is copied into the session at login and not read again: whoever
\* is admitted with a role held it while that login was served, which ended at
\* most SessionTTL ago.
AdmittedHeldRole ==
  [][\A b \in Browsers : serving'[b] \notin {serving[b], NoSession} =>
       LET s == serving'[b]
           created == origin[s.id][3]
       IN /\ now <= created + SessionTTL
          /\ \E t \in s.since..created : <<s.user, s.role, t>> \in held]_vars

\* After a logout no request is admitted with the session, not even one sent
\* before; a request that is already served goes on.
LoggedOutIsOut ==
  [][\A b \in Browsers : serving'[b] \notin {serving[b], NoSession} =>
       serving'[b].id \notin out]_vars
===============================================================================
