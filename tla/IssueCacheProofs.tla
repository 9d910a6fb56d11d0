--------------------------- MODULE IssueCacheProofs ---------------------------
(***************************************************************************)
(* What the cache of onboarding issues answers, for any number of issues   *)
(* and requests, any TTL and any length of time.                           *)
(*                                                                         *)
(* The invariant IndInv follows a list from GitHub into an answer: FetchOK *)
(* says what a request that has fetched but not stored yet may hold        *)
(* relative to the time it came in, CacheOK says the same of the cache     *)
(* relative to its expiry.  An answer is then fresh because it was either  *)
(* fetched by the request itself or taken from a cache that had not        *)
(* expired when the request came in.                                       *)
(***************************************************************************)
EXTENDS IssueCache, TLAPS

Filling == {"filter", "store"}
Creating == {"title", "available", "insert", "audit", "invalidate"}
Inserted == {"audit", "invalidate"}

\* A request to create a project knows its issue, the name and then the row.
CreateOK(q) ==
  /\ req[q].pc \in Creating => req[q].issue \in Issues
  /\ req[q].pc \in {"available", "insert"} => NameOf[req[q].issue] # None
  /\ req[q].pc = "audit" => req[q].row \in DOMAIN projects

\* What a request holds between the fetch and the store.
FetchOK(q) ==
  /\ req[q].pc \in {"cache", "fetch"} => req[q].answer = {} /\ req[q].todo = {}
  /\ req[q].pc = "store" => req[q].todo = {}
  /\ req[q].pc \in Filling =>
       /\ req[q].answer \subseteq req[q].raw /\ req[q].todo \subseteq req[q].raw
       /\ \A i \in req[q].raw : i \in open \/ req[q].start <= closedAt[i]
       /\ \A i \in open : openedAt[i] < req[q].start => i \in req[q].raw
       /\ \A i \in req[q].answer : req[q].start <= bornAt[i]
       /\ \A i \in req[q].raw : i \in req[q].todo \/ i \in req[q].answer \/ HasProject(i)

\* A list that no new project has overtaken is right as it stands.
NotOvertakenOK(q) ==
  q \notin overtaken /\ req[q].pc \in Filling => \A i \in req[q].answer : ~HasProject(i)

\* The properties, for one request.
AnswerOK(q) ==
  req[q].pc = "answered" =>
    /\ \A i \in req[q].answer :
         /\ i \in open \/ req[q].start < closedAt[i] + TTL
         /\ req[q].kind = "list" => req[q].start < bornAt[i] + TTL
    /\ \A i \in open : ~(req[q].start < openedAt[i] + TTL) =>
         i \in req[q].answer \/ (req[q].kind = "list" /\ HasProject(i))

RequestOK(q) ==
  /\ req[q].start <= now
  /\ CreateOK(q) /\ FetchOK(q) /\ NotOvertakenOK(q) /\ AnswerOK(q)

BornOK == \A i \in Issues : ~HasProject(i) => bornAt[i] = Never

\* What the cache holds; an empty one expired at 0.
CacheOK ==
  /\ cache.expires <= now + TTL
  /\ cache.issues \subseteq cache.raw
  /\ \A i \in cache.raw : i \in open \/ cache.expires <= closedAt[i] + TTL
  /\ \A i \in open : openedAt[i] + TTL < cache.expires => i \in cache.raw
  /\ \A i \in cache.issues : cache.expires <= bornAt[i] + TTL
  /\ \A i \in cache.raw : i \in cache.issues \/ HasProject(i)

IndInv ==
  /\ TypeOK
  /\ \A q \in Requests : RequestOK(q)
  /\ BornOK /\ CacheOK /\ OnlyOvertakenFillsAreStale

USE DEF Filling, Creating, Inserted, At, history
-----------------------------------------------------------------------------
\* The invariant holds before the first request.
LEMMA InitInv == Init => IndInv
<1> SUFFICES ASSUME Init PROVE IndInv
  OBVIOUS
<1>1. TypeOK
  <2>1. cache \in Cache /\ req \in [Requests -> Request]
    BY ConstantsAssumption DEF Init, Time, Cache, EmptyCache, Request, Idle, Kind
  <2>2. projects \in Seq([name : Names, issue : Issues]) /\ audited \subseteq DOMAIN projects
    BY DEF Init
  <2>3. /\ now \in Time /\ opens \in 0..MaxOpens
        /\ openedAt \in [Issues -> Time] /\ closedAt \in [Issues -> Time]
        /\ bornAt \in [Issues -> Time \cup {Never}]
    BY ConstantsAssumption DEF Init, Time
  <2> QED BY <2>1, <2>2, <2>3 DEF Init, TypeOK
<1>2. ASSUME NEW q \in Requests PROVE RequestOK(q)
  BY DEF Init, RequestOK, CreateOK, FetchOK, NotOvertakenOK, AnswerOK, Idle
<1>3. BornOK /\ CacheOK /\ OnlyOvertakenFillsAreStale
  BY ConstantsAssumption
     DEF Init, BornOK, CacheOK, OnlyOvertakenFillsAreStale, EmptyCache, HasProject, Never
<1> QED BY <1>1, <1>2, <1>3 DEF IndInv

\* A request that takes no part in a step stays as it was.
LEMMA Frame ==
  ASSUME NEW p \in Requests, RequestOK(p), req'[p] = req[p],
         UNCHANGED <<now, open, projects, openedAt, closedAt, bornAt>>,
         p \in overtaken => p \in overtaken'
  PROVE  RequestOK(p)'
BY DEF RequestOK, CreateOK, FetchOK, NotOvertakenOK, AnswerOK, HasProject

\* A step that only moves one request on preserves the invariant if it does so
\* for that request; one that has inserted a row still has to invalidate.
LEMMA LocalStep ==
  ASSUME IndInv, NEW q \in Requests, NEW new \in Request,
         req' = [req EXCEPT ![q] = new],
         UNCHANGED <<now, open, projects, cache, opens, openedAt, closedAt, bornAt, tainted>>,
         audited' \subseteq DOMAIN projects,
         overtaken' \in {overtaken, overtaken \ {q}},
         req[q].pc \in Inserted => new.pc \in Inserted,
         RequestOK(q)'
  PROVE  IndInv'
<1>1. TypeOK'
  BY DEF IndInv, TypeOK
<1>2. req \in [Requests -> Request]
  BY DEF IndInv, TypeOK
<1>3. ASSUME NEW p \in Requests PROVE RequestOK(p)'
  <2>1. CASE p = q
    BY <2>1
  <2>2. CASE p # q
    <3>1. req'[p] = req[p] /\ RequestOK(p) /\ (p \in overtaken => p \in overtaken')
      BY <1>2, <2>2 DEF IndInv
    <3> QED BY <3>1, Frame
  <2> QED BY <2>1, <2>2
<1>4. BornOK' /\ CacheOK'
  BY DEF IndInv, BornOK, CacheOK, HasProject
<1>5. OnlyOvertakenFillsAreStale'
  <2>1. ASSUME \A p \in Requests : ~(req'[p].pc \in Inserted)
        PROVE  \A p \in Requests : ~(req[p].pc \in Inserted)
    BY <1>2, <2>1
  <2> QED BY <2>1 DEF IndInv, OnlyOvertakenFillsAreStale, HasProject
<1> QED BY <1>1, <1>3, <1>4, <1>5 DEF IndInv
-----------------------------------------------------------------------------
\* Every request has the fields of a Request; used to look into a record.
LEMMA RequestType == ASSUME IndInv, NEW q \in Requests
                     PROVE  req[q] \in Request /\ RequestOK(q) /\ TypeOK /\ CacheOK /\ BornOK
BY DEF IndInv, TypeOK

LEMMA IdleType == Idle \in Request
BY ConstantsAssumption DEF Idle, Request, Kind, Time

\* A request that ends without an answer.
LEMMA EndsOK ==
  ASSUME IndInv, NEW q \in Requests, Ends(q), UNCHANGED <<now, open, projects>>
  PROVE  RequestOK(q)'
<1>1. req'[q] = Idle /\ now \in Nat
  BY RequestType DEF Ends, TypeOK, Time
<1> QED BY <1>1 DEF RequestOK, CreateOK, FetchOK, NotOvertakenOK, AnswerOK, Idle

LEMMA ArriveStep ==
  ASSUME IndInv, NEW q \in Requests, NEW kind \in {"list", "recent"}, Arrive(q, kind)
  PROVE  IndInv'
<1> DEFINE new == [Idle EXCEPT !.pc = "cache", !.kind = kind, !.start = now]
<1>1. now \in Time /\ now \in Nat
  BY RequestType, ConstantsAssumption DEF TypeOK, Time
<1>2. new \in Request
  BY <1>1, IdleType DEF Idle, Request, Kind
<1>3. req'[q] = new
  BY RequestType DEF Arrive, TypeOK
<1>4. RequestOK(q)'
  <2>1. /\ req'[q].pc = "cache" /\ req'[q].start = now
        /\ req'[q].answer = {} /\ req'[q].todo = {}
    BY <1>3 DEF Idle
  <2>2. now' = now
    BY DEF Arrive
  <2> QED BY <1>1, <2>1, <2>2 DEF RequestOK, CreateOK, FetchOK, NotOvertakenOK, AnswerOK
<1>5. ~(req[q].pc \in Inserted) /\ audited' \subseteq DOMAIN projects
  BY RequestType DEF Arrive, Over, TypeOK
<1> QED BY <1>2, <1>4, <1>5, LocalStep DEF Arrive

LEMMA ArriveCreateStep ==
  ASSUME IndInv, NEW q \in Requests, NEW i \in Issues, ArriveCreate(q, i)
  PROVE  IndInv'
<1> DEFINE new == [Idle EXCEPT !.pc = "title", !.kind = "create", !.issue = i]
<1>1. now \in Nat
  BY RequestType, ConstantsAssumption DEF TypeOK, Time
<1>2. new \in Request
  BY IdleType DEF Idle, Request, Kind
<1>3. req'[q] = new
  BY RequestType DEF ArriveCreate, TypeOK
<1>4. RequestOK(q)'
  <2>1. req'[q].pc = "title" /\ req'[q].start = 0 /\ req'[q].issue = i
    BY <1>3 DEF Idle
  <2>2. now' = now
    BY DEF ArriveCreate
  <2> QED BY <1>1, <2>1, <2>2 DEF RequestOK, CreateOK, FetchOK, NotOvertakenOK, AnswerOK
<1>5. ~(req[q].pc \in Inserted) /\ audited' \subseteq DOMAIN projects
  BY RequestType DEF ArriveCreate, Over, TypeOK
<1> QED BY <1>2, <1>4, <1>5, LocalStep DEF ArriveCreate

\* A list from the cache is as fresh as its expiry says.
LEMMA LookUpStep ==
  ASSUME IndInv, NEW q \in Requests, LookUp(q)
  PROVE  IndInv'
<1> DEFINE served == Cached(req[q].kind)
<1>1. /\ req[q] \in Request /\ RequestOK(q) /\ CacheOK /\ req \in [Requests -> Request]
      /\ cache \in Cache /\ audited \subseteq DOMAIN projects /\ req[q].pc = "cache"
      /\ openedAt \in [Issues -> Time] /\ closedAt \in [Issues -> Time]
      /\ bornAt \in [Issues -> Time \cup {Never}] /\ open \subseteq Issues
  BY RequestType DEF TypeOK, LookUp
<1>2. CASE Usable(q)
  <2> DEFINE new == [Idle EXCEPT !.pc = "answered", !.kind = req[q].kind,
                                 !.start = req[q].start, !.answer = served]
  <2>1. served \subseteq Issues /\ served \subseteq cache.raw
    BY <1>1 DEF Cached, Cache, CacheOK
  <2>2. new \in Request
    BY <1>1, <2>1, IdleType DEF Idle, Request
  <2>3. req' = [req EXCEPT ![q] = new]
    BY <1>2 DEF LookUp, Answers
  <2>4. req'[q] = new
    BY <1>1, <2>3
  <2>5. /\ req'[q].pc = "answered" /\ req'[q].start = req[q].start
        /\ req'[q].kind = req[q].kind /\ req'[q].answer = served
    BY <2>4 DEF Idle
  <2>6. req[q].start < cache.expires /\ req[q].start \in Nat /\ cache.expires \in Nat
        /\ TTL \in Nat /\ (\A i \in Issues : openedAt[i] \in Nat /\ closedAt[i] \in Nat /\ bornAt[i] \in Nat)
    BY <1>1, <1>2, ConstantsAssumption DEF Usable, Request, Time, Cache, Never
  <2>7. ASSUME NEW i \in served PROVE i \in open \/ req[q].start < closedAt[i] + TTL
    <3>1. i \in Issues /\ (i \in open \/ cache.expires <= closedAt[i] + TTL)
      BY <1>1, <2>1 DEF CacheOK
    <3> QED BY <3>1, <2>6
  <2>8. ASSUME req[q].kind = "list", NEW i \in served PROVE req[q].start < bornAt[i] + TTL
    <3>1. i \in Issues /\ cache.expires <= bornAt[i] + TTL
      BY <1>1, <2>1, <2>8 DEF CacheOK, Cached
    <3> QED BY <3>1, <2>6
  <2>9. \A i \in open : ~(req[q].start < openedAt[i] + TTL) =>
           i \in served \/ (req[q].kind = "list" /\ HasProject(i))
    BY <1>1, <2>6 DEF CacheOK, Cached
  <2>10. AnswerOK(q)'
    <3>1. UNCHANGED <<open, projects, openedAt, closedAt, bornAt>>
      BY DEF LookUp
    <3> HIDE DEF served
    <3> QED BY <2>5, <2>7, <2>8, <2>9, <3>1 DEF AnswerOK, HasProject
  <2>11. RequestOK(q)'
    BY <1>1, <2>5, <2>10 DEF RequestOK, CreateOK, FetchOK, NotOvertakenOK, LookUp
  <2> QED BY <1>1, <2>2, <2>3, <2>11, LocalStep DEF LookUp
<1>3. CASE ~Usable(q)
  <2> DEFINE new == [req[q] EXCEPT !.pc = "fetch"]
  <2>1. new \in Request
    BY <1>1 DEF Request
  <2>2. req' = [req EXCEPT ![q] = new]
    BY <1>3 DEF LookUp
  <2>3. req'[q] = new
    BY <1>1, <2>2
  <2>4. RequestOK(q)'
    BY <1>1, <2>3 DEF LookUp, Request, RequestOK, CreateOK, FetchOK, NotOvertakenOK, AnswerOK
  <2> QED BY <1>1, <2>1, <2>2, <2>4, LocalStep DEF LookUp
<1> QED BY <1>2, <1>3

\* A call that fails ends the request and changes nothing else.
LEMMA EndsStep ==
  ASSUME IndInv, NEW q \in Requests, Ends(q), ~(req[q].pc \in Inserted),
         UNCHANGED <<now, open, projects, audited, cache, opens, history>>
  PROVE  IndInv'
<1>1. audited \subseteq DOMAIN projects
  BY RequestType DEF TypeOK
<1> QED BY <1>1, IdleType, EndsOK, LocalStep DEF Ends

\* The fetched list is right at this instant, hence since the request came in.
LEMMA FetchIssuesStep ==
  ASSUME IndInv, NEW q \in Requests, FetchIssues(q)
  PROVE  IndInv'
<1>1. /\ req[q] \in Request /\ RequestOK(q) /\ req \in [Requests -> Request]
      /\ audited \subseteq DOMAIN projects /\ req[q].pc = "fetch" /\ open \subseteq Issues
  BY RequestType DEF TypeOK, FetchIssues
<1> DEFINE new == [req[q] EXCEPT !.pc = IF open = {} THEN "store" ELSE "filter",
                                 !.raw = open, !.todo = open]
<1>2. CASE req' = [req EXCEPT ![q] = new]
  <2>1. new \in Request
    BY <1>1 DEF Request
  <2>2. req'[q] = new
    BY <1>1, <1>2
  <2>3. /\ req'[q].pc = (IF open = {} THEN "store" ELSE "filter")
        /\ req'[q].raw = open /\ req'[q].todo = open
        /\ req'[q].start = req[q].start /\ req'[q].answer = {}
    BY <1>1, <2>2 DEF Request, RequestOK, FetchOK
  <2>4. UNCHANGED <<now, open, projects>>
    BY DEF FetchIssues
  <2>5. RequestOK(q)'
    <3> HIDE DEF new
    <3> QED BY <1>1, <2>3, <2>4 DEF RequestOK, CreateOK, FetchOK, NotOvertakenOK, AnswerOK
  <2> QED BY <1>1, <1>2, <2>1, <2>5, LocalStep DEF FetchIssues
<1>3. CASE Ends(q)
  BY <1>1, <1>3, EndsStep DEF FetchIssues
<1> QED BY <1>2, <1>3 DEF FetchIssues

LEMMA FilterStep ==
  ASSUME IndInv, NEW q \in Requests, NEW i \in Issues, Filter(q, i)
  PROVE  IndInv'
<1>1. /\ req[q] \in Request /\ RequestOK(q) /\ req \in [Requests -> Request] /\ BornOK
      /\ audited \subseteq DOMAIN projects /\ req[q].pc = "filter" /\ i \in req[q].todo
  BY RequestType DEF TypeOK, Filter
<1> DEFINE new == [req[q] EXCEPT !.pc = IF req[q].todo = {i} THEN "store" ELSE "filter",
                                 !.todo = @ \ {i},
                                 !.answer = IF HasProject(i) THEN @ ELSE @ \cup {i}]
<1>2. CASE req' = [req EXCEPT ![q] = new]
  <2>1. new \in Request
    BY <1>1 DEF Request
  <2>2. req'[q] = new
    BY <1>1, <1>2
  <2>3. /\ req'[q].pc = (IF req[q].todo = {i} THEN "store" ELSE "filter")
        /\ req'[q].raw = req[q].raw /\ req'[q].todo = req[q].todo \ {i}
        /\ req'[q].start = req[q].start
        /\ req'[q].answer = IF HasProject(i) THEN req[q].answer ELSE req[q].answer \cup {i}
    BY <1>1, <2>2 DEF Request
  <2>4. /\ UNCHANGED <<now, open, openedAt, closedAt, bornAt, overtaken>>
        /\ \A j : HasProject(j)' <=> HasProject(j)
    BY DEF Filter, HasProject
  <2>5. ~HasProject(i) => req[q].start <= bornAt[i]
    BY <1>1, ConstantsAssumption DEF BornOK, Never, Request, Time
  <2>6. RequestOK(q)'
    <3> HIDE DEF new
    <3>1. FetchOK(q)'
      BY <1>1, <2>3, <2>4, <2>5 DEF RequestOK, FetchOK
    <3>2. NotOvertakenOK(q)'
      BY <1>1, <2>3, <2>4 DEF RequestOK, NotOvertakenOK
    <3> QED BY <1>1, <2>3, <2>4, <3>1, <3>2 DEF RequestOK, CreateOK, AnswerOK
  <2> QED BY <1>1, <1>2, <2>1, <2>6, LocalStep DEF Filter
<1>3. CASE Ends(q)
  BY <1>1, <1>3, EndsStep DEF Filter
<1> QED BY <1>2, <1>3 DEF Filter

\* The steps of handleProjectCreate that change nothing but the request.
LEMMA FetchTitleStep ==
  ASSUME IndInv, NEW q \in Requests, FetchTitle(q)
  PROVE  IndInv'
<1>1. /\ req[q] \in Request /\ RequestOK(q) /\ req \in [Requests -> Request]
      /\ audited \subseteq DOMAIN projects /\ req[q].pc = "title"
  BY RequestType DEF TypeOK, FetchTitle
<1> DEFINE new == [req[q] EXCEPT !.pc = "available"]
<1>2. CASE NameOf[req[q].issue] # None /\ req' = [req EXCEPT ![q] = new]
  <2>1. new \in Request
    BY <1>1 DEF Request
  <2>2. req'[q] = new
    BY <1>1, <1>2
  <2>3. RequestOK(q)'
    BY <1>1, <1>2, <2>2
       DEF FetchTitle, Request, RequestOK, CreateOK, FetchOK, NotOvertakenOK, AnswerOK
  <2> QED BY <1>1, <1>2, <2>1, <2>3, LocalStep DEF FetchTitle
<1>3. CASE Ends(q)
  BY <1>1, <1>3, EndsStep DEF FetchTitle
<1> QED BY <1>2, <1>3 DEF FetchTitle

LEMMA EnsureAvailableStep ==
  ASSUME IndInv, NEW q \in Requests, EnsureAvailable(q)
  PROVE  IndInv'
<1>1. /\ req[q] \in Request /\ RequestOK(q) /\ req \in [Requests -> Request]
      /\ audited \subseteq DOMAIN projects /\ req[q].pc = "available"
  BY RequestType DEF TypeOK, EnsureAvailable
<1> DEFINE new == [req[q] EXCEPT !.pc = "insert"]
<1>2. CASE req' = [req EXCEPT ![q] = new]
  <2>1. new \in Request
    BY <1>1 DEF Request
  <2>2. req'[q] = new
    BY <1>1, <1>2
  <2>3. RequestOK(q)'
    BY <1>1, <2>2
       DEF EnsureAvailable, Request, RequestOK, CreateOK, FetchOK, NotOvertakenOK, AnswerOK
  <2> QED BY <1>1, <1>2, <2>1, <2>3, LocalStep DEF EnsureAvailable
<1>3. CASE Ends(q)
  BY <1>1, <1>3, EndsStep DEF EnsureAvailable
<1> QED BY <1>2, <1>3 DEF EnsureAvailable

LEMMA LogCreateStep ==
  ASSUME IndInv, NEW q \in Requests, LogCreate(q)
  PROVE  IndInv'
<1>1. /\ req[q] \in Request /\ RequestOK(q) /\ req \in [Requests -> Request]
      /\ audited \subseteq DOMAIN projects /\ req[q].pc = "audit"
  BY RequestType DEF TypeOK, LogCreate
<1> DEFINE new == [req[q] EXCEPT !.pc = "invalidate"]
<1>2. new \in Request /\ new.pc = "invalidate"
  BY <1>1 DEF Request
<1>3. req'[q] = new
  BY <1>1 DEF LogCreate
<1>4. RequestOK(q)'
  BY <1>1, <1>3
     DEF LogCreate, Request, RequestOK, CreateOK, FetchOK, NotOvertakenOK, AnswerOK
<1>5. audited' \subseteq DOMAIN projects
  BY <1>1 DEF LogCreate, RequestOK, CreateOK
<1> QED BY <1>2, <1>4, <1>5, LocalStep DEF LogCreate
-----------------------------------------------------------------------------
\* The fetched list moves into the cache with the time its request came in.
LEMMA StoreCacheStep ==
  ASSUME IndInv, NEW q \in Requests, StoreCache(q)
  PROVE  IndInv'
<1>1. /\ req[q] \in Request /\ RequestOK(q) /\ req \in [Requests -> Request]
      /\ req[q].pc = "store" /\ TypeOK
  BY RequestType DEF TypeOK, StoreCache
<1> DEFINE answer == IF req[q].kind = "list" THEN req[q].answer ELSE req[q].raw
           new == [Idle EXCEPT !.pc = "answered", !.kind = req[q].kind,
                               !.start = req[q].start, !.answer = answer]
<1>2. /\ cache' = [expires |-> req[q].start + TTL, raw |-> req[q].raw, issues |-> req[q].answer]
      /\ req' = [req EXCEPT ![q] = new] /\ tainted' = (q \in overtaken)
      /\ UNCHANGED <<now, open, projects, audited, opens, openedAt, closedAt, bornAt, overtaken>>
  BY DEF StoreCache, Answers, Expiry
<1>3. new \in Request
  BY <1>1, IdleType DEF Idle, Request
<1>4. /\ req'[q].pc = "answered" /\ req'[q].start = req[q].start
      /\ req'[q].kind = req[q].kind /\ req'[q].answer = answer
  BY <1>1, <1>2 DEF Idle
<1>5. /\ req[q].start \in Time /\ req[q].start \in Nat /\ req[q].start <= now /\ now \in Nat
      /\ TTL \in Nat \ {0} /\ MaxTime \in Nat
      /\ (\A i \in Issues : openedAt[i] \in Nat /\ closedAt[i] \in Nat /\ bornAt[i] \in Nat)
  BY <1>1, ConstantsAssumption DEF TypeOK, RequestOK, Request, Time, Never
<1>6. /\ req[q].answer \subseteq req[q].raw /\ req[q].raw \subseteq Issues /\ open \subseteq Issues
      /\ \A i \in req[q].raw : i \in open \/ req[q].start <= closedAt[i]
      /\ \A i \in open : openedAt[i] < req[q].start => i \in req[q].raw
      /\ \A i \in req[q].answer : req[q].start <= bornAt[i]
      /\ \A i \in req[q].raw : i \in req[q].answer \/ HasProject(i)
  BY <1>1 DEF RequestOK, FetchOK, Request, TypeOK
<1>7. \A i : HasProject(i)' <=> HasProject(i)
  BY <1>2 DEF HasProject
<1>8. TypeOK'
  <2>1. cache' \in Cache
    BY <1>2, <1>5, <1>6 DEF Cache, Time
  <2>2. req' \in [Requests -> Request]
    <3> HIDE DEF new
    <3> QED BY <1>1, <1>2, <1>3
  <2> QED BY <1>1, <1>2, <2>1, <2>2 DEF TypeOK
<1>9. AnswerOK(q)'
  <2>1. ASSUME NEW i \in req[q].raw PROVE i \in open \/ req[q].start < closedAt[i] + TTL
    <3>1. i \in Issues /\ (i \in open \/ req[q].start <= closedAt[i])
      BY <1>6
    <3> QED BY <1>5, <3>1
  <2>2. ASSUME NEW i \in req[q].answer PROVE req[q].start < bornAt[i] + TTL
    <3>1. i \in Issues /\ req[q].start <= bornAt[i]
      BY <1>6
    <3> QED BY <1>5, <3>1
  <2>3. \A i \in open : ~(req[q].start < openedAt[i] + TTL) => i \in req[q].raw
    BY <1>5, <1>6
  <2> HIDE DEF new
  <2> QED BY <1>2, <1>4, <1>6, <1>7, <2>1, <2>2, <2>3 DEF AnswerOK
<1>10. RequestOK(q)'
  BY <1>1, <1>2, <1>4, <1>9 DEF RequestOK, CreateOK, FetchOK, NotOvertakenOK
<1>11. ASSUME NEW p \in Requests PROVE RequestOK(p)'
  <2>1. CASE p = q
    BY <1>10, <2>1
  <2>2. CASE p # q
    <3>1. req'[p] = req[p] /\ RequestOK(p) /\ (p \in overtaken => p \in overtaken')
      BY <1>1, <1>2, <2>2 DEF IndInv
    <3> QED BY <1>2, <3>1, Frame
  <2> QED BY <2>1, <2>2
<1>12. BornOK'
  BY <1>2, <1>7 DEF IndInv, BornOK
<1>13. CacheOK'
  BY <1>2, <1>5, <1>6, <1>7 DEF CacheOK
<1>14. OnlyOvertakenFillsAreStale'
  BY <1>1, <1>2, <1>7 DEF OnlyOvertakenFillsAreStale, RequestOK, NotOvertakenOK
<1> QED BY <1>8, <1>11, <1>12, <1>13, <1>14 DEF IndInv

\* A new row: no issue loses its project, and those that get one get it now.
LEMMA InsertProjectStep ==
  ASSUME IndInv, NEW q \in Requests, InsertProject(q)
  PROVE  IndInv'
<1>1. /\ req[q] \in Request /\ RequestOK(q) /\ req \in [Requests -> Request]
      /\ req[q].pc = "insert" /\ TypeOK /\ BornOK /\ CacheOK
  BY RequestType DEF TypeOK, InsertProject
<1> DEFINE row == [name |-> NameOf[req[q].issue], issue |-> req[q].issue]
           new == [req[q] EXCEPT !.pc = "audit", !.row = Len(projects) + 1]
           hit(i) == i = row.issue \/ NameOf[i] = row.name
<1>2. CASE /\ projects' = Append(projects, row)
           /\ req' = [req EXCEPT ![q] = new]
           /\ bornAt' = [i \in Issues |-> IF bornAt[i] = Never /\ hit(i) THEN now ELSE bornAt[i]]
           /\ overtaken' = overtaken \cup {p \in Requests : req[p].pc = "filter" \/ req[p].pc = "store"}
  <2>1. UNCHANGED <<now, open, audited, cache, opens, openedAt, closedAt, tainted>>
    BY DEF InsertProject
  <2>2. row \in [name : Names, issue : Issues]
    BY <1>1, ConstantsAssumption DEF RequestOK, CreateOK
  <2>3. /\ projects' \in Seq([name : Names, issue : Issues])
        /\ Len(projects) \in Nat /\ DOMAIN projects' = 1..(Len(projects) + 1)
        /\ DOMAIN projects = 1..Len(projects)
        /\ \A k \in 1..Len(projects) : projects'[k] = projects[k]
        /\ projects'[Len(projects) + 1] = row
    <3> HIDE DEF row
    <3> QED BY <1>1, <1>2, <2>2 DEF TypeOK
  <2>4. \A i : HasProject(i)' <=> HasProject(i) \/ hit(i)
    <3> HIDE DEF row
    <3> QED BY <2>3 DEF HasProject
  <2>5. /\ now \in Nat /\ now \in Time /\ TTL \in Nat \ {0} /\ MaxTime \in Nat
        /\ \A i \in Issues : bornAt[i] \in Nat /\ (bornAt[i] \in Time \/ bornAt[i] = Never)
        /\ \A i \in Issues : bornAt'[i] = (IF bornAt[i] = Never /\ hit(i) THEN now ELSE bornAt[i])
        /\ \A i \in Issues : bornAt'[i] = bornAt[i] \/ bornAt'[i] = now
    BY <1>1, <1>2, ConstantsAssumption DEF TypeOK, Time, Never
  <2>6. new \in Request
    <3>1. Len(projects) + 1 \in Nat
      BY <2>3
    <3> QED BY <1>1, <3>1 DEF Request
  <2>7. TypeOK'
    <3>1. bornAt' \in [Issues -> Time \cup {Never}]
      BY <1>1, <1>2, <2>5 DEF TypeOK
    <3>2. req' \in [Requests -> Request]
      BY <1>1, <1>2, <2>6
    <3>3. audited' \subseteq DOMAIN projects' /\ overtaken' \subseteq Requests
      BY <1>1, <1>2, <2>1, <2>3 DEF TypeOK
    <3> QED BY <1>1, <2>1, <2>3, <3>1, <3>2, <3>3 DEF TypeOK
  <2>8. BornOK'
    <3> HIDE DEF row
    <3> QED BY <1>1, <2>4, <2>5 DEF BornOK
  <2>9. CacheOK'
    <3>1. ASSUME NEW i \in cache.issues PROVE cache.expires <= bornAt'[i] + TTL
      BY <1>1, <2>5 DEF CacheOK, TypeOK, Cache
    <3> HIDE DEF row
    <3> QED BY <1>1, <2>1, <2>4, <3>1 DEF CacheOK
  <2>10. ASSUME NEW p \in Requests PROVE RequestOK(p)'
    <3>1. CASE p = q
      <4>1. req'[p].pc = "audit" /\ req'[p].issue = req[q].issue
            /\ req'[p].row = Len(projects) + 1 /\ req'[p].start = req[q].start
        BY <1>1, <1>2, <3>1 DEF Request
      <4>2. req'[p].row \in DOMAIN projects'
        BY <2>3, <4>1
      <4> QED BY <1>1, <2>1, <4>1, <4>2
              DEF RequestOK, CreateOK, FetchOK, NotOvertakenOK, AnswerOK
    <3>2. CASE p # q
      <4>1. /\ req'[p] = req[p] /\ RequestOK(p) /\ req[p] \in Request
            /\ req[p].start \in Nat /\ req[p].start <= now /\ req[p].answer \subseteq Issues
        BY <1>1, <1>2, <3>2, RequestType DEF RequestOK, Request, Time
      <4>2. \A i \in req[p].answer : req[p].start <= bornAt[i] => req[p].start <= bornAt'[i]
        BY <2>5, <4>1
      <4>3. \A i \in req[p].answer : req[p].start < bornAt[i] + TTL => req[p].start < bornAt'[i] + TTL
        BY <2>5, <4>1
      <4>4. CreateOK(p)'
        BY <2>3, <4>1 DEF RequestOK, CreateOK
      <4> HIDE DEF row, new
      <4>5. FetchOK(p)'
        BY <2>1, <2>4, <4>1, <4>2 DEF RequestOK, FetchOK
      <4>6. NotOvertakenOK(p)'
        BY <1>2, <4>1 DEF NotOvertakenOK
      <4>7. AnswerOK(p)'
        BY <2>1, <2>4, <4>1, <4>3 DEF RequestOK, AnswerOK
      <4> QED BY <2>1, <4>1, <4>4, <4>5, <4>6, <4>7 DEF RequestOK
    <3> QED BY <3>1, <3>2
  <2>11. OnlyOvertakenFillsAreStale'
    <3>1. req'[q].pc = "audit"
      BY <1>1, <1>2 DEF Request
    <3> QED BY <3>1 DEF OnlyOvertakenFillsAreStale
  <2> QED BY <2>7, <2>8, <2>9, <2>10, <2>11 DEF IndInv
<1>3. CASE Ends(q) /\ UNCHANGED <<projects, bornAt, overtaken>>
  BY <1>1, <1>3, EndsStep DEF InsertProject
<1> QED BY <1>2, <1>3 DEF InsertProject

\* The cache is emptied: nothing is left that could be stale.
LEMMA InvalidateStep ==
  ASSUME IndInv, NEW q \in Requests, Invalidate(q)
  PROVE  IndInv'
<1>1. req \in [Requests -> Request] /\ TypeOK /\ BornOK
  BY RequestType DEF TypeOK
<1>2. /\ cache' = EmptyCache /\ Ends(q)
      /\ UNCHANGED <<now, open, projects, audited, opens, openedAt, closedAt, bornAt, overtaken>>
      /\ tainted' = FALSE
  BY DEF Invalidate
<1>3. TypeOK'
  <2>1. cache' \in Cache
    BY <1>2, ConstantsAssumption DEF EmptyCache, Cache
  <2>2. req' \in [Requests -> Request]
    BY <1>1, <1>2, IdleType DEF Ends
  <2> QED BY <1>1, <1>2, <2>1, <2>2 DEF TypeOK
<1>4. ASSUME NEW p \in Requests PROVE RequestOK(p)'
  <2>1. CASE p = q
    BY <1>2, <2>1, EndsOK
  <2>2. CASE p # q
    <3>1. req'[p] = req[p] /\ RequestOK(p)
      BY <1>1, <1>2, <2>2 DEF IndInv, Ends
    <3> QED BY <1>2, <3>1, Frame
  <2> QED BY <2>1, <2>2
<1>5. BornOK'
  BY <1>1, <1>2 DEF BornOK, HasProject
<1>6. CacheOK' /\ OnlyOvertakenFillsAreStale'
  <2>1. now \in Nat /\ TTL \in Nat /\ \A i \in open : openedAt[i] \in Nat
    BY <1>1, ConstantsAssumption DEF TypeOK, Time
  <2> QED BY <1>2, <2>1 DEF CacheOK, OnlyOvertakenFillsAreStale, EmptyCache
<1> QED BY <1>3, <1>4, <1>5, <1>6 DEF IndInv

LEMMA RestartStep == ASSUME IndInv, Restart PROVE IndInv'
<1>1. TypeOK /\ BornOK
  BY DEF IndInv
<1>2. /\ cache' = EmptyCache /\ req' = [q \in Requests |-> Idle]
      /\ UNCHANGED <<now, open, projects, audited, opens, openedAt, closedAt, bornAt>>
      /\ overtaken' = {} /\ tainted' = FALSE
  BY DEF Restart
<1>3. TypeOK'
  <2>1. cache' \in Cache
    BY <1>2, ConstantsAssumption DEF EmptyCache, Cache
  <2>2. req' \in [Requests -> Request]
    BY <1>2, IdleType
  <2> QED BY <1>1, <1>2, <2>1, <2>2 DEF TypeOK
<1>4. now \in Nat /\ TTL \in Nat /\ \A i \in open : openedAt[i] \in Nat
  BY <1>1, ConstantsAssumption DEF TypeOK, Time
<1>5. ASSUME NEW p \in Requests PROVE RequestOK(p)'
  <2>1. req'[p] = Idle
    BY <1>2
  <2> QED BY <1>2, <1>4, <2>1 DEF RequestOK, CreateOK, FetchOK, NotOvertakenOK, AnswerOK, Idle
<1>6. BornOK'
  BY <1>1, <1>2 DEF BornOK, HasProject
<1>7. CacheOK' /\ OnlyOvertakenFillsAreStale'
  BY <1>2, <1>4 DEF CacheOK, OnlyOvertakenFillsAreStale, EmptyCache
<1> QED BY <1>3, <1>5, <1>6, <1>7 DEF IndInv

\* What GitHub's users do now is later than anything a request relies on.
LEMMA OpenIssueStep ==
  ASSUME IndInv, NEW i \in Issues, OpenIssue(i)
  PROVE  IndInv'
<1>1. TypeOK /\ BornOK /\ CacheOK
  BY DEF IndInv
<1>2. /\ UNCHANGED <<now, projects, audited, cache, req, closedAt, bornAt, overtaken, tainted>>
      /\ open' = open \cup {i} /\ openedAt' = [openedAt EXCEPT ![i] = now]
  BY DEF OpenIssue
<1>3. /\ now \in Nat /\ now \in Time /\ TTL \in Nat \ {0}
      /\ openedAt'[i] = now /\ \A j \in Issues \ {i} : openedAt'[j] = openedAt[j]
      /\ open' \subseteq Issues /\ cache.expires \in Nat
  BY <1>1, <1>2, ConstantsAssumption DEF TypeOK, Time, Cache
<1>4. TypeOK'
  <2>1. opens' \in 0..MaxOpens
    BY <1>1, ConstantsAssumption DEF TypeOK, OpenIssue
  <2>2. openedAt' \in [Issues -> Time]
    BY <1>1, <1>2, <1>3 DEF TypeOK
  <2> QED BY <1>1, <1>2, <1>3, <2>1, <2>2 DEF TypeOK
<1>5. \A j : HasProject(j)' <=> HasProject(j)
  BY <1>2 DEF HasProject
<1>6. ASSUME NEW p \in Requests PROVE RequestOK(p)'
  <2>1. /\ RequestOK(p) /\ req'[p] = req[p] /\ req[p].start \in Nat
        /\ req[p].start <= now
    BY <1>2, RequestType, ConstantsAssumption DEF RequestOK, Request, Time
  <2>2. CreateOK(p)' /\ NotOvertakenOK(p)'
    BY <1>2, <1>5, <2>1 DEF RequestOK, CreateOK, NotOvertakenOK
  <2>3. FetchOK(p)'
    <3>1. ASSUME req[p].pc \in Filling, NEW j \in open', openedAt'[j] < req[p].start
          PROVE  j \in req[p].raw
      <4>1. j # i
        BY <1>3, <2>1, <3>1
      <4>2. j \in open /\ openedAt'[j] = openedAt[j]
        BY <1>2, <1>3, <4>1
      <4> QED BY <2>1, <3>1, <4>2 DEF RequestOK, FetchOK
    <3> QED BY <1>2, <1>5, <2>1, <3>1 DEF RequestOK, FetchOK
  <2>4. AnswerOK(p)'
    <3>1. ASSUME req[p].pc = "answered", NEW j \in open', ~(req[p].start < openedAt'[j] + TTL)
          PROVE  j \in req[p].answer \/ (req[p].kind = "list" /\ HasProject(j))
      <4>1. j # i
        BY <1>3, <2>1, <3>1
      <4>2. j \in open /\ openedAt'[j] = openedAt[j]
        BY <1>2, <1>3, <4>1
      <4> QED BY <2>1, <3>1, <4>2 DEF RequestOK, AnswerOK
    <3> QED BY <1>2, <1>5, <2>1, <3>1 DEF RequestOK, AnswerOK
  <2> QED BY <1>2, <2>1, <2>2, <2>3, <2>4 DEF RequestOK
<1>7. BornOK'
  BY <1>1, <1>2, <1>5 DEF BornOK
<1>8. CacheOK'
  <2>1. ASSUME NEW j \in open', openedAt'[j] + TTL < cache.expires PROVE j \in cache.raw
    <3>1. j # i
      BY <1>1, <1>3, <2>1 DEF CacheOK
    <3>2. j \in open /\ openedAt'[j] = openedAt[j]
      BY <1>2, <1>3, <3>1
    <3> QED BY <1>1, <2>1, <3>2 DEF CacheOK
  <2> QED BY <1>1, <1>2, <1>5, <2>1 DEF CacheOK
<1>9. OnlyOvertakenFillsAreStale'
  BY <1>2, <1>5 DEF IndInv, OnlyOvertakenFillsAreStale
<1> QED BY <1>4, <1>6, <1>7, <1>8, <1>9 DEF IndInv

LEMMA CloseIssueStep ==
  ASSUME IndInv, NEW i \in Issues, CloseIssue(i)
  PROVE  IndInv'
<1>1. TypeOK /\ BornOK /\ CacheOK
  BY DEF IndInv
<1>2. /\ UNCHANGED <<now, projects, audited, cache, req, openedAt, bornAt, overtaken, tainted>>
      /\ open' = open \ {i} /\ closedAt' = [closedAt EXCEPT ![i] = now]
  BY DEF CloseIssue
<1>3. /\ now \in Nat /\ now \in Time /\ TTL \in Nat \ {0}
      /\ closedAt'[i] = now /\ \A j \in Issues \ {i} : closedAt'[j] = closedAt[j]
      /\ open' \subseteq Issues /\ cache.expires \in Nat /\ cache.raw \subseteq Issues
  BY <1>1, <1>2, ConstantsAssumption DEF TypeOK, Time, Cache
<1>4. TypeOK'
  <2>1. opens' \in 0..MaxOpens
    BY <1>1, ConstantsAssumption DEF TypeOK, CloseIssue
  <2>2. closedAt' \in [Issues -> Time]
    BY <1>1, <1>2, <1>3 DEF TypeOK
  <2> QED BY <1>1, <1>2, <1>3, <2>1, <2>2 DEF TypeOK
<1>5. \A j : HasProject(j)' <=> HasProject(j)
  BY <1>2 DEF HasProject
<1>6. ASSUME NEW p \in Requests PROVE RequestOK(p)'
  <2>1. /\ RequestOK(p) /\ req'[p] = req[p] /\ req[p].start \in Nat
        /\ req[p].start <= now /\ req[p].raw \subseteq Issues /\ req[p].answer \subseteq Issues
    BY <1>2, RequestType, ConstantsAssumption DEF RequestOK, Request, Time
  <2>2. CreateOK(p)' /\ NotOvertakenOK(p)'
    BY <1>2, <1>5, <2>1 DEF RequestOK, CreateOK, NotOvertakenOK
  <2>3. FetchOK(p)'
    <3>1. ASSUME req[p].pc \in Filling, NEW j \in req[p].raw
          PROVE  j \in open' \/ req[p].start <= closedAt'[j]
      <4>1. CASE j = i
        BY <1>3, <2>1, <4>1
      <4>2. CASE j # i
        BY <1>2, <1>3, <2>1, <3>1, <4>2 DEF RequestOK, FetchOK
      <4> QED BY <4>1, <4>2
    <3> QED BY <1>2, <1>5, <2>1, <3>1 DEF RequestOK, FetchOK
  <2>4. AnswerOK(p)'
    <3>1. ASSUME req[p].pc = "answered", NEW j \in req[p].answer
          PROVE  j \in open' \/ req[p].start < closedAt'[j] + TTL
      <4>1. CASE j = i
        BY <1>3, <2>1, <4>1
      <4>2. CASE j # i
        BY <1>2, <1>3, <2>1, <3>1, <4>2 DEF RequestOK, AnswerOK
      <4> QED BY <4>1, <4>2
    <3> QED BY <1>2, <1>5, <2>1, <3>1 DEF RequestOK, AnswerOK
  <2> QED BY <1>2, <2>1, <2>2, <2>3, <2>4 DEF RequestOK
<1>7. BornOK'
  BY <1>1, <1>2, <1>5 DEF BornOK
<1>8. CacheOK'
  <2>1. ASSUME NEW j \in cache.raw PROVE j \in open' \/ cache.expires <= closedAt'[j] + TTL
    <3>1. CASE j = i
      BY <1>1, <1>3, <3>1 DEF CacheOK
    <3>2. CASE j # i
      BY <1>1, <1>2, <1>3, <3>2 DEF CacheOK
    <3> QED BY <3>1, <3>2
  <2> QED BY <1>1, <1>2, <1>5, <2>1 DEF CacheOK
<1>9. OnlyOvertakenFillsAreStale'
  BY <1>2, <1>5 DEF IndInv, OnlyOvertakenFillsAreStale
<1> QED BY <1>4, <1>6, <1>7, <1>8, <1>9 DEF IndInv

LEMMA TickStep == ASSUME IndInv, Tick PROVE IndInv'
<1>1. TypeOK /\ BornOK /\ CacheOK
  BY DEF IndInv
<1>2. /\ UNCHANGED <<open, projects, audited, cache, req, opens, openedAt, closedAt, bornAt>>
      /\ UNCHANGED <<overtaken, tainted>>
  BY DEF Tick
<1>3. now \in Nat /\ now' \in Nat /\ now' = now + 1 /\ now' \in Time /\ TTL \in Nat /\ cache.expires \in Nat
  BY <1>1, ConstantsAssumption DEF Tick, TypeOK, Time, Cache
<1>4. TypeOK'
  BY <1>1, <1>2, <1>3 DEF TypeOK
<1>5. \A j : HasProject(j)' <=> HasProject(j)
  BY <1>2 DEF HasProject
<1>6. ASSUME NEW p \in Requests PROVE RequestOK(p)'
  <2>1. RequestOK(p) /\ req[p].start \in Nat
    BY RequestType, ConstantsAssumption DEF Request, Time
  <2>2. CreateOK(p)' /\ FetchOK(p)' /\ NotOvertakenOK(p)' /\ AnswerOK(p)'
    BY <1>2, <1>5, <2>1 DEF RequestOK, CreateOK, FetchOK, NotOvertakenOK, AnswerOK
  <2>3. req'[p].start <= now'
    BY <1>2, <1>3, <2>1 DEF RequestOK
  <2> QED BY <2>2, <2>3 DEF RequestOK
<1>7. BornOK' /\ OnlyOvertakenFillsAreStale'
  BY <1>1, <1>2, <1>5 DEF IndInv, BornOK, OnlyOvertakenFillsAreStale
<1>8. CacheOK'
  <2>1. cache'.expires <= now' + TTL
    BY <1>1, <1>2, <1>3 DEF CacheOK
  <2> QED BY <1>1, <1>2, <1>5, <2>1 DEF CacheOK
<1> QED BY <1>4, <1>6, <1>7, <1>8 DEF IndInv
-----------------------------------------------------------------------------
\* Every step of the web backend, of GitHub's users and of time.
LEMMA NextInv == IndInv /\ [Next]_vars => IndInv'
<1> SUFFICES ASSUME IndInv, [Next]_vars PROVE IndInv'
  OBVIOUS
<1>1. CASE UNCHANGED vars
  BY <1>1 DEF vars, IndInv, TypeOK, RequestOK, CreateOK, FetchOK, NotOvertakenOK, AnswerOK,
              BornOK, CacheOK, OnlyOvertakenFillsAreStale, HasProject
<1>2. ASSUME NEW q \in Requests, Serve(q) PROVE IndInv'
  BY <1>2, ArriveStep, LookUpStep, FetchIssuesStep, FilterStep, StoreCacheStep DEF Serve
<1>3. ASSUME NEW q \in Requests, Create(q) PROVE IndInv'
  BY <1>3, ArriveCreateStep, FetchTitleStep, EnsureAvailableStep, InsertProjectStep,
     LogCreateStep, InvalidateStep DEF Create
<1>4. ASSUME NEW i \in Issues, OpenIssue(i) \/ CloseIssue(i) PROVE IndInv'
  BY <1>4, OpenIssueStep, CloseIssueStep
<1> QED BY <1>1, <1>2, <1>3, <1>4, TickStep, RestartStep DEF Next

LEMMA Invariance == Spec => []IndInv
BY InitInv, NextInv, PTL DEF Spec

\* Every variable of the web backend's issue list keeps its type.
THEOREM IssueCacheTypes == Spec => []TypeOK
<1>1. IndInv => TypeOK
  BY DEF IndInv
<1> QED BY <1>1, Invariance, PTL

\* getOnboardingIssues and getOnboardingIssuesRaw never answer anything that
\* has been outdated for the TTL of the cache when the request came in.
THEOREM FreshAnswers == Spec => []AnswerIsFresh
<1>1. IndInv => AnswerIsFresh
  BY DEF IndInv, RequestOK, AnswerOK, AnswerIsFresh, Recent
<1> QED BY <1>1, Invariance, PTL

\* Nor do they leave out an issue that has been open for the TTL and has no
\* project.
THEOREM CompleteAnswers == Spec => []AnswerIsComplete
<1>1. IndInv => AnswerIsComplete
  BY DEF IndInv, RequestOK, AnswerOK, AnswerIsComplete, Recent
<1> QED BY <1>1, Invariance, PTL

\* The only way for an issue to be offered from the cache after its project was
\* created is a list that was fetched before and stored after.
THEOREM StaleOnlyIfOvertaken == Spec => []OnlyOvertakenFillsAreStale
<1>1. IndInv => OnlyOvertakenFillsAreStale
  BY DEF IndInv
<1> QED BY <1>1, Invariance, PTL
=============================================================================
