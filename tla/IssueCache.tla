------------------------------ MODULE IssueCache ------------------------------
(***************************************************************************)
(* The list of onboarding issues of the web backend                        *)
(* (src/cmd/web-bff/main.go): handleOnboardingIssues and                   *)
(* handleRecentProjects, which read GitHub's open issues through           *)
(* onboardingIssueCache, and handleProjectCreate, which registers the      *)
(* project of an issue and invalidates the cache.                          *)
(*                                                                         *)
(* Every request is a goroutine.  The lock of the cache covers a look-up   *)
(* and a store, but not the fetch and the queries between them, so the     *)
(* steps of requests interleave at each call.                              *)
(***************************************************************************)
EXTENDS Naturals, Sequences

CONSTANTS
  Issues,    \* issues of cncf/sandbox with the onboarding label, by URL
  Names,     \* names of projects
  NameOf,    \* the project name in the title of an issue, None if it has none
  Requests,  \* request goroutines
  TTL,       \* onboardingIssueCacheTTL
  MaxTime,   \* bound: the last instant of a behaviour
  MaxOpens,  \* bound: how often issues are opened or closed
  None

ASSUME ConstantsAssumption ==
  /\ TTL \in Nat \ {0}
  /\ MaxTime \in Nat \ {0}
  /\ MaxOpens \in Nat
  /\ None \notin Names
  /\ NameOf \in [Issues -> Names \cup {None}]

VARIABLES
  now,       \* the clock
  open,      \* GitHub: the open issues
  projects,  \* the table projects: name and onboarding_issue of each row
  audited,   \* the rows with a PROJECT_CREATE entry in audit_logs
  cache,     \* onboardingIssueCache
  req,       \* the requests
  opens,     \* how often issues may still be opened or closed
  openedAt,  \* history: when an issue was last opened
  closedAt,  \* history: when an issue was last closed
  bornAt,    \* history: when an issue first had a project
  overtaken, \* history: requests whose fetched list a new project has overtaken
  tainted    \* history: the cache was last filled by such a request

history == <<openedAt, closedAt, bornAt, overtaken, tainted>>
vars == <<now, open, projects, audited, cache, req, opens, history>>
-----------------------------------------------------------------------------
Time == 0..MaxTime
Never == MaxTime + TTL + 1

\* onboardingIssueCache: expires is 0 for time.Time{}, an empty list for nil.
Cache == [expires : 0..(MaxTime + TTL), raw : SUBSET Issues, issues : SUBSET Issues]

EmptyCache == [expires |-> 0, raw |-> {}, issues |-> {}]

\* GET /api/onboarding/issues, GET /api/projects/recent, POST /api/projects
Kind == {"list", "recent", "create"}

Request ==
  [pc     : {"idle", "cache", "fetch", "filter", "store", "answered",
             "title", "available", "insert", "audit", "invalidate"},
   kind   : Kind,
   start  : Time,                   \* now of getOnboardingIssues
   raw    : SUBSET Issues,
   todo   : SUBSET Issues,          \* fetched issues not yet looked up
   answer : SUBSET Issues,          \* filtered, then what is answered
   issue  : Issues \cup {None},     \* of a project to create
   row    : Nat]                    \* project.ID

Idle ==
  [pc |-> "idle", kind |-> "list", start |-> 0, raw |-> {}, todo |-> {},
   answer |-> {}, issue |-> None, row |-> 0]

At(q, pc) == req[q].pc = pc

\* A request is over, with an answer that is looked at or without.
Over(q) == At(q, "idle") \/ At(q, "answered")

Ends(q) == req' = [req EXCEPT ![q] = Idle]

Answers(q, issues) ==
  req' = [req EXCEPT ![q] = [Idle EXCEPT !.pc = "answered", !.kind = req[q].kind,
                                         !.start = req[q].start, !.answer = issues]]

\* fetchAndFilterOnboardingIssues: the project of i has its URL or its name.
HasProject(i) ==
  \E k \in DOMAIN projects : projects[k].issue = i \/ projects[k].name = NameOf[i]
-----------------------------------------------------------------------------
Init ==
  /\ now = 1
  /\ open \in SUBSET Issues
  /\ projects = <<>> /\ audited = {}
  /\ cache = EmptyCache
  /\ req = [q \in Requests |-> Idle]
  /\ opens = MaxOpens
  /\ openedAt = [i \in Issues |-> 0]
  /\ closedAt = [i \in Issues |-> 0]
  /\ bornAt = [i \in Issues |-> Never]
  /\ overtaken = {} /\ tainted = FALSE
-----------------------------------------------------------------------------
(***************************************************************************)
(* handleOnboardingIssues and handleRecentProjects.                        *)
(***************************************************************************)

\* The clock is read before the lock is taken.
Arrive(q, kind) ==
  /\ Over(q)
  /\ req' = [req EXCEPT ![q] = [Idle EXCEPT !.pc = "cache", !.kind = kind, !.start = now]]
  /\ overtaken' = overtaken \ {q}
  /\ UNCHANGED <<now, open, projects, audited, cache, opens, openedAt, closedAt, bornAt, tainted>>

\* What the cache holds for a kind of request.
Cached(kind) == IF kind = "list" THEN cache.issues ELSE cache.raw

\* Variant: a list is served as long as it lasts, plus one instant.
UsableAtExpiry(q) == req[q].start <= cache.expires /\ Cached(req[q].kind) # {}

\* An expired or an empty list is not served.
Usable(q) == req[q].start < cache.expires /\ Cached(req[q].kind) # {}

\* Under the read lock.
LookUp(q) ==
  /\ At(q, "cache")
  /\ IF Usable(q) THEN Answers(q, Cached(req[q].kind))
                  ELSE req' = [req EXCEPT ![q].pc = "fetch"]
  /\ UNCHANGED <<now, open, projects, audited, cache, opens, history>>

\* fetchIssues, without a lock; it may fail.
FetchIssues(q) ==
  /\ At(q, "fetch")
  /\ \/ req' = [req EXCEPT ![q].pc = IF open = {} THEN "store" ELSE "filter",
                           ![q].raw = open, ![q].todo = open]
     \/ Ends(q)
  /\ UNCHANGED <<now, open, projects, audited, cache, opens, history>>

\* One query of the loop in fetchAndFilterOnboardingIssues.
Filter(q, i) ==
  /\ At(q, "filter")
  /\ i \in req[q].todo
  /\ \/ req' = [req EXCEPT ![q].pc = IF req[q].todo = {i} THEN "store" ELSE "filter",
                           ![q].todo = @ \ {i},
                           ![q].answer = IF HasProject(i) THEN @ ELSE @ \cup {i}]
     \/ Ends(q)
  /\ UNCHANGED <<now, open, projects, audited, cache, opens, history>>

\* Variant: the list expires a TTL after it is stored.
ExpiryAtStore(q) == now + TTL

\* The list expires a TTL after the request came in.
Expiry(q) == req[q].start + TTL

\* Under the write lock; whoever comes last wins.
StoreCache(q) ==
  /\ At(q, "store")
  /\ cache' = [expires |-> Expiry(q), raw |-> req[q].raw, issues |-> req[q].answer]
  /\ Answers(q, IF req[q].kind = "list" THEN req[q].answer ELSE req[q].raw)
  /\ tainted' = (q \in overtaken)
  /\ UNCHANGED <<now, open, projects, audited, opens, openedAt, closedAt, bornAt, overtaken>>
-----------------------------------------------------------------------------
(***************************************************************************)
(* handleProjectCreate, of a session with the role staff.                  *)
(***************************************************************************)

ArriveCreate(q, i) ==
  /\ Over(q)
  /\ req' = [req EXCEPT ![q] = [Idle EXCEPT !.pc = "title", !.kind = "create", !.issue = i]]
  /\ overtaken' = overtaken \ {q}
  /\ UNCHANGED <<now, open, projects, audited, cache, opens, openedAt, closedAt, bornAt, tainted>>

\* Variant: a title without a project name is let through.
FetchAnyTitle(q) ==
  /\ At(q, "title")
  /\ req' = [req EXCEPT ![q].pc = "available"]
  /\ UNCHANGED <<now, open, projects, audited, cache, opens, history>>

\* fetchIssueTitle and the checks of the request, each of which may end it; a
\* title without a project name does.
FetchTitle(q) ==
  /\ At(q, "title")
  /\ \/ /\ NameOf[req[q].issue] # None
        /\ req' = [req EXCEPT ![q].pc = "available"]
     \/ Ends(q)
  /\ UNCHANGED <<now, open, projects, audited, cache, opens, history>>

\* ensureProjectNameAvailable
EnsureAvailable(q) ==
  /\ At(q, "available")
  /\ \/ /\ \A k \in DOMAIN projects : projects[k].name # NameOf[req[q].issue]
        /\ req' = [req EXCEPT ![q].pc = "insert"]
     \/ Ends(q)
  /\ UNCHANGED <<now, open, projects, audited, cache, opens, history>>

\* The row is created.  The tag "uniqueIndex,not null" of Project.Name is not
\* one that gorm knows, so the table has no unique index that could refuse it.
InsertProject(q) ==
  LET row == [name |-> NameOf[req[q].issue], issue |-> req[q].issue]
  IN  /\ At(q, "insert")
      /\ \/ /\ projects' = Append(projects, row)
            /\ req' = [req EXCEPT ![q].pc = "audit", ![q].row = Len(projects) + 1]
            /\ bornAt' = [i \in Issues |->
                            IF bornAt[i] = Never /\ (i = row.issue \/ NameOf[i] = row.name)
                            THEN now ELSE bornAt[i]]
            /\ overtaken' = overtaken \cup {p \in Requests : At(p, "filter") \/ At(p, "store")}
         \/ /\ Ends(q)
            /\ UNCHANGED <<projects, bornAt, overtaken>>
      /\ UNCHANGED <<now, open, audited, cache, opens, openedAt, closedAt, tainted>>

\* The audit entry, whose error is only logged.
LogCreate(q) ==
  /\ At(q, "audit")
  /\ audited' \in {audited, audited \cup {req[q].row}}
  /\ req' = [req EXCEPT ![q].pc = "invalidate"]
  /\ UNCHANGED <<now, open, projects, cache, opens, history>>

\* Variant: the filtered list is left.
InvalidateRaw(q) ==
  /\ At(q, "invalidate")
  /\ cache' = [cache EXCEPT !.raw = {}]
  /\ tainted' = FALSE
  /\ Ends(q)
  /\ UNCHANGED <<now, open, projects, audited, opens, openedAt, closedAt, bornAt, overtaken>>

\* invalidateOnboardingCache
Invalidate(q) ==
  /\ At(q, "invalidate")
  /\ cache' = EmptyCache
  /\ tainted' = FALSE
  /\ Ends(q)
  /\ UNCHANGED <<now, open, projects, audited, opens, openedAt, closedAt, bornAt, overtaken>>
-----------------------------------------------------------------------------
(***************************************************************************)
(* GitHub, time and the process.                                           *)
(***************************************************************************)
OpenIssue(i) ==
  /\ opens > 0 /\ opens' = opens - 1
  /\ i \notin open
  /\ open' = open \cup {i}
  /\ openedAt' = [openedAt EXCEPT ![i] = now]
  /\ UNCHANGED <<now, projects, audited, cache, req, closedAt, bornAt, overtaken, tainted>>

CloseIssue(i) ==
  /\ opens > 0 /\ opens' = opens - 1
  /\ i \in open
  /\ open' = open \ {i}
  /\ closedAt' = [closedAt EXCEPT ![i] = now]
  /\ UNCHANGED <<now, projects, audited, cache, req, openedAt, bornAt, overtaken, tainted>>

Tick ==
  /\ now < MaxTime
  /\ now' = now + 1
  /\ UNCHANGED <<open, projects, audited, cache, req, opens, history>>

\* The process ends and starts again with an empty cache.
Restart ==
  /\ cache' = EmptyCache
  /\ req' = [q \in Requests |-> Idle]
  /\ overtaken' = {} /\ tainted' = FALSE
  /\ UNCHANGED <<now, open, projects, audited, opens, openedAt, closedAt, bornAt>>
-----------------------------------------------------------------------------
Serve(q) ==
  \/ \E kind \in {"list", "recent"} : Arrive(q, kind)
  \/ LookUp(q) \/ FetchIssues(q) \/ (\E i \in Issues : Filter(q, i)) \/ StoreCache(q)

Create(q) ==
  \/ \E i \in Issues : ArriveCreate(q, i)
  \/ FetchTitle(q) \/ EnsureAvailable(q) \/ InsertProject(q) \/ LogCreate(q) \/ Invalidate(q)

Next ==
  \/ \E q \in Requests : Serve(q) \/ Create(q)
  \/ \E i \in Issues : OpenIssue(i) \/ CloseIssue(i)
  \/ Tick \/ Restart

Spec == Init /\ [][Next]_vars
-----------------------------------------------------------------------------
\* The state is well formed; an audit entry belongs to a row.
TypeOK ==
  /\ now \in Time
  /\ open \subseteq Issues
  /\ projects \in Seq([name : Names, issue : Issues])
  /\ audited \subseteq DOMAIN projects
  /\ cache \in Cache
  /\ req \in [Requests -> Request]
  /\ opens \in 0..MaxOpens
  /\ openedAt \in [Issues -> Time] /\ closedAt \in [Issues -> Time]
  /\ bornAt \in [Issues -> Time \cup {Never}]
  /\ overtaken \subseteq Requests
  /\ tainted \in BOOLEAN

\* Less than a TTL before the request came in.
Recent(q, time) == req[q].start < time + TTL

\* Nothing outdated is answered: an issue of the answer is open, or was until
\* less than a TTL before the request; and one that staff can make a project
\* from had none until then.  This must survive slow fetches whose results are
\* stored over newer ones, and a cache that is filled by either kind of request.
AnswerIsFresh ==
  \A q \in Requests : At(q, "answered") =>
    \A i \in req[q].answer :
      /\ i \in open \/ Recent(q, closedAt[i])
      /\ req[q].kind = "list" => Recent(q, bornAt[i])

\* Nothing is held back: an issue that has been open for a TTL when the request
\* comes in is in the answer, unless it has a project.
AnswerIsComplete ==
  \A q \in Requests : At(q, "answered") =>
    \A i \in open : ~Recent(q, openedAt[i]) =>
      i \in req[q].answer \/ (req[q].kind = "list" /\ HasProject(i))

\* The invalidation at the end of handleProjectCreate is enough, except for a
\* list that was being filtered or waiting to be stored when the row was
\* inserted: otherwise the cache offers no issue that has a project.
OnlyOvertakenFillsAreStale ==
  ~tainted /\ (\A q \in Requests : ~At(q, "audit") /\ ~At(q, "invalidate")) =>
    \A i \in cache.issues : ~HasProject(i)

\* model/main.go:123: Project.Name is tagged "uniqueIndex".
ProjectNamesAreUnique ==
  \A j, k \in DOMAIN projects : projects[j].name = projects[k].name => j = k
=============================================================================
