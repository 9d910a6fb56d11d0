# maintainer-d: a TLA+ model of its core

maintainer-d keeps the registry of CNCF projects and their maintainers, signs
them up with services such as FOSSA, and mirrors the registry into Kubernetes.
This directory holds TLA+ modules that model its stateful parts, the TLC
configurations that check them on small instances, and TLAPS proofs.

## 1. Inventory

| Part | State | Operations | Hard because |
|---|---|---|---|
| Onboarding webhook server (`onboarding/server.go`) | `EventListener.Projects`, a map filled once; one goroutine per delivery | label `fossa`: create the team, store it, invite, add; `/fossa-invite accepted`: add whoever has accepted; `/label fossa` or `snyk` | deliveries interleave without a lock, every call may fail, FOSSA may act and its answer be lost, the process may end in between |
| FOSSA client (`plugins/fossa/client.go`) | none; FOSSA keeps teams, users and invitations | create and fetch teams, invite, add to a team, look up invitations | error codes decide between failure and success, the look-up of invitations is a substring search, no timeout on the HTTP client |
| Registry store (`db/store_impl.go`, `model/main.go`) | SQL tables | look-ups, `CreateServiceTeam`, `LogAuditEvent`, `UpsertMaintainer`, `UpdateMaintainerDetails`, `MergeCompanies` | select-then-insert without a unique index, updates outside the transaction |
| FOSSA scanner operator (`code-scanners/internal/controller`) | custom resource with status, ConfigMap, informer cache, work queue | `Reconcile` | stale cache, conflicts, partial failure, status overwritten by a patch, who wakes the operator up next |
| Snyk scanner operator | custom resource, ConfigMap | `Reconcile` | shares the ConfigMap name space with the FOSSA operator |
| KDP workspaces (`kdp-workspaces/internal`) | kcp workspaces and bindings, annotations and conditions of Projects and StaffMembers, two work queues | project and staff member reconcilers | creation takes several calls and a wait; the second reconciler is triggered by what the first one annotates; nothing watches kcp |
| Web backend (`cmd/web-bff`) | sessions, OAuth states, cache of onboarding issues, SQL tables | login, callback, logout; create and edit projects, maintainers, companies; list onboarding issues | the cache is filled outside its lock, roles are captured at login, check-then-create, read-modify-write |
| Sync (`cmd/sync`) | custom resources | push the registry, table by table, every 30 minutes | stops at the first error, reads each table anew, compares lists by hand, never deletes |
| Bootstrap (`db/bootstrap.go`) | SQL tables | load the spreadsheet and FOSSA | rows depend on earlier rows, a row that fails is skipped, runs again over its own partial result and over edits |
| Parser (`refparse`), one-off commands, web user interface | none of their own | text, copying, presentation | - |

How they interact: GitHub calls the webhook server, which reads the registry
and calls FOSSA; the web backend and bootstrap write the same tables from other
processes; the scanner operator works on the same FOSSA organisation; sync
copies the registry into the resources that the KDP operator reconciles.

What makes each part correct:

* webhook server: the rows of a project name the one FOSSA team of its name; only accepted
  maintainers of the project get in, on the word of somebody who may ask for
  it; the audit log and the comment say what happened; every delivery ends;
* scanner operator: whoever was asked for and accepted ends up in the team, no
  matter which call failed; the status never claims more than FOSSA holds; the
  operator never goes to sleep on unfinished work;
* web backend: an onboarding issue disappears from the list once its project
  exists; a session belongs to the browser that logged in, with rights held at
  that login and for no longer than it lasts; whatever two edits leave
  inconsistent is the work of requests that overlapped;
* KDP: every Project shows the phase of its workspace, and every ready workspace
  grants access to exactly the present staff;
* sync and bootstrap: running again repairs a run that stopped half-way; a
  repeated run takes nothing back.

## 2. Modules

| Module | Models | State | Steps |
|---|---|---|---|
| `Onboarding` | the webhook server with the FOSSA client and the tables it uses | tables `projects`, `registered`, `rows` (service_teams), `audit`; FOSSA's `teams` and `account`; `labelled` issues; the map `cached` (one project per name); `req`, one record per delivery | one action per call of a handler that reads or writes shared state |
| `CodeScannerFossa` | `Reconcile` of the FOSSA scanner operator | the resource `cr`, the informer's `cache`, the work queue (`queued`, `timer`), `configMap`, `secret`, FOSSA's `teams`, `members`, `account`; `r`, the running reconcile | one action per call, named after the step or method it stands for |
| `IssueCache` | the list of onboarding issues of the web backend and the creation of projects | GitHub's `open` issues, table `projects`, `cache`, the clock, `req`, one record per request | one action per lock section, GitHub call or query |
| `Mirror` | what a controller promises that shows the state of something it cannot watch | `source`, `shown`, `seen`, what is `due` | source changes, a look, a display, a pause |
| `KdpWorkspaces` | both KDP reconcilers with kcp and the API server between them | Projects (`phase`, `cond`), StaffMembers, kcp's `ws` and `binding`, watch, caches, two queues, the running reconciles `pr` and `sr` | one action per call, event, or wait |
| `Registry` | what the web backend changes in maintainers, companies and projects | the tables `rows`, `companies`, `members`, `project`, `audit`; `run`, one record per request | one action per statement or transaction |
| `WebSession` | login, callback, logout and admission | the OAuth states and sessions in memory, the browsers' cookies, the registry's roles, the clock | one action per lock section or call to GitHub |
| `CrdSync` | the sync job | the registry, the cluster's objects, the running job | reading a table, applying an object |
| `Bootstrap` | the import from the spreadsheet and FOSSA | the sheet, the tables, `job`, the running import | a look-up, a row's transaction, a statement of the FOSSA part |
| `...Proofs` | - | - | theorems about the module of that name and their proofs |
| `MC...` | - | - | instances for TLC |

Conventions. A handler is a record with a program counter; an action is the code
from one call that touches shared state to the next. A call that can fail has a
disjunct for the failure, a call to FOSSA also one for "applied, but the answer
was lost". Definitions marked *Variant* are plausible mistakes in the definition
that follows; the specifications do not use them, they show that a property can
be violated.

What is abstracted: names, addresses and URLs are model values; that one address
is part of another, which `HasPendingInvitation` confuses, is the relation
`Embeds`. Comments on issues are reduced to the outcome they report for each
maintainer. Times in the status of the resource are left out, but a status update
may write new ones even if nothing else changes (`Store`). Log lines, Kubernetes
events and metrics are left out.

### Onboarding

`handleWebhook` starts a delivery (`DeliverLabeled`, `DeliverAccepted`,
`DeliverLabelCommand`); `signProjectUpForFOSSA` is `ReadMaintainers` to
`RereadTeamMap`, with `CreateServiceTeam` as the two statements that gorm's
FirstOrCreate executes; `addProjectMaintainersToFossaTeam` is
`CommandMaintainers` to `LogAddMember`; `updateIssue` is `Comment`. Other
processes appear as `CreateProject`, `RegisterMaintainer` and
`ImportServiceTeam`. FOSSA refuses a second team of the same name, as the
client's use of its error code presumes. People leave neither the registry nor
the organisation: no code removes them.

A project is a row, and several rows may bear one name (`NameOf`; see
`issue_cache_unique`). Issues, FOSSA's teams and the cache go by name: of
namesakes the cache holds any one (`ProjectMaps`, the query has no ORDER BY), and
`Known(n)` is the project a delivery gets, if any. The team map goes by id, and
`CreateServiceTeam` looks for a row of the team whatever its project
(`store_impl.go:481`). So a team whose row belongs to a namesake gets no row of its own,
and the handler panics at `server.go:495` although no call failed (`AnothersRow`).
`Candidates` says who may be registered for which project.

### CodeScannerFossa

controller-runtime never runs two reconciles of one resource at once, so there is
one handler; people with kubectl, FOSSA's users and the onboarding server
interleave with it. `Sync` is the watch event of the latest version, `Fire` the
end of a `RequeueAfter`, `Resync` the periodic resync. A reconcile works on the
version in the cache; `r.current` says whether its resourceVersion is still the
latest, which the status update needs and the annotation patch does not. `Lists` are
the lists of addresses the resource may ask for. The
answer to that patch is decoded over the object in memory (`Decoded`): a field
that the stored status has wins, one that it lacks keeps the value just built.
`HasPendingInvitation` is the client's substring search here too: whoever is `Masked` by
a pending invitation to a longer address is entered as Pending and not invited.
`mishaps` is a budget: each failing call, edit and restart takes one, so that
"nothing fails any more" is a state, `mishaps = 0`.

### IssueCache

`Arrive` reads the clock, `LookUp` and `StoreCache` are the two lock sections,
`FetchIssues` is GitHub's search (taken as one snapshot) and `Filter` one query of
the loop over its result. `handleProjectCreate` is `ArriveCreate` to
`Invalidate`. The history variables (`openedAt`, `closedAt`, `bornAt`,
`overtaken`, `tainted`) only serve the properties.

### KdpWorkspaces and Mirror

Each controller runs one reconcile at a time. `PStart` to `PCondition` are the
project reconciler: read the workspace, or create it and wait, then patch the
annotations against the informer's copy, then the condition. The staff reconciler
lists staff, lists workspaces, writes one binding per ready workspace and
annotates the staff. A rate-limited retry and `RequeueAfter` are one thing here: the
key is in the queue again. The watch of Projects is a queue of versions
(`MaxVersions` bounds its lag); `Deliver` applies the event filter as written,
which drops every event of a Project whose phase stays Ready. `Resync` is the
periodic resync and finds the Project at rest, since its period is hours. A phase
before Ready, the empty one included, is "Initializing".

kcp is not watched, so two things are outside what the operator can know, and two
history variables name them: `unseen`, workspaces that changed after the
reconciler read them, and `missed`, workspaces that became ready again without a
change of the annotation, for which nobody triggers the staff reconciler (the plan in
`PLAN_STAFF_MEMBERS_SUPPORT.md` wants `kdp:owner` "in every workspace that
kdp-workspace-operator created", line 22, once it is Ready, line 59). The
properties are about all others.

`Mirror` is the abstract specification: the value shown is always one that the
source had when it was last looked at, and nothing is left undisplayed unless it is
due. `ImplementsMirror` maps the project reconciler to it (`INSTANCE Mirror WITH`
source = the workspaces, shown = the annotations, seen = the information the running
reconcile holds).

### Registry

A request is authorised, reads, writes and audits in steps of their own, because
gorm runs them as separate statements; only `UpsertMaintainer`'s first half and
`MergeCompanies` are transactions, and at READ COMMITTED their checks can be stale
when they commit. `together` records which requests overlapped and `changed` who
changed what: the properties say that every anomaly is the work of an overlap.
Any statement may fail (`StatementFails`); the answer is an error, and what was
committed before stays, so that the details of a new member may be missing although
the membership is there. `Restart` ends all requests. A maintainer's name is left out: it is written like the
handle, and nobody looks it up.
`tx.Where("name = ?", ...).FirstOrCreate(&c)` with an empty `c` inserts a company
whose name is empty (`CreatedCompany`), as the code does.

### WebSession

States and sessions live in maps with a lock; a browser has one cookie for each. A
callback checks the cookie, consumes the state, exchanges the code, looks up staff,
then maintainers, and creates the session; other browsers, logouts, expiries and
changes of the registry come in between. Requests are admitted by `RequireSession`
and answered later. `Tick` advances the clock; a session expires strictly after
its TTL.

### CrdSync

`syncAll` is an ordered list of kinds; each is read from the tables when its turn
comes and applied object by object in any order (Go maps). `Apply` creates, updates
if the specs differ in the eyes of the code's own comparison, or leaves alone.
Names stand for sanitized names. Others may delete objects and write them
(`DeleteObject`, `ChangeObject`, `Foreign`). `References` are those to kinds copied before;
a `ParentProjectRef` is one to the same kind (`Parents`), and a job that ends among the
Projects leaves it dangling until the next job (`owed`). FoundationRef and
MaintainerLeadRef name no object of the job. The CronJob allows one job at a time
(`concurrencyPolicy: Forbid`) and starts one again and again.

### Bootstrap

`ReadRows` is `readSheetRows` with its carried columns. A row of *Active* is two
steps, the look-up of the parent outside the transaction and the transaction; a row
of *Staff* is one; a FOSSA user is the service user and person, the teams, then one
step per link. Any statement may fail, with the consequence the code gives it (a row
skipped, a maintainer taken for a collaborator, a link inserted whole), and the job
may end anywhere. Between and during runs the sheet changes, staff change a
maintainer's company or email, merge companies, create a project or add a maintainer.
An addition is two steps, `UpsertMaintainer`'s look-up (`AddLook`) and its commit
(`AddCommit`); `AddWithinRow` is the commit that falls between look-up and insertion
of a row's transaction. So an addition and a run may both insert an email, and an
email that was changed is added again from the sheet by the next run: `doubtful`
notes those rows, and `OneRowPerEmail` excepts them and no other. That a merge can
fall between the statements of one row's transaction, and races of requests
among themselves, are left out: `Registry` has those. A link
that `LinkServiceUserToTeam` inserts has no team (`bootstrap.go:588-595`); it is not
found again, so each run adds one per team, and `Linked` asks for one link for each
team, one to one, not for its team.

## 3. What the runs check

| Run | Instance | Result |
|---|---|---|
| `onboarding_concurrent` | 1 project, 2 maintainers, one's address part of the other's, 2 deliveries of any kind | rows of a project agree on its team; members are accepted maintainers; additions are audited at most once and truly; comments tell the truth, and a command without an error leaves every accepted maintainer in the team, but for those whose address is part of a pending one (`client.go:154`) |
| `onboarding_projects` | 3 projects, two of them namesakes, one delivery at a time, comments by somebody who may maintain one and is assigned to the issue of another | the unchecked dereference in `signProjectUpForFOSSA` fails only after an ignored store error or when the team's row is a namesake's; a team gains members only on the word of somebody entitled to it, or with the label; every delivery ends |
| `fossa_operator_safety` | 2 projects, 2 people, 2 generations, 1 mishap | the operator does not fall asleep on unfinished work; the stored status claims only what is so; nobody joins a team the resource never asked for |
| `fossa_operator_liveness` | 1 project, 2 people, one's address part of the other's, 1 mishap | after the last failure everybody is invited, unless and as long as the pending invitation of the other is taken for theirs; the accepted join for good, the status says so |
| `issue_cache_fresh` | 2 issues, 2 requests, 3 instants | answers are never staler than the TTL, in both directions; what exactly the invalidation cannot prevent |
| `kdp_operator_mirror` | 1 Project, 1 StaffMember, 1 change, 1 failure | neither reconciler rests on unfinished work; the project side implements `Mirror`; everything is shown and bound in the end |
| `registry_edits` | 3 requests of any kind, 1 failing statement, lost audit entry or restart | dangling companies, status changes undone and duplicates take an overlap; an addition that took place and is answered with an error takes a failing statement or an overlapping merge; the fields and memberships a request changed alone are audited, but for the membership of a maintainer of whom nothing else changed |
| `web_session` | 2 browsers, 3 ticks, a registry that changes | one session per login, for the browser that began it; whoever is admitted held the role at a login not older than the TTL; a session that was logged out admits nobody any more |
| `crd_sync_mirror` | 1 maintainer with 2 emails, 2 companies, 2 projects, 2 changes, 1 failure | an undisturbed job leaves the cluster as the registry is, whatever others deleted or wrote before; references resolve at every step, parents once the Projects are gone through; the cluster catches up |
| `bootstrap_reruns` | 2 sheets, 2 runs, 1 failure, 2 edits or additions | an undisturbed run is complete whatever died before; no run undoes an edit or closes a circle of parents; two rows of one email come only from an email set on the web or an addition that overlaps with a run; a repeated run changes nothing |

Runs that end in a violation show where the code and its documentation differ:

| Run | The code | The document |
|---|---|---|
| `issue_cache_unique` | creates a project twice: the tag of `Project.Name` yields no unique index | `model/main.go:123` |
| `crd_sync_refs` | takes different lists of maintainers for equal when names repeat, so that a Project keeps a reference that is gone from the registry | `cmd/sync/main.go:390`, "compare sets by name" |

More disagreements that the models contain and that the properties are worded
around:

* `HasPendingInvitation` skips an accepted maintainer whose address is part of a
  pending one (`features/fossa/add-user-to-team.feature:40`);
* with two projects of one name, the label `fossa` sends the invitations and then panics
  without a comment, although every call succeeds (`store_impl.go:481`, `server.go:495`;
  `model/main.go:123` says names are unique);
* the annotation patch of the scanner operator writes the old resource's team into
  one that was deleted and recreated meanwhile (`codescannerfossa_types.go:41,94`);
  it forgets the hourly look at an invitation whose answer was lost
  (`code-scanners/README.md:127`), and runs again after each status update, which
  always holds new times (`code-scanners/README.md:128`);
* the scanner operator, with the same search, does not invite somebody whose address is
  part of a pending one (`code-scanners/README.md:127`);
* a bulk change of status is not in the audit log (`features/web/editing.feature:14`),
  nor is the membership of an existing maintainer who is added to another project
  without a change of name, email or company (`cmd/web-bff/main.go:2127`);
* `LinkServiceUserToTeam` stores its links without the team, so that each run of the
  bootstrap adds them again (`model/main.go:180`, "FK to ServiceTeam");
* a child listed above its parent in the sheet never gets it, and a company that was
  merged away makes every row that names it fail.

Two scenarios of `features/fossa/add-user-to-team.feature` are not implemented, as
the model says plainly: a refused command is not audited (line 33), and
`/fossa-invite accepted` asks for the label instead of creating a missing team (line
78; `server.go:185` says "do not create here per design").

Bounds. Two concurrent handlers of each kind meet every pairwise race, and a request
that was answered may come in again as a third; `Registry` needs three requests
because a merge, an edit and an addition interact. Namesakes are met in `onboarding_projects` only, where one delivery suffices for the
panic; two deliveries for two namesakes with one maintainer keep the inductive
invariant too, but with two maintainers they exceed the time of a run, and what
concurrent handlers of namesakes do to audit and membership rests on the theorems.
`MaxGen` counts edits of the
spec (two suffice for a reconcile of the first to overlap the second);
`MaxMishaps`, `MaxFaults` and `MaxChanges` the failures and interferences of a behaviour.
In `kdp_operator_mirror` one change and one failure already leave a stale cache, a
lost answer and a restart for each step; the instance with two Projects exceeds the
time of a run, and the one whose workspace is somebody else's (`Foreign = {p}`)
passes too. With one
workspace the run says nothing of bindings that are right in one workspace and not in
another; that is left to `NothingIsForgotten`. `MaxTime` exceeds the TTL by two, so that a list is filled, expires and
is filled again; sessions have a TTL of one and three ticks for the same reason;
`MaxOpens` bounds changes of GitHub's issues. Two runs of the bootstrap are one that
dies and one that completes, or one that completes and one that repeats it. Deadlock is checked wherever the
system cannot stop; `kdp_operator_mirror`, `registry_edits`, `web_session`
and `bootstrap_reruns` come to rest when their bounds are spent.

Fairness. `onboarding_projects`: each handler keeps running (Go schedules every
goroutine, and each call is assumed to return; the HTTP client has no timeout, so
this is an assumption about FOSSA). `fossa_operator_liveness`: the informer, the
timers, the resync and the worker keep running, which is what controller-runtime
does; nothing is assumed of people. `kdp_operator_mirror`: the same, with strong
fairness for the choice of the next key, as the work queue is first in, first out,
and a workspace that kcp initialises becomes ready. `crd_sync_mirror`: the CronJob
starts jobs for ever and a job goes on. Otherwise weak fairness: these steps are not disabled by somebody
else for good.

## 4. What is proved

Each `...Proofs` module proves its theorems for every value of the constants, from
the named assumptions of the module it extends. Every theorem of the form
`Spec => []P` follows from an inductive invariant (`IndInv`, and the second layers
named below) that TLC checked on the instances of section 3 before it was proved.

*Onboarding*: `TypeCorrectness`, `RowsAgree`, `PanicSafety`, `MembershipSafety`,
`AuditSafety`, `CommandSafety` and the action property `AuthoritySafety`. Rows agree
only because FOSSA's team names are unique and because a handler that carries a team
id carries one of its project's name; the invariant therefore adds `UniqueTeamNames` and,
for every program counter, what the handler knows (`HandlersOK`). That an addition is audited at
most once needs `HandlerAuditsItsOwn`: between the addition and its entry exactly
one handler holds the pair of team and person. All of them are about projects that may
share a name: `PanicSafety` names the one further way to the panic this opens, a row
of the team that belongs to a namesake. The last two theorems
need a second layer (`HandlersTrue`), which says of each handler what its report
promises so far, who gave the command, and that everyone it is through with has
been dealt with unless a call failed. It is an argument of rely and guarantee: `Growth`
says what any step may do to the tables and to FOSSA (nobody stops being a user,
a maintainer or a member, no team is renamed), every step satisfies it (`NextGrows`),
and what a handler has promised survives it (`TrueStays`); each action is then left with its
own handler.

*IssueCache*: `IssueCacheTypes`, `FreshAnswers`, `CompleteAnswers` and
`StaleOnlyIfOvertaken`. `FetchOK` relates what a request has fetched to the time
it came in, `CacheOK` relates the cache to its expiry; an answer inherits one or
the other. `NotOvertakenOK` says that a list no insertion has overtaken is right
as it stands, which the cache inherits when it is stored.

*WebSession*: `TypeCorrect`, `LoginsGiveOneSession`, and the action properties
`AdmissionsAreEarned` and `LogoutIsFinal`. States and sessions are handed out once;
the invariant says which callback holds which state, so that a state that was
consumed belongs to one callback or to one session.

*CodeScannerFossa*: `TypeCorrect`, `StatusStaysTrue`, `NothingIsForgotten` and the
action property `JoinersWereAsked`. Three ideas carry the invariant. `StatusOK` holds
of every version of the status (stored, cached, in hand) and survives the mixing of
two of them in `Decoded`; without its third part, that a status without a condition is empty,
the summary could come from one and the entries from the other. `RunOK` says what a reconcile has made
sure of at each step, for whichever version it works on. `FreshOK` says that as long as
the copy is the latest and the queue is empty, that version is the stored one: every
change behind its back is either on its way or queued. Falling asleep then
takes a status update that changed nothing, with nothing pending.

*KdpWorkspaces*: `TypeCorrect`, `NothingIsForgotten` and `ReconcilerMirrors`, the
refinement of `Mirror`. For a Project the invariant (`ProjectOK`) says which of the
queue, the running reconcile, the watch and the wait still has to do with it; for a
workspace `StaffOK` says who will still tell the staff reconciler. The refinement is
proved step by step: a step of the project reconciler is a look, a display, a pause or a
stutter.

*CrdSync*: `TypeCorrect`, `ReferencesResolve` and `SyncMirrors`. The first two need that kinds
are applied in the order in which they refer to each other, that the job deletes
nothing, and that a parent is a row whenever its child is, so that it is among the
Projects to copy (`Pending`), left by a job that ended (`owed`) or there. `SyncMirrors` assumes `NoSharedEmails`, that no two maintainers
have an email in common: a shared one makes the names of an object repeat,
which is where the code's comparison errs (run `crd_sync_refs`).

*Bootstrap*: `TypeCorrect`, `PeopleKeepTheirRows`, `ParentsAreAForest`, `RunsAreComplete`
and `RerunsChangeNothing`, for any worksheets whose cells are names or blank and any FOSSA
users (`SheetAssumption`, `FossaAssumption`), and any additions on the web, whose missing
email is no email (`AdditionsAssumption`). `PeopleKeepTheirRows` needs that, as long as
no row came in since an addition found nobody, nobody but a `doubtful` row has its
email (`NobodyYet`), and that who was given a company has one, so that an addition
does not fill it in (`GivenOK`). A blank cell is no maturity
(`BlankAssumption`: `Maturity.IsValid` accepts four names), and FOSSA lists a
team of a user once (`FossaTeamsAssumption`, an assumption about FOSSA: a team that is
listed twice and has a link already would get no second one). The parent in `job` stays a project until the row is imported,
since nothing deletes projects, and a project that is inserted is nobody's
parent yet; that gives the forest. That the carried cells are cells of the
sheet rests on `LeastNatural` and `GreatestNatural`, which say that `Min` and `Max` of the
library are what they should be (from the well-foundedness of `<`). The last two theorems
need a second layer (`RunInv`). `Progress` says what a run that nothing has disturbed
has brought in so far: the rows it has passed, the staff as the last row passed
has them, and for each FOSSA user it is through with a one-to-one map from teams to
links (`Linked`). `SettledOK` says how such a run differs from the
one it repeats: only in staff who have several rows, whose last row is
still to come (`StaffReturn`). It needs that each row of the worksheet
stands (`RowStands`), which holds if parents stand above their projects; otherwise a
row that failed in one run may succeed in the next, which is why
`RerunChangesNothing` asks for `InOrder`. A fault or an edit
ends both claims (`DisturbedOK`), and a new run starts them again from any tables.

*Registry*: `TypeCorrect`, `OnlyRacesStrand`, `DecisionsStand`, `OnlyRacesDuplicate`,
`RefusalsAreExcused` and `AuditIsComplete`, for any number of requests of any
kinds. They assume that an ask has what its handler demands (`AsksAssumption`) and
that the tables start without duplicates and without references to deleted companies
(`FirstAssumption`): what was wrong before no request is to blame for.
The invariant is one of rely and guarantee. `Traced(s)` says what a step of
request `s` may do: it marks every field that it changes, and it overlaps with
whoever is in service. `RequestOK(r)` says, for each statement that `r` may have got
to, that what it has read still holds, or that somebody who overlaps with it has
changed it; so one lemma (`OthersOK`) shows that no step of another request disturbs it, and each
action is left with its own request and the tables. A request that has overlapped
with none finds the tables as it left them (`LoneOK`), which makes its audit
entry complete.

Every safety invariant and every action property of a passing run is stated by a
theorem. Only model-checked, and why:

* `EveryDeliveryEnds`, `CatchesUp` of both operators and `ClusterCatchesUp`: they
  need fairness, which is outside the prover's reach.

## 5. Not modelled

Left out:

* the Snyk operator, whose reconcile is a subset of the FOSSA one; that both write a
  ConfigMap named after their resource, so that two resources of the same name
  overwrite each other, is visible from the code without a model;
* the read-only pages of the web backend, the parser of maintainer files, the one-off
  commands and the web user interface, which keep no state of their own;
* the test login of the web backend, which only a development configuration enables;
* hazards no run reaches: a webhook GitHub never delivers is not retried by anybody;
  a project created later is unknown to the webhook server until it restarts;
  expired sessions stay in memory; objects of deleted rows stay in the cluster;
  rows whose sanitized names are equal share one object;
* crash recovery of the databases, of GitHub, of FOSSA and of kcp themselves.
