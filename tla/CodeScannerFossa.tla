--------------------------- MODULE CodeScannerFossa ---------------------------
(***************************************************************************)
(* The FOSSA code scanner operator                                         *)
(* (src/code-scanners/internal/controller/codescannerfossa_controller.go): *)
(* Reconcile, one action per call it makes, for one CodeScannerFossa        *)
(* resource, together with the API server, the informer cache and the work *)
(* queue that decide what it reads and when it runs again, and FOSSA.       *)
(*                                                                         *)
(* The work queue never runs two reconciles of one resource at a time, so  *)
(* there is one handler; everybody else who edits the resource, the        *)
(* ConfigMap, the secret or FOSSA interleaves with its calls.  FOSSA keeps *)
(* team names unique (see Onboarding), so a team is its project's name.    *)
(***************************************************************************)
EXTENDS Naturals

CONSTANTS
  Projects,   \* values of spec.projectName
  People,     \* email addresses
  Lists,      \* values of spec.fossaUserEmails
  Embeds,     \* <<n, u>>: the address u is a substring of the address n
  MaxGen,     \* bound: generations of the resource, one per edit of its spec
  MaxMishaps, \* bound: failing calls and interferences in a behaviour
  None

ASSUME ConstantsAssumption ==
  /\ Embeds \subseteq People \X People
  /\ Lists \subseteq SUBSET People
  /\ MaxGen \in Nat \ {0}
  /\ MaxMishaps \in Nat
  /\ Projects # {}
  /\ None \notin Projects \cup People

VARIABLES
  cr,         \* the resource on the API server
  cache,      \* the informer's copy of it
  synced,     \* the copy is the latest version
  configMap,  \* the team named by the ConfigMap; None: absent or edited
  secret,     \* the secret with the FOSSA credentials is complete
  teams,      \* FOSSA: the teams
  members,    \* FOSSA: members of each team
  account,    \* FOSSA: what each person is in the organisation
  queued,     \* the work queue holds the resource
  timer,      \* a RequeueAfter of one hour is pending
  r,          \* the running reconcile
  mishaps,    \* how many failures and interferences are still to come
  asked,      \* history: <<project, person>> the resource has asked for
  removed     \* history: <<project, person>> taken out of a team by hand

fossa == <<teams, members, account>>
history == <<asked, removed>>
vars == <<cr, cache, synced, configMap, secret, fossa, queued, timer, r, mishaps, history>>
-----------------------------------------------------------------------------
\* Both failures have the status "Failed", with different messages.
FailedStatus == {"SendFailed", "CheckFailed"}
InvitationStatus == {"none", "Pending", "Accepted", "AddedToTeam"} \cup FailedStatus

\* CodeScannerFossaStatus.  Conditions are kept by reason.  The times and texts
\* of the invitations are left out, but see Store; so are configMapRef and the
\* condition ConfigMapReady, which never change once they are set.
Status ==
  [observed : 0..MaxGen,
   team  : Projects \cup {None},
   inv   : [People -> InvitationStatus],
   ready : {"unset", "TeamCreated", "CredentialsNotFound", "APIError"},
   processed : {"unset", "TeamMembershipProcessed", "InvitationsFailed",
                "InvitationsPartiallyProcessed", "NoInvitationsRequested"}]

NoInvitations == [u \in People |-> "none"]

NoStatus ==
  [observed |-> 0, team |-> None, inv |-> NoInvitations,
   ready |-> "unset", processed |-> "unset"]

Resource ==
  [exists : BOOLEAN, gen : 1..MaxGen, project : Projects, emails : SUBSET People,
   annotated : BOOLEAN, status : Status]

\* No resource.
Blank ==
  [exists |-> FALSE, gen |-> 1, project |-> CHOOSE p \in Projects : TRUE, emails |-> {},
   annotated |-> FALSE, status |-> NoStatus]

Pc == {"idle", "credentials", "team", "configMap", "users", "invite", "send",
       "teamEmails", "add", "annotate", "status"}

Reconciler ==
  [pc      : Pc,
   obj     : Resource,            \* fossaCR
   current : BOOLEAN,             \* fossaCR has the latest resourceVersion
   todo    : SUBSET People,       \* entries the loop has not reached yet
   cur     : People \cup {None},
   known   : SUBSET People,       \* userEmails, then teamMemberSet
   inv     : [People -> InvitationStatus],  \* invitations
   pending : BOOLEAN,             \* hasPending
   then    : {"done", "missing", "retry"},  \* what follows the status update
   trouble : BOOLEAN]             \* some call of this reconcile failed

Idle(trouble) ==
  [pc |-> "idle", obj |-> Blank, current |-> FALSE, todo |-> {}, cur |-> None,
   known |-> {}, inv |-> NoInvitations, pending |-> FALSE,
   then |-> "done", trouble |-> trouble]

At(pc) == r.pc = pc

\* Variants: the team is taken from the status; from the resource as it is now.
TeamOfStatus == r.obj.status.team
TeamOfStored == cr.project

\* teamName: spec.projectName of the resource Reconcile has read.
Team == r.obj.project

\* A call fails or somebody interferes.
Mishap == mishaps > 0 /\ mishaps' = mishaps - 1
Smooth == UNCHANGED mishaps

\* Nothing fails or interferes any more.
Calm == mishaps = 0

\* Reconcile returns an error: the queue takes the resource back.
Retry == r' = Idle(TRUE) /\ queued' = TRUE

\* The entry of u is decided; the loop goes on at "loop" or ends at "after".
Decided(u, status, loop, after) ==
  [r EXCEPT !.inv[u] = status,
            !.todo = @ \ {u},
            !.cur = None,
            !.pc = IF r.todo = {u} THEN after ELSE loop,
            !.pending = @ \/ status = "Pending",
            !.trouble = @ \/ status \in FailedStatus]

Users == {u \in People : account[u] = "user"}

\* Client.HasPendingInvitation: a substring search.
HasPendingInvitation(u) ==
  \E n \in People : account[n] = "pending" /\ (n = u \/ <<n, u>> \in Embeds)

\* A write to the resource on the API server.  One that changes nothing, the
\* times and texts in it included, is no new version, and the informer hears of
\* nothing.
Store(resource, newTexts) ==
  /\ cr' = resource
  /\ synced' = (synced /\ resource = cr /\ ~newTexts)
-----------------------------------------------------------------------------
Init ==
  /\ cr = Blank /\ cache = Blank /\ synced = TRUE
  /\ configMap = None
  /\ secret = TRUE
  /\ teams = {}
  /\ members = [p \in Projects |-> {}]
  /\ account = [u \in People |-> "none"]
  /\ queued = FALSE /\ timer = FALSE
  /\ r = Idle(FALSE)
  /\ mishaps = MaxMishaps
  /\ asked = {} /\ removed = {}
-----------------------------------------------------------------------------
(***************************************************************************)
(* controller-runtime: what makes the operator run.  SetupWithManager      *)
(* watches the resource and the ConfigMaps it owns, without predicates.    *)
(***************************************************************************)

\* The watch event of the latest version.
Sync ==
  /\ ~synced
  /\ cache' = cr /\ synced' = TRUE /\ queued' = TRUE
  /\ UNCHANGED <<cr, configMap, secret, fossa, timer, r, mishaps, history>>

Fire ==
  /\ timer
  /\ timer' = FALSE /\ queued' = TRUE
  /\ UNCHANGED <<cr, cache, synced, configMap, secret, fossa, r, mishaps, history>>

\* The informer's periodic resync (ten hours unless configured).
Resync ==
  /\ cache.exists /\ ~queued
  /\ queued' = TRUE
  /\ UNCHANGED <<cr, cache, synced, configMap, secret, fossa, timer, r, mishaps, history>>
-----------------------------------------------------------------------------
(***************************************************************************)
(* Reconcile.                                                              *)
(***************************************************************************)

Started == [Idle(FALSE) EXCEPT !.pc = "credentials", !.obj = cache, !.current = synced]

\* Variant: a generation that was reconciled before is not looked at again.
GetNewGeneration ==
  /\ At("idle") /\ queued /\ Smooth
  /\ queued' = FALSE
  /\ r' = IF cache.exists /\ cache.status.observed # cache.gen THEN Started ELSE Idle(FALSE)
  /\ UNCHANGED <<cr, cache, synced, configMap, secret, fossa, timer, history>>

\* Step 1: the resource comes from the cache; one that is gone is ignored.
Get ==
  /\ At("idle") /\ queued
  /\ \/ /\ Smooth
        /\ queued' = FALSE
        /\ r' = IF cache.exists THEN Started ELSE Idle(FALSE)
     \/ Mishap /\ Retry
  /\ UNCHANGED <<cr, cache, synced, configMap, secret, fossa, timer, history>>

\* Step 3: getFossaCredentials.  Without them only the condition is written.
GetFossaCredentials ==
  /\ At("credentials")
  /\ \/ /\ secret /\ Smooth
        /\ r' = [r EXCEPT !.pc = "team"]
     \/ /\ (~secret /\ Smooth) \/ Mishap
        /\ r' = [r EXCEPT !.pc = "status", !.then = "missing", !.trouble = TRUE,
                          !.obj.status.ready = "CredentialsNotFound"]
  /\ UNCHANGED <<cr, cache, synced, configMap, secret, fossa, queued, timer, history>>

\* Steps 5 and 6: ensureFossaTeam fetches the team or creates it.
EnsureFossaTeam ==
  /\ At("team")
  /\ \/ /\ Smooth
        /\ teams' = teams \cup {Team}
        /\ r' = [r EXCEPT !.pc = "configMap", !.obj.status.observed = r.obj.gen,
                          !.obj.status.team = Team, !.obj.status.ready = "TeamCreated"]
     \/ /\ Mishap
        /\ teams' \in {teams, teams \cup {Team}}
        /\ r' = [r EXCEPT !.pc = "status", !.then = "retry", !.trouble = TRUE,
                          !.obj.status.ready = "APIError"]
  /\ UNCHANGED <<cr, cache, synced, configMap, secret, members, account, queued, timer, history>>

\* Step 7: the ConfigMap is created, or updated if its data differ.  The
\* operator owns it, so a change comes back as an event.
EnsureConfigMap ==
  /\ At("configMap")
  /\ \/ /\ Smooth
        /\ configMap' = Team
        /\ queued' = (queued \/ configMap # Team)
        /\ r' = [r EXCEPT !.pc = IF r.obj.emails = {} THEN "annotate" ELSE "users"]
     \/ /\ Mishap
        /\ configMap' \in {configMap, Team}
        /\ Retry
  /\ UNCHANGED <<cr, cache, synced, secret, fossa, timer, history>>

\* Step 8.1, ensureUserInvitations: a failed FetchUsers leaves no invitations
\* and nothing pending.
FetchUsers ==
  /\ At("users")
  /\ \/ /\ Smooth
        /\ r' = [r EXCEPT !.pc = "invite", !.known = Users, !.todo = r.obj.emails]
     \/ /\ Mishap
        /\ r' = [r EXCEPT !.pc = "teamEmails", !.trouble = TRUE]
  /\ UNCHANGED <<cr, cache, synced, configMap, secret, fossa, queued, timer, history>>

\* One turn of the loop over the addresses up to SendUserInvitation.
CheckInvitation(u) ==
  /\ At("invite")
  /\ u \in r.todo
  /\ \/ /\ u \in r.known /\ Smooth
        /\ r' = Decided(u, "Accepted", "invite", "teamEmails")
     \/ /\ u \notin r.known /\ HasPendingInvitation(u) /\ Smooth
        /\ r' = Decided(u, "Pending", "invite", "teamEmails")
     \/ /\ u \notin r.known /\ ~HasPendingInvitation(u) /\ Smooth
        /\ r' = [r EXCEPT !.pc = "send", !.cur = u]
     \/ /\ u \notin r.known /\ Mishap
        /\ r' = Decided(u, "CheckFailed", "invite", "teamEmails")
  /\ UNCHANGED <<cr, cache, synced, configMap, secret, fossa, queued, timer, history>>

\* SendUserInvitation, with ErrInviteAlreadyExists and ErrUserAlreadyMember.
SendUserInvitation ==
  LET u == r.cur
      invited == [account EXCEPT ![u] = IF @ = "none" THEN "pending" ELSE @]
  IN  /\ At("send")
      /\ \/ /\ account[u] # "user" /\ Smooth
            /\ account' = invited
            /\ r' = Decided(u, "Pending", "invite", "teamEmails")
         \/ /\ account[u] = "user" /\ Smooth
            /\ r' = Decided(u, "Accepted", "invite", "teamEmails")
            /\ UNCHANGED account
         \/ /\ Mishap
            /\ account' \in {account, invited}
            /\ r' = Decided(u, "SendFailed", "invite", "teamEmails")
      /\ UNCHANGED <<cr, cache, synced, configMap, secret, teams, members, queued, timer, history>>

\* Variant: the accepted are compared with the organisation, not with the team.
FetchOrganisationEmails ==
  LET accepted == {u \in People : r.inv[u] = "Accepted"}
  IN  /\ At("teamEmails") /\ Smooth
      /\ r' = [r EXCEPT !.pc = IF accepted = {} THEN "annotate" ELSE "add",
                        !.known = Users, !.todo = accepted]
      /\ UNCHANGED <<cr, cache, synced, configMap, secret, fossa, queued, timer, history>>

\* Step 8.2, ensureTeamMembership: only accepted people are dealt with.
FetchTeamUserEmails ==
  LET accepted == {u \in People : r.inv[u] = "Accepted"}
  IN  /\ At("teamEmails")
      /\ \/ /\ Smooth
            /\ r' = [r EXCEPT !.pc = IF accepted = {} THEN "annotate" ELSE "add",
                              !.known = members[Team], !.todo = accepted]
         \/ /\ Mishap
            /\ r' = [r EXCEPT !.pc = "annotate", !.trouble = TRUE]
      /\ UNCHANGED <<cr, cache, synced, configMap, secret, fossa, queued, timer, history>>

\* Variant: a failed call counts as done.
AddUserToTeamAnyway(u) ==
  /\ At("add")
  /\ u \in r.todo
  /\ r' = Decided(u, "AddedToTeam", "add", "annotate")
  /\ \/ members' = [members EXCEPT ![Team] = @ \cup {u}] /\ Smooth
     \/ UNCHANGED members /\ Mishap
  /\ UNCHANGED <<cr, cache, synced, configMap, secret, teams, account, queued, timer, history>>

\* AddUserToTeamByEmail; one who is in the team already is as good as added.
AddUserToTeam(u) ==
  LET joined == [members EXCEPT ![Team] = @ \cup {u}]
  IN  /\ At("add")
      /\ u \in r.todo
      /\ \/ /\ u \in r.known /\ Smooth
            /\ r' = Decided(u, "AddedToTeam", "add", "annotate")
            /\ UNCHANGED members
         \/ /\ u \notin r.known /\ Smooth
            /\ members' = joined
            /\ r' = Decided(u, "AddedToTeam", "add", "annotate")
         \/ /\ u \notin r.known /\ Mishap
            /\ members' \in {members, joined}
            /\ r' = [Decided(u, "Accepted", "add", "annotate") EXCEPT !.trouble = TRUE]
      /\ UNCHANGED <<cr, cache, synced, configMap, secret, teams, account, queued, timer, history>>

\* Step 8.3: the condition that sums the invitations up.
Processed ==
  LET listed == {u \in People : r.inv[u] # "none"}
      on(status) == {u \in People : r.inv[u] = status}
  IN  IF r.obj.emails = {} THEN "NoInvitationsRequested"
      ELSE IF listed # {} /\ on("AddedToTeam") = listed THEN "TeamMembershipProcessed"
      ELSE IF listed # {} /\ on("SendFailed") \cup on("CheckFailed") = listed THEN "InvitationsFailed"
      ELSE "InvitationsPartiallyProcessed"

\* The status Reconcile has built when it comes to step 9.
Built == [r.obj.status EXCEPT !.inv = r.inv, !.processed = Processed]

\* The answer to the Patch is decoded over fossaCR: what the stored status
\* holds replaces what was built, what it leaves out stays.
Decoded(stored, built) ==
  LET conditions == IF stored.ready = "unset" THEN built ELSE stored
  IN  [observed |-> IF stored.observed = 0 THEN built.observed ELSE stored.observed,
       team  |-> IF stored.team = None THEN built.team ELSE stored.team,
       inv   |-> IF stored.inv = NoInvitations THEN built.inv ELSE stored.inv,
       ready |-> conditions.ready, processed |-> conditions.processed]

\* Step 9: the annotation, patched without an optimistic lock if it is missing.
Annotate ==
  LET goOn == [r EXCEPT !.pc = "status", !.then = "done", !.known = {}]
  IN  /\ At("annotate")
      /\ \/ /\ r.obj.annotated /\ Smooth
            /\ r' = [goOn EXCEPT !.obj.status = Built]
            /\ UNCHANGED <<cr, synced, queued>>
         \/ /\ ~r.obj.annotated /\ cr.exists /\ Smooth
            /\ Store([cr EXCEPT !.annotated = TRUE], FALSE)
            /\ r' = [goOn EXCEPT !.current = TRUE,
                       !.obj = [cr EXCEPT !.annotated = TRUE,
                                          !.status = Decoded(cr.status, Built)]]
            /\ UNCHANGED queued
         \/ /\ ~r.obj.annotated
            /\ (~cr.exists /\ Smooth) \/ Mishap
            /\ Retry
            /\ UNCHANGED <<cr, synced>>
      /\ UNCHANGED <<cache, configMap, secret, fossa, timer, history>>

\* Variant: pending invitations are not waited for.
RequeueAccepted == \E u \in People : r.inv[u] = "Accepted"

\* requeueAfter: something is pending, or accepted and not in the team.
Requeue == r.pending \/ \E u \in People : r.inv[u] = "Accepted"

\* Step 10, and the status updates of the two early returns.
UpdateStatus ==
  /\ At("status")
  /\ \/ /\ cr.exists /\ r.current /\ Smooth
        /\ \E newTexts \in IF r.then = "done" /\ r.obj.emails # {} THEN BOOLEAN ELSE {FALSE} :
             Store([cr EXCEPT !.status = r.obj.status], newTexts)
        /\ IF r.then = "retry"
           THEN Retry /\ UNCHANGED timer
           ELSE /\ r' = Idle(r.trouble)
                /\ timer' = (timer \/ (r.then = "done" /\ Requeue))
                /\ UNCHANGED queued
     \/ /\ (~(cr.exists /\ r.current) /\ Smooth) \/ Mishap
        /\ Retry
        /\ UNCHANGED <<cr, synced, timer>>
  /\ UNCHANGED <<cache, configMap, secret, fossa, history>>
-----------------------------------------------------------------------------
(***************************************************************************)
(* Everybody else, and the process itself.                                 *)
(***************************************************************************)

\* The resource in hand is no longer the latest version.
Outdated == r' = [r EXCEPT !.current = FALSE]

WithSpec(resource, p, emails) == [resource EXCEPT !.project = p, !.emails = emails]

CreateResource(p, emails) ==
  /\ ~cr.exists
  /\ Store(WithSpec([Blank EXCEPT !.exists = TRUE], p, emails), FALSE)
  /\ asked' = asked \cup ({p} \X emails)
  /\ Outdated
  /\ UNCHANGED <<cache, configMap, secret, fossa, queued, timer, mishaps, removed>>

EditSpec(p, emails) ==
  /\ Mishap /\ cr.exists /\ cr.gen < MaxGen
  /\ WithSpec(cr, p, emails) # cr
  /\ Store([WithSpec(cr, p, emails) EXCEPT !.gen = @ + 1], FALSE)
  /\ asked' = asked \cup ({p} \X emails)
  /\ Outdated
  /\ UNCHANGED <<cache, configMap, secret, fossa, queued, timer, removed>>

DropAnnotation ==
  /\ Mishap /\ cr.exists /\ cr.annotated
  /\ Store([cr EXCEPT !.annotated = FALSE], FALSE)
  /\ Outdated
  /\ UNCHANGED <<cache, configMap, secret, fossa, queued, timer, history>>

\* The garbage collector takes the owned ConfigMap with the resource.
DeleteResource ==
  /\ Mishap /\ cr.exists
  /\ Store(Blank, FALSE)
  /\ configMap' = None
  /\ Outdated
  /\ UNCHANGED <<cache, secret, fossa, queued, timer, history>>

\* Edited or deleted by hand, or collected with an earlier owner.
EditConfigMap ==
  /\ Mishap /\ configMap # None
  /\ configMap' = None
  /\ queued' = TRUE
  /\ UNCHANGED <<cr, cache, synced, secret, fossa, timer, r, history>>

EditSecret ==
  /\ Mishap
  /\ secret' = ~secret
  /\ UNCHANGED <<cr, cache, synced, configMap, fossa, queued, timer, r, history>>

RemoveMember(p, u) ==
  /\ Mishap /\ u \in members[p]
  /\ members' = [members EXCEPT ![p] = @ \ {u}]
  /\ removed' = removed \cup {<<p, u>>}
  /\ UNCHANGED <<cr, cache, synced, configMap, secret, teams, account, queued, timer, r, asked>>

\* The onboarding server or staff invite or add the same people.
InviteElsewhere(u) ==
  /\ Mishap /\ account[u] = "none"
  /\ account' = [account EXCEPT ![u] = "pending"]
  /\ UNCHANGED <<cr, cache, synced, configMap, secret, teams, members, queued, timer, r, history>>

AddElsewhere(p, u) ==
  /\ Mishap /\ p \in teams /\ account[u] = "user" /\ u \notin members[p]
  /\ members' = [members EXCEPT ![p] = @ \cup {u}]
  /\ UNCHANGED <<cr, cache, synced, configMap, secret, teams, account, queued, timer, r, history>>

AcceptInvitation(u) ==
  /\ account[u] = "pending"
  /\ account' = [account EXCEPT ![u] = "user"]
  /\ UNCHANGED <<cr, cache, synced, configMap, secret, teams, members, queued, timer, r, mishaps, history>>

ExpireInvitation(u) ==
  /\ account[u] = "pending"
  /\ account' = [account EXCEPT ![u] = "none"]
  /\ UNCHANGED <<cr, cache, synced, configMap, secret, teams, members, queued, timer, r, mishaps, history>>

\* The process ends; the next one lists the resources anew and has no timers.
Restart ==
  /\ Mishap
  /\ r' = Idle(FALSE)
  /\ cache' = cr /\ synced' = TRUE
  /\ queued' = cr.exists /\ timer' = FALSE
  /\ UNCHANGED <<cr, configMap, secret, fossa, history>>
-----------------------------------------------------------------------------
Reconcile ==
  \/ Get \/ GetFossaCredentials \/ EnsureFossaTeam \/ EnsureConfigMap
  \/ FetchUsers \/ (\E u \in People : CheckInvitation(u)) \/ SendUserInvitation
  \/ FetchTeamUserEmails \/ (\E u \in People : AddUserToTeam(u))
  \/ Annotate \/ UpdateStatus

Environment ==
  \/ \E p \in Projects, emails \in Lists : CreateResource(p, emails) \/ EditSpec(p, emails)
  \/ DropAnnotation \/ DeleteResource \/ EditConfigMap \/ EditSecret
  \/ \E p \in Projects, u \in People : RemoveMember(p, u) \/ AddElsewhere(p, u)
  \/ \E u \in People : InviteElsewhere(u) \/ AcceptInvitation(u) \/ ExpireInvitation(u)
  \/ Restart

Next == Sync \/ Fire \/ Resync \/ Reconcile \/ Environment

Spec == Init /\ [][Next]_vars

\* The informer, the timers and the worker of controller-runtime keep running.
FairSpec == Spec /\ WF_vars(Sync) /\ WF_vars(Fire) /\ WF_vars(Resync) /\ WF_vars(Reconcile)
-----------------------------------------------------------------------------
\* The state is well formed.
TypeOK ==
  /\ cr \in Resource /\ cache \in Resource
  /\ {synced, secret, queued, timer} \subseteq BOOLEAN
  /\ configMap \in Projects \cup {None}
  /\ teams \subseteq Projects
  /\ members \in [Projects -> SUBSET People]
  /\ account \in [People -> {"none", "pending", "user"}]
  /\ r \in Reconciler
  /\ mishaps \in 0..MaxMishaps
  /\ asked \subseteq Projects \X People /\ removed \subseteq Projects \X People

\* However stale the resource it works on, the operator puts into a team only
\* people that the resource has at some time asked for in that very project.
JoinedWereAsked ==
  [][\A p \in Projects :
       r' # r => {p} \X (members'[p] \ members[p]) \subseteq asked]_vars

\* What the stored status claims is so, whichever of its parts come from an
\* earlier reconcile, from this one or from the answer to the patch: the team
\* exists, whoever is "AddedToTeam" is in a team this resource asked for unless
\* taken out by hand, and the summary condition agrees with the entries.
StatusIsTrue ==
  /\ cr.status.ready = "TeamCreated" => cr.status.team \in teams
  /\ cr.status.processed = "TeamMembershipProcessed" =>
       \A u \in People : cr.status.inv[u] \in {"none", "AddedToTeam"}
  /\ \A u \in People : cr.status.inv[u] = "AddedToTeam" =>
       \E p \in Projects : /\ <<p, u>> \in asked
                           /\ u \in members[p] \/ <<p, u>> \in removed

\* Nothing will run the operator again before the next resync.
Asleep == At("idle") /\ ~queued /\ ~timer /\ synced

\* The operator does not fall asleep on unfinished work: unless its last
\* reconcile met an error, the status is the one of the latest generation, the
\* ConfigMap names the team and everybody asked for is in the team.
NothingForgotten ==
  Asleep /\ cr.exists /\ ~r.trouble =>
    /\ cr.status.observed = cr.gen
    /\ cr.status.ready = "TeamCreated"
    /\ cr.status.team = cr.project
    /\ configMap = cr.project
    /\ \A u \in cr.emails : cr.status.inv[u] = "AddedToTeam"

\* The address of u is part of the address of somebody whose invitation is
\* pending: HasPendingInvitation takes that invitation for the one of u.
Masked(u) == \E n \in People \ {u} : account[n] = "pending" /\ <<n, u>> \in Embeds

\* Whatever failed before, once nothing fails any more everybody asked for is
\* invited as long as they have not joined the organisation.  The exception is
\* one masked by the pending invitation of another: nobody invites u before
\* that invitation is accepted or expires ...
EveryoneInvited ==
  \A u \in People : Calm /\ secret /\ u \in cr.emails ~> account[u] # "none" \/ Masked(u)

\* ... and whoever accepts gets into the team, for good.
AcceptedJoin ==
  \A u \in People : Calm /\ secret /\ u \in cr.emails /\ account[u] = "user"
                      ~> [](u \in members[cr.project])

\* The status catches up with what was done and stays right.
StatusCatchesUp ==
  Calm /\ secret /\ cr.exists /\ cr.emails \subseteq Users ~>
    [](/\ cr.status.observed = cr.gen
       /\ cr.status.ready = "TeamCreated"
       /\ configMap = cr.project
       /\ \A u \in cr.emails : cr.status.inv[u] = "AddedToTeam")

\* The operator catches up with all three.
CatchesUp == EveryoneInvited /\ AcceptedJoin /\ StatusCatchesUp
=============================================================================
