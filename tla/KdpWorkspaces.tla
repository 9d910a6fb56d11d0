---------------------------- MODULE KdpWorkspaces -----------------------------
(***************************************************************************)
(* The KDP workspace operator (src/kdp-workspaces): the Project reconciler *)
(* creates a kcp workspace for every Project and writes its phase into the *)
(* Project's annotations and condition; the StaffMember reconciler writes  *)
(* a ClusterRoleBinding with all staff into every ready workspace.  Both   *)
(* run in one process, one worker each, and meet in the Project's phase    *)
(* annotation, whose change to Ready triggers the second.                  *)
(*                                                                         *)
(* kcp moves workspaces through their phases and nobody watches it there.  *)
(* Project metadata is read from an informer cache that lags behind the    *)
(* API server and delivers every version in order; status, staff members   *)
(* and kcp are read live.                                                  *)
(***************************************************************************)
EXTENDS Naturals, Sequences

CONSTANTS
  Projects,   \* names of Projects, hence of workspaces
  Foreign,    \* those whose workspace exists and is not managed by the operator
  Staff,      \* names of StaffMembers
  Emails,     \* values of spec.primaryEmail
  Trigger,    \* the key workspaceTrigger
  MaxChanges, \* bound: what users and kcp do to Projects, staff and workspaces
  MaxFaults,  \* bound: failing calls, lost answers and restarts
  MaxVersions \* bound: how many versions of a Project the informer may be behind

ASSUME ConstantsAssumption ==
  /\ Foreign \subseteq Projects
  /\ Trigger \notin Staff
  /\ MaxChanges \in Nat /\ MaxFaults \in Nat /\ MaxVersions \in Nat
  /\ Emails \cap {"absent", "none"} = {}

VARIABLES
  phase,    \* annotation of each Project; "none": not set, "absent": no Project
  cond,     \* its condition WorkspaceReady
  staff,    \* primaryEmail of each StaffMember; "none": empty, "absent": no object
  sync,     \* its annotation sync-status
  ws,       \* kcp: phase of each workspace, "absent" if there is none
  binding,  \* kcp: emails in cncf-staff-access; {} also if there is no binding
  cache,    \* informer: phase of each Project
  watch,    \* versions of each Project still to be delivered to the informer
  pqueue,   \* work queue of the project controller
  squeue,   \* work queue of the staff controller
  pr,       \* the running reconcile of a Project
  sr,       \* the running reconcile of staff
  changes, faults, \* how many are still to come
  unseen,   \* history: Projects whose workspace changed after it was last read
  missed    \* history: workspaces that became ready unannounced

api == <<phase, cond, staff, sync>>
kcp == <<ws, binding>>
informer == <<cache, watch>>
queues == <<pqueue, squeue>>
history == <<unseen, missed>>
vars == <<api, kcp, informer, queues, pr, sr, changes, faults, history>>
-----------------------------------------------------------------------------
\* Initializing stands for every phase before Ready, the empty one included.
WorkspacePhases == {"Initializing", "Ready", "Unavailable"}

\* reason of the condition; its status is True for WorkspaceReady alone.
\* CheckError stands for ConfigurationError, KCPConnectionError and
\* WorkspaceCheckError.
Reasons == {"none", "CheckError", "Creating", "CreationFailed", "WorkspaceReady",
            "WorkspaceNotReady"}

Managed(w) == w \notin Foreign

Subjects == {e \in Emails : \E s \in Staff : staff[s] = e}

Idle == [pc |-> "idle"]
ProjectReconcile ==
  [pc : {"condition", "create", "wait", "annotate"}, key : Projects,
   info : WorkspacePhases \cup {"none"},  \* phase in the WorkspaceInfo in hand
   reason : Reasons,                      \* of the condition to be written
   then : {"create", "retry", "requeue", "done"}]
StaffReconcile ==
  [pc : {"staff", "bind"}, key : Staff \cup {Trigger},
   todo : SUBSET Projects, subjects : SUBSET Emails,
   bound : SUBSET Projects, failed : SUBSET Projects]

TypeOK ==
  /\ phase \in [Projects -> WorkspacePhases \cup {"absent", "none"}]
  /\ cond \in [Projects -> Reasons]
  /\ staff \in [Staff -> Emails \cup {"absent", "none"}]
  /\ sync \in [Staff -> {"none", "success", "partial", "error"}]
  /\ ws \in [Projects -> WorkspacePhases \cup {"absent"}]
  /\ binding \in [Projects -> SUBSET Emails]
  /\ cache \in [Projects -> WorkspacePhases \cup {"absent", "none"}]
  /\ watch \in [Projects -> Seq(WorkspacePhases \cup {"absent", "none"})]
  /\ pqueue \subseteq Projects
  /\ squeue \subseteq Staff \cup {Trigger}
  /\ pr \in ProjectReconcile \cup {Idle}
  /\ sr \in StaffReconcile \cup {Idle}
  /\ changes \in 0..MaxChanges /\ faults \in 0..MaxFaults
  /\ unseen \subseteq Projects /\ missed \subseteq Projects

\* The operator starts for the first time, on Projects and staff of any kind.
Init ==
  /\ phase \in [Projects -> {"absent", "none"}]
  /\ cond = [p \in Projects |-> "none"]
  /\ staff \in [Staff -> Emails \cup {"absent", "none"}]
  /\ sync = [s \in Staff |-> "none"]
  /\ ws = [p \in Projects |-> IF p \in Foreign THEN "Ready" ELSE "absent"]
  /\ binding = [p \in Projects |-> {}]
  /\ cache = phase
  /\ watch = [p \in Projects |-> <<>>]
  /\ pqueue = {p \in Projects : phase[p] # "absent"}
  /\ squeue = {s \in Staff : staff[s] # "absent"}
  /\ pr = Idle /\ sr = Idle
  /\ changes = MaxChanges /\ faults = MaxFaults
  /\ unseen = {} /\ missed = {}
-----------------------------------------------------------------------------
\* How often something goes wrong.
Fault == faults > 0 /\ faults' = faults - 1

\* A Project has another phase, or comes or goes: a version for its watch.
Publish(p, x) ==
  /\ phase' = [phase EXCEPT ![p] = x]
  /\ Len(watch[p]) < MaxVersions
  /\ watch' = [watch EXCEPT ![p] = Append(@, x)]

\* Any other new version only queues the Project, and the delay of its event is
\* that of the queue.
Requeue(p) == pqueue' = pqueue \cup {p}

-----------------------------------------------------------------------------
\* The Project reconciler.

\* The reconcile ends.  An error or RequeueAfter adds the key again after a
\* delay, which is that of the queue.
Return(p, again) ==
  /\ pr' = Idle
  /\ IF again THEN Requeue(p) ELSE UNCHANGED pqueue

\* Variants: a workspace that exists is taken for a ready one; one that is not
\* found is taken for one in no phase; it is looked for in the wrong place.
InfoExists(p) == IF ws[p] = "absent" THEN "none" ELSE "Ready"
InfoUnchecked(p) == ws[p]
InfoMisplaced(p) == "none"

\* GetWorkspace: the phase, or no workspace.
GetWorkspace(p) == IF ws[p] = "absent" THEN "none" ELSE ws[p]

\* The cached Project; then the configuration, the client and the workspace.
\* A foreign workspace is found like one of the operator's own.
PStart(p) ==
  /\ pr = Idle
  /\ p \in pqueue
  /\ pqueue' = pqueue \ {p}
  /\ LET reconcile(pc, info, reason, then) ==
           /\ cache[p] # "absent"
           /\ pr' = [pc |-> pc, key |-> p, info |-> info, reason |-> reason, then |-> then]
     IN \/ cache[p] = "absent" /\ UNCHANGED <<pr, unseen, faults>>
        \/ /\ GetWorkspace(p) # "none"
           /\ reconcile("annotate", GetWorkspace(p), "none",
                        IF GetWorkspace(p) = "Ready" THEN "done" ELSE "requeue")
           /\ unseen' = unseen \ {p}
           /\ UNCHANGED faults
        \/ /\ GetWorkspace(p) = "none"
           /\ reconcile("condition", "none", "Creating", "create")
           /\ unseen' = unseen \ {p}
           /\ UNCHANGED faults
        \/ /\ Fault
           /\ reconcile("condition", "none", "CheckError", "retry")
           /\ UNCHANGED unseen
  /\ UNCHANGED <<api, kcp, informer, squeue, sr, changes, missed>>

\* CreateWorkspace fails because the name is taken, fails, is applied, or is
\* applied and its answer lost.
PCreate ==
  /\ pr.pc = "create"
  /\ LET p == pr.key
         applied == ws' = [ws EXCEPT ![p] = "Initializing"] /\ UNCHANGED binding
         failed == pr' = [pr EXCEPT !.pc = "condition", !.reason = "CreationFailed",
                                    !.then = "retry"]
     IN \/ /\ ws[p] = "absent"
           /\ applied
           /\ pr' = [pr EXCEPT !.pc = "wait", !.info = "Initializing"]
           /\ UNCHANGED faults
        \/ ws[p] # "absent" /\ failed /\ UNCHANGED <<kcp, faults>>
        \/ Fault /\ failed /\ (UNCHANGED kcp \/ (ws[p] = "absent" /\ applied))
  /\ UNCHANGED <<api, informer, queues, sr, changes, history>>

\* WaitForWorkspaceReady: ready; or gone, failing or out of time, after which
\* the status is written from what CreateWorkspace returned.  Polls that find
\* the workspace in another phase change nothing.
PWait ==
  /\ pr.pc = "wait"
  /\ LET p == pr.key IN
     \/ /\ GetWorkspace(p) = "Ready"
        /\ pr' = [pr EXCEPT !.pc = "annotate", !.info = "Ready", !.then = "done"]
        /\ unseen' = unseen \ {p}
        /\ UNCHANGED faults
     \/ /\ GetWorkspace(p) = "none"
        /\ pr' = [pr EXCEPT !.pc = "annotate", !.then = "retry"]
        /\ UNCHANGED <<faults, unseen>>
     \/ /\ Fault
        /\ pr' = [pr EXCEPT !.pc = "annotate", !.then = "retry"]
        /\ UNCHANGED unseen
  /\ UNCHANGED <<api, kcp, informer, queues, sr, changes, missed>>

\* The patch against the informer's copy changes the Project.
Differs(p) == cache[p] # pr.info /\ phase[p] # pr.info

\* updateWorkspaceStatus, first half: the patch holds what differs from the
\* informer's copy, and is sent to the Project of the API server.
PAnnotate ==
  /\ pr.pc = "annotate"
  /\ LET p == pr.key
         found == cache[p] # "absent" /\ phase[p] # "absent"
         patched == IF Differs(p)
                    THEN Publish(p, pr.info)
                    ELSE UNCHANGED <<phase, watch>>
     IN \/ /\ found
           /\ patched
           /\ pr' = [pr EXCEPT !.pc = "condition",
                     !.reason = IF pr.info = "Ready" THEN "WorkspaceReady"
                                                     ELSE "WorkspaceNotReady"]
           /\ UNCHANGED <<pqueue, faults>>
        \/ ~found /\ Return(p, TRUE) /\ UNCHANGED <<phase, watch, faults>>
        \/ Fault /\ Return(p, TRUE) /\ (UNCHANGED <<phase, watch>> \/ (found /\ patched))
  /\ UNCHANGED <<cond, staff, sync, kcp, cache, squeue, sr, changes, history>>

\* The reconcile returns an error or RequeueAfter.
Fails(err) == err \/ pr.then # "done"

\* updateCondition and what follows it.  Its error ends a reconcile that would
\* otherwise be done; where an error or a creation follows it is only logged.
\* The loop that rebuilds the stored condition drops its time, so that even a
\* repeated write may be a new version, as a Resync is.
PCondition ==
  /\ pr.pc = "condition"
  /\ LET p == pr.key
         written == cond' = [cond EXCEPT ![p] = pr.reason]
         next(err) ==
           IF pr.then = "create"
           THEN /\ pr' = [pr EXCEPT !.pc = "create"]
                /\ IF cond' # cond THEN Requeue(p) ELSE UNCHANGED pqueue
           ELSE Return(p, Fails(err) \/ cond' # cond)
     IN \/ phase[p] # "absent" /\ written /\ next(FALSE) /\ UNCHANGED faults
        \/ phase[p] = "absent" /\ UNCHANGED cond /\ next(TRUE) /\ UNCHANGED faults
        \/ Fault /\ (UNCHANGED cond \/ (phase[p] # "absent" /\ written)) /\ next(TRUE)
  /\ UNCHANGED <<phase, staff, sync, kcp, informer, squeue, sr, changes, history>>
-----------------------------------------------------------------------------
\* Events.

\* Variant: only the first time.
AnnouncesFirst(old, new) == new = "Ready" /\ old = "none"

\* projectToRequests behind ignoreSyncAnnotations.  An update maps the old and
\* the new object: a Project triggers the staff controller when its phase
\* becomes Ready, when it leaves Ready, and when it is deleted as Ready.
Announces(old, new) == "Ready" \in {old, new}

\* The watch delivers the next version to both controllers; that of Projects
\* has no predicate.
Deliver(p) ==
  /\ watch[p] # <<>>
  /\ LET new == Head(watch[p]) IN
     /\ cache' = [cache EXCEPT ![p] = new]
     /\ squeue' = IF Announces(cache[p], new) THEN squeue \cup {Trigger} ELSE squeue
  /\ watch' = [watch EXCEPT ![p] = Tail(@)]
  /\ Requeue(p)
  /\ UNCHANGED <<api, kcp, pr, sr, changes, faults, history>>

\* The project reconciler has something to do for p, or will have.
Busy(p) == p \in pqueue \/ watch[p] # <<>> \/ (pr # Idle /\ pr.key = p)

\* The periodic resync delivers an update without a change.  Its period of
\* hours finds the Project at rest.
Resync(p) ==
  /\ cache[p] # "absent"
  /\ ~Busy(p)
  /\ Requeue(p)
  /\ UNCHANGED <<api, kcp, informer, squeue, pr, sr, changes, faults, history>>

-----------------------------------------------------------------------------
\* The StaffMember reconciler.

\* The configuration, the client and ListManagedWorkspaces.  An error leaves the
\* key to be tried again.
SStart(k) ==
  /\ sr = Idle
  /\ k \in squeue
  /\ \/ /\ squeue' = squeue \ {k}
        /\ sr' = [pc |-> "staff", key |-> k, subjects |-> {}, bound |-> {}, failed |-> {},
                  todo |-> {w \in Projects : Managed(w) /\ ws[w] = "Ready"}]
        /\ UNCHANGED faults
     \/ Fault /\ UNCHANGED <<squeue, sr>>
  /\ UNCHANGED <<api, kcp, informer, pqueue, pr, changes, history>>

\* All staff members, read from the API server.
SReadStaff ==
  /\ sr.pc = "staff"
  /\ \/ /\ sr' = [sr EXCEPT !.pc = "bind", !.subjects = Subjects]
        /\ UNCHANGED <<squeue, faults>>
     \/ Fault /\ sr' = Idle /\ squeue' = squeue \cup {sr.key}
  /\ UNCHANGED <<api, kcp, informer, pqueue, pr, changes, history>>

\* CreateOrUpdateStaffBinding.  A workspace that went away fails; one that is
\* no longer ready may answer or not.
SBind(w) ==
  /\ sr.pc = "bind"
  /\ w \in sr.todo
  /\ LET applied == binding' = [binding EXCEPT ![w] = sr.subjects] /\ UNCHANGED ws
         failed == sr' = [sr EXCEPT !.todo = @ \ {w}, !.failed = @ \cup {w}]
     IN \/ /\ ws[w] # "absent"
           /\ applied
           /\ sr' = [sr EXCEPT !.todo = @ \ {w}, !.bound = @ \cup {w}]
           /\ missed' = missed \ {w}
           /\ UNCHANGED faults
        \/ ws[w] # "Ready" /\ failed /\ UNCHANGED <<kcp, faults, missed>>
        \/ Fault /\ failed /\ (UNCHANGED kcp \/ (ws[w] # "absent" /\ applied))
                 /\ UNCHANGED missed
  /\ UNCHANGED <<api, informer, queues, pr, changes, unseen>>

SyncStatus ==
  CASE sr.failed = {} -> "success"
    [] sr.failed # {} /\ sr.bound # {} -> "partial"
    [] sr.failed # {} /\ sr.bound = {} -> "error"

\* updateStaffMemberAnnotations, whose errors are ignored, and the return.
SFinish ==
  /\ sr.pc = "bind"
  /\ sr.todo = {}
  /\ sr' = Idle
  /\ squeue' = IF sr.failed # {} THEN squeue \cup {sr.key} ELSE squeue
  /\ \/ /\ sync' = [s \in Staff |-> IF s = sr.key /\ staff[s] # "absent"
                                     THEN SyncStatus ELSE sync[s]]
        /\ UNCHANGED faults
     \/ Fault /\ UNCHANGED sync
  /\ UNCHANGED <<phase, cond, staff, kcp, informer, pqueue, pr, changes, history>>
-----------------------------------------------------------------------------
\* Everybody else.

Change == changes > 0 /\ changes' = changes - 1

\* A Project appears or disappears.
UserProject(p) ==
  /\ Change
  /\ IF phase[p] = "absent"
     THEN Publish(p, "none") /\ UNCHANGED <<cond, missed>>
     ELSE /\ Publish(p, "absent")
          /\ cond' = [cond EXCEPT ![p] = "none"]
          /\ missed' = missed \cup {p}
  /\ UNCHANGED <<staff, sync, kcp, cache, queues, pr, sr, faults, unseen>>

\* A Project gets a new spec, and with it a new generation, which passes both
\* controllers' filters.
UserEdit(p) ==
  /\ Change
  /\ phase[p] # "absent"
  /\ Requeue(p)
  /\ squeue' = IF phase[p] = "Ready" THEN squeue \cup {Trigger} ELSE squeue
  /\ UNCHANGED <<api, kcp, informer, pr, sr, faults, history>>

\* A StaffMember appears, disappears or gets another address: all of these pass
\* the filter, while the operator's own annotations do not and have no event.
\* The members are read live, so the delay of the event is that of the queue.
UserStaff(s, e) ==
  /\ Change
  /\ staff[s] # e
  /\ staff' = [staff EXCEPT ![s] = e]
  /\ sync' = IF e = "absent" THEN [sync EXCEPT ![s] = "none"] ELSE sync
  /\ squeue' = squeue \cup {s}
  /\ UNCHANGED <<phase, cond, kcp, informer, pqueue, pr, sr, faults, history>>

\* A workspace is ready that nobody will hear of: the Project is gone, or it
\* is annotated Ready already.
Unannounced(w) == phase[w] \in {"absent", "Ready"}

KcpReady(w) ==
  /\ ws[w] \in {"Initializing", "Unavailable"}
  /\ ws' = [ws EXCEPT ![w] = "Ready"]
  /\ unseen' = IF ws[w] = "Unavailable" THEN unseen \cup {w} ELSE unseen
  /\ missed' = IF Unannounced(w) THEN missed \cup {w} ELSE missed
  /\ UNCHANGED <<api, binding, informer, queues, pr, sr, changes, faults>>

\* kcp loses a ready workspace for a while, or somebody deletes it.
KcpDisturb(w) ==
  /\ Change
  /\ Managed(w)
  /\ \/ ws[w] = "Ready" /\ ws' = [ws EXCEPT ![w] = "Unavailable"] /\ UNCHANGED binding
     \/ /\ ws[w] # "absent"
        /\ ws' = [ws EXCEPT ![w] = "absent"]
        /\ binding' = [binding EXCEPT ![w] = {}]
  /\ unseen' = unseen \cup {w}
  /\ UNCHANGED <<api, informer, queues, pr, sr, faults, missed>>

\* The process ends and starts again, or another one becomes the leader: its
\* informers list everything and deliver it as created.
Restart ==
  /\ Fault
  /\ cache' = phase
  /\ watch' = [p \in Projects |-> <<>>]
  /\ pqueue' = {p \in Projects : phase[p] # "absent"}
  /\ squeue' = {s \in Staff : staff[s] # "absent"}
                 \cup {k \in {Trigger} : \E p \in Projects : phase[p] = "Ready"}
  /\ pr' = Idle /\ sr' = Idle
  /\ missed' = missed \cup {p \in Projects : phase[p] = "absent"}
  /\ UNCHANGED <<api, kcp, changes, unseen>>
-----------------------------------------------------------------------------
PNext ==
  \/ \E p \in Projects : PStart(p) \/ Deliver(p) \/ Resync(p)
  \/ PCreate \/ PWait \/ PAnnotate \/ PCondition

SNext ==
  \/ \E k \in Staff \cup {Trigger} : SStart(k)
  \/ \E w \in Projects : SBind(w)
  \/ SReadStaff \/ SFinish

Others ==
  \/ \E p \in Projects : UserProject(p) \/ UserEdit(p) \/ KcpReady(p) \/ KcpDisturb(p)
  \/ \E s \in Staff : \E e \in Emails \cup {"absent", "none"} : UserStaff(s, e)
  \/ Restart

Next == PNext \/ SNext \/ Others

Spec == Init /\ [][Next]_vars

\* Each worker takes its next step as long as it has one, and its queue is
\* first in, first out; watches deliver, informers resync, and kcp
\* finishes the workspaces it has begun.
Fairness ==
  /\ WF_vars(PCreate \/ PWait \/ PAnnotate \/ PCondition)
  /\ WF_vars(SReadStaff \/ SFinish \/ \E w \in Projects : SBind(w))
  /\ \A p \in Projects : /\ SF_vars(PStart(p))
                         /\ WF_vars(Deliver(p))
                         /\ WF_vars(Resync(p))
                         /\ WF_vars(KcpReady(p))
  /\ \A k \in Staff \cup {Trigger} : SF_vars(SStart(k))

FairSpec == Spec /\ Fairness
-----------------------------------------------------------------------------
\* The condition that belongs to a phase.
ReasonOf(x) == IF x = "Ready" THEN "WorkspaceReady" ELSE "WorkspaceNotReady"

\* The annotation and the condition of p tell the phase of its workspace.
Mirrored(p) == phase[p] = ws[p] /\ cond[p] = ReasonOf(ws[p])

\* A version still to be delivered will trigger the staff controller.
Announcing(p) ==
  \E i \in 1..Len(watch[p]) :
    Announces(IF i = 1 THEN cache[p] ELSE watch[p][i - 1], watch[p][i])

\* The staff controller has something to do that will reach w.
StaffBusy(w) ==
  \/ squeue # {}
  \/ sr # Idle /\ sr.pc = "staff" /\ w \in sr.todo
  \/ sr # Idle /\ sr.pc = "bind" /\ w \in sr.todo /\ sr.subjects = Subjects
  \/ sr # Idle /\ sr.failed # {}

\* Whatever fails, is retried, is lost or is read from a stale cache, the
\* project reconciler never comes to rest on a Project whose annotation or
\* condition is not that of its workspace, unless kcp changed the workspace
\* after the reconciler last read it (Reconcile, project_controller.go).
ProjectsNotForgotten ==
  \A p \in Projects :
    phase[p] # "absent" /\ p \notin unseen /\ ~Busy(p) => Mirrored(p)

\* A ready workspace of the operator grants access to exactly the present
\* staff, or a pass of the staff reconciler that will see to it is under way,
\* queued, or will be queued by an event of a Project or a StaffMember; only
\* workspaces that became ready behind the operator's back are left out
\* (Reconcile and SetupWithManager, staffmember_controller.go).
StaffNotForgotten ==
  \A w \in Projects :
    Managed(w) /\ ws[w] = "Ready" /\ w \notin missed
      => \/ binding[w] = Subjects
         \/ StaffBusy(w)
         \/ Announcing(w)
         \/ phase[w] # "Ready" /\ Busy(w)

\* Neither reconciler comes to rest on unfinished work.
NothingForgotten == ProjectsNotForgotten /\ StaffNotForgotten

\* Once users and kcp leave it alone, every Project ends up with a workspace
\* and with the annotation and condition that tell its phase.
ProjectsMirrored == <>[](\A p \in Projects : phase[p] # "absent" => Mirrored(p))

\* Once users and kcp leave it alone, every ready workspace that was announced
\* grants access to exactly the present staff.
StaffBound ==
  <>[](\A w \in Projects :
         Managed(w) /\ ws[w] = "Ready" /\ w \notin missed => binding[w] = Subjects)

\* The operator catches up with both.
CatchesUp == ProjectsMirrored /\ StaffBound

\* The project reconciler as a controller that mirrors phases.
ShownPhase == [p \in Projects |-> IF phase[p] = "absent" THEN "none" ELSE phase[p]]
InHand == [p \in Projects |-> IF pr # Idle /\ pr.key = p THEN pr.info ELSE "none"]
Abstract == INSTANCE Mirror
  WITH Keys <- Projects, Values <- WorkspacePhases \cup {"absent"}, Blank <- "none",
       source <- ws, seen <- InHand, shown <- ShownPhase,
       used <- {p \in Projects : phase[p] # "absent"},
       due <- {p \in Projects : Busy(p) \/ p \in unseen}

\* Every step of the operator is one that Mirror allows: an annotation is only
\* ever a phase the workspace had when the running reconcile read it, and the
\* operator stops owing work on a Project only while the phase is the present
\* one (updateWorkspaceStatus and the returns of Reconcile).
ImplementsMirror == Abstract!Spec
===============================================================================
