------------------------- MODULE KdpWorkspacesProofs --------------------------
(***************************************************************************)
(* Theorems about KdpWorkspaces, for any Projects and staff, and any       *)
(* number of changes and failures.                                         *)
(***************************************************************************)
EXTENDS KdpWorkspaces, SequenceTheorems, TLAPS

\* The informer of p is behind by the versions still to be delivered.
InformerOK(p) ==
  IF watch[p] = <<>> THEN cache[p] = phase[p] ELSE watch[p][Len(watch[p])] = phase[p]

\* What the running reconcile of a Project has in hand.
InHandOK ==
  pr # Idle =>
    /\ pr.pc \in {"create", "wait"} => pr.then = "create"
    /\ pr.pc \in {"wait", "annotate"} => pr.info # "none"
    /\ pr.then = "done" => /\ pr.pc \in {"annotate", "condition"} /\ pr.info = "Ready"
                           /\ pr.pc = "condition" => pr.reason = "WorkspaceReady"

\* Nothing will make the project reconciler start with p.
Quiet(p) == phase[p] # "absent" /\ p \notin pqueue /\ watch[p] = <<>>

\* A reconcile that will not be repeated is about to finish a Ready Project.
Finishing(p) ==
  pr.then = "done" => /\ pr.pc = "condition" => phase[p] = "Ready"
                      /\ p \notin unseen => ws[p] = "Ready"

\* The reconciler rests on a Project only if it is Ready.
AtRest(p) ==
  /\ phase[p] = "Ready" /\ cond[p] = "WorkspaceReady"
  /\ p \notin unseen => ws[p] = "Ready"

ProjectOK(p) ==
  /\ InformerOK(p)
  /\ Quiet(p) => IF pr # Idle /\ pr.key = p THEN Finishing(p) ELSE AtRest(p)

\* A pass over the workspaces that holds old staff will be repeated.
SubjectsOK == sr # Idle /\ sr.pc = "bind" => sr.subjects = Subjects \/ squeue # {}

\* A ready workspace has its staff, or will be seen to.
StaffOK(w) ==
  Managed(w) /\ ws[w] = "Ready" /\ w \notin missed
    => \/ binding[w] = Subjects
       \/ StaffBusy(w)
       \/ Announcing(w)
       \/ phase[w] \notin {"absent", "Ready"}

\* The inductive invariant.
IndInv ==
  /\ TypeOK
  /\ InHandOK /\ \A p \in Projects : ProjectOK(p)
  /\ SubjectsOK /\ \A w \in Projects : StaffOK(w)
-----------------------------------------------------------------------------
Phases == WorkspacePhases \cup {"absent", "none"}

\* A worker that is not idle has a well-formed reconcile.
LEMMA Running ==
  ASSUME TypeOK
  PROVE  /\ pr # Idle => pr \in ProjectReconcile /\ pr.key \in Projects
         /\ pr.pc # "idle" => pr # Idle
         /\ sr # Idle => sr \in StaffReconcile
         /\ sr.pc # "idle" => sr # Idle
BY DEF TypeOK, Idle, ProjectReconcile

\* A phase read from kcp.
LEMMA GetType ==
  ASSUME TypeOK, NEW p \in Projects
  PROVE  /\ GetWorkspace(p) \in WorkspacePhases \cup {"none"}
         /\ GetWorkspace(p) # "none" => ws[p] = GetWorkspace(p)
         /\ GetWorkspace(p) = "none" <=> ws[p] = "absent"
BY DEF TypeOK, GetWorkspace, WorkspacePhases

\* What a published version leaves behind.
LEMMA Published ==
  ASSUME TypeOK, NEW p \in Projects, NEW x \in Phases, Publish(p, x)
  PROVE  /\ phase' \in [Projects -> Phases] /\ watch' \in [Projects -> Seq(Phases)]
         /\ phase' = [phase EXCEPT ![p] = x] /\ phase'[p] = x
         /\ watch'[p] # <<>> /\ watch'[p][Len(watch'[p])] = x
         /\ \A q \in Projects \ {p} : phase'[q] = phase[q] /\ watch'[q] = watch[q]
         /\ Len(watch'[p]) = Len(watch[p]) + 1 /\ Len(watch[p]) \in Nat
         /\ \A i \in 1..Len(watch[p]) : watch'[p][i] = watch[p][i]
<1>1. watch[p] \in Seq(Phases) /\ watch \in [Projects -> Seq(Phases)]
      /\ phase \in [Projects -> Phases]
  BY DEF TypeOK, Phases
<1>2. watch' = [watch EXCEPT ![p] = Append(watch[p], x)] /\ phase' = [phase EXCEPT ![p] = x]
  BY DEF Publish
<1>3. Append(watch[p], x) \in Seq(Phases) /\ Len(Append(watch[p], x)) = Len(watch[p]) + 1
      /\ Append(watch[p], x)[Len(watch[p]) + 1] = x /\ Len(watch[p]) \in Nat
      /\ \A i \in 1..Len(watch[p]) : Append(watch[p], x)[i] = watch[p][i]
  BY <1>1
<1>4. Append(watch[p], x) # <<>>
  BY <1>1, <1>3
<1> QED BY <1>1, <1>2, <1>3, <1>4

\* A version on its way to the informer is one more chance to announce.
LEMMA PublishAnnounces ==
  ASSUME TypeOK, NEW p \in Projects, NEW x \in Phases, Publish(p, x), UNCHANGED cache
  PROVE  /\ x = "Ready" => Announcing(p)'
         /\ \A w \in Projects : Announcing(w) => Announcing(w)'
<1>1. /\ watch'[p][Len(watch'[p])] = x /\ Len(watch'[p]) = Len(watch[p]) + 1
      /\ Len(watch[p]) \in Nat /\ \A i \in 1..Len(watch[p]) : watch'[p][i] = watch[p][i]
      /\ \A q \in Projects \ {p} : watch'[q] = watch[q]
  BY Published
<1>2. x = "Ready" => Announcing(p)'
  <2> SUFFICES ASSUME x = "Ready"
               PROVE  \E i \in 1..Len(watch'[p]) :
                        Announces(IF i = 1 THEN cache'[p] ELSE watch'[p][i - 1], watch'[p][i])
    BY DEF Announcing
  <2>1. Len(watch'[p]) \in 1..Len(watch'[p]) /\ watch'[p][Len(watch'[p])] = "Ready"
    BY <1>1
  <2> QED BY <2>1 DEF Announces
<1>3. Announcing(p) => Announcing(p)'
  <2> SUFFICES ASSUME NEW i \in 1..Len(watch[p]),
                      Announces(IF i = 1 THEN cache[p] ELSE watch[p][i - 1], watch[p][i])
               PROVE  \E j \in 1..Len(watch'[p]) :
                        Announces(IF j = 1 THEN cache'[p] ELSE watch'[p][j - 1], watch'[p][j])
    BY DEF Announcing
  <2>1. i \in 1..Len(watch'[p]) /\ watch'[p][i] = watch[p][i]
    BY <1>1
  <2>2. i # 1 => watch'[p][i - 1] = watch[p][i - 1]
    BY <1>1
  <2> QED BY <2>1, <2>2
<1>4. ASSUME NEW w \in Projects \ {p}, Announcing(w) PROVE Announcing(w)'
  BY <1>1, <1>4 DEF Announcing
<1> QED BY <1>2, <1>3, <1>4

\* The initial states satisfy the invariant.
LEMMA InitOK == Init => IndInv
<1> SUFFICES ASSUME Init PROVE IndInv
  OBVIOUS
<1> USE ConstantsAssumption
<1>1. TypeOK
  BY DEF Init, TypeOK, WorkspacePhases, Reasons
<1>2. InHandOK /\ SubjectsOK
  BY DEF Init, InHandOK, SubjectsOK
<1>3. ASSUME NEW p \in Projects PROVE ProjectOK(p)
  BY DEF Init, ProjectOK, InformerOK, Quiet
<1>4. ASSUME NEW w \in Projects PROVE StaffOK(w)
  BY DEF Init, StaffOK, Managed
<1> QED BY <1>1, <1>2, <1>3, <1>4 DEF IndInv
-----------------------------------------------------------------------------
\* Every step keeps the types: those of the project reconciler,
LEMMA ProjectTypes ==
  ASSUME TypeOK, PNext
  PROVE  TypeOK'
<1> USE ConstantsAssumption
<1>f. Fault => faults' \in 0..MaxFaults
  BY DEF Fault, TypeOK
<1>1. ASSUME NEW p \in Projects, PStart(p) PROVE TypeOK'
  <2>1. pr' \in ProjectReconcile \cup {Idle}
    BY <1>1, GetType DEF PStart, TypeOK, ProjectReconcile, Reasons
  <2>2. faults' \in 0..MaxFaults /\ unseen' \subseteq Projects /\ pqueue' \subseteq Projects
    BY <1>1, <1>f DEF PStart, TypeOK
  <2> QED BY <1>1, <2>1, <2>2 DEF PStart, TypeOK, api, kcp, informer
<1>2. ASSUME NEW p \in Projects, Deliver(p) PROVE TypeOK'
  <2>0. watch[p] \in Seq(Phases) /\ watch[p] # <<>>
    BY <1>2 DEF TypeOK, Phases, Deliver
  <2>1. Head(watch[p]) \in Phases /\ Tail(watch[p]) \in Seq(Phases)
    BY <2>0
  <2>2. cache' \in [Projects -> Phases] /\ watch' \in [Projects -> Seq(Phases)]
    BY <1>2, <2>1 DEF Deliver, TypeOK, Phases
  <2>3. squeue' \subseteq Staff \cup {Trigger} /\ pqueue' \subseteq Projects
    BY <1>2 DEF Deliver, TypeOK, Requeue
  <2> QED BY <1>2, <2>2, <2>3 DEF Deliver, TypeOK, api, kcp, history, Phases
<1>3. ASSUME NEW p \in Projects, Resync(p) PROVE TypeOK'
  BY <1>3 DEF Resync, TypeOK, Requeue, api, kcp, informer, history
<1>4. CASE PCreate
  <2>1. pr \in ProjectReconcile /\ pr.key \in Projects
    BY <1>4, Running DEF PCreate
  <2>2. pr' \in ProjectReconcile
    BY <1>4, <2>1 DEF PCreate, ProjectReconcile, WorkspacePhases, Reasons
  <2>3. ws' \in [Projects -> WorkspacePhases \cup {"absent"}] /\ UNCHANGED binding
    BY <1>4, <2>1 DEF PCreate, TypeOK, WorkspacePhases, kcp
  <2>4. faults' \in 0..MaxFaults
    BY <1>4, <1>f DEF PCreate, TypeOK
  <2> QED BY <1>4, <2>2, <2>3, <2>4 DEF PCreate, TypeOK, api, informer, queues, history
<1>5. CASE PWait
  <2>1. pr \in ProjectReconcile /\ pr.key \in Projects
    BY <1>5, Running DEF PWait
  <2>2. pr' \in ProjectReconcile
    BY <1>5, <2>1 DEF PWait, ProjectReconcile, WorkspacePhases
  <2>3. faults' \in 0..MaxFaults /\ unseen' \subseteq Projects
    BY <1>5, <1>f DEF PWait, TypeOK
  <2> QED BY <1>5, <2>2, <2>3 DEF PWait, TypeOK, api, kcp, informer, queues
<1>6. CASE PAnnotate
  <2>1. pr \in ProjectReconcile /\ pr.key \in Projects /\ pr.info \in Phases
    BY <1>6, Running DEF PAnnotate, ProjectReconcile, Phases
  <2>2. pr' \in ProjectReconcile \cup {Idle}
    BY <1>6, <2>1 DEF PAnnotate, Return, ProjectReconcile, Reasons
  <2>3. phase' \in [Projects -> Phases] /\ watch' \in [Projects -> Seq(Phases)]
    <3>1. Publish(pr.key, pr.info) \/ UNCHANGED <<phase, watch>>
      BY <1>6 DEF PAnnotate
    <3> QED BY <2>1, <3>1, Published DEF TypeOK, Phases
  <2>4. faults' \in 0..MaxFaults /\ pqueue' \subseteq Projects
    BY <1>6, <1>f, <2>1 DEF PAnnotate, TypeOK, Return, Requeue
  <2> QED BY <1>6, <2>2, <2>3, <2>4 DEF PAnnotate, TypeOK, kcp, history, Phases
<1>7. CASE PCondition
  <2>1. pr \in ProjectReconcile /\ pr.key \in Projects /\ pr.reason \in Reasons
    BY <1>7, Running DEF PCondition, ProjectReconcile
  <2>2. pr' \in ProjectReconcile \cup {Idle}
    BY <1>7, <2>1 DEF PCondition, Return, ProjectReconcile
  <2>3. cond' \in [Projects -> Reasons]
    <3>1. cond' = [cond EXCEPT ![pr.key] = pr.reason] \/ cond' = cond
      BY <1>7 DEF PCondition
    <3>2. cond \in [Projects -> Reasons]
      BY DEF TypeOK
    <3> QED BY <2>1, <3>1, <3>2
  <2>4. faults' \in 0..MaxFaults
    BY <1>7, <1>f DEF PCondition, TypeOK
  <2>5. pqueue' \subseteq Projects
    <3>1. pqueue' = pqueue \cup {pr.key} \/ pqueue' = pqueue
      BY <1>7 DEF PCondition, Return, Requeue
    <3> QED BY <2>1, <3>1 DEF TypeOK
  <2> QED BY <1>7, <2>2, <2>3, <2>4, <2>5 DEF PCondition, TypeOK, kcp, informer, history
<1> QED BY <1>1, <1>2, <1>3, <1>4, <1>5, <1>6, <1>7 DEF PNext

\* those of the staff reconciler,
LEMMA StaffTypes ==
  ASSUME TypeOK, SNext
  PROVE  TypeOK'
<1> USE ConstantsAssumption
<1>f. Fault => faults' \in 0..MaxFaults
  BY DEF Fault, TypeOK
<1>1. ASSUME NEW k \in Staff \cup {Trigger}, SStart(k) PROVE TypeOK'
  <2>1. sr' \in StaffReconcile \cup {Idle}
    BY <1>1 DEF SStart, TypeOK, StaffReconcile
  <2>2. faults' \in 0..MaxFaults /\ squeue' \subseteq Staff \cup {Trigger}
    BY <1>1, <1>f DEF SStart, TypeOK
  <2> QED BY <1>1, <2>1, <2>2 DEF SStart, TypeOK, api, kcp, informer, history
<1>2. ASSUME NEW w \in Projects, SBind(w) PROVE TypeOK'
  <2>1. sr \in StaffReconcile /\ sr.subjects \subseteq Emails
    BY <1>2, Running DEF SBind, StaffReconcile
  <2>2. sr' \in StaffReconcile
    <3>1. \/ sr' = [sr EXCEPT !.todo = @ \ {w}, !.failed = @ \cup {w}]
          \/ sr' = [sr EXCEPT !.todo = @ \ {w}, !.bound = @ \cup {w}]
      BY <1>2 DEF SBind
    <3>2. /\ sr.todo \ {w} \in SUBSET Projects
          /\ sr.failed \cup {w} \in SUBSET Projects /\ sr.bound \cup {w} \in SUBSET Projects
      BY <2>1 DEF StaffReconcile
    <3>3. [sr EXCEPT !.todo = @ \ {w}, !.failed = @ \cup {w}] \in StaffReconcile
      BY <2>1, <3>2 DEF StaffReconcile
    <3>4. [sr EXCEPT !.todo = @ \ {w}, !.bound = @ \cup {w}] \in StaffReconcile
      BY <2>1, <3>2 DEF StaffReconcile
    <3> QED BY <3>1, <3>3, <3>4
  <2>3. binding' \in [Projects -> SUBSET Emails] /\ UNCHANGED ws
    BY <1>2, <2>1 DEF SBind, TypeOK, kcp
  <2>4. faults' \in 0..MaxFaults /\ missed' \subseteq Projects
    BY <1>2, <1>f DEF SBind, TypeOK
  <2> QED BY <1>2, <2>2, <2>3, <2>4 DEF SBind, TypeOK, api, informer, queues
<1>3. CASE SReadStaff
  <2>1. sr \in StaffReconcile /\ sr.key \in Staff \cup {Trigger} /\ Subjects \subseteq Emails
    BY <1>3, Running DEF SReadStaff, StaffReconcile, Subjects
  <2>2. sr' \in StaffReconcile \cup {Idle}
    BY <1>3, <2>1 DEF SReadStaff, StaffReconcile
  <2>3. faults' \in 0..MaxFaults /\ squeue' \subseteq Staff \cup {Trigger}
    BY <1>3, <1>f, <2>1 DEF SReadStaff, TypeOK
  <2> QED BY <1>3, <2>2, <2>3 DEF SReadStaff, TypeOK, api, kcp, informer, history
<1>4. CASE SFinish
  <2>1. sr \in StaffReconcile /\ sr.key \in Staff \cup {Trigger}
    BY <1>4, Running DEF SFinish, StaffReconcile
  <2>2. SyncStatus \in {"success", "partial", "error"}
    BY DEF SyncStatus
  <2>3. sync' \in [Staff -> {"none", "success", "partial", "error"}]
    BY <1>4, <2>2 DEF SFinish, TypeOK
  <2>4. faults' \in 0..MaxFaults /\ squeue' \subseteq Staff \cup {Trigger}
    BY <1>4, <1>f, <2>1 DEF SFinish, TypeOK
  <2> QED BY <1>4, <2>3, <2>4 DEF SFinish, TypeOK, kcp, informer, history
<1> QED BY <1>1, <1>2, <1>3, <1>4 DEF SNext

\* and those of everybody else.
LEMMA OtherTypes ==
  ASSUME TypeOK, Others
  PROVE  TypeOK'
<1> USE ConstantsAssumption
<1>f. /\ Fault => faults' \in 0..MaxFaults
      /\ Change => changes' \in 0..MaxChanges
  BY DEF Fault, Change, TypeOK
<1>1. ASSUME NEW p \in Projects, UserProject(p) PROVE TypeOK'
  <2>1. PICK x \in {"none", "absent"} : Publish(p, x)
    BY <1>1 DEF UserProject
  <2>2. phase' \in [Projects -> Phases] /\ watch' \in [Projects -> Seq(Phases)]
    BY <2>1, Published DEF Phases
  <2>3. cond' \in [Projects -> Reasons] /\ missed' \subseteq Projects
    <3>1. \/ cond' = [cond EXCEPT ![p] = "none"] /\ missed' = missed \cup {p}
          \/ cond' = cond /\ missed' = missed
      BY <1>1 DEF UserProject
    <3>2. cond \in [Projects -> Reasons] /\ missed \subseteq Projects
      BY DEF TypeOK
    <3> QED BY <3>1, <3>2 DEF Reasons
  <2> QED BY <1>1, <1>f, <2>2, <2>3 DEF UserProject, TypeOK, kcp, queues, Phases
<1>2. ASSUME NEW p \in Projects, UserEdit(p) PROVE TypeOK'
  BY <1>2, <1>f DEF UserEdit, TypeOK, Requeue, api, kcp, informer, history
<1>3. ASSUME NEW p \in Projects, KcpReady(p) PROVE TypeOK'
  <2>1. ws' \in [Projects -> WorkspacePhases \cup {"absent"}]
    BY <1>3 DEF KcpReady, TypeOK, WorkspacePhases
  <2> QED BY <1>3, <2>1 DEF KcpReady, TypeOK, api, informer, queues
<1>4. ASSUME NEW p \in Projects, KcpDisturb(p) PROVE TypeOK'
  <2>1. /\ ws' \in [Projects -> WorkspacePhases \cup {"absent"}]
        /\ binding' \in [Projects -> SUBSET Emails]
    BY <1>4 DEF KcpDisturb, TypeOK, WorkspacePhases
  <2> QED BY <1>4, <1>f, <2>1 DEF KcpDisturb, TypeOK, api, informer, queues
<1>5. ASSUME NEW s \in Staff, NEW e \in Emails \cup {"absent", "none"}, UserStaff(s, e)
      PROVE  TypeOK'
  <2>1. /\ staff' \in [Staff -> Emails \cup {"absent", "none"}]
        /\ sync' \in [Staff -> {"none", "success", "partial", "error"}]
    BY <1>5 DEF UserStaff, TypeOK
  <2> QED BY <1>5, <1>f, <2>1 DEF UserStaff, TypeOK, kcp, informer, history
<1>6. CASE Restart
  <2>1. watch' \in [Projects -> Seq(Phases)]
    BY <1>6 DEF Restart
  <2> QED BY <1>6, <1>f, <2>1 DEF Restart, TypeOK, api, kcp, Phases
<1> QED BY <1>1, <1>2, <1>3, <1>4, <1>5, <1>6 DEF Others
-----------------------------------------------------------------------------
\* The project reconciler has p in hand.
Holds(p) == pr # Idle /\ pr.key = p

\* A Project that a step does not concern.
LEMMA ProjectFrame ==
  ASSUME NEW q, ProjectOK(q), phase'[q] = phase[q], cond'[q] = cond[q], ws'[q] = ws[q],
         cache'[q] = cache[q], watch'[q] = watch[q], q \in pqueue' <=> q \in pqueue,
         q \in unseen' <=> q \in unseen, UNCHANGED pr \/ (~Holds(q) /\ ~Holds(q)')
  PROVE  ProjectOK(q)'
<1>1. InformerOK(q)' /\ (Quiet(q)' <=> Quiet(q)) /\ (AtRest(q)' <=> AtRest(q))
  BY DEF ProjectOK, InformerOK, Quiet, AtRest
<1>2. UNCHANGED pr => (Finishing(q)' <=> Finishing(q))
  BY DEF Finishing
<1> QED BY <1>1, <1>2 DEF ProjectOK, Holds

\* A Project of which something is on its way to the reconciler.
LEMMA NotQuiet ==
  ASSUME NEW p, InformerOK(p)', p \in pqueue' \/ watch'[p] # <<>> \/ phase'[p] = "absent"
  PROVE  ProjectOK(p)'
BY DEF ProjectOK, Quiet

\* The steps of the running reconcile concern its Project alone.
LEMMA StartProjectsOK ==
  ASSUME IndInv, NEW p \in Projects, PStart(p)
  PROVE  InHandOK' /\ \A q \in Projects : ProjectOK(q)'
<1>0. /\ TypeOK /\ ProjectOK(p) /\ pr = Idle /\ pqueue' = pqueue \ {p}
      /\ UNCHANGED <<phase, cond, ws, cache, watch>>
  BY DEF IndInv, PStart, api, kcp, informer
<1>a. InformerOK(p)'
  BY <1>0 DEF ProjectOK, InformerOK
<1>1. ASSUME NEW q \in Projects \ {p} PROVE ProjectOK(q)'
  <2>1. /\ q \in unseen' <=> q \in unseen
        /\ UNCHANGED pr \/ pr'.key = p
    BY DEF PStart
  <2> QED BY <1>0, <2>1, ProjectFrame DEF IndInv, Holds
<1>2. CASE cache[p] = "absent"
  <2>1. UNCHANGED pr
    BY <1>2 DEF PStart
  <2>2. phase[p] = "absent" \/ watch[p] # <<>>
    BY <1>0, <1>2 DEF ProjectOK, InformerOK
  <2> QED BY <1>0, <1>1, <1>a, <2>1, <2>2, NotQuiet DEF InHandOK
<1>3. CASE cache[p] # "absent"
  <2>1. /\ pr' # Idle /\ pr'.key = p
        /\ \/ /\ pr'.pc = "annotate" /\ pr'.info = GetWorkspace(p) /\ pr'.info # "none"
              /\ pr'.then = IF GetWorkspace(p) = "Ready" THEN "done" ELSE "requeue"
           \/ pr'.pc = "condition" /\ pr'.then \in {"create", "retry"}
    BY <1>3 DEF PStart, Idle
  <2>2. InHandOK'
    BY <2>1 DEF InHandOK
  <2>3. Finishing(p)'
    BY <1>0, <2>1, GetType DEF Finishing
  <2> QED BY <1>1, <1>a, <2>1, <2>2, <2>3 DEF ProjectOK
<1> QED BY <1>2, <1>3

LEMMA CreateAndWaitProjectsOK ==
  ASSUME IndInv, PCreate \/ PWait
  PROVE  InHandOK' /\ \A q \in Projects : ProjectOK(q)'
<1>p. PICK p \in Projects : p = pr.key
  BY Running DEF IndInv, PCreate, PWait
<1> USE <1>p
<1>0. /\ TypeOK /\ p \in Projects /\ pr \in ProjectReconcile /\ pr # Idle
      /\ UNCHANGED <<phase, cond, cache, watch, pqueue>>
      /\ pr.then = "create"
  BY Running DEF IndInv, InHandOK, PCreate, PWait, api, informer, queues
<1>1. /\ pr' # Idle /\ pr'.key = p
      /\ pr'.pc \in {"create", "wait"} => pr'.then = "create"
      /\ pr'.pc \in {"wait", "annotate"} => pr'.info # "none"
      /\ pr'.then = "done" => pr'.pc = "annotate" /\ pr'.info = "Ready" /\ ws'[p] = "Ready"
  <2>1. CASE PCreate
    BY <1>0, <2>1 DEF PCreate, ProjectReconcile, Idle
  <2>2. CASE PWait
    <3>1. pr.info # "none" /\ UNCHANGED ws
      BY <1>0, <2>2 DEF IndInv, InHandOK, PWait, kcp
    <3> QED BY <1>0, <2>2, <3>1, GetType DEF PWait, ProjectReconcile, Idle
  <2> QED BY <2>1, <2>2
<1>2. ASSUME NEW q \in Projects, q # p PROVE ProjectOK(q)'
  <2>1. q \in unseen' <=> q \in unseen
    BY <1>2 DEF PCreate, PWait, history
  <2>2. ws'[q] = ws[q]
    BY <1>0, <1>2 DEF PCreate, PWait, TypeOK, kcp
  <2> QED BY <1>0, <1>1, <1>2, <2>1, <2>2, ProjectFrame DEF IndInv, Holds
<1>3. ProjectOK(p)'
  <2>1. InformerOK(p)'
    BY <1>0 DEF IndInv, ProjectOK, InformerOK
  <2>2. Finishing(p)'
    BY <1>0, <1>1 DEF Finishing
  <2> QED BY <1>1, <2>1, <2>2 DEF ProjectOK
<1>4. InHandOK'
  BY <1>1 DEF InHandOK
<1> QED BY <1>2, <1>3, <1>4

LEMMA AnnotateProjectsOK ==
  ASSUME IndInv, PAnnotate
  PROVE  InHandOK' /\ \A q \in Projects : ProjectOK(q)'
<1>p. PICK p \in Projects : p = pr.key
  BY Running DEF IndInv, PAnnotate
<1> USE <1>p
<1>0. /\ TypeOK /\ p \in Projects /\ pr \in ProjectReconcile /\ pr # Idle /\ pr.pc = "annotate"
      /\ UNCHANGED <<cond, cache, ws, unseen>> /\ pr.info \in Phases /\ ProjectOK(p)
  BY Running DEF IndInv, PAnnotate, kcp, history, ProjectReconcile, Phases
<1>1. /\ \/ Publish(p, pr.info)
         \/ UNCHANGED <<phase, watch>>
      /\ \/ pr' = Idle /\ pqueue' = pqueue \cup {p}
         \/ /\ pr' = [pr EXCEPT !.pc = "condition",
                      !.reason = IF pr.info = "Ready" THEN "WorkspaceReady"
                                                      ELSE "WorkspaceNotReady"]
            /\ UNCHANGED pqueue
            /\ ~Differs(p) => UNCHANGED <<phase, watch>>
            /\ Differs(p) => Publish(p, pr.info)
  BY DEF PAnnotate, Return, Requeue
<1>2. pr' = Idle \/ pr'.key = p
  BY <1>0, <1>1 DEF ProjectReconcile
<1>3. ASSUME NEW q \in Projects, q # p PROVE ProjectOK(q)'
  <2>1. phase'[q] = phase[q] /\ watch'[q] = watch[q]
    BY <1>0, <1>1, <1>3, Published
  <2>2. q \in pqueue' <=> q \in pqueue
    BY <1>1, <1>3
  <2> QED BY <1>0, <1>2, <1>3, <2>1, <2>2, ProjectFrame DEF IndInv, Holds
<1>4. InformerOK(p)'
  BY <1>0, <1>1, Published DEF ProjectOK, InformerOK
<1>5. ProjectOK(p)' /\ InHandOK'
  <2>1. CASE pr' = Idle /\ pqueue' = pqueue \cup {p}
    BY <1>4, <2>1, NotQuiet DEF InHandOK
  <2>2. CASE /\ pr' = [pr EXCEPT !.pc = "condition",
                       !.reason = IF pr.info = "Ready" THEN "WorkspaceReady"
                                                       ELSE "WorkspaceNotReady"]
             /\ UNCHANGED pqueue
             /\ ~Differs(p) => UNCHANGED <<phase, watch>>
             /\ Differs(p) => Publish(p, pr.info)
    <3>1. /\ pr' # Idle /\ pr'.key = p /\ pr'.pc = "condition" /\ pr'.info = pr.info
          /\ pr'.then = pr.then
          /\ pr.info = "Ready" => pr'.reason = "WorkspaceReady"
      BY <1>0, <2>2 DEF ProjectReconcile, Idle
    <3>2. InHandOK'
      BY <1>0, <3>1 DEF InHandOK, IndInv
    <3>3. CASE Differs(p)
      BY <1>0, <1>4, <2>2, <3>2, <3>3, Published, NotQuiet
    <3>4. CASE ~Differs(p)
      <4>1. UNCHANGED <<phase, watch, pqueue>>
        BY <2>2, <3>4
      <4>2. ASSUME Quiet(p)' PROVE Finishing(p)'
        <5>1. Quiet(p)
          BY <4>1, <4>2 DEF Quiet
        <5>2. phase[p] = pr.info
          BY <1>0, <3>4, <5>1 DEF ProjectOK, InformerOK, Quiet, Differs
        <5>3. Finishing(p)
          BY <1>0, <5>1 DEF ProjectOK
        <5>4. pr.then = "done" => pr.info = "Ready"
          BY <1>0 DEF IndInv, InHandOK
        <5> QED BY <1>0, <3>1, <4>1, <5>2, <5>3, <5>4 DEF Finishing
      <4> QED BY <1>4, <3>1, <3>2, <4>2 DEF ProjectOK
    <3> QED BY <3>3, <3>4
  <2> QED BY <1>1, <2>1, <2>2
<1> QED BY <1>3, <1>5

LEMMA ConditionProjectsOK ==
  ASSUME IndInv, PCondition
  PROVE  InHandOK' /\ \A q \in Projects : ProjectOK(q)'
<1>p. PICK p \in Projects : p = pr.key
  BY Running DEF IndInv, PCondition
<1> USE <1>p
<1>0. /\ TypeOK /\ p \in Projects /\ pr \in ProjectReconcile /\ pr # Idle /\ pr.pc = "condition"
      /\ UNCHANGED <<phase, cache, watch, ws, unseen>> /\ ProjectOK(p) /\ InHandOK
  BY Running DEF IndInv, PCondition, kcp, informer, history
<1>1. /\ cond' = [cond EXCEPT ![p] = pr.reason] \/ UNCHANGED cond
      /\ pqueue' = pqueue \cup {p} \/ UNCHANGED pqueue
      /\ \/ pr.then = "create" /\ pr' = [pr EXCEPT !.pc = "create"]
         \/ pr.then # "create" /\ pr' = Idle
  BY DEF PCondition, Return, Requeue
<1>2. pr' = Idle \/ pr'.key = p
  BY <1>0, <1>1 DEF ProjectReconcile
<1>3. ASSUME NEW q \in Projects, q # p PROVE ProjectOK(q)'
  <2>1. cond'[q] = cond[q] /\ (q \in pqueue' <=> q \in pqueue)
    BY <1>0, <1>1, <1>3 DEF TypeOK
  <2> QED BY <1>0, <1>2, <1>3, <2>1, ProjectFrame DEF IndInv, Holds
<1>4. InformerOK(p)'
  BY <1>0 DEF ProjectOK, InformerOK
<1>5. CASE pr.then = "create"
  <2>1. pr' # Idle /\ pr'.key = p /\ pr'.pc = "create" /\ pr'.then = "create"
    BY <1>0, <1>1, <1>5 DEF ProjectReconcile, Idle
  <2>2. InHandOK' /\ Finishing(p)'
    BY <2>1 DEF InHandOK, Finishing
  <2> QED BY <1>3, <1>4, <2>1, <2>2 DEF ProjectOK
<1>6. CASE pr.then # "create"
  <2>1. pr' = Idle /\ InHandOK'
    BY <1>1, <1>6 DEF InHandOK
  <2>2. ASSUME Quiet(p)' PROVE AtRest(p)'
    <3>1. p \notin pqueue' /\ phase[p] # "absent"
      BY <1>0, <2>2 DEF Quiet
    <3>2. /\ UNCHANGED <<pqueue, cond>> /\ pr.then = "done"
          /\ cond' = [cond EXCEPT ![p] = pr.reason]
      BY <1>6, <3>1 DEF PCondition, Return, Requeue, Fails
    <3>3. cond[p] = "WorkspaceReady"
      BY <1>0, <3>2 DEF InHandOK, TypeOK
    <3>4. Finishing(p)
      BY <1>0, <2>2, <3>2 DEF Quiet, ProjectOK
    <3> QED BY <1>0, <3>2, <3>3, <3>4 DEF Finishing, AtRest
  <2> QED BY <1>3, <1>4, <2>1, <2>2 DEF ProjectOK
<1> QED BY <1>5, <1>6

\* Events.
LEMMA EventProjectsOK ==
  ASSUME IndInv, NEW p \in Projects, Deliver(p) \/ Resync(p) \/ UserEdit(p)
  PROVE  InHandOK' /\ \A q \in Projects : ProjectOK(q)'
<1>0. /\ TypeOK /\ InHandOK /\ UNCHANGED <<phase, cond, ws, unseen, pr>>
      /\ pqueue' = pqueue \cup {p}
  BY DEF IndInv, Deliver, Resync, UserEdit, Requeue, api, kcp, informer, history
<1>1. /\ InformerOK(p)'
      /\ \A q \in Projects \ {p} : cache'[q] = cache[q] /\ watch'[q] = watch[q]
  <2>1. CASE Deliver(p)
    <3>1. watch[p] \in Seq(Phases) /\ watch[p] # <<>> /\ watch[p][Len(watch[p])] = phase[p]
      BY <1>0, <2>1 DEF TypeOK, Phases, Deliver, IndInv, ProjectOK, InformerOK
    <3>2. /\ Tail(watch[p]) = <<>> => Head(watch[p]) = phase[p]
          /\ Tail(watch[p]) # <<>> => Tail(watch[p])[Len(Tail(watch[p]))] = phase[p]
      <4>1. /\ Len(watch[p]) \in Nat \ {0} /\ Tail(watch[p]) \in Seq(Phases)
            /\ Len(Tail(watch[p])) = Len(watch[p]) - 1 /\ Head(watch[p]) = watch[p][1]
        BY <3>1
      <4>2. \A i \in 1..(Len(watch[p]) - 1) : Tail(watch[p])[i] = watch[p][i + 1]
        BY <3>1
      <4>3. Tail(watch[p]) = <<>> <=> Len(Tail(watch[p])) = 0
        BY <4>1, EmptySeq
      <4>4. CASE Len(watch[p]) = 1
        BY <3>1, <4>1, <4>3, <4>4
      <4>5. CASE Len(watch[p]) # 1
        BY <3>1, <4>1, <4>2, <4>3, <4>5
      <4> QED BY <4>4, <4>5
    <3>3. cache'[p] = Head(watch[p]) /\ watch'[p] = Tail(watch[p])
      BY <1>0, <2>1 DEF Deliver, TypeOK
    <3>4. \A q \in Projects \ {p} : cache'[q] = cache[q] /\ watch'[q] = watch[q]
      BY <1>0, <2>1 DEF Deliver, TypeOK
    <3> QED BY <1>0, <3>2, <3>3, <3>4 DEF InformerOK
  <2>2. CASE UNCHANGED <<cache, watch>>
    BY <1>0, <2>2 DEF IndInv, ProjectOK, InformerOK
  <2> QED BY <2>1, <2>2 DEF Resync, UserEdit, informer
<1>2. ProjectOK(p)'
  BY <1>0, <1>1, NotQuiet
<1>3. ASSUME NEW q \in Projects \ {p} PROVE ProjectOK(q)'
  BY <1>0, <1>1, ProjectFrame DEF IndInv
<1>4. InHandOK'
  BY <1>0 DEF InHandOK
<1> QED BY <1>2, <1>3, <1>4

\* Users and kcp.
LEMMA UserProjectsOK ==
  ASSUME IndInv, NEW p \in Projects, UserProject(p)
  PROVE  InHandOK' /\ \A q \in Projects : ProjectOK(q)'
<1>1. PICK x \in {"none", "absent"} : Publish(p, x)
  BY DEF UserProject
<1>2. /\ TypeOK /\ InHandOK /\ UNCHANGED <<ws, unseen, pr, cache, pqueue>>
      /\ \A q \in Projects \ {p} : cond'[q] = cond[q]
  BY DEF IndInv, UserProject, kcp, queues, TypeOK
<1>3. ProjectOK(p)'
  BY <1>1, <1>2, Published, NotQuiet DEF InformerOK, Phases
<1>4. ASSUME NEW q \in Projects \ {p} PROVE ProjectOK(q)'
  BY <1>1, <1>2, Published, ProjectFrame DEF IndInv, Phases
<1>5. InHandOK'
  BY <1>2 DEF InHandOK
<1> QED BY <1>3, <1>4, <1>5

LEMMA KcpProjectsOK ==
  ASSUME IndInv, NEW w \in Projects, KcpReady(w) \/ KcpDisturb(w)
  PROVE  InHandOK' /\ \A q \in Projects : ProjectOK(q)'
<1>1. /\ TypeOK /\ InHandOK /\ UNCHANGED <<phase, cond, pr, cache, watch, pqueue>>
      /\ \A q \in Projects \ {w} : ws'[q] = ws[q] /\ (q \in unseen' <=> q \in unseen)
      /\ w \in unseen' \/ (ws[w] # "Ready" /\ w \notin unseen)
      /\ w \in unseen' \/ ws'[w] = "Ready"
  BY DEF IndInv, KcpReady, KcpDisturb, api, informer, queues, TypeOK
<1>2. ProjectOK(w)'
  <2>1. ProjectOK(w)
    BY DEF IndInv
  <2>2. InformerOK(w)' /\ (Quiet(w)' <=> Quiet(w))
    BY <1>1, <2>1 DEF ProjectOK, InformerOK, Quiet
  <2>3. Finishing(w) => Finishing(w)'
    BY <1>1 DEF Finishing
  <2>4. AtRest(w) => AtRest(w)'
    BY <1>1 DEF AtRest
  <2> QED BY <1>1, <2>1, <2>2, <2>3, <2>4 DEF ProjectOK
<1>3. ASSUME NEW q \in Projects \ {w} PROVE ProjectOK(q)'
  BY <1>1, ProjectFrame DEF IndInv
<1>4. InHandOK'
  BY <1>1 DEF InHandOK
<1> QED BY <1>2, <1>3, <1>4

\* A restart.
LEMMA RestartProjectsOK ==
  ASSUME IndInv, Restart
  PROVE  InHandOK' /\ \A q \in Projects : ProjectOK(q)'
<1>1. InHandOK'
  BY DEF Restart, InHandOK
<1>2. ASSUME NEW q \in Projects PROVE ProjectOK(q)'
  <2>1. phase'[q] = phase[q] /\ cache'[q] = phase[q] /\ watch'[q] = <<>>
    BY DEF Restart, api
  <2>2. q \in pqueue' \/ phase[q] = "absent"
    BY DEF Restart
  <2> QED BY <2>1, <2>2, NotQuiet DEF InformerOK
<1> QED BY <1>1, <1>2

\* The staff reconciler and changes of staff do not concern Projects.
LEMMA StaffProjectsOK ==
  ASSUME IndInv, UNCHANGED <<phase, cond, ws, informer, pqueue, pr, unseen>>
  PROVE  InHandOK' /\ \A q \in Projects : ProjectOK(q)'
<1>1. InHandOK'
  BY DEF IndInv, InHandOK
<1>2. ASSUME NEW q \in Projects PROVE ProjectOK(q)'
  BY ProjectFrame DEF IndInv, informer
<1> QED BY <1>1, <1>2

LEMMA StaffLeavesProjects ==
  ASSUME \/ SNext
         \/ \E s \in Staff : \E e \in Emails \cup {"absent", "none"} : UserStaff(s, e)
         \/ UNCHANGED vars
  PROVE  UNCHANGED <<phase, cond, ws, informer, pqueue, pr, unseen>>
<1>1. ASSUME SNext PROVE UNCHANGED <<phase, cond, ws, informer, pqueue, pr, unseen>>
  <2>1. CASE \E k \in Staff \cup {Trigger} : SStart(k)
    BY <2>1 DEF SStart, api, kcp, history
  <2>2. CASE \E w \in Projects : SBind(w)
    BY <2>2 DEF SBind, api, kcp, queues
  <2>3. CASE SReadStaff
    BY <2>3 DEF SReadStaff, api, kcp, history
  <2>4. CASE SFinish
    BY <2>4 DEF SFinish, kcp, history
  <2> QED BY <1>1, <2>1, <2>2, <2>3, <2>4 DEF SNext
<1>2. CASE \E s \in Staff : \E e \in Emails \cup {"absent", "none"} : UserStaff(s, e)
  BY <1>2 DEF UserStaff, kcp, history
<1>3. CASE UNCHANGED vars
  BY <1>3 DEF vars, api, kcp, queues, history
<1> QED BY <1>1, <1>2, <1>3

\* Every step keeps what is known of Projects.
LEMMA NextProjectsOK ==
  ASSUME IndInv, [Next]_vars
  PROVE  InHandOK' /\ \A q \in Projects : ProjectOK(q)'
<1>1. CASE PNext
  BY <1>1, StartProjectsOK, CreateAndWaitProjectsOK, AnnotateProjectsOK, ConditionProjectsOK,
     EventProjectsOK DEF PNext
<1>2. CASE Others
  BY <1>2, EventProjectsOK, UserProjectsOK, KcpProjectsOK, RestartProjectsOK, StaffProjectsOK,
     StaffLeavesProjects DEF Others
<1>3. CASE SNext \/ UNCHANGED vars
  BY <1>3, StaffProjectsOK, StaffLeavesProjects
<1> QED BY <1>1, <1>2, <1>3 DEF Next
-----------------------------------------------------------------------------
\* A workspace that a step of the project reconciler or of kcp leaves alone.
LEMMA StaffFrame ==
  ASSUME NEW w \in Projects, StaffOK(w), UNCHANGED <<staff, sr>>, squeue \subseteq squeue',
         binding'[w] = binding[w], w \in missed => w \in missed',
         ws'[w] = "Ready" => ws[w] = "Ready", phase'[w] = phase[w],
         Announcing(w) => Announcing(w)' \/ squeue' # {}
  PROVE  StaffOK(w)'
<1>1. Subjects' = Subjects
  BY DEF Subjects
<1>2. StaffBusy(w) \/ squeue' # {} => StaffBusy(w)'
  BY <1>1 DEF StaffBusy
<1> QED BY <1>1, <1>2 DEF StaffOK

LEMMA SubjectsFrame ==
  ASSUME SubjectsOK, UNCHANGED <<staff, sr>>, squeue \subseteq squeue'
  PROVE  SubjectsOK'
<1>1. Subjects' = Subjects
  BY DEF Subjects
<1> QED BY <1>1 DEF SubjectsOK

\* Steps of the project reconciler that show nothing.
LEMMA QuietStepsStaffOK ==
  ASSUME IndInv,
         \/ \E p \in Projects : PStart(p) \/ Resync(p) \/ UserEdit(p) \/ KcpDisturb(p)
         \/ PCreate \/ PWait \/ PCondition \/ UNCHANGED vars
  PROVE  SubjectsOK' /\ \A w \in Projects : StaffOK(w)'
<1>1. UNCHANGED <<staff, sr, phase, cache, watch>> /\ squeue \subseteq squeue' /\ missed' = missed
  <2>1. CASE \E p \in Projects : PStart(p) \/ Resync(p) \/ UserEdit(p) \/ KcpDisturb(p)
    BY <2>1 DEF PStart, Resync, UserEdit, KcpDisturb, api, informer, queues, history
  <2>2. CASE PCreate \/ PWait \/ PCondition
    BY <2>2 DEF PCreate, PWait, PCondition, api, informer, queues, history
  <2>3. CASE UNCHANGED vars
    BY <2>3 DEF vars, api, informer, queues, history
  <2> QED BY <2>1, <2>2, <2>3
<1>2. ASSUME NEW w \in Projects
      PROVE  ws'[w] = "Ready" => ws[w] = "Ready" /\ binding'[w] = binding[w]
  <2>0. TypeOK
    BY DEF IndInv
  <2>1. CASE PCreate
    BY <2>0, <2>1 DEF PCreate, TypeOK, kcp
  <2>2. CASE \E p \in Projects : KcpDisturb(p)
    BY <2>0, <2>2 DEF KcpDisturb, TypeOK
  <2>3. CASE UNCHANGED kcp
    BY <2>3 DEF kcp
  <2> QED BY <2>1, <2>2, <2>3 DEF PStart, Resync, UserEdit, PWait, PCondition, vars
<1>3. \A w : Announcing(w)' <=> Announcing(w)
  BY <1>1 DEF Announcing
<1>4. ASSUME NEW w \in Projects PROVE StaffOK(w)'
  <2>1. CASE ws'[w] = "Ready"
    BY <1>1, <1>2, <1>3, <2>1, StaffFrame DEF IndInv
  <2>2. CASE ws'[w] # "Ready"
    BY <2>2 DEF StaffOK
  <2> QED BY <2>1, <2>2
<1>5. SubjectsOK'
  BY <1>1, SubjectsFrame DEF IndInv
<1> QED BY <1>4, <1>5

\* A version reaches the informer.
LEMMA DeliverStaffOK ==
  ASSUME IndInv, NEW p \in Projects, Deliver(p)
  PROVE  SubjectsOK' /\ \A w \in Projects : StaffOK(w)'
<1>1. /\ TypeOK /\ UNCHANGED <<staff, sr, phase, ws, binding, missed>> /\ squeue \subseteq squeue'
  BY DEF IndInv, Deliver, api, kcp, history
<1>2. Announcing(p) => Announcing(p)' \/ squeue' # {}
  <2>1. watch[p] \in Seq(Phases) /\ watch[p] # <<>>
    BY <1>1 DEF TypeOK, Phases, Deliver
  <2>2. cache'[p] = Head(watch[p]) /\ watch'[p] = Tail(watch[p])
    BY <1>1 DEF Deliver, TypeOK
  <2>3. /\ Len(watch[p]) \in Nat \ {0} /\ Len(Tail(watch[p])) = Len(watch[p]) - 1
        /\ Head(watch[p]) = watch[p][1]
        /\ \A j \in 1..(Len(watch[p]) - 1) : Tail(watch[p])[j] = watch[p][j + 1]
    BY <2>1
  <2> SUFFICES ASSUME NEW i \in 1..Len(watch[p]),
                      Announces(IF i = 1 THEN cache[p] ELSE watch[p][i - 1], watch[p][i])
               PROVE  Announcing(p)' \/ squeue' # {}
    BY DEF Announcing
  <2>4. CASE i = 1
    BY <2>3, <2>4 DEF Deliver
  <2>5. CASE i # 1
    <3>1. /\ i - 1 \in 1..Len(watch'[p]) /\ watch'[p][i - 1] = watch[p][i]
          /\ IF i - 1 = 1 THEN cache'[p] = watch[p][i - 1]
                          ELSE watch'[p][(i - 1) - 1] = watch[p][i - 1]
      BY <2>2, <2>3, <2>5
    <3>2. Announces(IF i - 1 = 1 THEN cache'[p] ELSE watch'[p][(i - 1) - 1], watch'[p][i - 1])
      BY <2>5, <3>1
    <3> QED BY <3>1, <3>2 DEF Announcing
  <2> QED BY <2>4, <2>5
<1>3. ASSUME NEW w \in Projects \ {p} PROVE Announcing(w)' <=> Announcing(w)
  <2>1. cache'[w] = cache[w] /\ watch'[w] = watch[w]
    BY <1>1 DEF Deliver, TypeOK
  <2> QED BY <2>1 DEF Announcing
<1>4. ASSUME NEW w \in Projects PROVE StaffOK(w)'
  BY <1>1, <1>2, <1>3, StaffFrame DEF IndInv
<1>5. SubjectsOK'
  BY <1>1, SubjectsFrame DEF IndInv
<1> QED BY <1>4, <1>5

\* Another phase is published.
LEMMA PublishStaffOK ==
  ASSUME IndInv, PAnnotate \/ \E p \in Projects : UserProject(p)
  PROVE  SubjectsOK' /\ \A w \in Projects : StaffOK(w)'
<1>1. TypeOK /\ UNCHANGED <<staff, sr, cache, ws, binding, squeue>> /\ missed \subseteq missed'
  BY DEF IndInv, PAnnotate, UserProject, kcp, history, queues
<1>2. ASSUME NEW p \in Projects, NEW x \in Phases, Publish(p, x),
             x # "absent" \/ p \in missed', NEW w \in Projects
      PROVE  StaffOK(w)'
  <2>1. CASE w # p
    BY <1>1, <1>2, <2>1, Published, PublishAnnounces, StaffFrame DEF IndInv
  <2>2. CASE w = p
    <3>1. phase'[w] = x /\ (x = "Ready" => Announcing(w)')
      BY <1>1, <1>2, <2>2, Published, PublishAnnounces
    <3> QED BY <1>2, <2>2, <3>1 DEF StaffOK
  <2> QED BY <2>1, <2>2
<1>3. CASE PAnnotate
  <2>1. pr.key \in Projects /\ pr.info \in Phases /\ pr.info # "absent"
    BY <1>1, <1>3, Running DEF PAnnotate, ProjectReconcile, Phases, WorkspacePhases
  <2>2. CASE Publish(pr.key, pr.info)
    BY <1>1, <1>2, <2>1, <2>2, SubjectsFrame DEF IndInv
  <2>3. CASE UNCHANGED <<phase, watch>>
    <3>1. \A w \in Projects : Announcing(w)' <=> Announcing(w)
      BY <1>1, <2>3 DEF Announcing
    <3>2. missed' = missed
      BY <1>3 DEF PAnnotate, history
    <3> QED BY <1>1, <2>3, <3>1, <3>2, StaffFrame, SubjectsFrame DEF IndInv
  <2> QED BY <1>3, <2>2, <2>3 DEF PAnnotate
<1>4. ASSUME NEW p \in Projects, UserProject(p) PROVE SubjectsOK' /\ \A w \in Projects : StaffOK(w)'
  <2>1. PICK x \in {"none", "absent"} : Publish(p, x) /\ (x = "absent" => p \in missed')
    BY <1>4 DEF UserProject
  <2> QED BY <1>1, <1>2, <2>1, SubjectsFrame DEF IndInv, Phases
<1> QED BY <1>3, <1>4

\* A workspace becomes ready.
LEMMA ReadyStaffOK ==
  ASSUME IndInv, NEW p \in Projects, KcpReady(p)
  PROVE  SubjectsOK' /\ \A w \in Projects : StaffOK(w)'
<1>1. /\ TypeOK /\ UNCHANGED <<staff, sr, phase, cache, watch, binding, squeue>>
      /\ missed \subseteq missed' /\ (p \in missed' \/ phase[p] \notin {"absent", "Ready"})
      /\ \A w \in Projects \ {p} : ws'[w] = ws[w]
  BY DEF IndInv, KcpReady, api, informer, queues, TypeOK, Unannounced
<1>2. \A w : Announcing(w)' <=> Announcing(w)
  BY <1>1 DEF Announcing
<1>3. StaffOK(p)'
  BY <1>1 DEF StaffOK
<1>4. ASSUME NEW w \in Projects \ {p} PROVE StaffOK(w)'
  BY <1>1, <1>2, StaffFrame DEF IndInv
<1>5. SubjectsOK'
  BY <1>1, SubjectsFrame DEF IndInv
<1> QED BY <1>3, <1>4, <1>5

\* A restart triggers a pass if a Project is Ready.
LEMMA RestartStaffOK ==
  ASSUME IndInv, Restart
  PROVE  SubjectsOK' /\ \A w \in Projects : StaffOK(w)'
<1>1. SubjectsOK'
  BY DEF Restart, SubjectsOK
<1>2. ASSUME NEW w \in Projects PROVE StaffOK(w)'
  <2>1. phase'[w] = phase[w]
    BY DEF Restart, api
  <2>2. CASE phase[w] = "absent"
    BY <2>2 DEF Restart, StaffOK
  <2>3. CASE phase[w] = "Ready"
    BY <2>3 DEF Restart, StaffOK, StaffBusy
  <2>4. CASE phase[w] \notin {"absent", "Ready"}
    BY <2>1, <2>4 DEF StaffOK
  <2> QED BY <2>2, <2>3, <2>4
<1> QED BY <1>1, <1>2

\* The staff reconciler, and changes of staff.
LEMMA PassStaffOK ==
  ASSUME IndInv, \/ SNext
                 \/ \E s \in Staff : \E e \in Emails \cup {"absent", "none"} : UserStaff(s, e)
  PROVE  SubjectsOK' /\ \A w \in Projects : StaffOK(w)'
<1>1. TypeOK /\ UNCHANGED <<phase, ws, cache, watch>>
  BY StaffLeavesProjects DEF IndInv, informer
<1>2. \A w \in Projects : Announcing(w)' <=> Announcing(w)
  BY <1>1 DEF Announcing
<1>3. ASSUME NEW k \in Staff \cup {Trigger}, SStart(k)
      PROVE  SubjectsOK' /\ \A w \in Projects : StaffOK(w)'
  <2>1. sr = Idle /\ squeue # {} /\ UNCHANGED <<staff, binding, missed>>
    BY <1>3 DEF SStart, api, kcp, history
  <2>2. CASE UNCHANGED <<squeue, sr>>
    BY <1>1, <1>2, <2>1, <2>2, StaffFrame, SubjectsFrame DEF IndInv
  <2>3. CASE sr' = [pc |-> "staff", key |-> k, subjects |-> {}, bound |-> {}, failed |-> {},
                    todo |-> {w \in Projects : Managed(w) /\ ws[w] = "Ready"}]
    BY <1>1, <2>3 DEF SubjectsOK, StaffOK, StaffBusy, Idle
  <2> QED BY <1>3, <2>2, <2>3 DEF SStart
<1>4. CASE SReadStaff
  <2>1. sr \in StaffReconcile /\ sr # Idle /\ sr.pc = "staff" /\ UNCHANGED <<staff, binding, missed>>
    BY <1>1, <1>4, Running DEF SReadStaff, api, kcp, history
  <2>2. CASE squeue' # {} /\ sr' = Idle
    BY <2>2 DEF SubjectsOK, StaffOK, StaffBusy
  <2>3. CASE sr' = [sr EXCEPT !.pc = "bind", !.subjects = Subjects] /\ squeue' = squeue
    <3>1. /\ sr' # Idle /\ sr'.pc = "bind" /\ sr'.subjects = Subjects /\ Subjects' = Subjects
          /\ sr'.todo = sr.todo /\ sr'.failed = sr.failed
      BY <2>1, <2>3 DEF StaffReconcile, Idle, Subjects
    <3>2. \A w \in Projects : StaffBusy(w) => StaffBusy(w)'
      BY <2>1, <2>3, <3>1 DEF StaffBusy
    <3> QED BY <1>1, <1>2, <2>1, <3>1, <3>2 DEF IndInv, StaffOK, SubjectsOK
  <2> QED BY <1>4, <2>2, <2>3 DEF SReadStaff
<1>5. ASSUME NEW v \in Projects, SBind(v) PROVE SubjectsOK' /\ \A w \in Projects : StaffOK(w)'
  <2>1. /\ sr \in StaffReconcile /\ sr # Idle /\ sr.pc = "bind" /\ UNCHANGED <<staff, squeue>>
        /\ missed \ {v} \subseteq missed'
        /\ \A w \in Projects \ {v} : binding'[w] = binding[w]
    BY <1>1, <1>5, Running DEF SBind, api, queues, TypeOK, kcp
  <2>2. \/ sr' = [sr EXCEPT !.todo = @ \ {v}, !.failed = @ \cup {v}]
        \/ sr' = [sr EXCEPT !.todo = @ \ {v}, !.bound = @ \cup {v}] /\ binding'[v] = sr.subjects
    BY <1>1, <1>5 DEF SBind, TypeOK
  <2>3. /\ sr' # Idle /\ sr'.pc = "bind" /\ sr'.subjects = sr.subjects /\ Subjects' = Subjects
        /\ sr'.todo = sr.todo \ {v}
        /\ sr.failed \subseteq sr'.failed
        /\ sr'.failed # {} \/ binding'[v] = sr.subjects
    <3>1. Subjects' = Subjects
      BY <2>1 DEF Subjects
    <3>2. CASE sr' = [sr EXCEPT !.todo = @ \ {v}, !.failed = @ \cup {v}]
      BY <2>1, <3>1, <3>2 DEF StaffReconcile, Idle
    <3>3. CASE /\ sr' = [sr EXCEPT !.todo = @ \ {v}, !.bound = @ \cup {v}]
               /\ binding'[v] = sr.subjects
      BY <2>1, <3>1, <3>3 DEF StaffReconcile, Idle
    <3> QED BY <2>2, <3>2, <3>3
  <2>4. SubjectsOK'
    BY <2>1, <2>3 DEF IndInv, SubjectsOK
  <2>5. \A w \in Projects \ {v} : StaffOK(w)'
    BY <1>1, <1>2, <2>1, <2>3 DEF IndInv, StaffOK, StaffBusy
  <2>6. StaffOK(v)'
    BY <2>1, <2>3 DEF IndInv, SubjectsOK, StaffOK, StaffBusy
  <2> QED BY <2>4, <2>5, <2>6
<1>6. CASE SFinish
  <2>1. /\ sr.todo = {} /\ sr' = Idle /\ (sr.failed # {} => squeue' # {}) /\ squeue \subseteq squeue'
        /\ UNCHANGED <<staff, binding, missed>>
    BY <1>6 DEF SFinish, kcp, history
  <2>2. Subjects' = Subjects
    BY <2>1 DEF Subjects
  <2> QED BY <1>1, <1>2, <2>1, <2>2 DEF IndInv, SubjectsOK, StaffOK, StaffBusy
<1>7. CASE \E s \in Staff : \E e \in Emails \cup {"absent", "none"} : UserStaff(s, e)
  BY <1>7 DEF UserStaff, SubjectsOK, StaffOK, StaffBusy
<1> QED BY <1>3, <1>4, <1>5, <1>6, <1>7 DEF SNext

\* Every step keeps the invariant.
LEMMA NextOK == IndInv /\ [Next]_vars => IndInv'
<1> SUFFICES ASSUME IndInv, [Next]_vars PROVE IndInv'
  OBVIOUS
<1>1. TypeOK'
  <2>1. CASE UNCHANGED vars
    BY <2>1 DEF vars, IndInv, TypeOK, api, kcp, informer, queues, history
  <2> QED BY <2>1, ProjectTypes, StaffTypes, OtherTypes DEF IndInv, Next
<1>2. SubjectsOK' /\ \A w \in Projects : StaffOK(w)'
  <2>1. CASE PNext
    BY <2>1, QuietStepsStaffOK, DeliverStaffOK, PublishStaffOK DEF PNext
  <2>2. CASE Others
    BY <2>2, QuietStepsStaffOK, PublishStaffOK, ReadyStaffOK, RestartStaffOK, PassStaffOK DEF Others
  <2>3. CASE SNext \/ UNCHANGED vars
    BY <2>3, QuietStepsStaffOK, PassStaffOK
  <2> QED BY <2>1, <2>2, <2>3 DEF Next
<1> QED BY <1>1, <1>2, NextProjectsOK DEF IndInv

\* Projects, workspaces, queues and reconciles are well formed.
THEOREM TypeCorrect == Spec => []TypeOK
<1>1. IndInv => TypeOK
  BY DEF IndInv
<1> QED BY InitOK, NextOK, <1>1, PTL DEF Spec

\* The invariant keeps both reconcilers from resting on unfinished work.
LEMMA InvNothingForgotten ==
  ASSUME IndInv
  PROVE  NothingForgotten
<1>1. ASSUME NEW p \in Projects, phase[p] # "absent", ~Busy(p)
      PROVE  AtRest(p)
  BY <1>1 DEF IndInv, ProjectOK, Quiet, Busy
<1>2. ProjectsNotForgotten
  BY <1>1 DEF ProjectsNotForgotten, AtRest, Mirrored, ReasonOf
<1>3. StaffNotForgotten
  <2>1. ASSUME NEW w \in Projects, phase[w] \notin {"absent", "Ready"} PROVE Busy(w)
    BY <1>1, <2>1 DEF AtRest
  <2> QED BY <2>1 DEF IndInv, StaffOK, StaffNotForgotten
<1> QED BY <1>2, <1>3 DEF NothingForgotten

\* Whatever fails, is lost, is repeated or is read from a stale cache, and
\* however kcp, users and restarts interleave with them, neither reconciler comes
\* to rest on a Project whose annotation or condition is not that of its
\* workspace as last read, or on an announced workspace without the present staff.
THEOREM NothingIsForgotten == Spec => []NothingForgotten
BY InitOK, NextOK, InvNothingForgotten, PTL DEF Spec
-----------------------------------------------------------------------------
\* Refinement: the keys of Mirror that are in use, and on which work is owed.
Used == {p \in Projects : phase[p] # "absent"}
Due == {p \in Projects : Busy(p) \/ p \in unseen}

\* A step that concerns p alone.
OnlyOn(p) == \A q \in Projects \ {p} : q \in Due' <=> q \in Due

\* The debt on p may change, since none is dropped too early.
LEMMA Settles ==
  ASSUME IndInv', NEW p \in Projects, OnlyOn(p)
  PROVE  Abstract!Settle(p)
<1>1. Due' \in {Due \cup {p}, Due \ {p}}
  BY DEF OnlyOn, Due
<1>2. p \in Used' /\ ShownPhase'[p] # ws'[p] => p \in Due'
  <2>1. ProjectsNotForgotten'
    BY InvNothingForgotten, PTL DEF NothingForgotten
  <2> QED BY <2>1 DEF ProjectsNotForgotten, Mirrored, Used, Due, ShownPhase
<1> QED BY <1>1, <1>2 DEF Abstract!Settle, Used, Due

\* What the reconciler has in hand, as a function of Projects.
LEMMA Handles ==
  ASSUME NEW p \in Projects, pr = Idle \/ pr.key = p
  PROVE  /\ UNCHANGED pr => InHand' = InHand
         /\ pr' = Idle => InHand' = [InHand EXCEPT ![p] = "none"]
         /\ pr' # Idle /\ pr'.key = p => InHand' = [InHand EXCEPT ![p] = pr'.info]
         /\ pr # Idle => InHand[p] = pr.info
         /\ pr # Idle /\ pr' # Idle /\ pr'.key = p /\ pr'.info = pr.info => InHand' = InHand
<1>1. UNCHANGED pr => InHand' = InHand
  BY DEF InHand
<1>2. pr' = Idle => InHand' = [InHand EXCEPT ![p] = "none"]
  BY DEF InHand
<1>3. pr' # Idle /\ pr'.key = p => InHand' = [InHand EXCEPT ![p] = pr'.info]
  BY DEF InHand
<1>4. pr # Idle => InHand[p] = pr.info
  BY DEF InHand
<1>5. pr # Idle /\ pr' # Idle /\ pr'.key = p /\ pr'.info = pr.info => InHand' = InHand
  BY DEF InHand
<1> QED BY <1>1, <1>2, <1>3, <1>4, <1>5

\* Steps that change neither workspaces nor phases.
LEMMA Drops ==
  ASSUME IndInv', NEW p \in Projects, OnlyOn(p), UNCHANGED <<ws, phase>>,
         InHand' \in {InHand, [InHand EXCEPT ![p] = "none"]}
  PROVE  Abstract!Drop(p)
BY Settles DEF Abstract!Drop, Abstract!Keep, ShownPhase

LEMMA Fetches ==
  ASSUME IndInv', NEW p \in Projects, OnlyOn(p), UNCHANGED <<ws, phase>>,
         InHand' = [InHand EXCEPT ![p] = ws[p]]
  PROVE  Abstract!Fetch(p)
BY Settles DEF Abstract!Fetch, ShownPhase

\* A worker that starts on p, or goes on with it, owes work on no other key.
LEMMA OnlyOnKey ==
  ASSUME NEW p \in Projects, pr = Idle \/ pr.key = p, pr' = Idle \/ pr'.key = p,
         \A q \in Projects \ {p} : /\ watch'[q] = watch[q]
                                   /\ q \in pqueue' <=> q \in pqueue
                                   /\ q \in unseen' <=> q \in unseen
  PROVE  OnlyOn(p)
BY DEF OnlyOn, Due, Busy

LEMMA OnlyOnEvent ==
  ASSUME NEW p \in Projects, UNCHANGED pr,
         \A q \in Projects \ {p} : /\ watch'[q] = watch[q]
                                   /\ q \in pqueue' <=> q \in pqueue
                                   /\ q \in unseen' <=> q \in unseen
  PROVE  OnlyOn(p)
BY DEF OnlyOn, Due, Busy

\* The start of a reconcile fetches the workspace's phase, if there is one.
LEMMA StartRefines ==
  ASSUME IndInv, IndInv', NEW p \in Projects, PStart(p)
  PROVE  Abstract!Drop(p) \/ Abstract!Fetch(p)
<1>1. /\ TypeOK /\ pr = Idle /\ UNCHANGED <<ws, phase, watch>> /\ pqueue' = pqueue \ {p}
      /\ \A q \in Projects \ {p} : q \in unseen' <=> q \in unseen
  BY DEF IndInv, PStart, api, kcp, informer
<1>2. \/ UNCHANGED pr
      \/ pr' # Idle /\ pr'.key = p /\ pr'.info \in {GetWorkspace(p), "none"}
  BY DEF PStart, Idle
<1>3. OnlyOn(p)
  BY <1>1, <1>2, OnlyOnKey
<1>4. CASE UNCHANGED pr
  BY <1>1, <1>3, <1>4, Handles, Drops
<1>5. CASE pr' # Idle /\ pr'.key = p /\ pr'.info = "none"
  BY <1>1, <1>3, <1>5, Handles, Drops
<1>6. CASE pr' # Idle /\ pr'.key = p /\ pr'.info = GetWorkspace(p) /\ GetWorkspace(p) # "none"
  BY <1>1, <1>3, <1>6, Handles, GetType, Fetches
<1> QED BY <1>2, <1>4, <1>5, <1>6

\* Creating a workspace changes it, and waiting for it fetches its phase.
LEMMA CreateAndWaitRefine ==
  ASSUME IndInv, IndInv', PCreate \/ PWait
  PROVE  \E p \in Projects : Abstract!Drop(p) \/ Abstract!Fetch(p) \/ Abstract!Change(p)
<1>p. PICK p \in Projects : p = pr.key
  BY Running DEF IndInv, PCreate, PWait
<1> USE <1>p
<1>1. /\ TypeOK /\ pr # Idle /\ pr \in ProjectReconcile /\ UNCHANGED <<phase, watch, pqueue>>
      /\ \A q \in Projects \ {p} : q \in unseen' <=> q \in unseen
  BY Running DEF IndInv, PCreate, PWait, api, informer, queues, history
<1>2. CASE PCreate
  <2>1. /\ pr' # Idle /\ pr'.key = p
        /\ \/ UNCHANGED ws /\ pr'.info = pr.info
           \/ /\ ws' = [ws EXCEPT ![p] = "Initializing"]
              /\ pr'.info \in {pr.info, "Initializing"}
    BY <1>1, <1>2 DEF PCreate, ProjectReconcile, Idle, kcp
  <2>2. OnlyOn(p)
    BY <1>1, <2>1, OnlyOnKey
  <2>3. CASE UNCHANGED ws /\ pr'.info = pr.info
    BY <1>1, <2>1, <2>2, <2>3, Handles, Drops
  <2>4. CASE ws' = [ws EXCEPT ![p] = "Initializing"] /\ pr'.info \in {pr.info, "Initializing"}
    <3>1. InHand' = InHand \/ InHand' = [InHand EXCEPT ![p] = "Initializing"]
      BY <1>1, <2>1, <2>4, Handles
    <3>2. "Initializing" \in WorkspacePhases \cup {"absent"} /\ UNCHANGED <<Used, ShownPhase>>
      BY <1>1 DEF WorkspacePhases, Used, ShownPhase
    <3>3. Abstract!Settle(p)
      BY <2>2, Settles
    <3> QED BY <2>4, <3>1, <3>2, <3>3 DEF Abstract!Change, Abstract!Keep, Used
  <2> QED BY <2>1, <2>3, <2>4
<1>3. CASE PWait
  <2>1. /\ pr' # Idle /\ pr'.key = p /\ UNCHANGED ws
        /\ \/ pr'.info = pr.info
           \/ pr'.info = GetWorkspace(p) /\ GetWorkspace(p) = "Ready"
    <3>1. \/ /\ pr' = [pr EXCEPT !.pc = "annotate", !.info = "Ready", !.then = "done"]
             /\ GetWorkspace(p) = "Ready"
          \/ pr' = [pr EXCEPT !.pc = "annotate", !.then = "retry"]
      BY <1>3 DEF PWait
    <3>2. UNCHANGED ws
      BY <1>3 DEF PWait, kcp
    <3> QED BY <1>1, <3>1, <3>2 DEF ProjectReconcile, Idle
  <2>2. OnlyOn(p)
    BY <1>1, <2>1, OnlyOnKey
  <2>3. CASE pr'.info = pr.info
    BY <1>1, <2>1, <2>2, <2>3, Handles, Drops
  <2>4. CASE pr'.info = GetWorkspace(p) /\ GetWorkspace(p) = "Ready"
    BY <1>1, <2>1, <2>2, <2>4, Handles, GetType, Fetches
  <2> QED BY <2>1, <2>3, <2>4
<1> QED BY <1>2, <1>3

\* The annotation shows what the reconcile has in hand.
LEMMA AnnotateRefines ==
  ASSUME IndInv, IndInv', PAnnotate
  PROVE  \E p \in Projects : Abstract!Drop(p) \/ Abstract!Show(p)
<1>p. PICK p \in Projects : p = pr.key
  BY Running DEF IndInv, PAnnotate
<1> USE <1>p
<1>1. /\ TypeOK /\ pr # Idle /\ pr \in ProjectReconcile /\ UNCHANGED <<ws, unseen>>
      /\ pr.info \in WorkspacePhases /\ pr.info # "none" /\ pr.info \in Phases
  BY Running DEF IndInv, InHandOK, PAnnotate, kcp, history, ProjectReconcile, Phases
<1>2. /\ pr' = Idle \/ (pr' # Idle /\ pr'.key = p /\ pr'.info = pr.info)
      /\ pqueue' = pqueue \cup {p} \/ UNCHANGED pqueue
  BY <1>1 DEF PAnnotate, Return, Requeue, ProjectReconcile, Idle
<1>3. InHand' \in {InHand, [InHand EXCEPT ![p] = "none"]}
  BY <1>1, <1>2, Handles
<1>4. CASE UNCHANGED <<phase, watch>>
  <2>1. OnlyOn(p)
    BY <1>1, <1>2, <1>4, OnlyOnKey
  <2> QED BY <1>1, <1>3, <1>4, <2>1, Drops
<1>5. CASE Publish(p, pr.info) /\ phase[p] # "absent"
  <2>1. /\ phase' = [phase EXCEPT ![p] = pr.info]
        /\ \A q \in Projects \ {p} : watch'[q] = watch[q]
    BY <1>1, <1>5, Published
  <2>2. OnlyOn(p)
    BY <1>1, <1>2, <2>1, OnlyOnKey
  <2>3. pr.info \notin {"absent", "none"} /\ phase \in [Projects -> Phases]
    BY <1>1 DEF WorkspacePhases, TypeOK, Phases
  <2>4. ShownPhase' = [ShownPhase EXCEPT ![p] = InHand[p]] /\ InHand[p] # "none" /\ UNCHANGED Used
    BY <1>1, <1>5, <2>1, <2>3, Handles DEF ShownPhase, Used
  <2> QED BY <1>1, <1>3, <2>2, <2>4, Settles DEF Abstract!Show, Abstract!Keep, Used
<1> QED BY <1>4, <1>5 DEF PAnnotate

\* The condition is no concern of Mirror, but the end of the reconcile is.
LEMMA ConditionRefines ==
  ASSUME IndInv, IndInv', PCondition
  PROVE  \E p \in Projects : Abstract!Drop(p)
<1>p. PICK p \in Projects : p = pr.key
  BY Running DEF IndInv, PCondition
<1> USE <1>p
<1>1. pr # Idle /\ pr \in ProjectReconcile /\ UNCHANGED <<phase, watch, ws, unseen>>
  BY Running DEF IndInv, PCondition, kcp, informer, history
<1>2. /\ pr' = Idle \/ (pr' # Idle /\ pr'.key = p /\ pr'.info = pr.info)
      /\ pqueue' = pqueue \cup {p} \/ UNCHANGED pqueue
  BY <1>1 DEF PCondition, Return, Requeue, ProjectReconcile, Idle
<1>3. InHand' \in {InHand, [InHand EXCEPT ![p] = "none"]}
  BY <1>1, <1>2, Handles
<1>4. OnlyOn(p)
  BY <1>1, <1>2, OnlyOnKey
<1> QED BY <1>1, <1>3, <1>4, Drops

\* Events owe work.
LEMMA EventRefines ==
  ASSUME IndInv, IndInv', NEW p \in Projects, Deliver(p) \/ Resync(p) \/ UserEdit(p)
  PROVE  Abstract!Drop(p)
<1>1. /\ TypeOK /\ UNCHANGED <<phase, ws, unseen, pr>> /\ pqueue' = pqueue \cup {p}
  BY DEF IndInv, Deliver, Resync, UserEdit, Requeue, api, kcp, informer, history
<1>2. \A q \in Projects \ {p} : watch'[q] = watch[q]
  BY <1>1 DEF Deliver, Resync, UserEdit, informer, TypeOK
<1>3. OnlyOn(p) /\ InHand' = InHand
  BY <1>1, <1>2, OnlyOnEvent DEF InHand
<1> QED BY <1>1, <1>3, Drops

\* Users bring Projects and take them away.
LEMMA UserRefines ==
  ASSUME IndInv, IndInv', NEW p \in Projects, UserProject(p)
  PROVE  Abstract!Enter(p) \/ Abstract!Leave(p)
<1>1. TypeOK /\ UNCHANGED <<ws, unseen, pr, pqueue>>
  BY DEF IndInv, UserProject, kcp, queues
<1>2. PICK x \in {"none", "absent"} : Publish(p, x) /\ (x = "absent" <=> phase[p] # "absent")
  BY DEF UserProject
<1>3. phase' = [phase EXCEPT ![p] = x] /\ \A q \in Projects \ {p} : watch'[q] = watch[q]
  BY <1>1, <1>2, Published DEF Phases
<1>4. OnlyOn(p) /\ InHand' = InHand
  BY <1>1, <1>3, OnlyOnEvent DEF InHand
<1>5. Abstract!Settle(p)
  BY <1>4, Settles
<1>6. CASE x = "none"
  <2>1. Used' = Used \cup {p} /\ ShownPhase' = ShownPhase
    BY <1>1, <1>2, <1>3, <1>6 DEF Used, ShownPhase, TypeOK
  <2> QED BY <1>1, <1>4, <1>5, <2>1 DEF Abstract!Enter, Used
<1>7. CASE x = "absent"
  <2>1. Used' = Used \ {p} /\ ShownPhase' = [ShownPhase EXCEPT ![p] = "none"]
    BY <1>1, <1>3, <1>7 DEF Used, ShownPhase, TypeOK
  <2> QED BY <1>1, <1>4, <1>5, <2>1 DEF Abstract!Leave, Used
<1> QED BY <1>6, <1>7

\* kcp changes workspaces.
LEMMA KcpRefines ==
  ASSUME IndInv, IndInv', NEW w \in Projects, KcpReady(w) \/ KcpDisturb(w)
  PROVE  Abstract!Change(w)
<1>1. /\ UNCHANGED <<phase, pr, watch, pqueue>>
      /\ \A q \in Projects \ {w} : q \in unseen' <=> q \in unseen
  BY DEF KcpReady, KcpDisturb, api, informer, queues
<1>2. PICK v \in {"Ready", "Unavailable", "absent"} : ws' = [ws EXCEPT ![w] = v]
  BY DEF KcpReady, KcpDisturb
<1>3. OnlyOn(w) /\ InHand' = InHand /\ UNCHANGED <<Used, ShownPhase>>
  BY <1>1, OnlyOnEvent DEF InHand, Used, ShownPhase
<1>4. Abstract!Settle(w)
  BY <1>3, Settles
<1> QED BY <1>2, <1>3, <1>4 DEF Abstract!Change, Abstract!Keep, WorkspacePhases, Used

\* A restart is a crash.
LEMMA RestartRefines ==
  ASSUME IndInv, IndInv', Restart
  PROVE  Abstract!Crash
<1>1. UNCHANGED <<ws, Used, ShownPhase>> /\ InHand' = [p \in Projects |-> "none"]
  BY DEF Restart, api, kcp, Used, ShownPhase, InHand
<1>2. Due' \subseteq Projects /\ Used \subseteq Due'
  BY DEF Restart, Due, Used, Busy, api
<1> QED BY <1>1, <1>2 DEF Abstract!Crash, Used, Due

\* The project reconciler implements Mirror: whatever the interleaving of
\* reconciles, events, users, kcp, failures and restarts, an annotation is only
\* ever a phase the workspace had when the running reconcile read it, and the
\* operator stops owing work on a Project only while the phase it shows is the
\* present one.
THEOREM ReconcilerMirrors == Spec => ImplementsMirror
<1>1. Init => Abstract!Init
  <2> SUFFICES ASSUME Init PROVE Abstract!Init
    OBVIOUS
  <2>1. ws \in [Projects -> WorkspacePhases \cup {"absent"}]
    BY InitOK DEF IndInv, TypeOK
  <2>2. InHand = [p \in Projects |-> "none"] /\ ShownPhase = [p \in Projects |-> "none"]
    BY DEF Init, InHand, ShownPhase
  <2>3. Due = Used /\ Used \subseteq Projects
    BY DEF Init, Due, Used, Busy
  <2> QED BY <2>1, <2>2, <2>3 DEF Abstract!Init, Due, Used
<1>2. IndInv /\ IndInv' /\ [Next]_vars => [Abstract!Next]_Abstract!vars
  <2> SUFFICES ASSUME IndInv, IndInv', [Next]_vars PROVE [Abstract!Next]_Abstract!vars
    OBVIOUS
  <2>1. CASE PNext
    <3>1. \E p \in Projects : \/ Abstract!Drop(p) \/ Abstract!Fetch(p) \/ Abstract!Change(p)
                              \/ Abstract!Show(p)
      BY <2>1, StartRefines, CreateAndWaitRefine, AnnotateRefines, ConditionRefines, EventRefines
         DEF PNext
    <3> QED BY <3>1 DEF Abstract!Next
  <2>2. CASE SNext \/ UNCHANGED vars
              \/ \E s \in Staff : \E e \in Emails \cup {"absent", "none"} : UserStaff(s, e)
    <3>1. UNCHANGED <<phase, ws, watch, pqueue, pr, unseen>>
      BY <2>2, StaffLeavesProjects DEF informer
    <3>2. UNCHANGED <<ws, InHand, Used, ShownPhase, Due>>
      BY <3>1 DEF InHand, Used, ShownPhase, Due, Busy
    <3> QED BY <3>2 DEF Abstract!vars, Used, Due
  <2>3. CASE Others
    <3>1. \/ \E p \in Projects : \/ Abstract!Enter(p) \/ Abstract!Leave(p) \/ Abstract!Drop(p)
                                 \/ Abstract!Change(p)
          \/ Abstract!Crash
          \/ \E s \in Staff : \E e \in Emails \cup {"absent", "none"} : UserStaff(s, e)
      BY <2>3, UserRefines, EventRefines, KcpRefines, RestartRefines DEF Others
    <3> QED BY <2>2, <3>1 DEF Abstract!Next
  <2> QED BY <2>1, <2>2, <2>3 DEF Next
<1> QED BY InitOK, NextOK, <1>1, <1>2, PTL DEF Spec, ImplementsMirror, Abstract!Spec
===============================================================================
