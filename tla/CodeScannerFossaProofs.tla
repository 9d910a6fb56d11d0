----------------------- MODULE CodeScannerFossaProofs -----------------------
(***************************************************************************)
(* Theorems about CodeScannerFossa, for any projects, people, generations  *)
(* and any number of failures and interferences.                           *)
(***************************************************************************)
EXTENDS CodeScannerFossa, TLAPS

\* Nobody has told the operator of a change that it has not seen: then the
\* resource it works on is the stored one.
Fresh == synced /\ ~queued

\* u is in the team of p, or was taken out of it by hand.
WasIn(p, u) == u \in members[p] \/ <<p, u>> \in removed

Earned(inv) ==
  \A u \in People : inv[u] = "AddedToTeam" =>
    \E p \in Projects : <<p, u>> \in asked /\ WasIn(p, u)

\* A status claims only what is so, and its parts fit together well enough to
\* be mixed with those of another one (Decoded).
StatusOK(s) ==
  /\ s.team \in teams \cup {None}
  /\ s.ready = "TeamCreated" => s.team # None
  /\ s.ready = "unset" => s.inv = NoInvitations /\ s.processed = "unset"
  /\ s.processed = "TeamMembershipProcessed" =>
       /\ s.inv # NoInvitations
       /\ \A u \in People : s.inv[u] \in {"none", "AddedToTeam"}
  /\ Earned(s.inv)

\* Any version of the resource, the copies included.
ResourceOK(x) == {x.project} \X x.emails \subseteq asked /\ StatusOK(x.status)

\* The entry of u in a reconcile: decided, and kept account of.
Settled(u) ==
  /\ r.inv[u] # "none"
  /\ r.inv[u] = "Pending" => r.pending
  /\ r.inv[u] \in FailedStatus => r.trouble

BeforeTeam == {"credentials", "team"}
BeforeMap == BeforeTeam \cup {"configMap"}
BeforeInvitations == BeforeMap \cup {"users"}
Inviting == {"invite", "send"}
Deciding == {"teamEmails", "add", "annotate"}

\* The status in hand describes the version in hand.
Described ==
  /\ r.obj.status.observed = r.obj.gen
  /\ r.obj.status.team = r.obj.project
  /\ r.obj.status.ready = "TeamCreated"

\* What a reconcile has made sure of, by the step it is at.
RunOK ==
  /\ Earned(r.inv)
  /\ r.pc \notin {"idle", "status"} => \A u \in People : r.inv[u] # "none" => u \in r.obj.emails
  /\ r.pc \in BeforeInvitations => r.inv = NoInvitations
  /\ r.pc \notin BeforeTeam \cup {"idle", "status"} => Described
  /\ r.pc \in Inviting => r.todo \subseteq r.obj.emails /\ \A u \in r.obj.emails \ r.todo : Settled(u)
  /\ r.pc = "send" => r.cur \in r.todo
  /\ r.pc \in Deciding /\ ~r.trouble => \A u \in r.obj.emails : Settled(u)
  /\ r.pc = "add" => /\ \A u \in r.todo : r.inv[u] = "Accepted"
                     /\ \A u \in r.known : WasIn(r.obj.project, u)
  /\ r.pc = "status" => r.then = "done" \/ r.trouble

\* What holds of the reconcile as long as nothing changed behind its back.
FreshOK ==
  Fresh /\ r.pc # "idle" =>
    /\ [r.obj EXCEPT !.status = NoStatus] = [cr EXCEPT !.status = NoStatus]
    /\ r.pc \notin BeforeMap /\ (r.pc = "status" => r.then = "done") => configMap = r.obj.project
    /\ r.pc = "status" /\ ~r.trouble =>
         /\ Described /\ r.obj.status.inv = r.inv
         /\ \A u \in r.obj.emails : Settled(u)

\* The inductive invariant.
IndInv ==
  /\ TypeOK
  /\ synced => cache = cr
  /\ ResourceOK(cr) /\ ResourceOK(cache) /\ ResourceOK(r.obj)
  /\ RunOK
  /\ FreshOK
  /\ NothingForgotten
-----------------------------------------------------------------------------
\* What is known only grows: teams, what was asked for, who was in a team.
Grown ==
  /\ teams \subseteq teams' /\ asked \subseteq asked'
  /\ \A p \in Projects, u \in People : WasIn(p, u) => WasIn(p, u)'

LEMMA GrownFrame ==
  ASSUME teams \subseteq teams', asked \subseteq asked', UNCHANGED <<members, removed>>
  PROVE  Grown
BY DEF Grown, WasIn

\* A version that was all right stays so.
LEMMA ResourceKept ==
  ASSUME Grown, NEW x, ResourceOK(x)
  PROVE  ResourceOK(x)'
<1>1. Earned(x.status.inv)'
  BY DEF Grown, ResourceOK, StatusOK, Earned
<1> QED BY <1>1 DEF Grown, ResourceOK, StatusOK

LEMMA EarnedKept ==
  ASSUME Grown, NEW inv, Earned(inv)
  PROVE  Earned(inv)'
BY DEF Grown, Earned

\* The copies that a step leaves alone.
LEMMA StoredKept ==
  ASSUME IndInv, Grown
  PROVE  /\ UNCHANGED cr => ResourceOK(cr)'
         /\ UNCHANGED cache => ResourceOK(cache)'
         /\ r'.obj = r.obj => ResourceOK(r.obj)'
<1>1. ASSUME UNCHANGED cr PROVE ResourceOK(cr)'
  <2>1. PICK x : x = cr
    OBVIOUS
  <2>2. ResourceOK(x)'
    BY <2>1, ResourceKept DEF IndInv
  <2> QED BY <1>1, <2>1, <2>2 DEF ResourceOK, StatusOK, Earned, WasIn
<1>2. ASSUME UNCHANGED cache PROVE ResourceOK(cache)'
  <2>1. PICK x : x = cache
    OBVIOUS
  <2>2. ResourceOK(x)'
    BY <2>1, ResourceKept DEF IndInv
  <2> QED BY <1>2, <2>1, <2>2 DEF ResourceOK, StatusOK, Earned, WasIn
<1>3. ASSUME r'.obj = r.obj PROVE ResourceOK(r.obj)'
  <2>1. PICK x : x = r.obj
    OBVIOUS
  <2>2. ResourceOK(x)'
    BY <2>1, ResourceKept DEF IndInv
  <2> QED BY <1>3, <2>1, <2>2 DEF ResourceOK, StatusOK, Earned, WasIn
<1> QED BY <1>1, <1>2, <1>3

LEMMA NoInvitationsOK ==
  ASSUME TRUE
  PROVE  /\ NoInvitations \in [People -> InvitationStatus]
         /\ \A u \in People : NoInvitations[u] = "none"
         /\ NoStatus \in Status /\ Blank \in Resource
         /\ \A b \in BOOLEAN : Idle(b) \in Reconciler
<1>1. NoInvitations \in [People -> InvitationStatus] /\ \A u \in People : NoInvitations[u] = "none"
  BY DEF NoInvitations, InvitationStatus
<1>2. 0 \in 0..MaxGen /\ 1 \in 1..MaxGen /\ (CHOOSE p \in Projects : TRUE) \in Projects
  BY ConstantsAssumption
<1>3. NoStatus \in Status
  BY <1>1, <1>2 DEF NoStatus, Status
<1>4. Blank \in Resource
  BY <1>2, <1>3 DEF Blank, Resource
<1>5. \A b \in BOOLEAN : Idle(b) \in Reconciler
  BY <1>1, <1>4 DEF Idle, Reconciler, Pc
<1> QED BY <1>1, <1>3, <1>4, <1>5

\* No resource, and no reconcile.
LEMMA BlankOK == ResourceOK(Blank)
BY NoInvitationsOK DEF Blank, NoStatus, ResourceOK, StatusOK, Earned

LEMMA IdleOK ==
  ASSUME NEW b \in BOOLEAN, r' = Idle(b)
  PROVE  /\ r'.pc = "idle" /\ r'.trouble = b /\ r'.obj = Blank /\ r' \in Reconciler
         /\ ResourceOK(r.obj)' /\ RunOK' /\ FreshOK'
<1>1. /\ r'.pc = "idle" /\ r'.trouble = b /\ r'.obj = Blank /\ r'.inv = NoInvitations
      /\ r' \in Reconciler
  BY NoInvitationsOK DEF Idle
<1>2. ResourceOK(r.obj)'
  BY <1>1, NoInvitationsOK DEF Blank, NoStatus, ResourceOK, StatusOK, Earned
<1>3. RunOK'
  BY <1>1, NoInvitationsOK DEF RunOK, Earned, BeforeTeam, BeforeMap, BeforeInvitations, Inviting,
     Deciding
<1>4. FreshOK'
  BY <1>1 DEF FreshOK
<1> QED BY <1>1, <1>2, <1>3, <1>4

LEMMA InitOK == Init => IndInv
<1> SUFFICES ASSUME Init PROVE IndInv
  OBVIOUS
<1>1. TypeOK
  <2>1. r \in Reconciler /\ cr \in Resource /\ cache \in Resource
    BY NoInvitationsOK DEF Init
  <2>2. mishaps \in 0..MaxMishaps
    BY ConstantsAssumption DEF Init
  <2> QED BY <2>1, <2>2 DEF Init, TypeOK
<1>2. ResourceOK(cr) /\ ResourceOK(cache) /\ ResourceOK(r.obj)
  BY BlankOK DEF Init, Idle
<1>3. RunOK
  BY NoInvitationsOK DEF Init, Idle, RunOK, Earned, BeforeTeam, BeforeMap, BeforeInvitations,
     Inviting, Deciding
<1>4. FreshOK /\ NothingForgotten
  BY DEF Init, FreshOK, NothingForgotten, Idle, Blank
<1> QED BY <1>1, <1>2, <1>3, <1>4 DEF IndInv, Init
-----------------------------------------------------------------------------
\* Reconcile returns an error.
LEMMA RetryOK ==
  ASSUME IndInv, TypeOK', Grown, Retry, UNCHANGED <<cr, cache, synced>>
  PROVE  IndInv'
<1>1. r' = Idle(TRUE) /\ queued'
  BY DEF Retry
<1>2. ResourceOK(r.obj)' /\ RunOK' /\ FreshOK'
  BY <1>1, IdleOK
<1>3. ResourceOK(cr)' /\ ResourceOK(cache)'
  BY StoredKept
<1>4. NothingForgotten'
  BY <1>1 DEF NothingForgotten, Asleep
<1> QED BY <1>2, <1>3, <1>4 DEF IndInv

\* Reconcile goes on.
LEMMA GoesOn ==
  ASSUME IndInv, TypeOK', Grown, UNCHANGED <<cr, cache, synced>>, r'.pc # "idle",
         ResourceOK(r.obj)', RunOK', FreshOK'
  PROVE  IndInv'
<1>1. ResourceOK(cr)' /\ ResourceOK(cache)'
  BY StoredKept
<1>2. NothingForgotten'
  BY DEF NothingForgotten, Asleep, At
<1> QED BY <1>1, <1>2 DEF IndInv

\* Somebody else does something: the reconcile stays where it is, and learns
\* of what concerns it.
LEMMA Meanwhile ==
  ASSUME IndInv, TypeOK', Grown, ResourceOK(cr)', ResourceOK(cache)', synced' => cache' = cr',
         r' = r \/ r' = [r EXCEPT !.current = FALSE],
         Fresh' => Fresh /\ UNCHANGED <<cr, configMap, timer>>
  PROVE  IndInv'
<1>1. /\ r'.pc = r.pc /\ r'.obj = r.obj /\ r'.todo = r.todo /\ r'.cur = r.cur /\ r'.known = r.known
      /\ r'.inv = r.inv /\ r'.pending = r.pending /\ r'.then = r.then /\ r'.trouble = r.trouble
  BY DEF IndInv, TypeOK, Reconciler
<1>2. ResourceOK(r.obj)'
  BY <1>1, StoredKept
<1>3. Earned(r.inv)'
  <2>1. PICK i : i = r.inv
    OBVIOUS
  <2>2. Earned(i)'
    BY <2>1, EarnedKept DEF IndInv, RunOK
  <2> QED BY <1>1, <2>1, <2>2 DEF Earned, WasIn
<1>4. r'.pc = "add" => \A u \in r'.known : WasIn(r.obj.project, u)'
  <2>1. r.known \subseteq People
    BY DEF IndInv, TypeOK, Reconciler
  <2>2. PICK p \in Projects : p = r.obj.project
    BY DEF IndInv, TypeOK, Reconciler, Resource
  <2>3. r.pc = "add" => \A u \in r.known : WasIn(p, u)'
    BY <2>1, <2>2 DEF IndInv, RunOK, Grown
  <2> QED BY <1>1, <2>2, <2>3 DEF WasIn
<1>5. RunOK'
  <2>1. \A u \in People : Settled(u) => Settled(u)'
    BY <1>1 DEF Settled
  <2>2. r.obj.emails \subseteq People
    BY DEF IndInv, TypeOK, Reconciler, Resource
  <2>3. Described => Described'
    BY <1>1 DEF Described
  <2>4. RunOK
    BY DEF IndInv
  <2> QED BY <1>1, <1>3, <1>4, <2>1, <2>2, <2>3, <2>4 DEF RunOK
<1>6. FreshOK'
  <2> SUFFICES ASSUME Fresh', r'.pc # "idle" PROVE FreshOK'
    BY DEF FreshOK
  <2>1. FreshOK /\ Fresh /\ UNCHANGED <<cr, configMap>>
    BY DEF IndInv
  <2> QED BY <1>1, <2>1 DEF FreshOK, Described, Settled
<1>7. NothingForgotten'
  <2> SUFFICES ASSUME Asleep' PROVE NothingForgotten'
    BY DEF NothingForgotten
  <2>1. Fresh' /\ r'.pc = "idle" /\ ~timer'
    BY DEF Asleep, Fresh, At
  <2>2. Asleep /\ UNCHANGED <<cr, configMap>>
    BY <1>1, <2>1 DEF Asleep, Fresh, At
  <2> QED BY <1>1, <2>2 DEF IndInv, NothingForgotten
<1> QED BY <1>2, <1>5, <1>6, <1>7 DEF IndInv
-----------------------------------------------------------------------------
\* Everybody else.
LEMMA MishapTyped ==
  ASSUME mishaps \in 0..MaxMishaps, Mishap \/ Smooth
  PROVE  mishaps' \in 0..MaxMishaps
BY ConstantsAssumption DEF Mishap, Smooth

LEMMA OutdatedTyped ==
  ASSUME r \in Reconciler, r' = r \/ r' = [r EXCEPT !.current = FALSE]
  PROVE  r' \in Reconciler
BY DEF Reconciler

\* A change of the stored resource.
LEMMA StoreNew ==
  ASSUME NEW x, Store(x, FALSE), x # cr
  PROVE  cr' = x /\ synced' = FALSE
BY DEF Store

LEMMA WatchOK ==
  ASSUME IndInv, Sync \/ Fire \/ Resync
  PROVE  IndInv'
<1>0. TypeOK
  BY DEF IndInv
<1>1. /\ UNCHANGED <<cr, configMap, secret, teams, members, account, r, mishaps, asked, removed>>
      /\ queued' = TRUE
  BY DEF Sync, Fire, Resync, fossa, history
<1>2. Grown
  BY <1>1, GrownFrame
<1>3. /\ synced' => cache' = cr'
      /\ cache' = cr \/ cache' = cache
      /\ synced' \in BOOLEAN /\ timer' \in BOOLEAN
  <2>1. (synced => cache = cr) /\ synced \in BOOLEAN /\ timer \in BOOLEAN
    BY <1>0 DEF IndInv, TypeOK
  <2>2. CASE Sync
    BY <2>1, <2>2 DEF Sync
  <2>3. CASE Fire \/ Resync
    <3>1. UNCHANGED <<cr, cache, synced>> /\ (timer' = FALSE \/ timer' = timer)
      BY <2>3 DEF Fire, Resync
    <3> QED BY <2>1, <3>1
  <2> QED BY <2>2, <2>3
<1>4. ResourceOK(cr)' /\ ResourceOK(cache)'
  <2>1. ResourceOK(cr)'
    BY <1>1, <1>2, StoredKept
  <2>2. CASE cache' = cr
    BY <1>1, <2>1, <2>2 DEF ResourceOK, StatusOK, Earned, WasIn
  <2>3. CASE cache' = cache
    BY <1>2, <2>1, <2>3, StoredKept
  <2> QED BY <1>3, <2>1, <2>2, <2>3
<1>5. TypeOK'
  BY <1>0, <1>1, <1>3 DEF TypeOK
<1>6. ~Fresh'
  BY <1>1 DEF Fresh
<1> QED BY <1>1, <1>2, <1>3, <1>4, <1>5, <1>6, Meanwhile

\* Somebody changes the stored resource.
LEMMA StoredAnew ==
  ASSUME IndInv, NEW x \in Resource, Store(x, FALSE), x # cr, Outdated,
         asked \subseteq asked', asked' \subseteq Projects \X People,
         {x.project} \X x.emails \subseteq asked', x.status = cr.status \/ x.status = NoStatus,
         UNCHANGED <<cache, secret, teams, members, account, queued, timer, removed>>,
         configMap' \in {configMap, None}, Mishap \/ Smooth
  PROVE  IndInv'
<1>0. TypeOK
  BY DEF IndInv
<1>1. cr' = x /\ synced' = FALSE
  BY StoreNew
<1>2. r' \in Reconciler
  BY <1>0, OutdatedTyped DEF Outdated, TypeOK
<1>3. mishaps' \in 0..MaxMishaps
  BY <1>0, MishapTyped DEF TypeOK
<1>4. TypeOK'
  BY <1>0, <1>1, <1>2, <1>3 DEF TypeOK
<1>5. Grown
  BY GrownFrame
<1>6. ResourceOK(cr)'
  <2>1. StatusOK(x.status)'
    <3>1. PICK y : y = cr
      OBVIOUS
    <3>2. StatusOK(y.status)'
      BY <1>5, <3>1, ResourceKept DEF IndInv, ResourceOK
    <3>3. StatusOK(NoStatus)'
      BY NoInvitationsOK DEF StatusOK, NoStatus, Earned
    <3> QED BY <3>1, <3>2, <3>3 DEF StatusOK, Earned, WasIn
  <2> QED BY <1>1, <2>1 DEF ResourceOK, StatusOK, Earned, WasIn
<1>7. ResourceOK(cache)'
  BY <1>5, StoredKept
<1>8. ~Fresh'
  BY <1>1 DEF Fresh
<1> QED BY <1>1, <1>4, <1>5, <1>6, <1>7, <1>8, Meanwhile DEF Outdated

LEMMA SpecEditsOK ==
  ASSUME IndInv, NEW p \in Projects, NEW emails \in SUBSET People,
         CreateResource(p, emails) \/ EditSpec(p, emails)
  PROVE  IndInv'
<1>0. TypeOK /\ cr \in Resource
  BY DEF IndInv, TypeOK
<1>a. UNCHANGED <<cache, secret, teams, members, account, queued, timer, removed, configMap>>
      /\ asked' = asked \cup ({p} \X emails) /\ Outdated /\ (Mishap \/ Smooth)
  BY DEF CreateResource, EditSpec, Smooth, fossa
<1>b. asked \subseteq asked' /\ asked' \subseteq Projects \X People /\ {p} \X emails \subseteq asked'
  BY <1>0, <1>a DEF TypeOK
<1>1. CASE CreateResource(p, emails)
  <2> DEFINE x == WithSpec([Blank EXCEPT !.exists = TRUE], p, emails)
  <2>1. /\ x \in Resource /\ x.project = p /\ x.emails = emails /\ x.status = NoStatus
        /\ x.exists = TRUE
    BY NoInvitationsOK DEF WithSpec, Resource, Blank
  <2>2. x # cr /\ Store(x, FALSE)
    BY <1>1, <2>1 DEF CreateResource
  <2> HIDE DEF x
  <2> QED BY <1>a, <1>b, <2>1, <2>2, StoredAnew
<1>2. CASE EditSpec(p, emails)
  <2> DEFINE x == [WithSpec(cr, p, emails) EXCEPT !.gen = @ + 1]
  <2>1. cr.gen + 1 \in 1..MaxGen
    BY <1>0, <1>2, ConstantsAssumption DEF EditSpec, Resource
  <2>2. /\ x \in Resource /\ x.project = p /\ x.emails = emails /\ x.status = cr.status
        /\ x.gen = cr.gen + 1
    BY <1>0, <2>1 DEF WithSpec, Resource
  <2>3. x # cr /\ Store(x, FALSE)
    <3>1. cr.gen + 1 # cr.gen
      BY <1>0 DEF Resource
    <3> QED BY <1>2, <2>2, <3>1 DEF EditSpec
  <2>4. PICK y \in Resource : y = x
    BY <2>2
  <2> HIDE DEF x
  <2>5. /\ y # cr /\ Store(y, FALSE) /\ y.project = p /\ y.emails = emails
        /\ y.status = cr.status
    BY <2>2, <2>3, <2>4
  <2> QED BY <1>a, <1>b, <2>5, StoredAnew
<1> QED BY <1>1, <1>2

LEMMA OtherEditsOK ==
  ASSUME IndInv, DropAnnotation \/ DeleteResource
  PROVE  IndInv'
<1>0. TypeOK /\ cr \in Resource /\ asked \subseteq Projects \X People
  BY DEF IndInv, TypeOK
<1>1. CASE DropAnnotation
  <2> DEFINE x == [cr EXCEPT !.annotated = FALSE]
  <2>1. x \in Resource /\ x.project = cr.project /\ x.emails = cr.emails /\ x.status = cr.status
        /\ x.annotated = FALSE
    BY <1>0 DEF Resource
  <2>2. x # cr /\ Store(x, FALSE)
    BY <1>1, <2>1 DEF DropAnnotation
  <2>3. PICK y \in Resource : y = x
    BY <2>1
  <2>4. {cr.project} \X cr.emails \subseteq asked
    BY DEF IndInv, ResourceOK
  <2> HIDE DEF x
  <2>5. /\ y # cr /\ Store(y, FALSE) /\ {y.project} \X y.emails \subseteq asked
        /\ y.status = cr.status
    BY <2>1, <2>2, <2>3, <2>4
  <2>6. /\ UNCHANGED <<cache, secret, teams, members, account, queued, timer, removed, asked, configMap>>
        /\ Outdated /\ Mishap
    BY <1>1 DEF DropAnnotation, fossa, history
  <2> QED BY <1>0, <2>5, <2>6, StoredAnew
<1>2. CASE DeleteResource
  <2>1. Blank \in Resource /\ {Blank.project} \X Blank.emails \subseteq asked /\ Blank.status = NoStatus
        /\ Blank.exists = FALSE
    BY NoInvitationsOK DEF Blank
  <2>2. Blank # cr /\ Store(Blank, FALSE)
    BY <1>2, <2>1 DEF DeleteResource
  <2>3. /\ UNCHANGED <<cache, secret, teams, members, account, queued, timer, removed, asked>>
        /\ configMap' = None /\ Outdated /\ Mishap
    BY <1>2 DEF DeleteResource, fossa, history
  <2> QED BY <1>0, <2>1, <2>2, <2>3, StoredAnew
<1> QED BY <1>1, <1>2

\* Whoever edits the ConfigMap, the secret or FOSSA.
LEMMA OutsideOK ==
  ASSUME IndInv, TypeOK', Grown, UNCHANGED <<cr, cache, synced, timer, r>>,
         queued' = TRUE \/ UNCHANGED <<queued, configMap>>
  PROVE  IndInv'
<1>1. ResourceOK(cr)' /\ ResourceOK(cache)'
  BY StoredKept
<1>2. synced' => cache' = cr'
  BY DEF IndInv
<1>3. Fresh' => Fresh /\ UNCHANGED <<cr, configMap, timer>>
  BY DEF Fresh
<1> QED BY <1>1, <1>2, <1>3, Meanwhile

LEMMA MembersOK ==
  ASSUME IndInv, NEW p \in Projects, NEW u \in People, RemoveMember(p, u) \/ AddElsewhere(p, u)
  PROVE  IndInv'
<1>0. TypeOK /\ members \in [Projects -> SUBSET People]
  BY DEF IndInv, TypeOK
<1>1. /\ UNCHANGED <<cr, cache, synced, configMap, secret, teams, account, queued, timer, r, asked>>
      /\ Mishap
  BY DEF RemoveMember, AddElsewhere, history
<1>2. \/ members' = [members EXCEPT ![p] = @ \ {u}] /\ removed' = removed \cup {<<p, u>>}
      \/ members' = [members EXCEPT ![p] = @ \cup {u}] /\ removed' = removed
  BY DEF RemoveMember, AddElsewhere, history
<1>3. members' \in [Projects -> SUBSET People] /\ removed' \subseteq Projects \X People
  BY <1>0, <1>2 DEF TypeOK
<1>4. mishaps' \in 0..MaxMishaps
  BY <1>0, <1>1, MishapTyped DEF TypeOK
<1>5. TypeOK'
  BY <1>0, <1>1, <1>3, <1>4 DEF TypeOK
<1>6. Grown
  BY <1>0, <1>1, <1>2 DEF Grown, WasIn
<1> QED BY <1>1, <1>5, <1>6, OutsideOK

LEMMA AccountsOK ==
  ASSUME IndInv, NEW u \in People, InviteElsewhere(u) \/ AcceptInvitation(u) \/ ExpireInvitation(u)
  PROVE  IndInv'
<1>0. TypeOK
  BY DEF IndInv
<1>1. /\ UNCHANGED <<cr, cache, synced, configMap, secret, teams, members, queued, timer, r,
                     asked, removed>>
      /\ Mishap \/ Smooth
      /\ \E a \in {"none", "pending", "user"} : account' = [account EXCEPT ![u] = a]
  BY DEF InviteElsewhere, AcceptInvitation, ExpireInvitation, Smooth, history
<1>2. account' \in [People -> {"none", "pending", "user"}]
  BY <1>0, <1>1 DEF TypeOK
<1>3. mishaps' \in 0..MaxMishaps
  BY <1>0, <1>1, MishapTyped DEF TypeOK
<1>4. TypeOK'
  BY <1>0, <1>1, <1>2, <1>3 DEF TypeOK
<1>5. Grown
  BY <1>1, GrownFrame
<1> QED BY <1>1, <1>4, <1>5, OutsideOK

LEMMA ObjectsOK ==
  ASSUME IndInv, EditConfigMap \/ EditSecret
  PROVE  IndInv'
<1>0. TypeOK
  BY DEF IndInv
<1>1. /\ UNCHANGED <<cr, cache, synced, teams, members, account, timer, r, asked, removed>>
      /\ Mishap /\ (queued' = TRUE \/ UNCHANGED <<queued, configMap>>)
      /\ configMap' \in {configMap, None}
  BY DEF EditConfigMap, EditSecret, fossa, history
<1>2. secret' \in BOOLEAN
  BY <1>0 DEF TypeOK, EditConfigMap, EditSecret
<1>3. mishaps' \in 0..MaxMishaps
  BY <1>0, <1>1, MishapTyped DEF TypeOK
<1>4. TypeOK'
  BY <1>0, <1>1, <1>2, <1>3 DEF TypeOK
<1>5. Grown
  BY <1>1, GrownFrame
<1> QED BY <1>1, <1>4, <1>5, OutsideOK

LEMMA RestartOK ==
  ASSUME IndInv, Restart
  PROVE  IndInv'
<1>0. TypeOK
  BY DEF IndInv
<1>1. /\ UNCHANGED <<cr, configMap, secret, teams, members, account, asked, removed>> /\ Mishap
      /\ r' = Idle(FALSE) /\ cache' = cr /\ synced' = TRUE /\ timer' = FALSE /\ queued' = cr.exists
  BY DEF Restart, fossa, history
<1>2. r' \in Reconciler /\ ResourceOK(r.obj)' /\ RunOK' /\ FreshOK'
  BY <1>1, IdleOK
<1>3. mishaps' \in 0..MaxMishaps
  BY <1>0, <1>1, MishapTyped DEF TypeOK
<1>4. cr.exists \in BOOLEAN
  BY <1>0 DEF TypeOK, Resource
<1>5. TypeOK'
  BY <1>0, <1>1, <1>2, <1>3, <1>4 DEF TypeOK
<1>6. Grown
  BY <1>1, GrownFrame
<1>7. ResourceOK(cr)'
  BY <1>1, <1>6, StoredKept
<1>8. ResourceOK(cache)'
  BY <1>1, <1>7 DEF ResourceOK, StatusOK, Earned, WasIn
<1>9. NothingForgotten'
  BY <1>1, <1>4 DEF NothingForgotten, Asleep
<1> QED BY <1>1, <1>2, <1>5, <1>7, <1>8, <1>9 DEF IndInv
-----------------------------------------------------------------------------
\* Reconcile, step by step.

\* The fields of a reconcile that is not idle, and its resource.
LEMMA RunTyped ==
  ASSUME IndInv
  PROVE  /\ r \in Reconciler /\ r.obj \in Resource /\ r.obj.status \in Status
         /\ r.obj.emails \subseteq People /\ r.obj.project \in Projects /\ r.todo \subseteq People
         /\ r.known \subseteq People /\ r.inv \in [People -> InvitationStatus]
         /\ r.pending \in BOOLEAN /\ r.trouble \in BOOLEAN
<1>1. r \in Reconciler
  BY DEF IndInv, TypeOK
<1>2. r.obj \in Resource
  BY <1>1 DEF Reconciler
<1> QED BY <1>1, <1>2 DEF Reconciler, Resource

LEMMA GetOK ==
  ASSUME IndInv, Get
  PROVE  IndInv'
<1>0. TypeOK
  BY DEF IndInv
<1>1. UNCHANGED <<cr, cache, synced, configMap, secret, teams, members, account, timer, asked, removed>>
  BY DEF Get, fossa, history
<1>2. Grown
  BY <1>1, GrownFrame
<1>3. mishaps' \in 0..MaxMishaps /\ queued' \in BOOLEAN
  BY <1>0, MishapTyped DEF TypeOK, Get, Retry
<1>4. CASE Mishap /\ Retry
  <2>1. r' \in Reconciler
    BY <1>4, IdleOK DEF Retry
  <2>2. TypeOK'
    BY <1>0, <1>1, <1>3, <2>1 DEF TypeOK
  <2> QED BY <1>1, <1>2, <1>4, <2>2, RetryOK
<1>5. CASE queued' = FALSE /\ ~cache.exists /\ r' = Idle(FALSE)
  <2>1. r' \in Reconciler /\ ResourceOK(r.obj)' /\ RunOK' /\ FreshOK'
    BY <1>5, IdleOK
  <2>2. TypeOK'
    BY <1>0, <1>1, <1>3, <2>1 DEF TypeOK
  <2>3. ResourceOK(cr)' /\ ResourceOK(cache)'
    BY <1>1, <1>2, StoredKept
  <2>4. synced' => cache' = cr'
    BY <1>1 DEF IndInv
  <2>5. NothingForgotten'
    BY <1>1, <1>5, <2>4 DEF NothingForgotten, Asleep
  <2> QED BY <2>1, <2>2, <2>3, <2>4, <2>5 DEF IndInv
<1>6. CASE queued' = FALSE /\ cache.exists /\ r' = Started
  <2>1. r' = [pc |-> "credentials", obj |-> cache, current |-> synced, todo |-> {}, cur |-> None,
              known |-> {}, inv |-> NoInvitations, pending |-> FALSE, then |-> "done",
              trouble |-> FALSE]
    BY <1>6 DEF Started, Idle
  <2>2. r' \in Reconciler
    BY <1>0, <2>1, NoInvitationsOK DEF TypeOK, Reconciler, Pc
  <2>3. TypeOK'
    BY <1>0, <1>1, <1>3, <2>2 DEF TypeOK
  <2>4. ResourceOK(cache)'
    BY <1>1, <1>2, StoredKept
  <2>5. ResourceOK(r.obj)'
    BY <1>1, <2>1, <2>4 DEF ResourceOK, StatusOK, Earned, WasIn
  <2>6. RunOK'
    BY <2>1, NoInvitationsOK DEF RunOK, Earned, BeforeTeam, BeforeMap, BeforeInvitations, Inviting,
       Deciding
  <2>7. FreshOK'
    BY <1>1, <2>1 DEF IndInv, FreshOK, Fresh, BeforeTeam, BeforeMap
  <2> QED BY <1>1, <1>2, <2>1, <2>3, <2>5, <2>6, <2>7, GoesOn
<1> QED BY <1>4, <1>5, <1>6 DEF Get

LEMMA CredentialsOK ==
  ASSUME IndInv, GetFossaCredentials
  PROVE  IndInv'
<1>0. TypeOK /\ RunOK /\ FreshOK /\ r.pc = "credentials"
  BY DEF IndInv, GetFossaCredentials, At
<1>1. UNCHANGED <<cr, cache, synced, configMap, secret, teams, members, account, queued, timer,
                  asked, removed>>
  BY DEF GetFossaCredentials, fossa, history
<1>2. Grown
  BY <1>1, GrownFrame
<1>3. mishaps' \in 0..MaxMishaps
  BY <1>0, MishapTyped DEF TypeOK, GetFossaCredentials
<1>4. CASE r' = [r EXCEPT !.pc = "team"]
  <2>1. /\ r' \in Reconciler /\ r'.pc = "team" /\ r'.obj = r.obj /\ r'.inv = r.inv
    BY <1>4, RunTyped DEF Reconciler, Pc
  <2>2. TypeOK'
    BY <1>0, <1>1, <1>3, <2>1 DEF TypeOK
  <2>3. ResourceOK(r.obj)'
    BY <1>2, <2>1, StoredKept
  <2>4. r'.inv = NoInvitations
    BY <1>0, <2>1 DEF RunOK, BeforeTeam, BeforeMap, BeforeInvitations
  <2>5. RunOK'
    BY <2>1, <2>4, NoInvitationsOK DEF RunOK, Earned, BeforeTeam, BeforeMap, BeforeInvitations,
       Inviting, Deciding
  <2>6. FreshOK'
    BY <1>0, <1>1, <2>1 DEF FreshOK, Fresh, BeforeTeam, BeforeMap
  <2> QED BY <1>1, <1>2, <2>1, <2>2, <2>3, <2>5, <2>6, GoesOn
<1>5. CASE r' = [r EXCEPT !.pc = "status", !.then = "missing", !.trouble = TRUE,
                          !.obj.status.ready = "CredentialsNotFound"]
  <2>1. PICK s \in Status : s = [r.obj.status EXCEPT !.ready = "CredentialsNotFound"]
    BY RunTyped DEF Status
  <2>2. /\ s.team = r.obj.status.team /\ s.inv = r.obj.status.inv /\ s.ready = "CredentialsNotFound"
        /\ s.processed = r.obj.status.processed
    BY <2>1, RunTyped DEF Status
  <2>3. PICK o \in Resource : o = [r.obj EXCEPT !.status = s]
    BY RunTyped DEF Resource
  <2>4. /\ o.project = r.obj.project /\ o.emails = r.obj.emails /\ o.status = s
        /\ [o EXCEPT !.status = NoStatus] = [r.obj EXCEPT !.status = NoStatus]
    BY <2>3, RunTyped DEF Resource
  <2>5. r' = [r EXCEPT !.pc = "status", !.then = "missing", !.trouble = TRUE, !.obj = o]
    BY <1>5, <2>1, <2>3
  <2>6. /\ r' \in Reconciler /\ r'.pc = "status" /\ r'.obj = o /\ r'.inv = r.inv
        /\ r'.trouble = TRUE /\ r'.then = "missing"
    BY <2>5, RunTyped DEF Reconciler, Pc
  <2>7. TypeOK'
    BY <1>0, <1>1, <1>3, <2>6 DEF TypeOK
  <2>8. ResourceOK(r.obj)'
    <3>1. ResourceOK(o)
      BY <2>2, <2>4 DEF IndInv, ResourceOK, StatusOK
    <3>2. ResourceOK(o)'
      BY <1>2, <3>1, ResourceKept
    <3> QED BY <2>6, <3>2 DEF ResourceOK, StatusOK, Earned, WasIn
  <2>9. r'.inv = NoInvitations
    BY <1>0, <2>6 DEF RunOK, BeforeTeam, BeforeMap, BeforeInvitations
  <2>10. RunOK'
    BY <2>6, <2>9, NoInvitationsOK DEF RunOK, Earned, BeforeTeam, BeforeMap, BeforeInvitations,
       Inviting, Deciding
  <2>11. FreshOK'
    BY <1>0, <1>1, <2>4, <2>6 DEF FreshOK, Fresh
  <2> QED BY <1>1, <1>2, <2>6, <2>7, <2>8, <2>10, <2>11, GoesOn
<1> QED BY <1>4, <1>5 DEF GetFossaCredentials

LEMMA EnsureTeamOK ==
  ASSUME IndInv, EnsureFossaTeam
  PROVE  IndInv'
<1>0. TypeOK /\ RunOK /\ FreshOK /\ r.pc = "team"
  BY DEF IndInv, EnsureFossaTeam, At
<1>1. UNCHANGED <<cr, cache, synced, configMap, secret, members, account, queued, timer,
                  asked, removed>>
  BY DEF EnsureFossaTeam, history
<1>2. PICK p \in Projects : p = r.obj.project /\ teams' \in {teams, teams \cup {p}}
  BY RunTyped DEF EnsureFossaTeam, Team
<1>3. Grown
  BY <1>1, <1>2, GrownFrame
<1>4. mishaps' \in 0..MaxMishaps
  BY <1>0, MishapTyped DEF TypeOK, EnsureFossaTeam
<1>5. ASSUME NEW s \in Status, NEW th \in {"done", "missing", "retry"}, NEW tr \in BOOLEAN,
             NEW pc \in {"configMap", "status"},
             r' = [r EXCEPT !.pc = pc, !.then = th, !.trouble = tr, !.obj.status = s],
             s.inv = r.obj.status.inv, s.processed = r.obj.status.processed,
             s.team \in teams' \cup {None}, s.ready = "TeamCreated" => s.team # None,
             s.ready # "unset",
             pc = "configMap" => s.observed = r.obj.gen /\ s.team = p /\ s.ready = "TeamCreated",
             pc = "status" => th # "done" /\ tr
      PROVE  IndInv'
  <2>1. PICK o \in Resource : o = [r.obj EXCEPT !.status = s]
    BY <1>5, RunTyped DEF Resource
  <2>2. /\ o.project = p /\ o.emails = r.obj.emails /\ o.status = s /\ o.gen = r.obj.gen
        /\ [o EXCEPT !.status = NoStatus] = [r.obj EXCEPT !.status = NoStatus]
    BY <1>2, <2>1, RunTyped DEF Resource
  <2>3. r' = [r EXCEPT !.pc = pc, !.then = th, !.trouble = tr, !.obj = o]
    BY <1>5, <2>1
  <2>4. /\ r' \in Reconciler /\ r'.pc = pc /\ r'.obj = o /\ r'.inv = r.inv
        /\ r'.trouble = tr /\ r'.then = th
    BY <1>5, <2>3, RunTyped DEF Reconciler, Pc
  <2>5. TypeOK'
    BY <1>0, <1>1, <1>2, <1>4, <2>4 DEF TypeOK
  <2>6. ResourceOK(r.obj)'
    <3>1. PICK x : x = r.obj
      OBVIOUS
    <3>2. ResourceOK(x)'
      BY <1>3, <3>1, ResourceKept DEF IndInv
    <3>3. ResourceOK(o)'
      <4>1. /\ o.project = x.project /\ o.emails = x.emails /\ o.status = s
            /\ s.inv = x.status.inv /\ s.processed = x.status.processed
        BY <1>2, <1>5, <2>2, <3>1
      <4> QED BY <1>5, <4>1, <3>2 DEF ResourceOK, StatusOK, Earned
    <3> QED BY <2>4, <3>3 DEF ResourceOK, StatusOK, Earned, WasIn
  <2>7. r'.inv = NoInvitations
    BY <1>0, <2>4 DEF RunOK, BeforeTeam, BeforeMap, BeforeInvitations
  <2>8. RunOK'
    <3>1. pc = "configMap" => Described'
      BY <1>5, <2>2, <2>4 DEF Described
    <3> QED BY <1>5, <2>4, <2>7, <3>1, NoInvitationsOK DEF RunOK, Earned, BeforeTeam, BeforeMap,
            BeforeInvitations, Inviting, Deciding
  <2>9. FreshOK'
    BY <1>0, <1>1, <1>5, <2>2, <2>4 DEF FreshOK, Fresh, BeforeTeam, BeforeMap
  <2>10. r'.pc # "idle"
    BY <1>5, <2>4
  <2> QED BY <1>1, <1>3, <2>5, <2>6, <2>8, <2>9, <2>10, GoesOn
<1>6. CASE /\ teams' = teams \cup {Team}
           /\ r' = [r EXCEPT !.pc = "configMap", !.obj.status.observed = r.obj.gen,
                          !.obj.status.team = Team, !.obj.status.ready = "TeamCreated"]
  <2>1. PICK s \in Status : s = [r.obj.status EXCEPT !.observed = r.obj.gen, !.team = p,
                                                     !.ready = "TeamCreated"]
    <3>1. r.obj.gen \in 0..MaxGen
      BY RunTyped DEF Resource
    <3> QED BY <3>1, RunTyped DEF Status
  <2>2. /\ s.team = p /\ s.inv = r.obj.status.inv /\ s.ready = "TeamCreated"
        /\ s.processed = r.obj.status.processed /\ s.observed = r.obj.gen
    BY <2>1, RunTyped DEF Status
  <2>3. r' = [r EXCEPT !.pc = "configMap", !.obj.status = s]
    <3>1. r \in Reconciler /\ r.obj \in Resource /\ r.obj.status \in Status
      BY RunTyped
    <3>2. /\ DOMAIN r' = DOMAIN r /\ r'.pc = "configMap"
          /\ \A f \in DOMAIN r \ {"pc", "obj"} : r'[f] = r[f]
      BY <1>6, <3>1 DEF Reconciler
    <3>3. r'.obj = [[[r.obj EXCEPT !.status.observed = r.obj.gen]
                        EXCEPT !.status.team = p] EXCEPT !.status.ready = "TeamCreated"]
      BY <1>2, <1>6, <3>1 DEF Reconciler, Team
    <3>4. DOMAIN r'.obj = DOMAIN r.obj /\ \A f \in DOMAIN r.obj \ {"status"} : r'.obj[f] = r.obj[f]
      BY <3>1, <3>3 DEF Resource
    <3>5. r'.obj.status = s
      BY <2>1, <3>1, <3>3 DEF Resource
    <3>6. r'.obj = [r.obj EXCEPT !.status = s]
      BY <3>1, <3>3, <3>4, <3>5 DEF Resource
    <3>7. PICK x : x = [r.obj EXCEPT !.status = s]
      OBVIOUS
    <3>8. r' = [f \in DOMAIN r' |-> r'[f]] /\ r = [f \in DOMAIN r |-> r[f]] /\ {"pc", "obj"} \subseteq DOMAIN r
      <4>1. r' = [f \in DOMAIN r' |-> r'[f]]
        BY <1>6
      <4>2. r = [f \in DOMAIN r |-> r[f]]
        BY <3>1 DEF Reconciler
      <4>3. {"pc", "obj"} \subseteq DOMAIN r
        BY <3>1 DEF Reconciler
      <4> QED BY <4>1, <4>2, <4>3
    <3>9. r' = [r EXCEPT !.pc = "configMap", !.obj = x]
      BY <3>2, <3>6, <3>7, <3>8
    <3> QED BY <3>7, <3>9
  <2>4. r' = [r EXCEPT !.pc = "configMap", !.then = r.then, !.trouble = r.trouble, !.obj.status = s]
    BY <2>3, RunTyped DEF Reconciler
  <2>5. p # None /\ p \in teams'
    BY <1>2, <1>6, ConstantsAssumption DEF Team
  <2>6. r.then \in {"done", "missing", "retry"} /\ r.trouble \in BOOLEAN
    BY RunTyped DEF Reconciler
  <2> QED BY <1>5, <2>2, <2>4, <2>5, <2>6
<1>7. CASE r' = [r EXCEPT !.pc = "status", !.then = "retry", !.trouble = TRUE,
                          !.obj.status.ready = "APIError"]
  <2>1. PICK s \in Status : s = [r.obj.status EXCEPT !.ready = "APIError"]
    BY RunTyped DEF Status
  <2>2. /\ s.team = r.obj.status.team /\ s.inv = r.obj.status.inv /\ s.ready = "APIError"
        /\ s.processed = r.obj.status.processed
    BY <2>1, RunTyped DEF Status
  <2>3. r' = [r EXCEPT !.pc = "status", !.then = "retry", !.trouble = TRUE, !.obj.status = s]
    BY <1>7, <2>1
  <2>4. s.team \in teams' \cup {None}
    BY <1>3, <2>2 DEF IndInv, ResourceOK, StatusOK, Grown
  <2> QED BY <1>5, <2>2, <2>3, <2>4
<1> QED BY <1>6, <1>7 DEF EnsureFossaTeam

\* A step that goes on with the same resource and the same tables of FOSSA,
\* from the invitations in hand.
LEMMA ConfigMapOK ==
  ASSUME IndInv, EnsureConfigMap
  PROVE  IndInv'
<1>0. TypeOK /\ RunOK /\ FreshOK /\ r.pc = "configMap"
  BY DEF IndInv, EnsureConfigMap, At
<1>1. UNCHANGED <<cr, cache, synced, secret, teams, members, account, timer, asked, removed>>
  BY DEF EnsureConfigMap, fossa, history
<1>2. Grown
  BY <1>1, GrownFrame
<1>3. mishaps' \in 0..MaxMishaps /\ configMap' \in Projects \cup {None} /\ queued' \in BOOLEAN
  <2>1. mishaps' \in 0..MaxMishaps
    BY <1>0, MishapTyped DEF TypeOK, EnsureConfigMap
  <2>2. configMap' \in Projects \cup {None}
    BY <1>0, RunTyped DEF TypeOK, EnsureConfigMap, Team
  <2>3. queued' \in BOOLEAN
    BY <1>0 DEF TypeOK, EnsureConfigMap, Retry
  <2> QED BY <2>1, <2>2, <2>3
<1>4. CASE Retry
  <2>1. r' \in Reconciler
    BY <1>4, IdleOK DEF Retry
  <2>2. TypeOK'
    BY <1>0, <1>1, <1>3, <2>1 DEF TypeOK
  <2> QED BY <1>1, <1>2, <1>4, <2>2, RetryOK
<1>5. CASE /\ configMap' = Team
           /\ queued' = (queued \/ configMap # Team)
           /\ r' = [r EXCEPT !.pc = IF r.obj.emails = {} THEN "annotate" ELSE "users"]
  <2>1. /\ r' \in Reconciler /\ r'.obj = r.obj /\ r'.inv = r.inv
        /\ r'.pc = IF r.obj.emails = {} THEN "annotate" ELSE "users"
    BY <1>5, RunTyped DEF Reconciler, Pc
  <2>2. TypeOK'
    BY <1>0, <1>1, <1>3, <2>1 DEF TypeOK
  <2>3. ResourceOK(r.obj)'
    BY <1>2, <2>1, StoredKept
  <2>4. r'.inv = NoInvitations /\ Described'
    BY <1>0, <2>1 DEF RunOK, BeforeTeam, BeforeMap, BeforeInvitations, Described
  <2>5. RunOK'
    BY <2>1, <2>4, NoInvitationsOK DEF RunOK, Earned, BeforeTeam, BeforeMap, BeforeInvitations,
       Inviting, Deciding
  <2>6. FreshOK'
    <3>1. Fresh' => Fresh
      BY <1>1, <1>5 DEF Fresh
    <3>2. r'.pc # "status" /\ r'.pc # "idle" /\ configMap' = r'.obj.project
      BY <1>5, <2>1 DEF Team
    <3> QED BY <1>0, <1>1, <2>1, <3>1, <3>2 DEF FreshOK
  <2> QED BY <1>1, <1>2, <2>1, <2>2, <2>3, <2>5, <2>6, GoesOn
<1> QED BY <1>4, <1>5 DEF EnsureConfigMap

\* The same tables of FOSSA and the same objects, and the same resource in hand.
Onward ==
  /\ UNCHANGED <<cr, cache, synced, configMap, secret, teams, queued, timer, asked, removed>>
  /\ r'.obj = r.obj /\ r'.pc \notin BeforeInvitations \cup {"idle", "status"}

LEMMA OnwardOK ==
  ASSUME IndInv, TypeOK', Grown, Onward, RunOK', r.pc \notin BeforeMap \cup {"idle", "status"}
  PROVE  IndInv'
<1>1. ResourceOK(r.obj)'
  BY StoredKept DEF Onward
<1>2. FreshOK'
  <2> SUFFICES ASSUME Fresh' PROVE FreshOK'
    BY DEF FreshOK
  <2>1. Fresh /\ FreshOK
    BY DEF IndInv, Onward, Fresh
  <2>2. /\ [r.obj EXCEPT !.status = NoStatus] = [cr EXCEPT !.status = NoStatus]
        /\ configMap = r.obj.project
    BY <2>1 DEF FreshOK
  <2>3. r'.pc # "status" /\ r'.obj = r.obj /\ cr' = cr /\ configMap' = configMap
    BY DEF Onward
  <2> QED BY <2>2, <2>3 DEF FreshOK
<1>3. r'.pc # "idle" /\ UNCHANGED <<cr, cache, synced>>
  BY DEF Onward
<1> QED BY <1>1, <1>2, <1>3, GoesOn

\* What Decided does, field by field.
LEMMA DecidedFields ==
  ASSUME r \in Reconciler, NEW u \in People, NEW st \in InvitationStatus,
         NEW loop \in Pc, NEW after \in Pc, NEW d, d = Decided(u, st, loop, after)
  PROVE  /\ d \in Reconciler /\ d.obj = r.obj /\ d.known = r.known /\ d.todo = r.todo \ {u}
         /\ d.pc = IF r.todo = {u} THEN after ELSE loop
         /\ d.inv = [r.inv EXCEPT ![u] = st]
         /\ d.pending = (r.pending \/ st = "Pending")
         /\ d.trouble = (r.trouble \/ st \in FailedStatus)
<1>1. PICK i \in [People -> InvitationStatus] : i = [r.inv EXCEPT ![u] = st]
  BY DEF Reconciler
<1>2. PICK pe \in BOOLEAN : pe = (r.pending \/ st = "Pending")
  OBVIOUS
<1>3. PICK tr \in BOOLEAN : tr = (r.trouble \/ st \in FailedStatus)
  OBVIOUS
<1>4. PICK pc \in Pc : pc = IF r.todo = {u} THEN after ELSE loop
  OBVIOUS
<1>5. d = [r EXCEPT !.inv = i, !.todo = r.todo \ {u}, !.cur = None, !.pc = pc, !.pending = pe,
                    !.trouble = tr]
  BY <1>1, <1>2, <1>3, <1>4 DEF Decided, Reconciler
<1>6. r.todo \ {u} \in SUBSET People
  BY DEF Reconciler
<1> QED BY <1>1, <1>2, <1>3, <1>4, <1>5, <1>6 DEF Reconciler

LEMMA FetchUsersOK ==
  ASSUME IndInv, FetchUsers
  PROVE  IndInv'
<1>0. TypeOK /\ RunOK /\ r.pc = "users"
  BY DEF IndInv, FetchUsers, At
<1>1. UNCHANGED <<cr, cache, synced, configMap, secret, teams, members, account, queued, timer,
                  asked, removed>>
  BY DEF FetchUsers, fossa, history
<1>2. Grown
  BY <1>1, GrownFrame
<1>3. mishaps' \in 0..MaxMishaps
  BY <1>0, MishapTyped DEF TypeOK, FetchUsers
<1>4. r.inv = NoInvitations /\ Described
  BY <1>0 DEF RunOK, BeforeTeam, BeforeMap, BeforeInvitations
<1>5. \/ /\ r' \in Reconciler /\ r'.pc = "invite" /\ r'.obj = r.obj /\ r'.inv = r.inv
         /\ r'.todo = r.obj.emails
      \/ /\ r' \in Reconciler /\ r'.pc = "teamEmails" /\ r'.obj = r.obj /\ r'.inv = r.inv
         /\ r'.trouble = TRUE
  <2>1. CASE r' = [r EXCEPT !.pc = "invite", !.known = Users, !.todo = r.obj.emails]
    <3>1. PICK k \in SUBSET People : k = Users
      BY DEF Users
    <3>2. r' = [r EXCEPT !.pc = "invite", !.known = k, !.todo = r.obj.emails]
      BY <2>1, <3>1
    <3> QED BY <3>2, RunTyped DEF Reconciler, Pc
  <2>2. CASE r' = [r EXCEPT !.pc = "teamEmails", !.trouble = TRUE]
    BY <2>2, RunTyped DEF Reconciler, Pc
  <2> QED BY <2>1, <2>2 DEF FetchUsers
<1>6. TypeOK'
  BY <1>0, <1>1, <1>3, <1>5 DEF TypeOK
<1>7. RunOK'
  BY <1>4, <1>5, NoInvitationsOK DEF RunOK, Earned, Described, BeforeTeam, BeforeMap,
     BeforeInvitations, Inviting, Deciding
<1>8. Onward
  BY <1>1, <1>5 DEF Onward, BeforeTeam, BeforeMap, BeforeInvitations
<1> QED BY <1>0, <1>2, <1>6, <1>7, <1>8, OnwardOK DEF BeforeTeam, BeforeMap

\* An entry of the first loop is decided.
LEMMA EntryDecided ==
  ASSUME IndInv, Grown, r.pc \in Inviting, NEW u \in People, u \in r.todo,
         NEW st \in {"Pending", "Accepted"} \cup FailedStatus,
         r' = Decided(u, st, "invite", "teamEmails"),
         UNCHANGED <<cr, cache, synced, configMap, secret, teams, members, queued, timer,
                     asked, removed>>,
         account' \in [People -> {"none", "pending", "user"}], mishaps' \in 0..MaxMishaps
  PROVE  IndInv'
<1>0. TypeOK /\ RunOK
  BY DEF IndInv
<1>1. st \in InvitationStatus /\ "invite" \in Pc /\ "teamEmails" \in Pc /\ st # "none" /\ st # "AddedToTeam"
  BY DEF InvitationStatus, FailedStatus, Pc
<1>2. /\ r' \in Reconciler /\ r'.obj = r.obj /\ r'.todo = r.todo \ {u}
      /\ r'.pc = IF r.todo = {u} THEN "teamEmails" ELSE "invite"
      /\ r'.inv = [r.inv EXCEPT ![u] = st]
      /\ r'.pending = (r.pending \/ st = "Pending")
      /\ r'.trouble = (r.trouble \/ st \in FailedStatus)
  BY <1>1, RunTyped, DecidedFields
<1>3. TypeOK'
  BY <1>0, <1>2 DEF TypeOK
<1>4. /\ r.todo \subseteq r.obj.emails /\ \A v \in r.obj.emails \ r.todo : Settled(v)
      /\ \A v \in People : r.inv[v] # "none" => v \in r.obj.emails
      /\ Described /\ Earned(r.inv)
  BY <1>0 DEF RunOK, Inviting, BeforeTeam
<1>5. r'.inv[u] = st /\ \A v \in People \ {u} : r'.inv[v] = r.inv[v]
  BY <1>2, RunTyped
<1>6. r.obj.emails \subseteq People
  BY RunTyped
<1>7. \A v \in r'.obj.emails \ r'.todo : Settled(v)'
  <2> SUFFICES ASSUME NEW v \in r.obj.emails \ (r.todo \ {u}) PROVE Settled(v)'
    BY <1>2
  <2>1. CASE v = u
    BY <1>1, <1>2, <1>5, <2>1 DEF Settled, FailedStatus
  <2>2. CASE v # u
    <3>1. Settled(v)
      BY <1>4, <2>2
    <3>2. r'.inv[v] = r.inv[v]
      BY <1>5, <1>6, <2>2
    <3>3. (r.pending => r'.pending) /\ (r.trouble => r'.trouble)
      BY <1>2
    <3> QED BY <3>1, <3>2, <3>3 DEF Settled
  <2> QED BY <2>1, <2>2
<1>8. \A v \in People : r'.inv[v] # "none" => v \in r'.obj.emails
  BY <1>2, <1>4, <1>5
<1>9. Earned(r.inv)'
  <2>1. PICK i : i = r.inv
    OBVIOUS
  <2>2. Earned(i)'
    BY <1>4, <2>1, EarnedKept
  <2> QED BY <1>1, <1>5, <2>1, <2>2 DEF Earned, WasIn
<1>10. r'.pc \in Inviting => r'.pc = "invite" /\ r'.todo \subseteq r'.obj.emails
  BY <1>2, <1>4 DEF Inviting
<1>11. r'.pc \in Deciding => r'.pc = "teamEmails" /\ r'.todo = {}
  BY <1>2 DEF Deciding
<1>12. RunOK'
  <2>1. Described'
    BY <1>2, <1>4 DEF Described
  <2>2. r'.pc \in Deciding => \A v \in r'.obj.emails : Settled(v)'
    BY <1>7, <1>11
  <2>3. r'.pc \in {"invite", "teamEmails"}
    BY <1>2
  <2> QED BY <1>7, <1>8, <1>9, <1>10, <1>11, <2>1, <2>2, <2>3 DEF RunOK, BeforeTeam, BeforeMap,
          BeforeInvitations
<1>13. Onward
  BY <1>2 DEF Onward, BeforeTeam, BeforeMap, BeforeInvitations
<1> QED BY <1>3, <1>12, <1>13, OnwardOK DEF BeforeTeam, BeforeMap, Inviting

LEMMA CheckInvitationOK ==
  ASSUME IndInv, NEW u \in People, CheckInvitation(u)
  PROVE  IndInv'
<1>0. TypeOK /\ RunOK /\ r.pc = "invite" /\ u \in r.todo
  BY DEF IndInv, CheckInvitation, At
<1>1. UNCHANGED <<cr, cache, synced, configMap, secret, teams, members, account, queued, timer,
                  asked, removed>>
  BY DEF CheckInvitation, fossa, history
<1>2. Grown
  BY <1>1, GrownFrame
<1>3. mishaps' \in 0..MaxMishaps /\ account' \in [People -> {"none", "pending", "user"}]
  BY <1>0, <1>1, MishapTyped DEF TypeOK, CheckInvitation
<1>4. CASE r' = [r EXCEPT !.pc = "send", !.cur = u]
  <2>1. /\ r' \in Reconciler /\ r'.pc = "send" /\ r'.obj = r.obj /\ r'.inv = r.inv /\ r'.cur = u
        /\ r'.todo = r.todo /\ r'.pending = r.pending /\ r'.trouble = r.trouble
    BY <1>4, RunTyped DEF Reconciler, Pc
  <2>2. TypeOK'
    BY <1>0, <1>1, <1>3, <2>1 DEF TypeOK
  <2>3. Earned(r.inv)'
    BY <1>0, <1>1, <2>1 DEF RunOK, Earned, WasIn
  <2>4. \A v : Settled(v) => Settled(v)'
    BY <2>1 DEF Settled
  <2>5. Described => Described'
    BY <2>1 DEF Described
  <2>6. RunOK'
    BY <1>0, <2>1, <2>3, <2>4, <2>5 DEF RunOK, BeforeTeam, BeforeMap, BeforeInvitations, Inviting,
       Deciding
  <2>7. Onward
    BY <1>1, <2>1 DEF Onward, BeforeTeam, BeforeMap, BeforeInvitations
  <2> QED BY <1>0, <1>2, <2>2, <2>6, <2>7, OnwardOK DEF BeforeTeam, BeforeMap
<1>5. CASE \E st \in {"Pending", "Accepted"} \cup FailedStatus : r' = Decided(u, st, "invite", "teamEmails")
  BY <1>0, <1>1, <1>2, <1>3, <1>5, EntryDecided DEF Inviting
<1> QED BY <1>4, <1>5 DEF CheckInvitation, FailedStatus

LEMMA SendOK ==
  ASSUME IndInv, SendUserInvitation
  PROVE  IndInv'
<1>0. TypeOK /\ RunOK /\ r.pc = "send"
  BY DEF IndInv, SendUserInvitation, At
<1>1. UNCHANGED <<cr, cache, synced, configMap, secret, teams, members, queued, timer,
                  asked, removed>>
  BY DEF SendUserInvitation, history
<1>2. Grown
  BY <1>1, GrownFrame
<1>3. PICK u \in People : u = r.cur /\ u \in r.todo
  BY <1>0, RunTyped DEF RunOK
<1>4. /\ mishaps' \in 0..MaxMishaps
      /\ account' \in [People -> {"none", "pending", "user"}]
  <2>1. mishaps' \in 0..MaxMishaps
    BY <1>0, MishapTyped DEF TypeOK, SendUserInvitation
  <2>2. account' \in {account, [account EXCEPT ![u] = IF @ = "none" THEN "pending" ELSE @]}
    BY <1>3 DEF SendUserInvitation
  <2> QED BY <1>0, <2>1, <2>2 DEF TypeOK
<1>5. \E st \in {"Pending", "Accepted"} \cup FailedStatus : r' = Decided(u, st, "invite", "teamEmails")
  BY <1>3 DEF SendUserInvitation, FailedStatus
<1> QED BY <1>0, <1>1, <1>2, <1>3, <1>4, <1>5, EntryDecided DEF Inviting

LEMMA FetchTeamOK ==
  ASSUME IndInv, FetchTeamUserEmails
  PROVE  IndInv'
<1>0. TypeOK /\ RunOK /\ r.pc = "teamEmails"
  BY DEF IndInv, FetchTeamUserEmails, At
<1>1. UNCHANGED <<cr, cache, synced, configMap, secret, teams, members, account, queued, timer,
                  asked, removed>>
  BY DEF FetchTeamUserEmails, fossa, history
<1>2. Grown
  BY <1>1, GrownFrame
<1>3. mishaps' \in 0..MaxMishaps
  BY <1>0, MishapTyped DEF TypeOK, FetchTeamUserEmails
<1>4. /\ r' \in Reconciler /\ r'.obj = r.obj /\ r'.inv = r.inv /\ r'.pending = r.pending
      /\ \/ r'.pc = "annotate" /\ (r'.trouble = r.trouble \/ r'.trouble = TRUE)
         \/ /\ r'.pc = "add" /\ r'.trouble = r.trouble /\ r'.known = members[r.obj.project]
            /\ \A u \in r'.todo : r.inv[u] = "Accepted"
  <2>1. CASE r' = [r EXCEPT !.pc = "annotate", !.trouble = TRUE]
    BY <2>1, RunTyped DEF Reconciler, Pc
  <2>2. PICK accepted \in SUBSET People : accepted = {u \in People : r.inv[u] = "Accepted"}
    OBVIOUS
  <2>3. PICK known \in SUBSET People : known = members[r.obj.project]
    BY <1>0, RunTyped DEF TypeOK
  <2>4. PICK pc \in {"annotate", "add"} : pc = IF accepted = {} THEN "annotate" ELSE "add"
    OBVIOUS
  <2>5. CASE r' = [r EXCEPT !.pc = pc, !.known = known, !.todo = accepted]
    BY <2>2, <2>3, <2>5, RunTyped DEF Reconciler, Pc
  <2> QED BY <2>1, <2>2, <2>3, <2>4, <2>5 DEF FetchTeamUserEmails, Team
<1>5. TypeOK'
  BY <1>0, <1>1, <1>3, <1>4 DEF TypeOK
<1>6. RunOK'
  <2>1. /\ Earned(r.inv) /\ Described /\ \A u \in People : r.inv[u] # "none" => u \in r.obj.emails
        /\ ~r.trouble => \A u \in r.obj.emails : Settled(u)
    BY <1>0 DEF RunOK, BeforeTeam, Deciding
  <2>2. Earned(r.inv)' /\ Described'
    BY <1>1, <1>4, <2>1 DEF Earned, WasIn, Described
  <2>3. ~r'.trouble => \A u \in r'.obj.emails : Settled(u)'
    BY <1>4, <2>1 DEF Settled
  <2>4. r'.pc = "add" => \A u \in r'.known : WasIn(r.obj.project, u)'
    BY <1>1, <1>4 DEF WasIn
  <2> QED BY <1>4, <2>1, <2>2, <2>3, <2>4 DEF RunOK, BeforeTeam, BeforeMap, BeforeInvitations,
          Inviting, Deciding
<1>7. Onward
  BY <1>1, <1>4 DEF Onward, BeforeTeam, BeforeMap, BeforeInvitations
<1> QED BY <1>0, <1>2, <1>5, <1>6, <1>7, OnwardOK DEF BeforeTeam, BeforeMap

\* Whoever the operator adds to a team was asked for in its project.
LEMMA AddedWasAsked ==
  ASSUME IndInv, NEW u \in People, AddUserToTeam(u)
  PROVE  <<r.obj.project, u>> \in asked
<1>1. r.pc = "add" /\ u \in r.todo /\ RunOK
  BY DEF IndInv, AddUserToTeam, At
<1>2. r.inv[u] = "Accepted"
  BY <1>1 DEF RunOK
<1>3. u \in r.obj.emails
  BY <1>1, <1>2 DEF RunOK
<1> QED BY <1>3 DEF IndInv, ResourceOK

LEMMA AddUserOK ==
  ASSUME IndInv, NEW u \in People, AddUserToTeam(u)
  PROVE  IndInv'
<1>0. TypeOK /\ RunOK /\ r.pc = "add" /\ u \in r.todo
  BY DEF IndInv, AddUserToTeam, At
<1>1. UNCHANGED <<cr, cache, synced, configMap, secret, teams, account, queued, timer,
                  asked, removed>>
  BY DEF AddUserToTeam, history
<1>2. PICK p \in Projects : p = r.obj.project
  BY RunTyped
<1>3. members' = members \/ members' = [members EXCEPT ![p] = @ \cup {u}]
  BY <1>2 DEF AddUserToTeam, Team
<1>4. Grown /\ members' \in [Projects -> SUBSET People]
  BY <1>0, <1>1, <1>3 DEF Grown, WasIn, TypeOK
<1>5. mishaps' \in 0..MaxMishaps
  BY <1>0, MishapTyped DEF TypeOK, AddUserToTeam
<1>6. PICK st \in {"AddedToTeam", "Accepted"} :
        /\ r' \in Reconciler /\ r'.obj = r.obj /\ r'.todo = r.todo \ {u} /\ r'.known = r.known
        /\ r'.pc = IF r.todo = {u} THEN "annotate" ELSE "add"
        /\ r'.inv = [r.inv EXCEPT ![u] = st]
        /\ (r.pending => r'.pending) /\ (r.trouble => r'.trouble)
        /\ st = "AddedToTeam" => WasIn(p, u)'
  <2>1. {"AddedToTeam", "Accepted"} \subseteq InvitationStatus /\ {"add", "annotate"} \subseteq Pc
    BY DEF InvitationStatus, Pc
  <2>2. CASE r' = Decided(u, "AddedToTeam", "add", "annotate") /\ (u \in r.known \/ u \in members'[p])
    <3>1. /\ r' \in Reconciler /\ r'.obj = r.obj /\ r'.todo = r.todo \ {u} /\ r'.known = r.known
          /\ r'.pc = IF r.todo = {u} THEN "annotate" ELSE "add"
          /\ r'.inv = [r.inv EXCEPT ![u] = "AddedToTeam"]
          /\ (r.pending => r'.pending) /\ (r.trouble => r'.trouble)
      <4>1. /\ r'.pending = (r.pending \/ "AddedToTeam" = "Pending")
            /\ r'.trouble = (r.trouble \/ "AddedToTeam" \in FailedStatus)
            /\ r' \in Reconciler /\ r'.obj = r.obj /\ r'.todo = r.todo \ {u} /\ r'.known = r.known
            /\ r'.pc = IF r.todo = {u} THEN "annotate" ELSE "add"
            /\ r'.inv = [r.inv EXCEPT ![u] = "AddedToTeam"]
        BY <2>1, <2>2, RunTyped, DecidedFields
      <4> QED BY <4>1
    <3>2. WasIn(p, u)'
      <4>1. CASE u \in r.known
        <5>1. WasIn(p, u)
          BY <1>0, <1>2, <4>1 DEF RunOK
        <5> QED BY <1>4, <5>1 DEF Grown
      <4>2. CASE u \in members'[p]
        BY <4>2 DEF WasIn
      <4> QED BY <2>2, <4>1, <4>2
    <3> QED BY <3>1, <3>2
  <2>3. CASE r' = [Decided(u, "Accepted", "add", "annotate") EXCEPT !.trouble = TRUE]
    <3>1. PICK d : d = Decided(u, "Accepted", "add", "annotate")
      OBVIOUS
    <3>2. /\ d \in Reconciler /\ d.obj = r.obj /\ d.todo = r.todo \ {u} /\ d.known = r.known
          /\ d.pc = IF r.todo = {u} THEN "annotate" ELSE "add"
          /\ d.inv = [r.inv EXCEPT ![u] = "Accepted"]
          /\ d.pending = (r.pending \/ "Accepted" = "Pending")
      BY <2>1, <3>1, RunTyped, DecidedFields
    <3>3. r' = [d EXCEPT !.trouble = TRUE]
      BY <2>3, <3>1
    <3>4. /\ r' \in Reconciler /\ r'.obj = d.obj /\ r'.todo = d.todo /\ r'.known = d.known
          /\ r'.pc = d.pc /\ r'.inv = d.inv /\ r'.pending = d.pending /\ r'.trouble = TRUE
      BY <3>2, <3>3 DEF Reconciler
    <3> QED BY <3>2, <3>4
  <2>4. u \in r.known \/ members' = [members EXCEPT ![p] = @ \cup {u}] => u \in r.known \/ u \in members'[p]
    BY <1>0 DEF TypeOK
  <2> QED BY <1>2, <2>2, <2>3, <2>4 DEF AddUserToTeam, Team
<1>7. TypeOK'
  BY <1>0, <1>1, <1>4, <1>5, <1>6 DEF TypeOK
<1>8. r'.inv[u] = st /\ \A v \in People \ {u} : r'.inv[v] = r.inv[v]
  BY <1>6, RunTyped
<1>9. /\ Earned(r.inv) /\ Described /\ \A v \in People : r.inv[v] # "none" => v \in r.obj.emails
      /\ ~r.trouble => \A v \in r.obj.emails : Settled(v)
      /\ \A v \in r.todo : r.inv[v] = "Accepted"
      /\ \A v \in r.known : WasIn(p, v)
  BY <1>0, <1>2 DEF RunOK, BeforeTeam, Deciding
<1>10. Earned(r.inv)'
  <2>1. PICK i : i = r.inv
    OBVIOUS
  <2>2. Earned(i)'
    BY <1>4, <1>9, <2>1, EarnedKept
  <2>3. st = "AddedToTeam" => <<p, u>> \in asked' /\ WasIn(p, u)'
    BY <1>1, <1>2, <1>6, AddedWasAsked
  <2> QED BY <1>8, <2>1, <2>2, <2>3 DEF Earned, WasIn
<1>11. RunOK'
  <2>1. Described'
    BY <1>6, <1>9 DEF Described
  <2>2. u \in r.obj.emails
    BY <1>0, <1>9
  <2>3. \A v \in People : r'.inv[v] # "none" => v \in r'.obj.emails
    BY <1>6, <1>8, <1>9, <2>2
  <2>4. ~r'.trouble => \A v \in r'.obj.emails : Settled(v)'
    <3> SUFFICES ASSUME ~r'.trouble, NEW v \in r.obj.emails PROVE Settled(v)'
      BY <1>6
    <3>1. Settled(v) /\ v \in People
      BY <1>6, <1>9, RunTyped
    <3>2. CASE v = u
      BY <1>8, <3>2 DEF Settled, FailedStatus
    <3>3. CASE v # u
      BY <1>6, <1>8, <3>1, <3>3 DEF Settled
    <3> QED BY <3>2, <3>3
  <2>5. \A v \in r'.todo : r'.inv[v] = "Accepted"
    BY <1>6, <1>8, <1>9, RunTyped
  <2>6. \A v \in r'.known : WasIn(r.obj.project, v)'
    <3>1. \A v \in r.known : WasIn(p, v)'
      BY <1>4, <1>9, RunTyped DEF Grown
    <3> QED BY <1>2, <1>6, <3>1 DEF WasIn
  <2>7. r'.pc \in {"add", "annotate"}
    BY <1>6
  <2> QED BY <1>10, <2>1, <2>3, <2>4, <2>5, <2>6, <2>7 DEF RunOK, BeforeTeam, BeforeMap,
          BeforeInvitations, Inviting, Deciding
<1>12. Onward
  BY <1>1, <1>6 DEF Onward, BeforeTeam, BeforeMap, BeforeInvitations
<1> QED BY <1>0, <1>4, <1>7, <1>11, <1>12, OnwardOK DEF BeforeTeam, BeforeMap

\* The status that was built, and the one that is decoded over it.
LEMMA BuiltOK ==
  ASSUME IndInv, r.pc = "annotate"
  PROVE  /\ Built \in Status /\ StatusOK(Built)
         /\ Built.observed = r.obj.gen /\ Built.team = r.obj.project /\ Built.ready = "TeamCreated"
         /\ Built.inv = r.inv
<1>1. Described /\ Earned(r.inv)
  BY DEF IndInv, RunOK, BeforeTeam
<1>2. PICK pr : pr = Processed
  OBVIOUS
<1>3. pr \in {"TeamMembershipProcessed", "InvitationsFailed", "InvitationsPartiallyProcessed",
              "NoInvitationsRequested"}
  BY <1>2 DEF Processed
<1>4. pr = "TeamMembershipProcessed" =>
        r.inv # NoInvitations /\ \A u \in People : r.inv[u] \in {"none", "AddedToTeam"}
  BY <1>2, NoInvitationsOK DEF Processed
<1>5. Built = [r.obj.status EXCEPT !.inv = r.inv, !.processed = pr]
  BY <1>2 DEF Built
<1>6. /\ Built \in Status
      /\ Built.inv = r.inv /\ Built.processed = pr /\ Built.observed = r.obj.status.observed
      /\ Built.team = r.obj.status.team /\ Built.ready = r.obj.status.ready
  BY <1>3, <1>5, RunTyped DEF Status
<1>7. Built.observed = r.obj.gen /\ Built.team = r.obj.project /\ Built.ready = "TeamCreated"
  BY <1>1, <1>6 DEF Described
<1>8. StatusOK(Built)
  BY <1>1, <1>4, <1>6, <1>7 DEF IndInv, ResourceOK, StatusOK
<1> QED BY <1>6, <1>7, <1>8

LEMMA DecodedOK ==
  ASSUME NEW stored \in Status, NEW built \in Status, StatusOK(stored), StatusOK(built),
         built.ready = "TeamCreated"
  PROVE  Decoded(stored, built) \in Status /\ StatusOK(Decoded(stored, built))
<1>1. PICK d : d = Decoded(stored, built)
  OBVIOUS
<1>2. CASE stored.ready = "unset"
  <2>1. /\ d.observed = IF stored.observed = 0 THEN built.observed ELSE stored.observed
        /\ d.team = IF stored.team = None THEN built.team ELSE stored.team
        /\ d.inv = built.inv /\ d.ready = built.ready /\ d.processed = built.processed
        /\ d \in Status
    BY <1>1, <1>2 DEF Decoded, StatusOK, Status
  <2>2. StatusOK(d)
    BY <2>1 DEF StatusOK
  <2> QED BY <1>1, <2>1, <2>2
<1>3. CASE stored.ready # "unset"
  <2>1. /\ d.observed = IF stored.observed = 0 THEN built.observed ELSE stored.observed
        /\ d.team = IF stored.team = None THEN built.team ELSE stored.team
        /\ d.inv = IF stored.inv = NoInvitations THEN built.inv ELSE stored.inv
        /\ d.ready = stored.ready /\ d.processed = stored.processed
        /\ d \in Status
    BY <1>1, <1>3 DEF Decoded, Status
  <2>2. Earned(d.inv)
    BY <2>1 DEF StatusOK
  <2>3. StatusOK(d)
    BY <1>3, <2>1, <2>2 DEF StatusOK
  <2> QED BY <1>1, <2>1, <2>3
<1> QED BY <1>2, <1>3

LEMMA AnnotateOK ==
  ASSUME IndInv, Annotate
  PROVE  IndInv'
<1>0. TypeOK /\ RunOK /\ FreshOK /\ r.pc = "annotate" /\ cr \in Resource /\ (synced => cache = cr)
  BY DEF IndInv, Annotate, At, TypeOK
<1>1. UNCHANGED <<cache, configMap, secret, teams, members, account, timer, asked, removed>>
  BY DEF Annotate, fossa, history
<1>2. Grown
  BY <1>1, GrownFrame
<1>3. mishaps' \in 0..MaxMishaps
  BY <1>0, MishapTyped DEF TypeOK, Annotate
<1>4. PICK b \in Status : b = Built
  BY <1>0, BuiltOK
<1>5. /\ StatusOK(b) /\ b.observed = r.obj.gen /\ b.team = r.obj.project
      /\ b.ready = "TeamCreated" /\ b.inv = r.inv
  BY <1>0, <1>4, BuiltOK
<1>6. Earned(r.inv)
  BY <1>0 DEF RunOK
<1>7. ASSUME NEW o \in Resource, NEW c \in BOOLEAN, ResourceOK(o),
             r' = [r EXCEPT !.pc = "status", !.then = "done", !.known = {}, !.current = c, !.obj = o]
      PROVE  /\ r' \in Reconciler /\ r'.pc = "status" /\ r'.obj = o /\ r'.inv = r.inv
             /\ r'.pending = r.pending /\ r'.trouble = r.trouble /\ r'.then = "done"
             /\ ResourceOK(r.obj)' /\ RunOK'
  <2>1. /\ r' \in Reconciler /\ r'.pc = "status" /\ r'.obj = o /\ r'.inv = r.inv
        /\ r'.pending = r.pending /\ r'.trouble = r.trouble /\ r'.then = "done"
    BY <1>7, RunTyped DEF Reconciler, Pc
  <2>2. ResourceOK(r.obj)'
    <3>1. ResourceOK(o)'
      BY <1>2, <1>7, ResourceKept
    <3> QED BY <2>1, <3>1 DEF ResourceOK, StatusOK, Earned, WasIn
  <2>3. Earned(r.inv)'
    BY <1>1, <1>6, <2>1 DEF Earned, WasIn
  <2>4. RunOK'
    BY <2>1, <2>3 DEF RunOK, BeforeTeam, BeforeMap, BeforeInvitations, Inviting, Deciding
  <2> QED BY <2>1, <2>2, <2>4
<1>8. CASE /\ r.obj.annotated /\ UNCHANGED <<cr, synced, queued>>
           /\ r' = [[r EXCEPT !.pc = "status", !.then = "done", !.known = {}] EXCEPT !.obj.status = Built]
  <2>1. PICK o \in Resource : o = [r.obj EXCEPT !.status = b]
    BY RunTyped DEF Resource
  <2>2. /\ o.project = r.obj.project /\ o.emails = r.obj.emails /\ o.status = b /\ o.gen = r.obj.gen
        /\ [o EXCEPT !.status = NoStatus] = [r.obj EXCEPT !.status = NoStatus]
    BY <2>1, RunTyped DEF Resource
  <2>3. r' = [r EXCEPT !.pc = "status", !.then = "done", !.known = {}, !.current = r.current, !.obj = o]
    BY <1>4, <1>8, <2>1, RunTyped DEF Reconciler
  <2>4. ResourceOK(o)
    BY <1>5, <2>2 DEF IndInv, ResourceOK
  <2>5. r.current \in BOOLEAN
    BY RunTyped DEF Reconciler
  <2>6. /\ r' \in Reconciler /\ r'.pc = "status" /\ r'.obj = o /\ r'.inv = r.inv
        /\ r'.pending = r.pending /\ r'.trouble = r.trouble /\ r'.then = "done"
        /\ ResourceOK(r.obj)' /\ RunOK'
    BY <1>7, <2>3, <2>4, <2>5
  <2>7. TypeOK'
    BY <1>0, <1>1, <1>3, <1>8, <2>6 DEF TypeOK
  <2>8. FreshOK'
    <3> SUFFICES ASSUME Fresh' PROVE FreshOK'
      BY DEF FreshOK
    <3>1. Fresh
      BY <1>8 DEF Fresh
    <3>2. /\ [r.obj EXCEPT !.status = NoStatus] = [cr EXCEPT !.status = NoStatus]
          /\ configMap = r.obj.project
      BY <1>0, <3>1 DEF FreshOK, BeforeTeam, BeforeMap
    <3>3. ~r.trouble => \A u \in r.obj.emails : Settled(u)
      BY <1>0 DEF RunOK, Deciding
    <3>4. ~r'.trouble => \A u \in r'.obj.emails : Settled(u)'
      BY <2>2, <2>6, <3>3 DEF Settled
    <3>5. Described' /\ r'.obj.status.inv = r'.inv
      BY <1>5, <2>2, <2>6 DEF Described
    <3> QED BY <1>1, <1>8, <2>2, <2>6, <3>2, <3>4, <3>5 DEF FreshOK
  <2> QED BY <1>1, <1>2, <1>8, <2>6, <2>7, <2>8, GoesOn
<1>9. CASE /\ ~r.obj.annotated /\ Store([cr EXCEPT !.annotated = TRUE], FALSE) /\ UNCHANGED queued
           /\ r' = [[r EXCEPT !.pc = "status", !.then = "done", !.known = {}]
                      EXCEPT !.current = TRUE,
                             !.obj = [cr EXCEPT !.annotated = TRUE,
                                                !.status = Decoded(cr.status, Built)]]
  <2>1. cr.status \in Status /\ StatusOK(cr.status)
    BY <1>0 DEF IndInv, ResourceOK, Resource
  <2>2. PICK s \in Status : s = Decoded(cr.status, Built) /\ StatusOK(s)
    BY <1>4, <1>5, <2>1, DecodedOK
  <2>3. PICK o \in Resource : o = [cr EXCEPT !.annotated = TRUE, !.status = s]
    BY <1>0 DEF Resource
  <2>4. o.project = cr.project /\ o.emails = cr.emails /\ o.status = s
    BY <1>0, <2>3 DEF Resource
  <2>5. ResourceOK(o)
    BY <2>2, <2>4 DEF IndInv, ResourceOK
  <2>6. r' = [r EXCEPT !.pc = "status", !.then = "done", !.known = {}, !.current = TRUE, !.obj = o]
    BY <1>9, <2>2, <2>3
  <2>7. r' \in Reconciler /\ r'.pc = "status" /\ ResourceOK(r.obj)' /\ RunOK'
    BY <1>7, <2>5, <2>6
  <2>8. PICK x \in Resource : x = [cr EXCEPT !.annotated = TRUE]
    BY <1>0 DEF Resource
  <2>9. /\ x.project = cr.project /\ x.emails = cr.emails /\ x.status = cr.status
        /\ x.annotated = TRUE
    BY <1>0, <2>8 DEF Resource
  <2>10. cr' = x /\ synced' = (synced /\ x = cr)
    BY <1>9, <2>8 DEF Store
  <2>11. synced' => synced /\ cr' = cr
    BY <2>10
  <2>12. TypeOK'
    BY <1>0, <1>1, <1>3, <1>9, <2>7, <2>10 DEF TypeOK
  <2>13. ResourceOK(cr)'
    <3>1. ResourceOK(x)
      BY <2>9 DEF IndInv, ResourceOK
    <3>2. ResourceOK(x)'
      BY <1>2, <3>1, ResourceKept
    <3> QED BY <2>10, <3>2 DEF ResourceOK, StatusOK, Earned, WasIn
  <2>14. ResourceOK(cache)'
    BY <1>1, <1>2, StoredKept
  <2>15. ~Fresh'
    <3> SUFFICES ASSUME Fresh' PROVE FALSE
      OBVIOUS
    <3>1. Fresh /\ cr.annotated = TRUE
      BY <1>9, <2>9, <2>10, <2>11 DEF Fresh
    <3>2. [r.obj EXCEPT !.status = NoStatus] = [cr EXCEPT !.status = NoStatus]
      BY <1>0, <3>1 DEF FreshOK
    <3>3. /\ [r.obj EXCEPT !.status = NoStatus].annotated = r.obj.annotated
          /\ [cr EXCEPT !.status = NoStatus].annotated = cr.annotated
      BY <1>0, RunTyped DEF Resource
    <3> QED BY <1>9, <3>1, <3>2, <3>3
  <2>16. FreshOK' /\ NothingForgotten'
    BY <2>7, <2>15 DEF FreshOK, NothingForgotten, Asleep, At
  <2>17. synced' => cache' = cr'
    BY <1>0, <1>1, <2>11
  <2> QED BY <2>7, <2>12, <2>13, <2>14, <2>16, <2>17 DEF IndInv
<1>10. CASE Retry /\ UNCHANGED <<cr, synced>>
  <2>1. r' \in Reconciler /\ queued' = TRUE
    BY <1>10, IdleOK DEF Retry
  <2>2. TypeOK'
    BY <1>0, <1>1, <1>3, <1>10, <2>1 DEF TypeOK
  <2> QED BY <1>1, <1>2, <1>10, <2>2, RetryOK
<1> QED BY <1>8, <1>9, <1>10 DEF Annotate

LEMMA UpdateStatusOK ==
  ASSUME IndInv, UpdateStatus
  PROVE  IndInv'
<1>0. TypeOK /\ RunOK /\ FreshOK /\ r.pc = "status" /\ cr \in Resource /\ (synced => cache = cr)
  BY DEF IndInv, UpdateStatus, At, TypeOK
<1>1. UNCHANGED <<cache, configMap, secret, teams, members, account, asked, removed>>
  BY DEF UpdateStatus, fossa, history
<1>2. Grown
  BY <1>1, GrownFrame
<1>3. mishaps' \in 0..MaxMishaps
  BY <1>0, MishapTyped DEF TypeOK, UpdateStatus
<1>4. CASE Retry /\ UNCHANGED <<cr, synced, timer>>
  <2>1. r' \in Reconciler /\ queued' = TRUE
    BY <1>4, IdleOK DEF Retry
  <2>2. TypeOK'
    BY <1>0, <1>1, <1>3, <1>4, <2>1 DEF TypeOK
  <2> QED BY <1>1, <1>2, <1>4, <2>2, RetryOK
<1>5. CASE /\ \E newTexts \in BOOLEAN : Store([cr EXCEPT !.status = r.obj.status], newTexts)
           /\ \/ r.then = "retry" /\ Retry /\ UNCHANGED timer
              \/ /\ r.then # "retry" /\ r' = Idle(r.trouble)
                 /\ timer' = (timer \/ (r.then = "done" /\ Requeue))
                 /\ UNCHANGED queued
  <2>1. PICK x \in Resource : x = [cr EXCEPT !.status = r.obj.status]
    BY <1>0, RunTyped DEF Resource
  <2>2. x.project = cr.project /\ x.emails = cr.emails /\ x.status = r.obj.status
    BY <1>0, <2>1 DEF Resource
  <2>3. cr' = x /\ synced' \in BOOLEAN /\ (synced' => synced /\ cr' = cr)
    BY <1>5, <2>1 DEF Store
  <2>4. PICK b \in BOOLEAN : r' = Idle(b) /\ (b \/ b = r.trouble)
    BY <1>5, RunTyped DEF Retry
  <2>5. /\ r'.pc = "idle" /\ r'.trouble = b /\ r' \in Reconciler
        /\ ResourceOK(r.obj)' /\ RunOK' /\ FreshOK'
    BY <2>4, IdleOK
  <2>6. queued' \in BOOLEAN /\ timer' \in BOOLEAN
    BY <1>0, <1>5 DEF TypeOK, Retry
  <2>7. TypeOK'
    BY <1>0, <1>1, <1>3, <2>3, <2>5, <2>6 DEF TypeOK
  <2>8. ResourceOK(cr)'
    <3>1. ResourceOK(x)
      BY <2>2 DEF IndInv, ResourceOK
    <3>2. ResourceOK(x)'
      BY <1>2, <3>1, ResourceKept
    <3> QED BY <2>3, <3>2 DEF ResourceOK, StatusOK, Earned, WasIn
  <2>9. ResourceOK(cache)'
    BY <1>1, <1>2, StoredKept
  <2>10. synced' => cache' = cr'
    BY <1>0, <1>1, <2>3
  <2>11. NothingForgotten'
    <3> SUFFICES ASSUME Asleep', ~r'.trouble PROVE NothingForgotten'
      BY DEF NothingForgotten
    <3>1. synced' /\ ~queued' /\ ~timer'
      BY DEF Asleep
    <3>2. r.then # "retry" /\ ~queued /\ ~timer /\ ~r.trouble /\ ~(r.then = "done" /\ Requeue)
      <4>1. r.then # "retry" /\ UNCHANGED queued /\ timer' = (timer \/ (r.then = "done" /\ Requeue))
        BY <1>5, <3>1 DEF Retry
      <4>2. ~r.trouble
        BY <2>4, <2>5
      <4>3. ~timer /\ ~(r.then = "done" /\ Requeue)
        BY <3>1, <4>1
      <4> QED BY <3>1, <4>1, <4>2, <4>3
    <3>3. r.then = "done" /\ ~Requeue
      BY <1>0, <3>2 DEF RunOK
    <3>4. Fresh /\ cr' = cr
      BY <2>3, <3>1, <3>2 DEF Fresh
    <3>5. /\ [r.obj EXCEPT !.status = NoStatus] = [cr EXCEPT !.status = NoStatus]
          /\ configMap = r.obj.project /\ Described /\ r.obj.status.inv = r.inv
          /\ \A u \in r.obj.emails : Settled(u)
      BY <1>0, <3>2, <3>3, <3>4 DEF FreshOK, BeforeTeam, BeforeMap
    <3>6. r.obj.gen = cr.gen /\ r.obj.project = cr.project /\ r.obj.emails = cr.emails
      <4>1. \A y \in Resource : /\ [y EXCEPT !.status = NoStatus].gen = y.gen
                                /\ [y EXCEPT !.status = NoStatus].project = y.project
                                /\ [y EXCEPT !.status = NoStatus].emails = y.emails
        BY DEF Resource
      <4>2. PICK y \in Resource : y = r.obj
        BY RunTyped
      <4>3. PICK z \in Resource : z = cr
        BY <1>0
      <4>4. [y EXCEPT !.status = NoStatus] = [z EXCEPT !.status = NoStatus]
        BY <3>5, <4>2, <4>3
      <4>5. y.gen = z.gen /\ y.project = z.project /\ y.emails = z.emails
        BY <4>1, <4>4
      <4> QED BY <4>2, <4>3, <4>5
    <3>7. \A u \in r.obj.emails : r.inv[u] = "AddedToTeam"
      <4> SUFFICES ASSUME NEW u \in r.obj.emails PROVE r.inv[u] = "AddedToTeam"
        OBVIOUS
      <4>1. u \in People /\ r.inv[u] \in InvitationStatus
        BY RunTyped
      <4>2. r.inv[u] # "none" /\ r.inv[u] # "Pending" /\ r.inv[u] \notin FailedStatus
        BY <3>2, <3>3, <3>5 DEF Settled, Requeue
      <4>3. r.inv[u] # "Accepted"
        BY <3>3, <4>1 DEF Requeue
      <4> QED BY <4>1, <4>2, <4>3 DEF InvitationStatus
    <3>8. cr'.status = r.obj.status
      BY <2>2, <2>3
    <3> QED BY <1>1, <3>4, <3>5, <3>6, <3>7, <3>8 DEF NothingForgotten, Described
  <2> QED BY <2>5, <2>7, <2>8, <2>9, <2>10, <2>11 DEF IndInv
<1> QED BY <1>4, <1>5 DEF UpdateStatus
-----------------------------------------------------------------------------
LEMMA StepOK == IndInv /\ [Next]_vars => IndInv'
<1> SUFFICES ASSUME IndInv, [Next]_vars PROVE IndInv'
  OBVIOUS
<1>1. CASE UNCHANGED vars
  <2>1. UNCHANGED <<cr, cache, synced, configMap, secret, teams, members, account, queued, timer, r,
                    mishaps, asked, removed>>
    BY <1>1 DEF vars, fossa, history
  <2>2. TypeOK'
    BY <2>1 DEF IndInv, TypeOK
  <2>3. Grown
    BY <2>1, GrownFrame
  <2> QED BY <2>1, <2>2, <2>3, OutsideOK
<1>2. CASE Sync \/ Fire \/ Resync
  BY <1>2, WatchOK
<1>3. CASE Reconcile
  BY <1>3, GetOK, CredentialsOK, EnsureTeamOK, ConfigMapOK, FetchUsersOK, CheckInvitationOK, SendOK,
     FetchTeamOK, AddUserOK, AnnotateOK, UpdateStatusOK DEF Reconcile
<1>4. CASE Environment
  <2>1. \A p \in Projects, emails \in Lists : CreateResource(p, emails) \/ EditSpec(p, emails) => IndInv'
    BY SpecEditsOK, ConstantsAssumption
  <2> QED BY <1>4, <2>1, OtherEditsOK, ObjectsOK, MembersOK, AccountsOK, RestartOK DEF Environment
<1> QED BY <1>1, <1>2, <1>3, <1>4 DEF Next

LEMMA IndInvHolds == Spec => []IndInv
BY InitOK, StepOK, PTL DEF Spec

\* The resource, the informer's copy and the reconcile keep their types through
\* every failure, edit and restart.
THEOREM TypeCorrect == Spec => []TypeOK
<1>1. IndInv => TypeOK
  BY DEF IndInv
<1> QED BY <1>1, IndInvHolds, PTL

\* The stored status claims only what is so, although Annotate decodes the
\* stored one over the one that was built.
THEOREM StatusStaysTrue == Spec => []StatusIsTrue
<1>1. IndInv => StatusIsTrue
  <2> SUFFICES ASSUME IndInv PROVE StatusIsTrue
    OBVIOUS
  <2>1. StatusOK(cr.status)
    BY DEF IndInv, ResourceOK
  <2> QED BY <2>1 DEF StatusOK, StatusIsTrue, Earned, WasIn
<1> QED BY <1>1, IndInvHolds, PTL

\* The operator sleeps only when its work is done: every change it did not see
\* is on its way to it as an event, and everything it waits for has a timer.
THEOREM NothingIsForgotten == Spec => []NothingForgotten
<1>1. IndInv => NothingForgotten
  BY DEF IndInv
<1> QED BY <1>1, IndInvHolds, PTL

\* A step of the operator puts into a team only people that were asked for in
\* that project.
THEOREM JoinersWereAsked == Spec => JoinedWereAsked
<1> DEFINE A == \A p \in Projects : r' # r => {p} \X (members'[p] \ members[p]) \subseteq asked
<1>1. IndInv /\ [Next]_vars => [A]_vars
  <2> SUFFICES ASSUME IndInv, Next PROVE A
    OBVIOUS
  <2>1. CASE UNCHANGED members \/ UNCHANGED r
    BY <2>1
  <2>2. ASSUME NEW u \in People, AddUserToTeam(u) PROVE A
    <3>1. members \in [Projects -> SUBSET People]
      BY DEF IndInv, TypeOK
    <3>2. members' = members \/ members' = [members EXCEPT ![r.obj.project] = @ \cup {u}]
      BY <2>2 DEF AddUserToTeam, Team
    <3>3. <<r.obj.project, u>> \in asked
      BY <2>2, AddedWasAsked
    <3> QED BY <3>1, <3>2, <3>3
  <2>3. Sync \/ Fire \/ Resync => UNCHANGED r
    BY DEF Sync, Fire, Resync
  <2>4. Reconcile => UNCHANGED members \/ \E u \in People : AddUserToTeam(u)
    BY DEF Reconcile, Get, GetFossaCredentials, EnsureFossaTeam, EnsureConfigMap, FetchUsers,
       CheckInvitation, SendUserInvitation, FetchTeamUserEmails, Annotate, UpdateStatus, fossa
  <2>5. Environment => UNCHANGED members \/ UNCHANGED r
    BY DEF Environment, CreateResource, EditSpec, DropAnnotation, DeleteResource, EditConfigMap,
       EditSecret, RemoveMember, AddElsewhere, InviteElsewhere, AcceptInvitation, ExpireInvitation,
       Restart, fossa
  <2> HIDE DEF A
  <2> QED BY <2>1, <2>2, <2>3, <2>4, <2>5 DEF Next
<1>2. [][A]_vars => JoinedWereAsked
  BY PTL DEF JoinedWereAsked
<1> QED BY <1>1, <1>2, IndInvHolds, PTL DEF Spec
=============================================================================
