--------------------------- MODULE OnboardingProofs ---------------------------
(***************************************************************************)
(* Theorems about Onboarding, for any number of projects, people and       *)
(* concurrent deliveries.                                                  *)
(***************************************************************************)
EXTENDS Onboarding, TLAPS

\* The program points of the three handlers are program points.
LEMMA PcSets ==
  /\ LabelPc \subseteq Pc /\ CommandPc \subseteq Pc /\ LabelCommandPc \subseteq Pc
  /\ {"idle", "comment"} \subseteq Pc
BY DEF Pc

\* The fresh handler record is well formed.
LEMMA IdleType == Idle \in Request
BY PcSets DEF Idle, Request, Outcome, Kind, End

\* Dealing with one maintainer keeps a handler record well formed, and changes
\* nothing but the place in the loop and the report.
LEMMA ReportedType ==
  ASSUME NEW r \in Request, NEW m \in Maintainers, NEW o \in Outcome,
         NEW loop \in Pc, NEW after \in Pc
  PROVE  /\ Reported(r, m, o, loop, after) \in Request
         /\ Reported(r, m, o, loop, after).pc \in {loop, after}
         /\ Reported(r, m, o, loop, after).project = r.project
         /\ Reported(r, m, o, loop, after).team = r.team
         /\ Reported(r, m, o, loop, after).seen = r.seen
         /\ Reported(r, m, o, loop, after).todo = r.todo \ {m}
         /\ Reported(r, m, o, loop, after).unstored = r.unstored
BY DEF Reported, Request

\* Leaving the look-up of the team keeps a handler record well formed, and
\* changes nothing but its place.
LEMMA TeamKnownType ==
  ASSUME NEW r \in Request
  PROVE  /\ TeamKnown(r) \in Request
         /\ TeamKnown(r).pc \in {"comment", "invite"}
         /\ TeamKnown(r).project = r.project
         /\ TeamKnown(r).team = r.team
         /\ TeamKnown(r).seen = r.seen
         /\ TeamKnown(r).todo = r.todo
         /\ TeamKnown(r).unstored = r.unstored
BY PcSets DEF TeamKnown, Request, LabelPc

\* A handler step replaces one handler record.
LEMMA ContinueType ==
  ASSUME TypeOK, NEW d \in Deliveries, NEW r \in Request, Continue(d, r)
  PROVE  /\ req' \in [Deliveries -> Request]
         /\ req'[d] = r
         /\ \A e \in Deliveries : e # d => req'[e] = req[e]
BY DEF TypeOK, Continue

\* The elements of the two sequences are well formed.
LEMMA SequenceTypes ==
  ASSUME TypeOK
  PROVE  /\ \A i \in DOMAIN rows : rows[i] \in Row
         /\ \A t \in DOMAIN teams : teams[t] \in Team
         /\ DOMAIN rows = 1..Len(rows) /\ Len(rows) \in Nat
         /\ DOMAIN teams = 1..Len(teams) /\ Len(teams) \in Nat
<1>1. rows \in Seq(Row) /\ teams \in Seq(Team)
  BY DEF TypeOK
<1> QED BY <1>1

\* A step that only replaces one handler record by a correct one, and may make
\* or drop invitations, keeps the invariant.
LEMMA QuietStep ==
  ASSUME IndInv, NEW d \in Deliveries, NEW r \in Request, Continue(d, r),
         HandlerOK(r), r.pc # "audit",
         UNCHANGED <<tables, teams, cached>>, labelled' \subseteq Names,
         account' \in [Maintainers -> {"none", "pending", "user"}],
         \A m \in Maintainers : account[m] = "user" => account'[m] = "user"
  PROVE  IndInv'
<1> USE DEF tables
<1>0. /\ req' \in [Deliveries -> Request]
      /\ req'[d] = r
      /\ \A e \in Deliveries : e # d => req'[e] = req[e]
  BY ContinueType DEF IndInv
<1>1. TypeOK'
  BY <1>0 DEF IndInv, TypeOK
<1>2. UniqueTeamNames' /\ RowsPointAtTheirTeam'
  BY DEF IndInv, UniqueTeamNames, RowsPointAtTheirTeam, TeamsOf, TeamsNamed
<1>3. HandlersOK'
  <2> SUFFICES ASSUME NEW e \in Deliveries PROVE HandlerOK(req[e])'
    BY DEF HandlersOK
  <2>1. CASE e = d
    BY <1>0, <2>1 DEF HandlerOK, RowsOf, AnothersRow, RowsForTeam, Eligible
  <2>2. CASE e # d
    <3>1. HandlerOK(req[e])
      BY DEF IndInv, HandlersOK
    <3> QED BY <1>0, <2>2, <3>1 DEF HandlerOK, RowsOf, AnothersRow, RowsForTeam, Eligible
  <2> QED BY <2>1, <2>2
<1>4. MembersAreAcceptedMaintainers'
  BY DEF IndInv, MembersAreAcceptedMaintainers, Users, Eligible
<1>5. HandlerAuditsItsOwn'
  BY <1>0 DEF IndInv, HandlerAuditsItsOwn, NotAudited, Added, At, Project
<1>6. AuditedOnceAndTrue'
  BY DEF IndInv, AuditedOnceAndTrue, Added, TeamsOf, TeamsNamed
<1> QED BY <1>1, <1>2, <1>3, <1>4, <1>5, <1>6 DEF IndInv

\* Giving up with an error, and returning, keep the invariant.
LEMMA FailStep ==
  ASSUME IndInv, NEW d \in Deliveries, ~At(d, "idle"), Fail(d),
         UNCHANGED <<tables, teams, account, labelled, cached>>
  PROVE  IndInv'
<1> DEFINE s == [req[d] EXCEPT !.pc = "comment", !.failed = TRUE]
<1>1. req[d] \in Request /\ HandlerOK(req[d]) /\ TypeOK
  BY DEF IndInv, TypeOK, HandlersOK
<1>2. s \in Request /\ s.pc = "comment"
  BY <1>1, PcSets DEF Request
<1>3. HandlerOK(s)
  BY <1>1 DEF Request, HandlerOK, TeamPc, StoredPc, AddingPc, AnothersRow, At
<1> QED BY <1>1, <1>2, <1>3, QuietStep DEF Fail, TypeOK

\* A handler that returns, by its comment or by a recovered panic, leaves the
\* idle record and disturbs nothing.
LEMMA ReturnStep ==
  ASSUME IndInv, NEW d \in Deliveries, Continue(d, Idle),
         UNCHANGED <<tables, teams, account, labelled, cached>>
  PROVE  IndInv'
<1>1. HandlerOK(Idle) /\ Idle.pc = "idle"
  BY DEF Idle, HandlerOK, TeamPc, StoredPc, AddingPc, AnothersRow
<1> QED BY <1>1, IdleType, QuietStep DEF IndInv, TypeOK

\* The handlers of the label "fossa" that leave tables and teams alone keep the
\* invariant.
LEMMA QuietLabelSteps ==
  ASSUME IndInv, NEW d \in Deliveries,
         \/ ReadMaintainers(d) \/ LookUpTeam(d) \/ FindServiceTeam(d)
         \/ RereadTeamMap(d) \/ Recover(d)
  PROVE  IndInv'
<1> DEFINE r == req[d]
<1>0. r \in Request /\ HandlerOK(r) /\ TypeOK /\ labelled \subseteq Names
  BY DEF IndInv, TypeOK, HandlersOK
<1> USE <1>0, PcSets
<1>a. r.pc # "idle" => Eligible(registered[r.project]) \in SUBSET Maintainers
  BY ConstantsAssumption DEF Eligible
<1>1. CASE ReadMaintainers(d)
  <2> DEFINE e == Eligible(registered[r.project])
             s == [r EXCEPT !.pc = "teamMap", !.seen = e, !.todo = e]
  <2>1. s \in Request
    BY <1>1, <1>a DEF Request, LabelPc, ReadMaintainers, At
  <2>2. HandlerOK(s) /\ s.pc # "audit"
    BY <1>1, <2>1 DEF Request, HandlerOK, TeamPc, StoredPc, AddingPc, AnothersRow, ReadMaintainers, At
  <2>3. CASE Continue(d, s)
    BY <1>1, <2>1, <2>2, <2>3, QuietStep DEF ReadMaintainers, TypeOK
  <2>4. CASE Fail(d)
    BY <1>1, <2>4, FailStep DEF ReadMaintainers, At
  <2> QED BY <1>1, <2>3, <2>4 DEF ReadMaintainers, Project
<1>2. CASE LookUpTeam(d)
  <2>1. ASSUME NEW i \in RowsOf(r.project),
               Continue(d, TeamKnown([r EXCEPT !.team = rows[i].team]))
        PROVE  IndInv'
    <3> DEFINE q == [r EXCEPT !.team = rows[i].team]
               s == TeamKnown(q)
    <3>1. rows[i].team \in Nat /\ rows[i].project = r.project /\ i \in DOMAIN rows
      BY SequenceTypes DEF RowsOf, Row
    <3>2. q \in Request
      BY <3>1 DEF Request
    <3>3. rows[i].team \in DOMAIN teams /\ teams[rows[i].team].name = NameOf[r.project]
      <4>1. rows[i].team \in TeamsOf(rows[i].project)
        BY <3>1 DEF IndInv, RowsPointAtTheirTeam
      <4> QED BY <3>1, <4>1 DEF TeamsOf, TeamsNamed
    <3>4. s \in Request /\ s.pc \in {"comment", "invite"}
      BY <3>2, TeamKnownType
    <3>5. /\ s.project = r.project /\ s.team = rows[i].team /\ s.seen = r.seen
          /\ s.todo = r.todo
      BY <3>2, TeamKnownType DEF Request
    <3>6. HandlerOK(s)
      BY <1>2, <2>1, <3>1, <3>3, <3>4, <3>5
      DEF LookUpTeam, At, HandlerOK, TeamPc, StoredPc, AddingPc, AnothersRow
    <3> QED BY <1>2, <2>1, <3>4, <3>6, QuietStep DEF LookUpTeam, TypeOK
  <2>2. ASSUME NEW s, s \in {[r EXCEPT !.pc = "createTeam"],
                             [r EXCEPT !.pc = "createTeam", !.failed = TRUE]},
               Continue(d, s)
        PROVE  IndInv'
    <3>1. s \in Request /\ s.pc = "createTeam"
      BY <2>2 DEF Request, LabelPc
    <3>2. HandlerOK(s)
      BY <1>2, <2>2 DEF LookUpTeam, At, Request, HandlerOK, TeamPc, StoredPc, AddingPc, AnothersRow
    <3> QED BY <1>2, <2>2, <3>1, <3>2, QuietStep DEF LookUpTeam, TypeOK
  <2> QED BY <1>2, <2>1, <2>2 DEF LookUpTeam, Project
<1>3. CASE FindServiceTeam(d)
  <2>1. /\ r.team \in DOMAIN teams /\ teams[r.team].name = NameOf[r.project]
        /\ r.project \in Projects /\ r.todo \subseteq r.seen
        /\ r.seen \subseteq Eligible(registered[r.project])
    BY <1>3 DEF FindServiceTeam, At, HandlerOK, TeamPc
  <2>2. ASSUME NEW q \in Request, q.project = r.project, q.team = r.team,
               q.seen = r.seen, q.todo = r.todo,
               q.unstored \/ AnothersRow(r) \/ RowsOf(r.project) # {},
               Continue(d, TeamKnown(q))
        PROVE  IndInv'
    <3>1. HandlerOK(TeamKnown(q))
      BY <2>1, <2>2, TeamKnownType DEF HandlerOK, TeamPc, StoredPc, AddingPc, AnothersRow
    <3> QED BY <1>3, <2>2, <3>1, TeamKnownType, QuietStep DEF FindServiceTeam, TypeOK
  <2>3. CASE RowsForTeam(r.team) # {} /\ Continue(d, TeamKnown(r))
    <3>1. PICK i \in DOMAIN rows : rows[i].team = r.team
      BY <2>3 DEF RowsForTeam
    <3>2. NameOf[rows[i].project] = NameOf[r.project]
      BY <2>1, <3>1 DEF IndInv, RowsPointAtTheirTeam, TeamsOf, TeamsNamed
    <3>3. AnothersRow(r) \/ RowsOf(r.project) # {}
      BY <3>1, <3>2 DEF RowsOf, RowsForTeam, AnothersRow
    <3> QED BY <2>2, <2>3, <3>3
  <2>4. CASE Continue(d, [r EXCEPT !.pc = "insertRow"])
    <3>1. [r EXCEPT !.pc = "insertRow"] \in Request
      BY DEF Request, LabelPc
    <3>2. HandlerOK([r EXCEPT !.pc = "insertRow"])
      BY <2>1 DEF Request, HandlerOK, TeamPc, StoredPc, AddingPc, AnothersRow
    <3>3. [r EXCEPT !.pc = "insertRow"].pc # "audit"
      BY DEF Request
    <3> QED BY <1>3, <2>4, <3>1, <3>2, <3>3, QuietStep DEF FindServiceTeam, TypeOK
  <2>5. CASE Continue(d, TeamKnown([r EXCEPT !.failed = TRUE, !.unstored = TRUE]))
    <3> DEFINE q == [r EXCEPT !.failed = TRUE, !.unstored = TRUE]
    <3>1. /\ q \in Request /\ q.project = r.project /\ q.team = r.team
          /\ q.seen = r.seen /\ q.todo = r.todo /\ q.unstored
      BY DEF Request
    <3> QED BY <2>2, <2>5, <3>1
  <2> QED BY <1>3, <2>3, <2>4, <2>5 DEF FindServiceTeam
<1>4. CASE RereadTeamMap(d)
  <2>1. ASSUME NEW s, Continue(d, s),
               \/ s = [r EXCEPT !.pc = "comment"]
               \/ s = [r EXCEPT !.pc = "comment", !.failed = TRUE,
                                !.report = Idle.report]
               \/ s = [r EXCEPT !.pc = "panicked"] /\ RowsOf(r.project) = {}
        PROVE  IndInv'
    <3>0. Idle.report \in [Maintainers -> Outcome]
      BY DEF Idle, Outcome
    <3>1. s \in Request /\ s.pc \in {"comment", "panicked"}
      BY <2>1, <3>0 DEF Request, LabelPc
    <3>2. HandlerOK(s)
      BY <1>4, <2>1 DEF RereadTeamMap, At, Request, HandlerOK, TeamPc, StoredPc, AddingPc, AnothersRow
    <3> QED BY <1>4, <2>1, <3>1, <3>2, QuietStep DEF RereadTeamMap, TypeOK
  <2> QED BY <1>4, <2>1 DEF RereadTeamMap, Project
<1>5. CASE Recover(d)
  BY <1>5, ReturnStep DEF Recover
<1> QED BY <1>1, <1>2, <1>3, <1>4, <1>5

\* The handlers of "/fossa-invite accepted" that leave tables and teams alone
\* keep the invariant.
LEMMA QuietCommandSteps ==
  ASSUME IndInv, NEW d \in Deliveries,
         \/ Authorize(d) \/ CommandTeamMap(d) \/ CommandMaintainers(d)
         \/ FetchTeamUserEmails(d) \/ \E m \in Maintainers : CheckPending(d, m)
  PROVE  IndInv'
<1> DEFINE r == req[d]
<1>0. r \in Request /\ HandlerOK(r) /\ TypeOK /\ labelled \subseteq Names
  BY DEF IndInv, TypeOK, HandlersOK
<1> USE <1>0, PcSets
<1>1. CASE Authorize(d)
  <2>1. ASSUME NEW s, Continue(d, s),
               \/ s = [r EXCEPT !.pc = "cmdTeamMap"]
               \/ s = [r EXCEPT !.pc = "comment", !.end = "denied",
                         !.failed = MayCommand(r.actor, r.project)]
        PROVE  IndInv'
    <3>0. MayCommand(r.actor, r.project) \in BOOLEAN
      BY DEF MayCommand
    <3>1. s \in Request /\ s.pc \in {"comment", "cmdTeamMap"}
      BY <2>1, <3>0 DEF Request, CommandPc, End
    <3>2. HandlerOK(s)
      BY <1>1, <2>1 DEF Authorize, At, Request, HandlerOK, TeamPc, StoredPc, AddingPc, AnothersRow
    <3> QED BY <1>1, <2>1, <3>1, <3>2, QuietStep DEF Authorize, TypeOK
  <2> QED BY <1>1, <2>1 DEF Authorize, Project
<1>2. CASE CommandTeamMap(d)
  <2>1. CASE Continue(d, [r EXCEPT !.pc = "comment", !.end = "noteam"])
    <3> DEFINE s == [r EXCEPT !.pc = "comment", !.end = "noteam"]
    <3>1. s \in Request /\ s.pc = "comment"
      BY DEF Request, End
    <3>2. HandlerOK(s)
      BY <1>2 DEF CommandTeamMap, At, Request, HandlerOK, TeamPc, StoredPc, AddingPc, AnothersRow
    <3> QED BY <1>2, <2>1, <3>1, <3>2, QuietStep DEF CommandTeamMap, TypeOK
  <2>2. ASSUME NEW i \in RowsOf(r.project),
               Continue(d, [r EXCEPT !.pc = "cmdMaintainers", !.team = rows[i].team])
        PROVE  IndInv'
    <3> DEFINE s == [r EXCEPT !.pc = "cmdMaintainers", !.team = rows[i].team]
    <3>1. rows[i].team \in Nat /\ rows[i].project = r.project /\ i \in DOMAIN rows
      BY SequenceTypes DEF RowsOf, Row
    <3>2. rows[i].team \in TeamsOf(rows[i].project)
      BY <3>1 DEF IndInv, RowsPointAtTheirTeam
    <3>3. rows[i].team \in DOMAIN teams /\ teams[rows[i].team].name = NameOf[r.project]
      BY <3>1, <3>2 DEF TeamsOf, TeamsNamed
    <3>4. s \in Request /\ s.pc = "cmdMaintainers"
      BY <3>1 DEF Request, CommandPc
    <3>5. HandlerOK(s)
      BY <1>2, <3>1, <3>3
      DEF CommandTeamMap, At, Request, HandlerOK, TeamPc, StoredPc, AddingPc, AnothersRow
    <3> QED BY <1>2, <2>2, <3>4, <3>5, QuietStep DEF CommandTeamMap, TypeOK
  <2>3. CASE Continue(d, Idle)
    BY <1>2, <2>3, ReturnStep DEF CommandTeamMap
  <2> QED BY <1>2, <2>1, <2>2, <2>3 DEF CommandTeamMap, Project
<1>3. CASE CommandMaintainers(d)
  <2> DEFINE e == Eligible(registered[r.project])
             s == [r EXCEPT !.pc = IF e = {} THEN "comment" ELSE "teamEmails",
                            !.seen = e, !.todo = e]
  <2>0. e \in SUBSET Maintainers
    BY ConstantsAssumption DEF Eligible
  <2> HIDE DEF e
  <2>1. s \in Request /\ s.pc \in {"comment", "teamEmails"}
    BY <2>0 DEF Request, CommandPc
  <2>2. s.project = r.project /\ s.team = r.team /\ s.seen = e /\ s.todo = e
    BY DEF Request
  <2>3. HandlerOK(s)
    BY <1>3, <2>1, <2>2
    DEF e, CommandMaintainers, At, HandlerOK, TeamPc, StoredPc, AddingPc, AnothersRow
  <2>4. CASE Continue(d, s)
    BY <1>3, <2>1, <2>3, <2>4, QuietStep DEF CommandMaintainers, TypeOK
  <2>5. CASE Fail(d)
    BY <1>3, <2>5, FailStep DEF CommandMaintainers, At
  <2> QED BY <1>3, <2>4, <2>5 DEF CommandMaintainers, Project, e
<1>4. CASE FetchTeamUserEmails(d)
  <2> DEFINE s == [r EXCEPT !.pc = "checkPending", !.existing = teams[r.team].members]
  <2>1. CASE r.team \in DOMAIN teams /\ Continue(d, s)
    <3>0. teams[r.team].members \in SUBSET Maintainers
      BY <2>1, SequenceTypes DEF Team
    <3>1. s \in Request /\ s.pc = "checkPending"
      BY <3>0 DEF Request, CommandPc
    <3>2. HandlerOK(s)
      BY <1>4 DEF FetchTeamUserEmails, At, Request, HandlerOK, TeamPc, StoredPc, AddingPc, AnothersRow
    <3> QED BY <1>4, <2>1, <3>1, <3>2, QuietStep DEF FetchTeamUserEmails, TypeOK
  <2>2. CASE Fail(d)
    BY <1>4, <2>2, FailStep DEF FetchTeamUserEmails, At
  <2> QED BY <1>4, <2>1, <2>2 DEF FetchTeamUserEmails
<1>5. ASSUME NEW m \in Maintainers, CheckPending(d, m) PROVE IndInv'
  <2>1. PICK ok \in BOOLEAN :
          LET q == [r EXCEPT !.failed = @ \/ ~ok]
          IN  \/ Continue(d, Reported(q, m, "pending", "checkPending", "comment"))
              \/ Continue(d, Reported(q, m, "already", "checkPending", "comment"))
              \/ Continue(d, [q EXCEPT !.pc = "add", !.cur = m])
    BY <1>5 DEF CheckPending
  <2> DEFINE q == [r EXCEPT !.failed = @ \/ ~ok]
  <2>2. /\ q \in Request /\ q.project = r.project /\ q.team = r.team
        /\ q.seen = r.seen /\ q.todo = r.todo
    BY DEF Request
  <2>3. /\ r.project \in Projects /\ r.todo \subseteq r.seen /\ m \in r.todo
        /\ r.seen \subseteq Eligible(registered[r.project])
        /\ r.team \in DOMAIN teams /\ teams[r.team].name = NameOf[r.project]
    BY <1>5 DEF CheckPending, At, HandlerOK, TeamPc
  <2>4. UNCHANGED <<tables, teams, account, labelled, cached>>
    BY <1>5 DEF CheckPending
  <2> HIDE DEF q
  <2>5. ASSUME NEW o \in {"pending", "already"},
               Continue(d, Reported(q, m, o, "checkPending", "comment"))
        PROVE  IndInv'
    <3> DEFINE s == Reported(q, m, o, "checkPending", "comment")
    <3>0. o \in Outcome /\ "checkPending" \in Pc /\ "comment" \in Pc
      BY DEF Outcome, CommandPc
    <3>1. /\ s \in Request /\ s.pc \in {"checkPending", "comment"}
          /\ s.project = r.project /\ s.team = r.team /\ s.seen = r.seen
          /\ s.todo = r.todo \ {m}
      BY <2>2, <3>0, ReportedType
    <3> HIDE DEF s
    <3>2. HandlerOK(s)
      BY <2>3, <3>1 DEF HandlerOK, TeamPc, StoredPc, AddingPc, AnothersRow
    <3> QED BY <2>4, <2>5, <3>1, <3>2, QuietStep DEF TypeOK, s
  <2>6. CASE Continue(d, [q EXCEPT !.pc = "add", !.cur = m])
    <3> DEFINE s == [q EXCEPT !.pc = "add", !.cur = m]
    <3>1. /\ s \in Request /\ s.pc = "add" /\ s.cur = m
          /\ s.project = r.project /\ s.team = r.team /\ s.seen = r.seen
          /\ s.todo = r.todo
      BY <2>2 DEF Request, CommandPc
    <3> HIDE DEF s
    <3>2. HandlerOK(s)
      BY <2>3, <3>1 DEF HandlerOK, TeamPc, StoredPc, AddingPc, AnothersRow
    <3> QED BY <2>4, <2>6, <3>1, <3>2, QuietStep DEF TypeOK, s
  <2> QED BY <2>1, <2>5, <2>6 DEF q
<1> QED BY <1>1, <1>2, <1>3, <1>4, <1>5

\* The handlers of "/label", the last comment and the arrival of an event keep
\* the invariant.
LEMMA QuietOtherSteps ==
  ASSUME IndInv, NEW d \in Deliveries,
         \/ AuthorizeLabel(d) \/ AddLabel(d) \/ Comment(d)
         \/ \E n \in Names : Deliver(d, n)
  PROVE  IndInv'
<1> DEFINE r == req[d]
<1>0. r \in Request /\ HandlerOK(r) /\ TypeOK /\ labelled \subseteq Names
  BY DEF IndInv, TypeOK, HandlersOK
<1> USE <1>0, PcSets
<1>1. CASE AuthorizeLabel(d)
  <2> DEFINE b == r.actor \in registered[r.project] \cup Staff
  <2>0. b \in BOOLEAN
    OBVIOUS
  <2> HIDE DEF b
  <2>1. ASSUME NEW s, Continue(d, s),
               \/ s = [r EXCEPT !.pc = "addLabel"]
               \/ s = [r EXCEPT !.pc = "comment", !.end = "denied", !.failed = b]
        PROVE  IndInv'
    <3>1. s \in Request /\ s.pc \in {"comment", "addLabel"}
      BY <2>0, <2>1 DEF Request, LabelCommandPc, End
    <3>2. HandlerOK(s)
      BY <1>1, <2>1 DEF AuthorizeLabel, At, Request, HandlerOK, TeamPc, StoredPc, AddingPc, AnothersRow
    <3> QED BY <1>1, <2>1, <3>1, <3>2, QuietStep DEF AuthorizeLabel, TypeOK
  <2> QED BY <1>1, <2>1 DEF AuthorizeLabel, Project, b
<1>2. CASE AddLabel(d)
  <2> DEFINE s == [r EXCEPT !.pc = "comment"]
  <2>1. s \in Request /\ s.pc = "comment"
    BY DEF Request
  <2>2. HandlerOK(s)
    BY <1>2 DEF AddLabel, At, Request, HandlerOK, TeamPc, StoredPc, AddingPc, AnothersRow
  <2>3. labelled' \subseteq Names
    BY <1>2, ConstantsAssumption DEF AddLabel, At, HandlerOK, Project
  <2> QED BY <1>2, <2>1, <2>2, <2>3, QuietStep DEF AddLabel, TypeOK
<1>3. CASE Comment(d)
  BY <1>3, ReturnStep DEF Comment
<1>4. ASSUME NEW n \in Names, Deliver(d, n) PROVE IndInv'
  <2>1. ASSUME NEW s \in Request, Continue(d, s),
               \/ s.pc = "comment"
               \/ s.pc \in {"maintainers", "authorize", "labelAuth"} /\ s.project \in Projects,
               s.seen = {}, s.todo = {},
               UNCHANGED <<tables, teams, account, labelled, cached>>
        PROVE  IndInv'
    <3>1. HandlerOK(s)
      BY <2>1 DEF HandlerOK, TeamPc, StoredPc, AddingPc
    <3> QED BY <2>1, <3>1, QuietStep DEF TypeOK
  <2>2. \A p \in Known(n) : p \in Projects
    BY DEF Known, TypeOK
  <2>3. CASE DeliverLabeled(d, n)
    <3>1. ASSUME NEW p \in Known(n),
                 Continue(d, [Idle EXCEPT !.kind = "labeled", !.project = p,
                                          !.pc = "maintainers"])
          PROVE  IndInv'
      <4> DEFINE s == [Idle EXCEPT !.kind = "labeled", !.project = p, !.pc = "maintainers"]
      <4>1. s \in Request
        BY <2>2, IdleType DEF Request, LabelPc, Kind
      <4>2. s.project = p /\ s.seen = {} /\ s.todo = {} /\ s.pc = "maintainers"
        BY DEF Idle
      <4> HIDE DEF s
      <4> QED BY <2>1, <2>2, <2>3, <3>1, <4>1, <4>2 DEF DeliverLabeled, s
    <3>2. CASE Continue(d, [Idle EXCEPT !.kind = "labeled", !.pc = "comment", !.failed = TRUE])
      <4> DEFINE s == [Idle EXCEPT !.kind = "labeled", !.pc = "comment", !.failed = TRUE]
      <4>1. s \in Request
        BY IdleType DEF Request, Kind
      <4>2. s.seen = {} /\ s.todo = {} /\ s.pc = "comment"
        BY DEF Idle
      <4> HIDE DEF s
      <4> QED BY <2>1, <2>3, <3>2, <4>1, <4>2 DEF DeliverLabeled, s
    <3> QED BY <2>3, <3>1, <3>2 DEF DeliverLabeled
  <2>4. ASSUME NEW a \in Actors, DeliverAccepted(d, n, a) PROVE IndInv'
    <3>1. PICK p \in Known(n) :
            Continue(d, [Idle EXCEPT !.kind = "accepted", !.project = p, !.actor = a,
                                     !.pc = "authorize", !.users = Users])
      BY <2>4 DEF DeliverAccepted
    <3> DEFINE s == [Idle EXCEPT !.kind = "accepted", !.project = p, !.actor = a,
                       !.pc = "authorize", !.users = Users]
    <3>2. s \in Request
      BY <2>2, IdleType DEF Request, CommandPc, Kind, Users
    <3>3. s.project = p /\ s.seen = {} /\ s.todo = {} /\ s.pc = "authorize"
      BY DEF Idle
    <3> HIDE DEF s
    <3> QED BY <2>1, <2>2, <2>4, <3>1, <3>2, <3>3 DEF DeliverAccepted, s
  <2>5. ASSUME NEW a \in Actors, DeliverLabelCommand(d, n, a) PROVE IndInv'
    <3>1. ASSUME NEW p \in Known(n),
                 Continue(d, [Idle EXCEPT !.kind = "label", !.project = p, !.actor = a,
                                          !.pc = "labelAuth"])
          PROVE  IndInv'
      <4> DEFINE s == [Idle EXCEPT !.kind = "label", !.project = p, !.actor = a,
                                   !.pc = "labelAuth"]
      <4>1. s \in Request
        BY <2>2, IdleType DEF Request, LabelCommandPc, Kind
      <4>2. s.project = p /\ s.seen = {} /\ s.todo = {} /\ s.pc = "labelAuth"
        BY DEF Idle
      <4> HIDE DEF s
      <4> QED BY <2>1, <2>2, <2>5, <3>1, <4>1, <4>2 DEF DeliverLabelCommand, s
    <3>2. CASE Continue(d, [Idle EXCEPT !.kind = "label", !.actor = a, !.pc = "comment"])
      <4> DEFINE s == [Idle EXCEPT !.kind = "label", !.actor = a, !.pc = "comment"]
      <4>1. s \in Request
        BY IdleType DEF Request, Kind
      <4>2. s.seen = {} /\ s.todo = {} /\ s.pc = "comment"
        BY DEF Idle
      <4> HIDE DEF s
      <4> QED BY <2>1, <2>5, <3>2, <4>1, <4>2 DEF DeliverLabelCommand, s
    <3> QED BY <2>5, <3>1, <3>2 DEF DeliverLabelCommand
  <2> QED BY <1>4, <2>3, <2>4, <2>5 DEF Deliver
<1> QED BY <1>1, <1>2, <1>3, <1>4

\* Inviting a maintainer keeps the invariant.
LEMMA InviteStep ==
  ASSUME IndInv, NEW d \in Deliveries, NEW m \in Maintainers, Invite(d, m)
  PROVE  IndInv'
<1> DEFINE r == req[d]
<1>1. r \in Request /\ HandlerOK(r) /\ TypeOK
  BY DEF IndInv, TypeOK, HandlersOK
<1>2. /\ r.project \in Projects /\ r.todo \subseteq r.seen /\ m \in r.todo
      /\ r.seen \subseteq Eligible(registered[r.project])
      /\ r.team \in DOMAIN teams /\ teams[r.team].name = NameOf[r.project]
      /\ r.unstored \/ AnothersRow(r) \/ RowsOf(r.project) # {}
  BY <1>1 DEF Invite, At, HandlerOK, TeamPc, StoredPc
<1>3. /\ account' \in [Maintainers -> {"none", "pending", "user"}]
      /\ \A n \in Maintainers : account[n] = "user" => account'[n] = "user"
      /\ labelled' \subseteq Names
      /\ UNCHANGED <<tables, teams, cached>>
  BY <1>1 DEF Invite, TypeOK
<1>4. "invite" \in Pc /\ "reread" \in Pc /\ "addInvited" \in Pc /\ {"invited", "error"} \subseteq Outcome
  BY PcSets DEF LabelPc, Outcome
<1>5. ASSUME NEW o \in {"invited", "error"},
             Continue(d, Reported(r, m, o, "invite", "reread"))
      PROVE  IndInv'
  <2> DEFINE s == Reported(r, m, o, "invite", "reread")
  <2>1. /\ s \in Request /\ s.pc \in {"invite", "reread"}
        /\ s.project = r.project /\ s.team = r.team /\ s.seen = r.seen
        /\ s.todo = r.todo \ {m} /\ s.unstored = r.unstored
    BY <1>1, <1>4, ReportedType
  <2> HIDE DEF s
  <2>2. HandlerOK(s)
    BY <1>2, <2>1 DEF HandlerOK, TeamPc, StoredPc, AddingPc, AnothersRow
  <2> QED BY <1>3, <1>5, <2>1, <2>2, QuietStep DEF s
<1>6. CASE Continue(d, [r EXCEPT !.pc = "addInvited", !.cur = m])
  <2> DEFINE s == [r EXCEPT !.pc = "addInvited", !.cur = m]
  <2>1. /\ s \in Request /\ s.pc = "addInvited" /\ s.cur = m
        /\ s.project = r.project /\ s.team = r.team /\ s.seen = r.seen
        /\ s.todo = r.todo /\ s.unstored = r.unstored
    BY <1>1, <1>4 DEF Request
  <2> HIDE DEF s
  <2>2. HandlerOK(s)
    BY <1>2, <2>1 DEF HandlerOK, TeamPc, StoredPc, AddingPc, AnothersRow
  <2> QED BY <1>3, <1>6, <2>1, <2>2, QuietStep DEF s
<1> QED BY <1>5, <1>6 DEF Invite

\* Whatever a handler record says stays so when maintainers are registered,
\* teams or rows are added or people join a team.
LEMMA HandlerGrowth ==
  ASSUME TypeOK, NEW r \in Request, HandlerOK(r),
         \A p \in Projects : registered[p] \subseteq registered'[p],
         DOMAIN teams \subseteq DOMAIN teams',
         \A t \in DOMAIN teams : teams'[t].name = teams[t].name,
         DOMAIN rows \subseteq DOMAIN rows',
         \A i \in DOMAIN rows : rows'[i] = rows[i]
  PROVE  HandlerOK(r)'
<1>1. r.pc \notin {"idle", "comment"} => (r.project \in Projects /\ r.todo \subseteq r.seen
                        /\ r.seen \subseteq Eligible(registered'[r.project]))
  BY DEF HandlerOK, Eligible
<1>2. r.pc \in TeamPc => r.team \in DOMAIN teams' /\ teams'[r.team].name = NameOf[r.project]
  BY DEF HandlerOK
<1>3. RowsOf(r.project) # {} => RowsOf(r.project)' # {}
  BY DEF RowsOf
<1>4. AnothersRow(r) => AnothersRow(r)'
  BY DEF AnothersRow, RowsForTeam
<1> QED BY <1>1, <1>2, <1>3, <1>4 DEF HandlerOK, Eligible

\* A team of a name that FOSSA does not have yet, made by a handler or by hand,
\* and any new record of one handler that is correct afterwards keep the
\* invariant.
LEMMA NewTeamStep ==
  ASSUME IndInv, NEW n \in Names, TeamsNamed(n) = {},
         teams' = Append(teams, [name |-> n, members |-> {}]),
         req' \in [Deliveries -> Request],
         \A e \in Deliveries : \/ req'[e] = req[e]
                               \/ HandlerOK(req[e])' /\ req'[e].pc # "audit",
         UNCHANGED <<tables, account, labelled, cached>>
  PROVE  IndInv'
<1> DEFINE new == [name |-> n, members |-> {}]
<1>0. TypeOK /\ new \in Team
  BY DEF IndInv, Team
<1>1. /\ DOMAIN teams' = DOMAIN teams \cup {Len(teams) + 1}
      /\ Len(teams) + 1 \notin DOMAIN teams
      /\ \A t \in DOMAIN teams : teams'[t] = teams[t]
      /\ teams'[Len(teams) + 1] = new
      /\ teams' \in Seq(Team)
  BY <1>0 DEF TypeOK
<1>2. TypeOK'
  BY <1>0, <1>1 DEF TypeOK, tables
<1>3. /\ TeamsNamed(n)' = {Len(teams) + 1}
      /\ \A k \in Names : k # n => TeamsNamed(k)' = TeamsNamed(k)
  BY <1>1 DEF TeamsNamed
<1>4. UniqueTeamNames'
  BY <1>1 DEF IndInv, UniqueTeamNames, TeamsNamed
<1>5. RowsPointAtTheirTeam'
  <2> SUFFICES ASSUME NEW i \in DOMAIN rows
               PROVE  TeamsNamed(NameOf[rows[i].project])' = {rows[i].team}
    BY DEF RowsPointAtTheirTeam, TeamsOf, TeamsNamed, tables
  <2>1. PICK k \in Names : k = NameOf[rows[i].project] /\ TeamsNamed(k) = {rows[i].team}
    BY <1>0, SequenceTypes, ConstantsAssumption DEF IndInv, RowsPointAtTheirTeam, Row, TeamsOf
  <2>2. k # n
    BY <2>1
  <2>3. TeamsNamed(k)' = {rows[i].team}
    BY <1>3, <2>1, <2>2
  <2> QED BY <2>1, <2>3 DEF TeamsNamed, tables
<1>6. HandlersOK'
  <2> SUFFICES ASSUME NEW e \in Deliveries PROVE HandlerOK(req[e])'
    BY DEF HandlersOK
  <2>1. CASE req'[e] = req[e]
    <3>1. req[e] \in Request /\ HandlerOK(req[e])
      BY DEF IndInv, TypeOK, HandlersOK
    <3>2. \A q \in Projects : registered[q] \subseteq registered'[q]
      BY DEF tables
    <3>3. DOMAIN rows \subseteq DOMAIN rows' /\ \A i \in DOMAIN rows : rows'[i] = rows[i]
      BY DEF tables
    <3> DEFINE r == req[e]
    <3> HIDE DEF r
    <3>4. ASSUME NEW s \in Request, HandlerOK(s) PROVE HandlerOK(s)'
      BY <1>0, <1>1, <3>2, <3>3, <3>4, HandlerGrowth
    <3> QED BY <2>1, <3>1, <3>4 DEF HandlerOK
  <2> QED BY <2>1 DEF HandlerOK
<1>7. MembersAreAcceptedMaintainers'
  <2> SUFFICES ASSUME NEW t \in DOMAIN teams', NEW m \in teams'[t].members
               PROVE  /\ m \in Users'
                      /\ \E p \in Projects :
                           NameOf[p] = teams'[t].name /\ m \in Eligible(registered'[p])
    BY DEF MembersAreAcceptedMaintainers, Eligible
  <2>1. Users' = Users /\ registered' = registered
    BY DEF Users, tables
  <2>2. CASE t = Len(teams) + 1
    BY <1>1, <2>2
  <2>3. CASE t \in DOMAIN teams
    BY <1>1, <2>1, <2>3 DEF IndInv, MembersAreAcceptedMaintainers
  <2> QED BY <1>1, <2>2, <2>3
<1>8. HandlerAuditsItsOwn'
  <2>1. \A e \in Deliveries : At(e, "audit")' => At(e, "audit") /\ req'[e] = req[e]
    BY DEF At
  <2>2. \A e \in Deliveries : At(e, "audit") =>
           req[e].team \in DOMAIN teams
    BY DEF IndInv, HandlersOK, HandlerOK, At, TeamPc
  <2>3. audit' = audit
    BY DEF tables
  <2> SUFFICES ASSUME NEW e \in Deliveries, At(e, "audit")'
               PROVE  /\ req'[e].cur \in teams'[req'[e].team].members
                      /\ NotAudited(req[e].project, req[e].cur)'
                      /\ \A f \in Deliveries :
                           /\ At(f, "audit")'
                           /\ NameOf[req'[f].project] = NameOf[req'[e].project]
                           /\ req'[f].cur = req'[e].cur
                           => f = e
    BY DEF HandlerAuditsItsOwn, Project, At
  <2>4. /\ req[e].cur \in teams[req[e].team].members
        /\ NotAudited(req[e].project, req[e].cur)
        /\ \A f \in Deliveries :
             /\ At(f, "audit")
             /\ NameOf[req[f].project] = NameOf[req[e].project]
             /\ req[f].cur = req[e].cur
             => f = e
    BY <2>1 DEF IndInv, HandlerAuditsItsOwn, Project
  <2>5. NotAudited(req[e].project, req[e].cur)'
    BY <2>1, <2>3, <2>4 DEF NotAudited, Added
  <2> QED BY <1>1, <2>1, <2>2, <2>4, <2>5
<1>9. AuditedOnceAndTrue'
  <2> SUFFICES ASSUME NEW q \in Projects, NEW m \in Maintainers, Added(q, m) = 1
               PROVE  \E t \in TeamsOf(q)' : m \in teams'[t].members
    BY DEF IndInv, AuditedOnceAndTrue, Added, tables
  <2>1. PICK t \in TeamsOf(q) : m \in teams[t].members
    BY DEF IndInv, AuditedOnceAndTrue
  <2>2. t \in TeamsOf(q)' /\ teams'[t] = teams[t]
    BY <1>1 DEF TeamsOf, TeamsNamed
  <2> QED BY <2>1, <2>2
<1> QED BY <1>2, <1>4, <1>5, <1>6, <1>7, <1>8, <1>9 DEF IndInv

\* CreateTeam keeps the invariant: the team it returns, found or made, is the
\* only one of its project's name.
LEMMA CreateTeamStep ==
  ASSUME IndInv, NEW d \in Deliveries, CreateTeam(d) PROVE IndInv'
<1> DEFINE r == req[d]
<1>0. r \in Request /\ HandlerOK(r) /\ TypeOK /\ labelled \subseteq Names
  BY DEF IndInv, TypeOK, HandlersOK
<1>1. /\ r.project \in Projects /\ r.todo \subseteq r.seen
      /\ r.seen \subseteq Eligible(registered[r.project])
      /\ r.pc = "createTeam"
  BY <1>0 DEF CreateTeam, At, HandlerOK
<1>2. UNCHANGED <<tables, account, labelled, cached>>
  BY DEF CreateTeam
<1>3. ASSUME NEW t \in Nat
      PROVE  LET s == [r EXCEPT !.pc = "findRow", !.team = t]
             IN  /\ s \in Request /\ s.pc = "findRow" /\ s.team = t
                 /\ s.project = r.project /\ s.todo = r.todo /\ s.seen = r.seen
  BY <1>0, PcSets DEF Request, LabelPc
<1>4. ASSUME NEW t \in TeamsOf(r.project), UNCHANGED teams,
             Continue(d, [r EXCEPT !.pc = "findRow", !.team = t])
      PROVE  IndInv'
  <2> DEFINE s == [r EXCEPT !.pc = "findRow", !.team = t]
  <2>1. t \in Nat /\ t \in DOMAIN teams /\ teams[t].name = NameOf[r.project]
    BY <1>0, SequenceTypes DEF TeamsOf, TeamsNamed
  <2>2. s \in Request /\ HandlerOK(s) /\ s.pc # "audit"
    BY <1>1, <1>3, <2>1 DEF HandlerOK, TeamPc, StoredPc, AddingPc, AnothersRow
  <2> QED BY <1>0, <1>2, <1>4, <2>2, QuietStep DEF TypeOK
<1>5. ASSUME TeamsOf(r.project) = {},
             teams' = Append(teams, [name |-> NameOf[r.project], members |-> {}]),
             NEW s \in Request, Continue(d, s), HandlerOK(s)', s.pc # "audit"
      PROVE  IndInv'
  <2>1. /\ req' \in [Deliveries -> Request] /\ req'[d] = s
        /\ \A e \in Deliveries : e # d => req'[e] = req[e]
    BY <1>0, <1>5, ContinueType
  <2>2. \A e \in Deliveries : \/ req'[e] = req[e]
                              \/ HandlerOK(req[e])' /\ req'[e].pc # "audit"
    BY <1>5, <2>1 DEF HandlerOK
  <2>3. NameOf[r.project] \in Names /\ TeamsNamed(NameOf[r.project]) = {}
    BY <1>1, <1>5, ConstantsAssumption DEF TeamsOf
  <2> QED BY <1>2, <1>5, <2>1, <2>2, <2>3, NewTeamStep
<1>6. ASSUME TeamsOf(r.project) = {},
             teams' = Append(teams, [name |-> NameOf[r.project], members |-> {}]),
             Continue(d, [r EXCEPT !.pc = "findRow", !.team = Len(teams) + 1])
      PROVE  IndInv'
  <2>0. PICK s : s = [r EXCEPT !.pc = "findRow", !.team = Len(teams) + 1]
    OBVIOUS
  <2>1. /\ Len(teams) + 1 \in Nat /\ Len(teams) + 1 \in DOMAIN teams'
        /\ teams'[Len(teams) + 1].name = NameOf[r.project]
    BY <1>0, <1>6 DEF TypeOK
  <2>2. /\ s \in Request /\ s.pc = "findRow" /\ s.team = Len(teams) + 1
        /\ s.project = r.project /\ s.todo = r.todo /\ s.seen = r.seen
    BY <1>3, <2>0, <2>1
  <2>3. HandlerOK(s)'
    BY <1>1, <1>2, <2>1, <2>2 DEF HandlerOK, TeamPc, StoredPc, AddingPc, AnothersRow, Eligible, tables
  <2> QED BY <1>5, <1>6, <2>0, <2>2, <2>3
<1>7. CASE Fail(d) /\ UNCHANGED teams
  BY <1>1, <1>2, <1>7, FailStep DEF At
<1>8. ASSUME Fail(d), TeamsOf(r.project) = {},
             teams' = Append(teams, [name |-> NameOf[r.project], members |-> {}])
      PROVE  IndInv'
  <2>0. PICK s : s = [r EXCEPT !.pc = "comment", !.failed = TRUE]
    OBVIOUS
  <2>1. /\ s \in Request /\ s.pc = "comment"
        /\ s.project = r.project /\ s.todo = r.todo /\ s.seen = r.seen
    BY <1>0, <2>0, PcSets DEF Request
  <2>2. HandlerOK(s)'
    BY <1>1, <1>2, <2>1 DEF HandlerOK, TeamPc, StoredPc, AddingPc, AnothersRow, Eligible, tables
  <2> QED BY <1>5, <1>8, <2>0, <2>1, <2>2 DEF Fail
<1> QED BY <1>4, <1>6, <1>7, <1>8 DEF CreateTeam, Project

\* Storing the row of a team keeps the invariant.
LEMMA InsertServiceTeamStep ==
  ASSUME IndInv, NEW d \in Deliveries, InsertServiceTeam(d) PROVE IndInv'
<1> DEFINE r == req[d]
           new == [team |-> r.team, project |-> r.project]
<1>0. r \in Request /\ HandlerOK(r) /\ TypeOK /\ labelled \subseteq Names
  BY DEF IndInv, TypeOK, HandlersOK
<1>1. /\ r.project \in Projects /\ r.todo \subseteq r.seen
      /\ r.seen \subseteq Eligible(registered[r.project])
      /\ r.team \in DOMAIN teams /\ teams[r.team].name = NameOf[r.project]
      /\ r.team \in Nat
  BY <1>0, SequenceTypes DEF InsertServiceTeam, At, HandlerOK, TeamPc
<1>2. UNCHANGED <<projects, registered, audit, teams, account, labelled, cached>>
  BY DEF InsertServiceTeam
<1>3. CASE UNCHANGED rows /\ Continue(d, TeamKnown([r EXCEPT !.failed = TRUE, !.unstored = TRUE]))
  <2> DEFINE q == [r EXCEPT !.failed = TRUE, !.unstored = TRUE]
  <2>1. /\ q \in Request /\ q.project = r.project /\ q.team = r.team
        /\ q.seen = r.seen /\ q.todo = r.todo /\ q.unstored
    BY <1>0 DEF Request
  <2> HIDE DEF q
  <2>2. HandlerOK(TeamKnown(q)) /\ TeamKnown(q) \in Request /\ TeamKnown(q).pc # "audit"
    BY <1>1, <2>1, TeamKnownType DEF HandlerOK, TeamPc, StoredPc, AddingPc, AnothersRow
  <2> QED BY <1>0, <1>2, <1>3, <2>2, QuietStep DEF TypeOK, tables, q
<1>4. CASE rows' = Append(rows, new) /\ Continue(d, TeamKnown(r))
  <2>0. new \in Row
    BY <1>1 DEF Row
  <2>1. /\ DOMAIN rows' = DOMAIN rows \cup {Len(rows) + 1}
        /\ \A i \in DOMAIN rows : rows'[i] = rows[i]
        /\ rows'[Len(rows) + 1] = new
        /\ rows' \in Seq(Row)
    BY <1>0, <1>4, <2>0 DEF TypeOK
  <2>2. /\ req' \in [Deliveries -> Request] /\ req'[d] = TeamKnown(r)
        /\ \A e \in Deliveries : e # d => req'[e] = req[e]
    BY <1>0, <1>4, ContinueType, TeamKnownType
  <2>3. TypeOK'
    BY <1>0, <1>2, <2>1, <2>2 DEF TypeOK
  <2>4. UniqueTeamNames' /\ MembersAreAcceptedMaintainers' /\ AuditedOnceAndTrue'
    BY <1>2 DEF IndInv, UniqueTeamNames, MembersAreAcceptedMaintainers,
                AuditedOnceAndTrue, Added, TeamsOf, TeamsNamed, Users, Eligible
  <2>5. RowsPointAtTheirTeam'
    <3>1. TeamsOf(r.project) = {r.team}
      BY <1>1 DEF IndInv, UniqueTeamNames, TeamsOf, TeamsNamed
    <3> SUFFICES ASSUME NEW i \in DOMAIN rows'
                 PROVE  TeamsOf(rows'[i].project) = {rows'[i].team}
      BY <1>2 DEF RowsPointAtTheirTeam, TeamsOf, TeamsNamed
    <3>2. CASE i = Len(rows) + 1
      BY <2>1, <3>1, <3>2
    <3>3. CASE i \in DOMAIN rows
      BY <2>1, <3>3 DEF IndInv, RowsPointAtTheirTeam
    <3> QED BY <2>1, <3>2, <3>3
  <2>6. HandlersOK'
    <3> SUFFICES ASSUME NEW e \in Deliveries PROVE HandlerOK(req[e])'
      BY DEF HandlersOK
    <3>1. CASE e = d
      <4>0. PICK s : s = TeamKnown(r)
        OBVIOUS
      <4>1. /\ s.pc \in {"comment", "invite"} /\ s.project = r.project
            /\ s.team = r.team /\ s.seen = r.seen /\ s.todo = r.todo
        BY <1>0, <4>0, TeamKnownType
      <4>2. \E i \in DOMAIN rows' : rows'[i].project = r.project
        BY <2>1
      <4>3. HandlerOK(s)'
        BY <1>1, <1>2, <4>1, <4>2 DEF HandlerOK, TeamPc, StoredPc, AddingPc, AnothersRow, Eligible, RowsOf
      <4> QED BY <2>2, <3>1, <4>0, <4>3 DEF HandlerOK
    <3>2. CASE e # d
      <4>1. req[e] \in Request /\ HandlerOK(req[e])
        BY DEF IndInv, TypeOK, HandlersOK
      <4>2. ASSUME NEW s \in Request, HandlerOK(s) PROVE HandlerOK(s)'
        BY <1>0, <1>2, <2>1, <4>2, HandlerGrowth
      <4> QED BY <2>2, <3>2, <4>1, <4>2 DEF HandlerOK
    <3> QED BY <3>1, <3>2
  <2>7. HandlerAuditsItsOwn'
    <3>1. req'[d].pc # "audit"
      BY <1>0, <2>2, TeamKnownType
    <3> QED BY <1>2, <2>2, <3>1 DEF IndInv, HandlerAuditsItsOwn, NotAudited, Added, At, Project
  <2> QED BY <2>3, <2>4, <2>5, <2>6, <2>7 DEF IndInv
<1> QED BY <1>3, <1>4 DEF InsertServiceTeam, Project

\* A handler that adds its current maintainer to its team, and becomes a
\* correct record that may go on to audit this addition, keeps the invariant.
LEMMA JoinStep ==
  ASSUME IndInv, NEW d \in Deliveries, req[d].pc \in {"addInvited", "add"},
         Addable(d), Join(d), NEW s \in Request, Continue(d, s), HandlerOK(s),
         s.pc = "audit" => /\ s.project = req[d].project
                           /\ s.team = req[d].team
                           /\ s.cur = req[d].cur,
         UNCHANGED <<tables, account, labelled, cached>>
  PROVE  IndInv'
<1> DEFINE r == req[d]
<1>0. r \in Request /\ HandlerOK(r) /\ TypeOK
  BY DEF IndInv, TypeOK, HandlersOK
<1>1. /\ r.project \in Projects /\ r.cur \in r.seen
      /\ r.seen \subseteq Eligible(registered[r.project])
      /\ r.team \in DOMAIN teams /\ teams[r.team].name = NameOf[r.project]
      /\ account[r.cur] = "user" /\ r.cur \notin teams[r.team].members
      /\ r.cur \in Maintainers
  BY <1>0 DEF HandlerOK, TeamPc, AddingPc, Addable, Request
<1>2. /\ DOMAIN teams' = DOMAIN teams
      /\ \A t \in DOMAIN teams : t # r.team => teams'[t] = teams[t]
      /\ \A t \in DOMAIN teams : teams'[t].name = teams[t].name
      /\ \A t \in DOMAIN teams : teams[t].members \subseteq teams'[t].members
      /\ teams'[r.team].members = teams[r.team].members \cup {r.cur}
      /\ teams' \in Seq(Team)
  <2>1. teams[r.team] \in Team /\ \A t \in DOMAIN teams : teams[t] \in Team
    BY <1>0, <1>1, SequenceTypes
  <2>2. PICK new : new = [teams[r.team] EXCEPT !.members = @ \cup {r.cur}]
    OBVIOUS
  <2>3. /\ new \in Team /\ new.name = teams[r.team].name
        /\ new.members = teams[r.team].members \cup {r.cur}
    BY <1>1, <2>1, <2>2 DEF Team
  <2>4. teams' = [teams EXCEPT ![r.team] = new]
    BY <2>2 DEF Join
  <2>5. teams \in Seq(Team)
    BY <1>0 DEF TypeOK
  <2> QED BY <1>1, <2>1, <2>3, <2>4, <2>5
<1>3. /\ req' \in [Deliveries -> Request] /\ req'[d] = s
      /\ \A e \in Deliveries : e # d => req'[e] = req[e]
  BY <1>0, ContinueType
<1>4. /\ projects' = projects /\ registered' = registered /\ rows' = rows
      /\ audit' = audit /\ account' = account /\ Users' = Users
      /\ \A q \in Projects : TeamsOf(q)' = TeamsOf(q)
      /\ \A q \in Projects, m \in Maintainers : Added(q, m)' = Added(q, m)
  BY <1>2 DEF tables, Users, TeamsOf, TeamsNamed, Added
<1>5. TypeOK'
  BY <1>0, <1>2, <1>3, <1>4 DEF TypeOK
<1>6. UniqueTeamNames'
  BY <1>2 DEF IndInv, UniqueTeamNames
<1>7. RowsPointAtTheirTeam'
  <2> SUFFICES ASSUME NEW i \in DOMAIN rows
               PROVE  TeamsOf(rows[i].project)' = {rows[i].team}
    BY <1>4 DEF RowsPointAtTheirTeam, TeamsOf, TeamsNamed
  <2>1. rows[i].project \in Projects /\ TeamsOf(rows[i].project) = {rows[i].team}
    BY <1>0, SequenceTypes DEF IndInv, RowsPointAtTheirTeam, Row
  <2> QED BY <1>2, <1>4, <2>1 DEF TeamsOf, TeamsNamed
<1>8. HandlersOK'
  <2>1. ASSUME NEW q \in Request, HandlerOK(q) PROVE HandlerOK(q)'
    BY <1>0, <1>2, <1>4, <2>1, HandlerGrowth
  <2> SUFFICES ASSUME NEW e \in Deliveries PROVE HandlerOK(req[e])'
    BY DEF HandlersOK
  <2>2. CASE e = d
    BY <1>3, <2>1, <2>2 DEF HandlerOK
  <2>3. CASE e # d
    <3>1. req[e] \in Request /\ HandlerOK(req[e])
      BY DEF IndInv, TypeOK, HandlersOK
    <3> QED BY <1>3, <2>1, <2>3, <3>1 DEF HandlerOK
  <2> QED BY <2>2, <2>3
<1>9. MembersAreAcceptedMaintainers'
  <2> SUFFICES ASSUME NEW t \in DOMAIN teams, NEW m \in teams'[t].members
               PROVE  /\ m \in Users
                      /\ \E p \in Projects :
                           NameOf[p] = teams[t].name /\ m \in Eligible(registered[p])
    BY <1>2, <1>4 DEF MembersAreAcceptedMaintainers, Eligible
  <2>1. CASE m \in teams[t].members
    BY <2>1 DEF IndInv, MembersAreAcceptedMaintainers
  <2>2. CASE m \notin teams[t].members
    <3>1. t = r.team /\ m = r.cur
      BY <1>2, <2>2
    <3> QED BY <1>1, <3>1 DEF Users
  <2> QED BY <2>1, <2>2
<1>10. TeamsOf(r.project) = {r.team}
  BY <1>1 DEF IndInv, UniqueTeamNames, TeamsOf, TeamsNamed
<1>11. \A e \in Deliveries : At(e, "audit") =>
         /\ req[e].team \in DOMAIN teams /\ teams[req[e].team].name = NameOf[req[e].project]
         /\ req[e].cur \in teams[req[e].team].members
         /\ NotAudited(req[e].project, req[e].cur)
  BY DEF IndInv, HandlersOK, HandlerOK, HandlerAuditsItsOwn, At, Project, TeamPc
<1>12. NotAudited(r.project, r.cur)
  <2> SUFFICES ASSUME NEW q \in Projects, NameOf[q] = NameOf[r.project]
               PROVE  Added(q, r.cur) = 0
    BY DEF NotAudited
  <2>1. /\ Added(q, r.cur) <= 1
        /\ Added(q, r.cur) = 1 => \E t \in TeamsOf(q) : r.cur \in teams[t].members
    BY <1>1 DEF IndInv, AuditedOnceAndTrue
  <2>2. Added(q, r.cur) \in Nat
    BY <1>0, <1>1 DEF TypeOK, AuditEntry, AuditAction, Added
  <2>3. TeamsOf(q) = {r.team}
    BY <1>10 DEF TeamsOf
  <2> QED BY <1>1, <2>1, <2>2, <2>3
<1>13. HandlerAuditsItsOwn'
  <2> SUFFICES ASSUME NEW e \in Deliveries, At(e, "audit")'
               PROVE  /\ req'[e].cur \in teams'[req'[e].team].members
                      /\ NotAudited(req[e].project, req[e].cur)'
                      /\ \A f \in Deliveries :
                           /\ At(f, "audit")'
                           /\ NameOf[req'[f].project] = NameOf[req'[e].project]
                           /\ req'[f].cur = req'[e].cur
                           => f = e
    BY <1>4 DEF HandlerAuditsItsOwn, Project, At
  <2>1. \A f \in Deliveries : f # d /\ At(f, "audit") =>
          ~(NameOf[req[f].project] = NameOf[r.project] /\ req[f].cur = r.cur)
    BY <1>1, <1>10, <1>11 DEF TeamsOf, TeamsNamed
  <2>2. \A f \in Deliveries : f # d /\ At(f, "audit")' =>
          At(f, "audit") /\ req'[f] = req[f]
    BY <1>3 DEF At
  <2>3. CASE e = d
    <3>1. req'[e].project = r.project /\ req'[e].team = r.team /\ req'[e].cur = r.cur
      BY <1>3, <2>3 DEF At
    <3>2. NotAudited(req[e].project, req[e].cur)'
      BY <1>4, <1>12, <3>1 DEF NotAudited, Added
    <3> QED BY <1>2, <2>1, <2>2, <2>3, <3>1, <3>2
  <2>4. CASE e # d
    <3>1. At(e, "audit") /\ req'[e] = req[e]
      BY <2>2, <2>4
    <3>2. \A f \in Deliveries :
            At(f, "audit") /\ NameOf[req[f].project] = NameOf[req[e].project] /\ req[f].cur = req[e].cur
            => f = e
      BY <3>1 DEF IndInv, HandlerAuditsItsOwn, Project
    <3>3. At(d, "audit")' => req'[d].project = r.project /\ req'[d].cur = r.cur
      BY <1>3 DEF At
    <3>4. \A f \in Deliveries :
            /\ At(f, "audit")'
            /\ NameOf[req'[f].project] = NameOf[req'[e].project]
            /\ req'[f].cur = req'[e].cur
            => f = e
      BY <2>1, <2>2, <2>4, <3>1, <3>2, <3>3
    <3>5. NotAudited(req[e].project, req[e].cur)'
      BY <1>4, <1>11, <3>1 DEF NotAudited, Added
    <3> QED BY <1>2, <1>11, <3>1, <3>4, <3>5
  <2> QED BY <2>3, <2>4
<1>14. AuditedOnceAndTrue'
  <2> SUFFICES ASSUME NEW q \in Projects, NEW m \in Maintainers, Added(q, m) = 1
               PROVE  \E t \in TeamsOf(q)' : m \in teams'[t].members
    BY <1>4 DEF IndInv, AuditedOnceAndTrue
  <2>1. PICK t \in TeamsOf(q) : m \in teams[t].members
    BY DEF IndInv, AuditedOnceAndTrue
  <2>2. t \in TeamsOf(q)' /\ m \in teams'[t].members
    BY <1>2, <1>4, <2>1 DEF TeamsOf, TeamsNamed
  <2> QED BY <2>2
<1> QED BY <1>5, <1>6, <1>7, <1>8, <1>9, <1>13, <1>14 DEF IndInv

\* Adding a user that was invited again keeps the invariant.
LEMMA AddInvitedUserStep ==
  ASSUME IndInv, NEW d \in Deliveries, AddInvitedUser(d) PROVE IndInv'
<1> DEFINE r == req[d]
<1>0. r \in Request /\ HandlerOK(r) /\ TypeOK /\ labelled \subseteq Names
  BY DEF IndInv, TypeOK, HandlersOK
<1>1. /\ r.project \in Projects /\ r.todo \subseteq r.seen /\ r.cur \in r.seen
      /\ r.seen \subseteq Eligible(registered[r.project])
      /\ r.team \in DOMAIN teams /\ teams[r.team].name = NameOf[r.project]
      /\ r.unstored \/ AnothersRow(r) \/ RowsOf(r.project) # {}
      /\ r.cur \in Maintainers /\ r.pc = "addInvited"
  BY <1>0 DEF AddInvitedUser, At, HandlerOK, TeamPc, StoredPc, AddingPc, AnothersRow, Request
<1>2. "invite" \in Pc /\ "reread" \in Pc /\ {"added", "error"} \subseteq Outcome
  BY PcSets DEF LabelPc, Outcome
<1>3. UNCHANGED <<tables, account, labelled, cached>>
  BY DEF AddInvitedUser
<1>4. PICK o \in {"added", "error"} :
        /\ Continue(d, Reported(r, r.cur, o, "invite", "reread"))
        /\ UNCHANGED teams \/ (Addable(d) /\ Join(d))
  BY DEF AddInvitedUser
<1> DEFINE s == Reported(r, r.cur, o, "invite", "reread")
<1>5. /\ s \in Request /\ s.pc \in {"invite", "reread"}
      /\ s.project = r.project /\ s.team = r.team /\ s.seen = r.seen
      /\ s.todo = r.todo \ {r.cur} /\ s.unstored = r.unstored
  <2>1. r \in Request /\ r.cur \in Maintainers /\ o \in Outcome
    BY <1>0, <1>1, <1>2
  <2> QED BY <1>2, <2>1, ReportedType, SMTT(60)
<1> HIDE DEF s
<1>6. HandlerOK(s)
  BY <1>1, <1>5 DEF HandlerOK, TeamPc, StoredPc, AddingPc, AnothersRow
<1>7. CASE UNCHANGED teams
  BY <1>0, <1>3, <1>4, <1>5, <1>6, <1>7, QuietStep DEF TypeOK, s
<1>8. CASE Addable(d) /\ Join(d)
  BY <1>1, <1>3, <1>4, <1>5, <1>6, <1>8, JoinStep DEF s
<1> QED BY <1>4, <1>7, <1>8

\* Adding a maintainer by command keeps the invariant.
LEMMA AddUserToTeamStep ==
  ASSUME IndInv, NEW d \in Deliveries, AddUserToTeam(d) PROVE IndInv'
<1> DEFINE r == req[d]
<1>0. r \in Request /\ HandlerOK(r) /\ TypeOK /\ labelled \subseteq Names
  BY DEF IndInv, TypeOK, HandlersOK
<1>1. /\ r.project \in Projects /\ r.todo \subseteq r.seen /\ r.cur \in r.seen
      /\ r.seen \subseteq Eligible(registered[r.project])
      /\ r.team \in DOMAIN teams /\ teams[r.team].name = NameOf[r.project]
      /\ r.cur \in Maintainers /\ r.pc = "add"
  BY <1>0 DEF AddUserToTeam, At, HandlerOK, TeamPc, AddingPc, Request
<1>2. /\ "checkPending" \in Pc /\ "comment" \in Pc /\ "audit" \in Pc
      /\ {"already", "error"} \subseteq Outcome
  BY PcSets DEF CommandPc, Outcome
<1>3. UNCHANGED <<tables, account, labelled, cached>>
  BY DEF AddUserToTeam
<1>4. CASE Addable(d) /\ Join(d) /\ Continue(d, [r EXCEPT !.pc = "audit"])
  <2> DEFINE s == [r EXCEPT !.pc = "audit"]
  <2>1. /\ s \in Request /\ s.pc = "audit" /\ s.cur = r.cur
        /\ s.project = r.project /\ s.team = r.team /\ s.seen = r.seen
        /\ s.todo = r.todo
    BY <1>0, <1>2 DEF Request
  <2> HIDE DEF s
  <2>2. HandlerOK(s)
    BY <1>1, <2>1 DEF HandlerOK, TeamPc, StoredPc, AddingPc, AnothersRow
  <2> QED BY <1>1, <1>3, <1>4, <2>1, <2>2, JoinStep DEF s
<1>5. ASSUME NEW o \in {"already", "error"},
             Continue(d, Reported(r, r.cur, o, "checkPending", "comment")),
             UNCHANGED teams \/ (Addable(d) /\ Join(d))
      PROVE  IndInv'
  <2> DEFINE s == Reported(r, r.cur, o, "checkPending", "comment")
  <2>0. r \in Request /\ r.cur \in Maintainers /\ o \in Outcome
    BY <1>0, <1>1, <1>2
  <2>1. /\ s \in Request /\ s.pc \in {"checkPending", "comment"}
        /\ s.project = r.project /\ s.team = r.team /\ s.seen = r.seen
        /\ s.todo = r.todo \ {r.cur}
    BY <1>2, <2>0, ReportedType, SMTT(60)
  <2> HIDE DEF s
  <2>2. HandlerOK(s)
    BY <1>1, <2>1 DEF HandlerOK, TeamPc, StoredPc, AddingPc, AnothersRow
  <2>3. CASE UNCHANGED teams
    BY <1>0, <1>3, <1>5, <2>1, <2>2, <2>3, QuietStep DEF TypeOK, s
  <2>4. CASE Addable(d) /\ Join(d)
    BY <1>1, <1>3, <1>5, <2>1, <2>2, <2>4, JoinStep DEF s
  <2> QED BY <1>5, <2>3, <2>4
<1> QED BY <1>4, <1>5 DEF AddUserToTeam

\* Auditing an addition, or failing to, keeps the invariant.
LEMMA LogAddMemberStep ==
  ASSUME IndInv, NEW d \in Deliveries, LogAddMember(d) PROVE IndInv'
<1> DEFINE r == req[d]
           key == <<"FOSSA_ADD_MEMBER", r.project, r.cur>>
<1>0. r \in Request /\ HandlerOK(r) /\ TypeOK
  BY DEF IndInv, TypeOK, HandlersOK
<1>1. /\ r.project \in Projects /\ r.todo \subseteq r.seen /\ r.cur \in r.seen
      /\ r.seen \subseteq Eligible(registered[r.project])
      /\ r.team \in DOMAIN teams /\ teams[r.team].name = NameOf[r.project]
      /\ r.cur \in Maintainers /\ r.pc = "audit"
  BY <1>0 DEF LogAddMember, At, HandlerOK, TeamPc, AddingPc, Request
<1>2. /\ r.cur \in teams[r.team].members
      /\ audit[key] = 0 /\ NotAudited(r.project, r.cur)
      /\ \A e \in Deliveries :
           At(e, "audit") /\ NameOf[req[e].project] = NameOf[r.project] /\ req[e].cur = r.cur => e = d
  BY <1>1 DEF IndInv, HandlerAuditsItsOwn, NotAudited, Added, At, Project
<1>3. UNCHANGED <<projects, registered, rows, teams, account, labelled, cached>>
  BY DEF LogAddMember
<1>4. key \in AuditEntry
  BY <1>1 DEF AuditEntry, AuditAction
<1>5. audit' = [audit EXCEPT ![key] = 1] \/ audit' = audit
  BY <1>0, <1>2, <1>4 DEF LogAddMember, Project, TypeOK
<1>6. PICK s : s = [Reported(r, r.cur, "added", "checkPending", "comment")
                      EXCEPT !.existing = @ \cup {r.cur}]
  OBVIOUS
<1>7. /\ s \in Request /\ s.pc \in {"checkPending", "comment"}
      /\ s.project = r.project /\ s.team = r.team /\ s.seen = r.seen
      /\ s.todo = r.todo \ {r.cur}
  <2> DEFINE q == Reported(r, r.cur, "added", "checkPending", "comment")
  <2>1. "checkPending" \in Pc /\ "comment" \in Pc /\ "added" \in Outcome
    BY PcSets DEF CommandPc, Outcome
  <2>2. /\ q \in Request /\ q.pc \in {"checkPending", "comment"}
        /\ q.project = r.project /\ q.team = r.team /\ q.seen = r.seen
        /\ q.todo = r.todo \ {r.cur}
    BY <1>0, <1>1, <2>1, ReportedType
  <2> HIDE DEF q
  <2>3. s = [q EXCEPT !.existing = @ \cup {r.cur}]
    BY <1>6 DEF q
  <2> QED BY <1>1, <2>2, <2>3 DEF Request
<1>8. Continue(d, s)
  BY <1>6 DEF LogAddMember
<1>9. /\ req' \in [Deliveries -> Request] /\ req'[d] = s
      /\ \A e \in Deliveries : e # d => req'[e] = req[e]
  BY <1>0, <1>7, <1>8, ContinueType
<1>10. TypeOK'
  <2>1. ASSUME NEW k \in AuditEntry, audit \in [AuditEntry -> Nat]
        PROVE  [audit EXCEPT ![k] = 1] \in [AuditEntry -> Nat]
    BY <2>1
  <2>2. audit \in [AuditEntry -> Nat]
    BY <1>0 DEF TypeOK
  <2>3. audit' \in [AuditEntry -> Nat]
    BY <1>4, <1>5, <2>1, <2>2
  <2> QED BY <1>0, <1>3, <1>9, <2>3 DEF TypeOK
<1>11. UniqueTeamNames' /\ RowsPointAtTheirTeam' /\ MembersAreAcceptedMaintainers'
  BY <1>3 DEF IndInv, UniqueTeamNames, RowsPointAtTheirTeam,
              MembersAreAcceptedMaintainers, TeamsOf, TeamsNamed, Users, Eligible
<1>12. HandlersOK'
  <2>1. ASSUME NEW q \in Request, HandlerOK(q) PROVE HandlerOK(q)'
    BY <1>0, <1>3, <2>1, HandlerGrowth
  <2>2. HandlerOK(s)
    BY <1>1, <1>7 DEF HandlerOK, TeamPc, StoredPc, AddingPc, AnothersRow
  <2> SUFFICES ASSUME NEW e \in Deliveries PROVE HandlerOK(req[e])'
    BY DEF HandlersOK
  <2>3. CASE e = d
    BY <1>7, <1>9, <2>1, <2>2, <2>3 DEF HandlerOK
  <2>4. CASE e # d
    <3>1. req[e] \in Request /\ HandlerOK(req[e])
      BY DEF IndInv, TypeOK, HandlersOK
    <3> QED BY <1>9, <2>1, <2>4, <3>1 DEF HandlerOK
  <2> QED BY <2>3, <2>4
<1>13. HandlerAuditsItsOwn'
  <2> SUFFICES ASSUME NEW e \in Deliveries, At(e, "audit")'
               PROVE  /\ req'[e].cur \in teams'[req'[e].team].members
                      /\ NotAudited(req[e].project, req[e].cur)'
                      /\ \A f \in Deliveries :
                           /\ At(f, "audit")'
                           /\ NameOf[req'[f].project] = NameOf[req'[e].project]
                           /\ req'[f].cur = req'[e].cur
                           => f = e
    BY DEF HandlerAuditsItsOwn, Project, At
  <2>1. \A f \in Deliveries : At(f, "audit")' => f # d /\ At(f, "audit") /\ req'[f] = req[f]
    BY <1>7, <1>9 DEF At
  <2>2. /\ req[e].cur \in teams[req[e].team].members
        /\ NotAudited(req[e].project, req[e].cur)
        /\ \A f \in Deliveries :
             At(f, "audit") /\ NameOf[req[f].project] = NameOf[req[e].project] /\ req[f].cur = req[e].cur
             => f = e
    BY <2>1 DEF IndInv, HandlerAuditsItsOwn, Project
  <2>3. NotAudited(req[e].project, req[e].cur)'
    <3> SUFFICES ASSUME NEW q \in Projects, NameOf[q] = NameOf[req[e].project]
                 PROVE  audit'[<<"FOSSA_ADD_MEMBER", q, req[e].cur>>] = 0
      BY <2>1 DEF NotAudited, Added
    <3> DEFINE k == <<"FOSSA_ADD_MEMBER", q, req[e].cur>>
    <3>1. audit[k] = 0
      BY <2>2 DEF NotAudited, Added
    <3>2. k # key
      BY <1>2, <2>1
    <3>3. k \in AuditEntry
      BY <2>1 DEF IndInv, TypeOK, Request, AuditEntry, AuditAction
    <3>4. audit \in [AuditEntry -> Nat]
      BY <1>0 DEF TypeOK
    <3> QED BY <1>5, <3>1, <3>2, <3>3, <3>4
  <2> QED BY <1>3, <2>1, <2>2, <2>3
<1>14. AuditedOnceAndTrue'
  <2>1. ASSUME NEW q \in Projects, NEW m \in Maintainers,
               <<"FOSSA_ADD_MEMBER", q, m>> # key
        PROVE  Added(q, m)' = Added(q, m)
    <3>1. PICK k \in AuditEntry : k = <<"FOSSA_ADD_MEMBER", q, m>>
      BY DEF AuditEntry, AuditAction
    <3>2. audit \in [AuditEntry -> Nat]
      BY <1>0 DEF TypeOK
    <3>3. audit'[k] = audit[k]
      BY <1>5, <2>1, <3>1, <3>2
    <3> QED BY <3>1, <3>3 DEF Added
  <2>2. audit'[key] \in {0, 1}
    BY <1>0, <1>2, <1>4, <1>5 DEF TypeOK
  <2> SUFFICES ASSUME NEW q \in Projects, NEW m \in Maintainers
               PROVE  /\ Added(q, m)' <= 1
                      /\ Added(q, m)' = 1 =>
                           /\ \E t \in TeamsOf(q) : m \in teams[t].members
                           /\ \A p \in Projects \ {q} : NameOf[p] = NameOf[q] => Added(p, m)' = 0
    BY <1>3 DEF AuditedOnceAndTrue, TeamsOf, TeamsNamed
  <2>3. CASE q = r.project /\ m = r.cur
    <3>1. r.team \in TeamsOf(q)
      BY <1>1, <2>3 DEF TeamsOf, TeamsNamed
    <3>2. ASSUME NEW p \in Projects \ {q}, NameOf[p] = NameOf[q] PROVE Added(p, m)' = 0
      <4>1. <<"FOSSA_ADD_MEMBER", p, m>> # key
        BY <2>3
      <4>2. Added(p, m) = 0
        BY <1>2, <2>3, <3>2 DEF NotAudited
      <4> QED BY <2>1, <4>1, <4>2
    <3>3. Added(q, m)' \in {0, 1}
      BY <2>2, <2>3 DEF Added
    <3> QED BY <1>2, <2>3, <3>1, <3>2, <3>3
  <2>4. CASE ~(q = r.project /\ m = r.cur)
    <3>1. Added(q, m)' = Added(q, m)
      BY <2>1, <2>4
    <3>2. /\ Added(q, m) <= 1
          /\ Added(q, m) = 1 =>
               /\ \E t \in TeamsOf(q) : m \in teams[t].members
               /\ \A p \in Projects \ {q} : NameOf[p] = NameOf[q] => Added(p, m) = 0
      BY DEF IndInv, AuditedOnceAndTrue
    <3>3. Added(q, m) = 1 => ~(m = r.cur /\ NameOf[r.project] = NameOf[q])
      BY <1>2 DEF NotAudited
    <3>4. Added(q, m) = 1 =>
            \A p \in Projects \ {q} : NameOf[p] = NameOf[q] => Added(p, m)' = 0
      BY <2>1, <3>2, <3>3
    <3> QED BY <3>1, <3>2, <3>4
  <2> QED BY <2>3, <2>4
<1> QED BY <1>10, <1>11, <1>12, <1>13, <1>14 DEF IndInv

\* A team imported by bootstrap gets a row of its own project.
LEMMA ImportServiceTeamStep ==
  ASSUME IndInv, NEW t \in DOMAIN teams, NEW p \in Projects, ImportServiceTeam(t, p)
  PROVE  IndInv'
<1> DEFINE new == [team |-> t, project |-> p]
<1>0. TypeOK
  BY DEF IndInv
<1>1. NameOf[p] = teams[t].name /\ t \in Nat
  BY <1>0, SequenceTypes DEF ImportServiceTeam
<1>2. UNCHANGED <<projects, registered, audit, teams, account, labelled, cached, req>>
      /\ rows' = Append(rows, new)
  BY DEF ImportServiceTeam
<1>3. new \in Row
  BY <1>1 DEF Row
<1>4. /\ DOMAIN rows' = DOMAIN rows \cup {Len(rows) + 1}
      /\ \A i \in DOMAIN rows : rows'[i] = rows[i]
      /\ rows'[Len(rows) + 1] = new
      /\ rows' \in Seq(Row)
  BY <1>0, <1>2, <1>3 DEF TypeOK
<1>5. TypeOK'
  BY <1>0, <1>2, <1>4 DEF TypeOK
<1>6. UniqueTeamNames' /\ MembersAreAcceptedMaintainers' /\ AuditedOnceAndTrue'
      /\ HandlerAuditsItsOwn'
  BY <1>2 DEF IndInv, UniqueTeamNames, MembersAreAcceptedMaintainers, AuditedOnceAndTrue, Added,
              HandlerAuditsItsOwn, NotAudited, TeamsOf, TeamsNamed, Users, Eligible, At, Project
<1>7. RowsPointAtTheirTeam'
  <2>1. TeamsOf(p) = {t}
    BY <1>1 DEF IndInv, UniqueTeamNames, TeamsOf, TeamsNamed
  <2> SUFFICES ASSUME NEW i \in DOMAIN rows'
               PROVE  TeamsOf(rows'[i].project) = {rows'[i].team}
    BY <1>2 DEF RowsPointAtTheirTeam, TeamsOf, TeamsNamed
  <2>2. CASE i = Len(rows) + 1
    BY <1>4, <2>1, <2>2
  <2>3. CASE i \in DOMAIN rows
    BY <1>4, <2>3 DEF IndInv, RowsPointAtTheirTeam
  <2> QED BY <1>4, <2>2, <2>3
<1>8. HandlersOK'
  <2>1. ASSUME NEW s \in Request, HandlerOK(s) PROVE HandlerOK(s)'
    BY <1>0, <1>2, <1>4, <2>1, HandlerGrowth
  <2> SUFFICES ASSUME NEW e \in Deliveries PROVE HandlerOK(req[e])'
    BY DEF HandlersOK
  <2>2. req[e] \in Request /\ HandlerOK(req[e])
    BY DEF IndInv, TypeOK, HandlersOK
  <2> QED BY <1>2, <2>1, <2>2 DEF HandlerOK
<1> QED BY <1>5, <1>6, <1>7, <1>8 DEF IndInv

\* Restarts and the steps of other programs and people keep the invariant.
LEMMA EnvironmentStep ==
  ASSUME IndInv, Environment PROVE IndInv'
<1>0. TypeOK
  BY DEF IndInv
<1>1. CASE Restart
  <2>1. \A d \in Deliveries : req'[d] = Idle
    BY <1>1 DEF Restart
  <2>2. Idle.pc = "idle"
    BY DEF Idle
  <2>3. TypeOK'
    BY <1>0, <1>1, IdleType DEF TypeOK, Restart, tables, ProjectMaps
  <2>4. HandlersOK'
    BY <2>1, <2>2 DEF HandlersOK, HandlerOK, TeamPc, StoredPc, AddingPc, AnothersRow
  <2>5. HandlerAuditsItsOwn'
    BY <2>1, <2>2 DEF HandlerAuditsItsOwn, At
  <2>6. UniqueTeamNames' /\ RowsPointAtTheirTeam' /\ MembersAreAcceptedMaintainers'
        /\ AuditedOnceAndTrue'
    BY <1>1 DEF IndInv, Restart, tables, UniqueTeamNames, RowsPointAtTheirTeam,
                MembersAreAcceptedMaintainers, AuditedOnceAndTrue, Added, TeamsOf, TeamsNamed,
                Users, Eligible
  <2> QED BY <2>3, <2>4, <2>5, <2>6 DEF IndInv
<1>2. ASSUME NEW n \in Names, CreateTeamByHand(n) PROVE IndInv'
  <2>1. req' \in [Deliveries -> Request] /\ \A e \in Deliveries : req'[e] = req[e]
    BY <1>0, <1>2 DEF CreateTeamByHand, TypeOK
  <2> QED BY <1>2, <2>1, NewTeamStep DEF CreateTeamByHand
<1>3. ASSUME UNCHANGED <<rows, audit, teams, req>>, TypeOK',
             \A p \in Projects : registered[p] \subseteq registered'[p],
             \A m \in Maintainers : account[m] = "user" => account'[m] = "user"
      PROVE  IndInv'
  <2>1. UniqueTeamNames' /\ RowsPointAtTheirTeam' /\ AuditedOnceAndTrue' /\ HandlerAuditsItsOwn'
    BY <1>3 DEF IndInv, UniqueTeamNames, RowsPointAtTheirTeam, AuditedOnceAndTrue, Added,
                HandlerAuditsItsOwn, NotAudited, TeamsOf, TeamsNamed, At, Project
  <2>2. MembersAreAcceptedMaintainers'
    <3> SUFFICES ASSUME NEW t \in DOMAIN teams, NEW m \in teams[t].members
                 PROVE  /\ m \in Users'
                        /\ \E p \in Projects :
                             NameOf[p] = teams[t].name /\ m \in Eligible(registered'[p])
      BY <1>3 DEF MembersAreAcceptedMaintainers, Eligible
    <3>1. PICK p \in Projects :
            m \in Users /\ NameOf[p] = teams[t].name /\ m \in Eligible(registered[p])
      BY DEF IndInv, MembersAreAcceptedMaintainers
    <3> QED BY <1>3, <3>1 DEF Users, Eligible
  <2>3. HandlersOK'
    <3>1. ASSUME NEW q \in Request, HandlerOK(q) PROVE HandlerOK(q)'
      BY <1>0, <1>3, <3>1, HandlerGrowth
    <3> SUFFICES ASSUME NEW e \in Deliveries PROVE HandlerOK(req[e])'
      BY DEF HandlersOK
    <3>2. req[e] \in Request /\ HandlerOK(req[e])
      BY DEF IndInv, TypeOK, HandlersOK
    <3> QED BY <1>3, <3>1, <3>2 DEF HandlerOK
  <2> QED BY <1>3, <2>1, <2>2, <2>3 DEF IndInv
<1>4. ASSUME \/ \E p \in Projects : CreateProject(p)
             \/ \E n \in Names : LabelByHand(n)
      PROVE  IndInv'
  <2>1. TypeOK'
    BY <1>0, <1>4 DEF TypeOK, CreateProject, LabelByHand, tables
  <2> QED BY <1>3, <1>4, <2>1 DEF CreateProject, LabelByHand, tables
<1>5. ASSUME NEW p \in Projects, NEW m \in Maintainers, RegisterMaintainer(p, m)
      PROVE  IndInv'
  <2>1. TypeOK' /\ \A q \in Projects : registered[q] \subseteq registered'[q]
    BY <1>0, <1>5, ConstantsAssumption DEF TypeOK, RegisterMaintainer
  <2> QED BY <1>3, <1>5, <2>1 DEF RegisterMaintainer
<1>6. ASSUME NEW m \in Maintainers, AcceptInvitation(m) \/ ExpireInvitation(m)
      PROVE  IndInv'
  <2>1. TypeOK' /\ \A n \in Maintainers : account[n] = "user" => account'[n] = "user"
    BY <1>0, <1>6 DEF TypeOK, AcceptInvitation, ExpireInvitation, tables
  <2> QED BY <1>3, <1>6, <2>1 DEF AcceptInvitation, ExpireInvitation, tables
<1>7. ASSUME NEW t \in DOMAIN teams, NEW p \in Projects, ImportServiceTeam(t, p)
      PROVE  IndInv'
  BY <1>7, ImportServiceTeamStep
<1> QED BY <1>1, <1>2, <1>4, <1>5, <1>6, <1>7 DEF Environment

\* The initial states satisfy the invariant.
LEMMA InitInv == Init => IndInv
<1> SUFFICES ASSUME Init PROVE IndInv
  OBVIOUS
<1>1. TypeOK
  BY IdleType DEF Init, TypeOK, ProjectMaps
<1>2. DOMAIN rows = {} /\ DOMAIN teams = {}
  BY DEF Init
<1>3. \A d \in Deliveries : req[d].pc = "idle"
  BY DEF Init, Idle
<1>4. HandlersOK /\ HandlerAuditsItsOwn
  BY <1>3 DEF HandlersOK, HandlerOK, HandlerAuditsItsOwn, At, TeamPc, StoredPc, AddingPc, AnothersRow
<1>5. AuditedOnceAndTrue
  <2>1. ASSUME NEW q \in Projects, NEW m \in Maintainers
        PROVE  Added(q, m) = 0
    BY DEF Init, Added, AuditEntry, AuditAction
  <2> QED BY <2>1 DEF AuditedOnceAndTrue
<1> QED BY <1>1, <1>2, <1>4, <1>5
  DEF IndInv, UniqueTeamNames, RowsPointAtTheirTeam, MembersAreAcceptedMaintainers

\* Every step keeps the invariant.
LEMMA NextInv == IndInv /\ [Next]_vars => IndInv'
<1> SUFFICES ASSUME IndInv, [Next]_vars PROVE IndInv'
  OBVIOUS
<1>1. ASSUME NEW d \in Deliveries, LabelStep(d) PROVE IndInv'
  BY <1>1, QuietLabelSteps, CreateTeamStep, InsertServiceTeamStep, InviteStep,
     AddInvitedUserStep DEF LabelStep
<1>2. ASSUME NEW d \in Deliveries, CommandStep(d) PROVE IndInv'
  BY <1>2, QuietCommandSteps, AddUserToTeamStep, LogAddMemberStep DEF CommandStep
<1>3. ASSUME NEW d \in Deliveries, Step(d) PROVE IndInv'
  BY <1>1, <1>2, <1>3, QuietOtherSteps DEF Step
<1>4. ASSUME NEW d \in Deliveries, NEW n \in Names, Deliver(d, n) PROVE IndInv'
  BY <1>4, QuietOtherSteps
<1>5. CASE UNCHANGED vars
  BY <1>5 DEF vars, IndInv, TypeOK, UniqueTeamNames, RowsPointAtTheirTeam, HandlersOK,
     HandlerOK, MembersAreAcceptedMaintainers, HandlerAuditsItsOwn, NotAudited, AnothersRow,
     RowsForTeam, AuditedOnceAndTrue, Added,
     TeamsOf, TeamsNamed, RowsOf, Users, Eligible, At, Project
<1> QED BY <1>3, <1>4, <1>5, EnvironmentStep DEF Next

\* The strengthened invariant holds throughout.
THEOREM Invariance == Spec => []IndInv
BY InitInv, NextInv, PTL DEF Spec

\* Type correctness of the onboarding server, its tables and FOSSA.
THEOREM TypeCorrectness == Spec => []TypeOK
<1>1. IndInv => TypeOK
  BY DEF IndInv
<1> QED BY <1>1, Invariance, PTL

\* The service_teams rows of a project all name its one FOSSA team, whatever
\* deliveries race, fail or are cut off by a restart.
THEOREM RowsAgree == Spec => []RowsPointAtTheirTeam
<1>1. IndInv => RowsPointAtTheirTeam
  BY DEF IndInv
<1> QED BY <1>1, Invariance, PTL

\* The unchecked dereference of signProjectUpForFOSSA is reached without a row
\* only after an ignored error of CreateServiceTeam, or when another project of
\* the same name owns the row of the team.
THEOREM PanicSafety == Spec => []PanicNeedsErrorOrNamesake
<1>1. IndInv => PanicNeedsErrorOrNamesake
  BY DEF IndInv, HandlersOK, HandlerOK, PanicNeedsErrorOrNamesake, At
<1> QED BY <1>1, Invariance, PTL

\* Only accepted, eligible maintainers of the project get into its team.
THEOREM MembershipSafety == Spec => []MembersAreAcceptedMaintainers
<1>1. IndInv => MembersAreAcceptedMaintainers
  BY DEF IndInv
<1> QED BY <1>1, Invariance, PTL

\* FOSSA_ADD_MEMBER is written at most once per project and maintainer, and
\* never for somebody who is not in the team.
THEOREM AuditSafety == Spec => []AuditedOnceAndTrue
<1>1. IndInv => AuditedOnceAndTrue
  BY DEF IndInv
<1> QED BY <1>1, Invariance, PTL
-----------------------------------------------------------------------------
(***************************************************************************)
(* A second layer on top of IndInv: what a handler has promised, and what  *)
(* its comment will say of it.                                             *)
(***************************************************************************)

InTeam(m, p) == \E t \in TeamsOf(p) : m \in teams[t].members

\* An accepted maintainer is dealt with: in the team of the handler, or taken
\* for somebody whose longer address is still invited.
AddedOrMistaken(r, m) ==
  \/ r.team \in DOMAIN teams /\ m \in teams[r.team].members
  \/ \E n \in Maintainers \ r.users : <<n, m>> \in Embeds

\* What the author of the event may do and had seen.
AuthorOK(r) ==
  /\ r.pc \notin {"idle", "comment"} => r.project \in Projects
  /\ r.pc \in LabelPc => r.kind = "labeled"
  /\ r.pc \in CommandPc => r.kind = "accepted"
  /\ r.pc \in LabelCommandPc => r.kind = "label"
  /\ r.pc \in CommandPc \ {"authorize"} => MayCommand(r.actor, r.project)
  /\ r.users \subseteq Users

\* What the report says of additions is so from the moment it is written.
AdditionsTrue(r) ==
  \A m \in Maintainers :
    r.report[m] \in {"added", "already"} => InTeam(m, r.project)

\* A label run has reported everyone it is through with, unless a call failed.
LabelRunOK(r) ==
  /\ r.pc \in {"maintainers", "teamMap", "createTeam", "findRow", "insertRow"} =>
       r.todo = r.seen /\ ~r.unstored
  /\ r.pc \in StoredPc /\ ~r.failed =>
       /\ ~r.unstored
       /\ \A m \in r.seen \ r.todo : r.report[m] \in {"invited", "added"}
  /\ r.pc = "reread" => r.todo = {}
  /\ r.pc = "comment" /\ ~r.failed =>
       /\ r.project \in Projects /\ RowsOf(r.project) # {}
       /\ \A m \in r.seen : r.report[m] \in {"invited", "added"}

\* A command has added everyone it is through with, unless a call failed.
CommandRunOK(r) ==
  /\ r.pc \in {"authorize", "cmdTeamMap", "cmdMaintainers"} => r.seen = {}
  /\ r.pc = "teamEmails" => r.todo = r.seen
  /\ r.pc \in {"checkPending", "add", "audit"} =>
       /\ r.team \in DOMAIN teams
       /\ r.existing \subseteq teams[r.team].members
       /\ ~r.failed => \A m \in (r.seen \ r.todo) \cap r.users : AddedOrMistaken(r, m)
  /\ r.pc = "comment" /\ ~r.failed =>
       \A m \in r.seen \cap r.users : AddedOrMistaken(r, m)

HandlerTrue(r) ==
  /\ AuthorOK(r)
  /\ AdditionsTrue(r)
  /\ r.kind = "labeled" => LabelRunOK(r)
  /\ r.kind = "accepted" => CommandRunOK(r)

HandlersTrue == \A d \in Deliveries : HandlerTrue(req[d])

\* What a step may do to the tables and to FOSSA: nobody stops being a user, a
\* maintainer or a member, no team is renamed and no project loses its rows.
Growth ==
  /\ Users \subseteq Users'
  /\ \A p \in Projects : registered[p] \subseteq registered'[p]
  /\ DOMAIN teams \subseteq DOMAIN teams'
  /\ \A t \in DOMAIN teams : /\ teams'[t].name = teams[t].name
                             /\ teams[t].members \subseteq teams'[t].members
  /\ \A p \in Projects : RowsOf(p) # {} => RowsOf(p)' # {}

\* A step that leaves tables and teams alone, except for new registrations and
\* users, is growth.
LEMMA QuietGrowth ==
  ASSUME UNCHANGED <<rows, teams>>,
         \A p \in Projects : registered[p] \subseteq registered'[p],
         \A m \in Maintainers : account[m] = "user" => account'[m] = "user"
  PROVE  Growth
BY DEF Growth, Users, RowsOf

\* A new team is growth.
LEMMA NewTeamGrowth ==
  ASSUME TypeOK, NEW n \in Names,
         teams' = Append(teams, [name |-> n, members |-> {}]),
         UNCHANGED <<tables, account>>
  PROVE  Growth
<1>1. [name |-> n, members |-> {}] \in Team
  BY DEF Team
<1>2. /\ DOMAIN teams \subseteq DOMAIN teams'
      /\ \A t \in DOMAIN teams : teams'[t] = teams[t]
  BY <1>1 DEF TypeOK
<1> QED BY <1>2 DEF Growth, Users, RowsOf, tables

\* A new row is growth.
LEMMA NewRowGrowth ==
  ASSUME TypeOK, NEW new \in Row, rows' = Append(rows, new),
         UNCHANGED <<registered, teams, account>>
  PROVE  Growth
<1>1. /\ DOMAIN rows \subseteq DOMAIN rows'
      /\ \A i \in DOMAIN rows : rows'[i] = rows[i]
  BY DEF TypeOK
<1>2. \A p \in Projects : RowsOf(p) # {} => RowsOf(p)' # {}
  BY <1>1 DEF RowsOf
<1> QED BY <1>2 DEF Growth, Users

\* A handler's addition is growth, and its maintainer is in the team afterwards.
LEMMA JoinGrowth ==
  ASSUME TypeOK, NEW d \in Deliveries, Addable(d), Join(d), req[d].cur \in Maintainers,
         UNCHANGED <<tables, account>>
  PROVE  /\ Growth
         /\ req[d].team \in DOMAIN teams
         /\ DOMAIN teams' = DOMAIN teams
         /\ \A t \in DOMAIN teams : t # req[d].team => teams'[t] = teams[t]
         /\ req[d].cur \in teams'[req[d].team].members
<1> DEFINE r == req[d]
<1>1. r.team \in DOMAIN teams
  BY DEF Addable
<1>2. teams[r.team] \in Team
  BY <1>1, SequenceTypes
<1>3. PICK new : new = [teams[r.team] EXCEPT !.members = @ \cup {r.cur}]
  OBVIOUS
<1>4. /\ new.name = teams[r.team].name
      /\ new.members = teams[r.team].members \cup {r.cur}
  BY <1>2, <1>3 DEF Team
<1>5. teams' = [teams EXCEPT ![r.team] = new] /\ teams \in Seq(Team)
  BY <1>3 DEF Join, TypeOK
<1>6. /\ DOMAIN teams' = DOMAIN teams /\ teams'[r.team] = new
      /\ \A t \in DOMAIN teams : t # r.team => teams'[t] = teams[t]
  BY <1>1, <1>5
<1> QED BY <1>1, <1>4, <1>6 DEF Growth, Users, RowsOf, tables

\* Every step is growth.
LEMMA NextGrows == ASSUME IndInv, [Next]_vars PROVE Growth
<1>0. TypeOK /\ \A d \in Deliveries : req[d] \in Request /\ HandlerOK(req[d])
  BY DEF IndInv, TypeOK, HandlersOK
<1>1. ASSUME NEW d \in Deliveries,
             \/ ReadMaintainers(d) \/ LookUpTeam(d) \/ FindServiceTeam(d)
             \/ RereadTeamMap(d) \/ Recover(d) \/ Authorize(d) \/ CommandTeamMap(d)
             \/ CommandMaintainers(d) \/ FetchTeamUserEmails(d)
             \/ \E m \in Maintainers : CheckPending(d, m)
             \/ LogAddMember(d) \/ AuthorizeLabel(d) \/ AddLabel(d) \/ Comment(d)
             \/ \E n \in Names : Deliver(d, n)
      PROVE  Growth
  <2>1. UNCHANGED <<rows, teams, registered, account>>
    BY <1>1 DEF ReadMaintainers, LookUpTeam, FindServiceTeam, RereadTeamMap, Recover,
       Authorize, CommandTeamMap, CommandMaintainers, FetchTeamUserEmails, CheckPending,
       LogAddMember, AuthorizeLabel, AddLabel, Comment, Deliver, DeliverLabeled,
       DeliverAccepted, DeliverLabelCommand, tables
  <2> QED BY <2>1, QuietGrowth
<1>2. ASSUME NEW d \in Deliveries, CreateTeam(d) PROVE Growth
  <2>1. NameOf[req[d].project] \in Names
    BY <1>0, <1>2, ConstantsAssumption DEF CreateTeam, At, HandlerOK
  <2>2. UNCHANGED <<tables, account>>
    BY <1>2 DEF CreateTeam
  <2>3. CASE UNCHANGED teams
    BY <2>2, <2>3, QuietGrowth DEF tables
  <2>4. CASE teams' = Append(teams, [name |-> NameOf[req[d].project], members |-> {}])
    BY <1>0, <2>1, <2>2, <2>4, NewTeamGrowth
  <2> QED BY <1>2, <2>3, <2>4 DEF CreateTeam, Project
<1>3. ASSUME NEW d \in Deliveries, InsertServiceTeam(d) PROVE Growth
  <2> DEFINE new == [team |-> req[d].team, project |-> req[d].project]
  <2>1. new \in Row
    BY <1>0, <1>3 DEF InsertServiceTeam, At, HandlerOK, Row, Request
  <2>2. UNCHANGED <<registered, teams, account>>
    BY <1>3 DEF InsertServiceTeam
  <2>3. CASE UNCHANGED rows
    BY <2>2, <2>3, QuietGrowth
  <2>4. CASE rows' = Append(rows, new)
    BY <1>0, <2>1, <2>2, <2>4, NewRowGrowth
  <2> QED BY <1>3, <2>3, <2>4 DEF InsertServiceTeam, Project
<1>4. ASSUME NEW d \in Deliveries, NEW m \in Maintainers, Invite(d, m) PROVE Growth
  <2>1. \A n \in Maintainers : account[n] = "user" => account'[n] = "user"
    BY <1>0, <1>4 DEF Invite, TypeOK
  <2> QED BY <1>4, <2>1, QuietGrowth DEF Invite, tables
<1>5. ASSUME NEW d \in Deliveries, AddInvitedUser(d) \/ AddUserToTeam(d) PROVE Growth
  <2>1. req[d].cur \in Maintainers
    BY <1>0, <1>5, ConstantsAssumption
    DEF AddInvitedUser, AddUserToTeam, At, HandlerOK, AddingPc, Request
  <2>2. UNCHANGED <<tables, account>>
    BY <1>5 DEF AddInvitedUser, AddUserToTeam
  <2>3. CASE UNCHANGED teams
    BY <2>2, <2>3, QuietGrowth DEF tables
  <2>4. CASE Addable(d) /\ Join(d)
    BY <1>0, <2>1, <2>2, <2>4, JoinGrowth
  <2> QED BY <1>5, <2>3, <2>4 DEF AddInvitedUser, AddUserToTeam
<1>6. CASE Environment
  <2>1. CASE Restart
    BY <2>1, QuietGrowth DEF Restart, tables
  <2>2. ASSUME \/ \E p \in Projects : CreateProject(p)
               \/ \E n \in Names : LabelByHand(n)
        PROVE  Growth
    BY <2>2, QuietGrowth DEF CreateProject, LabelByHand, tables
  <2>3. ASSUME NEW n \in Names, CreateTeamByHand(n) PROVE Growth
    BY <1>0, <2>3, NewTeamGrowth DEF CreateTeamByHand
  <2>4. ASSUME NEW p \in Projects, NEW m \in Maintainers, RegisterMaintainer(p, m)
        PROVE  Growth
    <3>1. \A q \in Projects : registered[q] \subseteq registered'[q]
      BY <1>0, <2>4, ConstantsAssumption DEF TypeOK, RegisterMaintainer
    <3> QED BY <2>4, <3>1, QuietGrowth DEF RegisterMaintainer
  <2>5. ASSUME NEW t \in DOMAIN teams, NEW p \in Projects, ImportServiceTeam(t, p)
        PROVE  Growth
    <3>1. [team |-> t, project |-> p] \in Row
      BY <1>0, SequenceTypes DEF Row
    <3> QED BY <1>0, <2>5, <3>1, NewRowGrowth DEF ImportServiceTeam
  <2>6. ASSUME NEW m \in Maintainers, AcceptInvitation(m) \/ ExpireInvitation(m)
        PROVE  Growth
    <3>1. \A n \in Maintainers : account[n] = "user" => account'[n] = "user"
      BY <1>0, <2>6 DEF TypeOK, AcceptInvitation, ExpireInvitation
    <3> QED BY <2>6, <3>1, QuietGrowth DEF AcceptInvitation, ExpireInvitation, tables
  <2> QED BY <1>6, <2>1, <2>2, <2>3, <2>4, <2>5, <2>6 DEF Environment
<1>7. CASE UNCHANGED vars
  BY <1>7, QuietGrowth DEF vars
<1> QED BY <1>1, <1>2, <1>3, <1>4, <1>5, <1>6, <1>7
  DEF Next, Step, LabelStep, CommandStep

\* What holds of a handler record keeps holding while the tables and FOSSA grow.
LEMMA TrueStays ==
  ASSUME Growth, NEW r \in Request, HandlerTrue(r)
  PROVE  HandlerTrue(r)'
<1>1. \A m : InTeam(m, r.project) => InTeam(m, r.project)'
  BY DEF Growth, InTeam, TeamsOf, TeamsNamed
<1>2. \A m : AddedOrMistaken(r, m) => AddedOrMistaken(r, m)'
  BY DEF Growth, AddedOrMistaken
<1>3. AuthorOK(r)'
  BY DEF HandlerTrue, AuthorOK, Growth, MayCommand, CommandPc
<1>4. AdditionsTrue(r)'
  BY <1>1 DEF HandlerTrue, AdditionsTrue
<1>5. r.kind = "labeled" => LabelRunOK(r)'
  BY DEF HandlerTrue, AuthorOK, LabelRunOK, Growth
<1>6. r.kind = "accepted" => CommandRunOK(r)'
  BY <1>2 DEF HandlerTrue, CommandRunOK, Growth
<1> QED BY <1>3, <1>4, <1>5, <1>6 DEF HandlerTrue

\* A handler that becomes a record that is true afterwards, and one that is true
\* already, leave every handler true.
LEMMA HandlerStepTrue ==
  ASSUME IndInv, HandlersTrue, Growth, NEW d \in Deliveries, NEW s \in Request,
         Continue(d, s), HandlerTrue(s) \/ HandlerTrue(s)'
  PROVE  HandlersTrue'
<1>0. TypeOK /\ \A e \in Deliveries : req[e] \in Request /\ HandlerTrue(req[e])
  BY DEF IndInv, TypeOK, HandlersTrue
<1>1. /\ req'[d] = s
      /\ \A e \in Deliveries : e # d => req'[e] = req[e]
  BY <1>0, ContinueType
<1>2. ASSUME NEW r \in Request, HandlerTrue(r) PROVE HandlerTrue(r)'
  BY <1>2, TrueStays
<1>3. HandlerTrue(s)'
  BY <1>2
<1> SUFFICES ASSUME NEW e \in Deliveries PROVE HandlerTrue(req[e])'
  BY DEF HandlersTrue
<1>4. CASE e = d
  BY <1>1, <1>3, <1>4 DEF HandlerTrue, AuthorOK, AdditionsTrue, LabelRunOK, CommandRunOK,
     MayCommand, AddedOrMistaken, InTeam, TeamsOf, TeamsNamed, Users, RowsOf
<1>5. CASE e # d
  <2>1. PICK r \in Request : r = req[e] /\ HandlerTrue(r)
    BY <1>0
  <2>2. HandlerTrue(r)' /\ req'[e] = r
    BY <1>1, <1>2, <1>5, <2>1
  <2> QED BY <2>2 DEF HandlerTrue, AuthorOK, AdditionsTrue, LabelRunOK, CommandRunOK,
     MayCommand, AddedOrMistaken, InTeam, TeamsOf, TeamsNamed, Users, RowsOf
<1> QED BY <1>4, <1>5

\* Dealing with one maintainer leaves the author, what was known of the users and
\* the members, and what is said of the others.
LEMMA ReportedFields ==
  ASSUME NEW r \in Request, NEW m \in Maintainers, NEW o \in Outcome,
         NEW loop \in Pc, NEW after \in Pc
  PROVE  LET s == Reported(r, m, o, loop, after)
         IN  /\ s.pc = IF r.todo \ {m} = {} THEN after ELSE loop
             /\ s.kind = r.kind /\ s.actor = r.actor /\ s.users = r.users
             /\ s.existing = r.existing
             /\ s.failed = (r.failed \/ o = "error")
             /\ s.report[m] = o
             /\ \A n \in Maintainers : n # m => s.report[n] = r.report[n]
BY DEF Reported, Request

\* Leaving the look-up of the team changes nothing that the comment is about,
\* but an error when there is nobody to invite.
LEMMA TeamKnownFields ==
  ASSUME NEW r \in Request
  PROVE  LET s == TeamKnown(r)
         IN  /\ s.pc = IF r.seen = {} THEN "comment" ELSE "invite"
             /\ s.kind = r.kind /\ s.actor = r.actor /\ s.users = r.users
             /\ s.report = r.report
             /\ s.failed = (r.failed \/ r.seen = {})
BY DEF TeamKnown, Request

\* The idle record makes no promise.
LEMMA IdleTrue == HandlerTrue(Idle)
BY DEF Idle, HandlerTrue, AuthorOK, AdditionsTrue, LabelPc, CommandPc, LabelCommandPc

\* The end of a delivery by an error is always truthful.
LEMMA FailTrue ==
  ASSUME IndInv, HandlersTrue, Growth, NEW d \in Deliveries, ~At(d, "idle"), Fail(d)
  PROVE  HandlersTrue'
<1> DEFINE r == req[d]
           s == [r EXCEPT !.pc = "comment", !.failed = TRUE]
<1>1. r \in Request /\ HandlerTrue(r) /\ r.pc # "idle"
  BY DEF IndInv, TypeOK, HandlersTrue, At
<1>2. /\ s \in Request /\ s.pc = "comment" /\ s.failed /\ s.kind = r.kind
      /\ s.project = r.project /\ s.users = r.users /\ s.report = r.report
  BY <1>1, PcSets DEF Request
<1> HIDE DEF s
<1>3. HandlerTrue(s)
  BY <1>1, <1>2 DEF HandlerTrue, AuthorOK, AdditionsTrue, LabelRunOK, CommandRunOK,
     LabelPc, CommandPc, LabelCommandPc, StoredPc
<1> QED BY <1>2, <1>3, HandlerStepTrue DEF Fail, s

\* Where a label run stands once the team is known.
LEMMA TeamKnownTrue ==
  ASSUME NEW q \in Request, AuthorOK(q), AdditionsTrue(q), q.kind = "labeled",
         q.project \in Projects, q.todo = q.seen, q.unstored => q.failed
  PROVE  HandlerTrue(TeamKnown(q))
<1> DEFINE s == TeamKnown(q)
<1>1. /\ s.pc \in {"comment", "invite"} /\ s.project = q.project
      /\ s.seen = q.seen /\ s.todo = q.todo /\ s.unstored = q.unstored
      /\ s.kind = q.kind /\ s.users = q.users /\ s.report = q.report
      /\ s.pc = "comment" => s.failed
      /\ s.unstored => s.failed
  BY TeamKnownType, TeamKnownFields
<1> HIDE DEF s
<1> QED BY <1>1 DEF s, HandlerTrue, AuthorOK, AdditionsTrue, LabelRunOK, LabelPc, CommandPc,
     LabelCommandPc, StoredPc

\* The steps of a label run up to the invitations keep every handler true.
LEMMA LabelStartTrue ==
  ASSUME IndInv, HandlersTrue, Growth, NEW d \in Deliveries,
         \/ ReadMaintainers(d) \/ LookUpTeam(d) \/ CreateTeam(d)
         \/ FindServiceTeam(d) \/ InsertServiceTeam(d)
  PROVE  HandlersTrue'
<1> DEFINE r == req[d]
<1>0. /\ r \in Request /\ HandlerTrue(r) /\ TypeOK /\ r.project \in Projects
      /\ r.pc \in {"maintainers", "teamMap", "createTeam", "findRow", "insertRow"}
  BY DEF IndInv, TypeOK, HandlersTrue, HandlersOK, HandlerOK, At, ReadMaintainers,
     LookUpTeam, CreateTeam, FindServiceTeam, InsertServiceTeam
<1>1. r.kind = "labeled" /\ r.todo = r.seen /\ ~r.unstored /\ AuthorOK(r) /\ AdditionsTrue(r)
      /\ r.users \subseteq Users
  BY <1>0 DEF HandlerTrue, AuthorOK, LabelRunOK, LabelPc
<1>a. ASSUME NEW s \in Request, Continue(d, s), s.kind = r.kind, s.project = r.project,
             s.users = r.users, s.report = r.report, s.todo = s.seen,
             s.unstored = r.unstored,
             s.pc \in {"teamMap", "createTeam", "findRow", "insertRow"}
      PROVE  HandlersTrue'
  <2>1. HandlerTrue(s)
    BY <1>0, <1>1, <1>a DEF HandlerTrue, AuthorOK, AdditionsTrue, LabelRunOK, LabelPc,
       CommandPc, LabelCommandPc, StoredPc
  <2> QED BY <1>a, <2>1, HandlerStepTrue
<1>b. ASSUME NEW q \in Request, Continue(d, TeamKnown(q)), q.kind = r.kind,
             q.project = r.project, q.users = r.users, q.report = r.report,
             q.todo = r.todo, q.seen = r.seen, q.pc = r.pc, q.unstored => q.failed
      PROVE  HandlersTrue'
  <2>1. AuthorOK(q) /\ AdditionsTrue(q)
    BY <1>0, <1>1, <1>b DEF AuthorOK, AdditionsTrue, LabelPc, CommandPc, LabelCommandPc
  <2>2. TeamKnown(q) \in Request /\ HandlerTrue(TeamKnown(q))
    BY <1>0, <1>1, <1>b, <2>1, TeamKnownTrue, TeamKnownType
  <2> QED BY <1>b, <2>2, HandlerStepTrue
<1>c. CASE Fail(d)
  BY <1>0, <1>c, FailTrue DEF At
<1> USE PcSets
<1>2. CASE ReadMaintainers(d)
  <2> DEFINE e == Eligible(registered[r.project])
             s == [r EXCEPT !.pc = "teamMap", !.seen = e, !.todo = e]
  <2>1. e \subseteq Maintainers
    BY ConstantsAssumption DEF Eligible
  <2>2. /\ s \in Request /\ s.kind = r.kind /\ s.project = r.project
        /\ s.users = r.users /\ s.report = r.report /\ s.todo = s.seen
        /\ s.unstored = r.unstored /\ s.pc = "teamMap"
    BY <1>0, <2>1 DEF Request, LabelPc
  <2> HIDE DEF s
  <2> QED BY <1>2, <1>a, <1>c, <2>2 DEF ReadMaintainers, Project, s
<1>3. CASE LookUpTeam(d)
  <2>1. ASSUME NEW i \in RowsOf(r.project),
               Continue(d, TeamKnown([r EXCEPT !.team = rows[i].team]))
        PROVE  HandlersTrue'
    <3>1. PICK q : q = [r EXCEPT !.team = rows[i].team]
      OBVIOUS
    <3>2. rows[i].team \in Nat
      BY <1>0, SequenceTypes DEF RowsOf, Row
    <3>3. /\ q \in Request /\ q.kind = r.kind /\ q.project = r.project /\ q.users = r.users
          /\ q.report = r.report /\ q.todo = r.todo /\ q.seen = r.seen /\ q.pc = r.pc
          /\ q.unstored = r.unstored /\ q.failed = r.failed
      BY <1>0, <3>1, <3>2 DEF Request
    <3> QED BY <1>1, <1>b, <2>1, <3>1, <3>3
  <2>2. ASSUME NEW s, s \in {[r EXCEPT !.pc = "createTeam"],
                             [r EXCEPT !.pc = "createTeam", !.failed = TRUE]},
               Continue(d, s)
        PROVE  HandlersTrue'
    <3>1. /\ s \in Request /\ s.kind = r.kind /\ s.project = r.project
          /\ s.users = r.users /\ s.report = r.report /\ s.todo = r.todo /\ s.seen = r.seen
          /\ s.unstored = r.unstored /\ s.pc = "createTeam"
      <4>1. CASE s = [r EXCEPT !.pc = "createTeam"]
        BY <1>0, <4>1 DEF Request, LabelPc
      <4>2. CASE s = [r EXCEPT !.pc = "createTeam", !.failed = TRUE]
        BY <1>0, <4>2 DEF Request, LabelPc
      <4> QED BY <2>2, <4>1, <4>2
    <3> QED BY <1>1, <1>a, <2>2, <3>1
  <2> QED BY <1>3, <2>1, <2>2 DEF LookUpTeam, Project
<1>4. CASE CreateTeam(d)
  <2>1. ASSUME NEW t \in Nat, Continue(d, [r EXCEPT !.pc = "findRow", !.team = t])
        PROVE  HandlersTrue'
    <3>1. PICK s : s = [r EXCEPT !.pc = "findRow", !.team = t]
      OBVIOUS
    <3>2. /\ s \in Request /\ s.kind = r.kind /\ s.project = r.project
          /\ s.users = r.users /\ s.report = r.report /\ s.todo = r.todo /\ s.seen = r.seen
          /\ s.unstored = r.unstored /\ s.pc = "findRow"
      BY <1>0, <3>1 DEF Request, LabelPc
    <3> QED BY <1>1, <1>a, <2>1, <3>1, <3>2
  <2>2. DOMAIN teams \subseteq Nat /\ Len(teams) + 1 \in Nat
    BY <1>0, SequenceTypes
  <2> QED BY <1>4, <1>c, <2>1, <2>2 DEF CreateTeam, TeamsOf, TeamsNamed
<1>5. ASSUME Continue(d, [r EXCEPT !.pc = "insertRow"]) PROVE HandlersTrue'
  <2>1. PICK s : s = [r EXCEPT !.pc = "insertRow"]
    OBVIOUS
  <2>2. /\ s \in Request /\ s.kind = r.kind /\ s.project = r.project
        /\ s.users = r.users /\ s.report = r.report /\ s.todo = r.todo /\ s.seen = r.seen
        /\ s.unstored = r.unstored /\ s.pc = "insertRow"
    BY <1>0, <2>1 DEF Request, LabelPc
  <2> QED BY <1>1, <1>5, <1>a, <2>1, <2>2
<1>6. ASSUME Continue(d, TeamKnown([r EXCEPT !.failed = TRUE, !.unstored = TRUE]))
      PROVE  HandlersTrue'
  <2>1. PICK q : q = [r EXCEPT !.failed = TRUE, !.unstored = TRUE]
    OBVIOUS
  <2>2. /\ q \in Request /\ q.kind = r.kind /\ q.project = r.project /\ q.users = r.users
        /\ q.report = r.report /\ q.todo = r.todo /\ q.seen = r.seen /\ q.pc = r.pc
        /\ q.failed
    BY <1>0, <2>1 DEF Request
  <2> QED BY <1>6, <1>b, <2>1, <2>2
<1>7. ASSUME Continue(d, TeamKnown(r)) PROVE HandlersTrue'
  BY <1>0, <1>1, <1>7, <1>b
<1>8. CASE FindServiceTeam(d)
  BY <1>5, <1>6, <1>7, <1>8 DEF FindServiceTeam
<1>9. CASE InsertServiceTeam(d)
  BY <1>6, <1>7, <1>9 DEF InsertServiceTeam
<1> QED BY <1>2, <1>3, <1>4, <1>8, <1>9

\* The invitations of a label run and its end keep every handler true.
LEMMA LabelLoopTrue ==
  ASSUME IndInv, IndInv', HandlersTrue, Growth, NEW d \in Deliveries,
         \/ \E m \in Maintainers : Invite(d, m)
         \/ AddInvitedUser(d) \/ RereadTeamMap(d) \/ Recover(d)
  PROVE  HandlersTrue'
<1>0. PICK r \in Request :
        /\ r = req[d] /\ HandlerTrue(r) /\ HandlerOK(r) /\ r.project \in Projects
      /\ r.pc \in {"invite", "addInvited", "reread", "panicked"}
  BY DEF IndInv, TypeOK, HandlersTrue, HandlersOK, HandlerOK, At, Invite,
     AddInvitedUser, RereadTeamMap, Recover
<1>1. /\ r.kind = "labeled" /\ AuthorOK(r) /\ AdditionsTrue(r) /\ LabelRunOK(r)
      /\ r.users \subseteq Users /\ r.todo \subseteq r.seen
  BY <1>0 DEF HandlerTrue, HandlerOK, AuthorOK, LabelPc
<1> USE PcSets
<1>p. {"invite", "reread", "addInvited", "comment", "panicked"} \subseteq Pc
      /\ {"invited", "added", "error"} \subseteq Outcome
  BY DEF LabelPc, Outcome
\* One maintainer is dealt with.
<1>a. ASSUME NEW m \in Maintainers, NEW o \in {"invited", "added", "error"},
             r.pc \in {"invite", "addInvited"},
             Continue(d, Reported(r, m, o, "invite", "reread")),
             o = "added" => InTeam(m, r.project)'
      PROVE  HandlersTrue'
  <2>1. PICK s : s = Reported(r, m, o, "invite", "reread")
    OBVIOUS
  <2>0. /\ r \in Request /\ m \in Maintainers /\ o \in Outcome
        /\ "invite" \in Pc /\ "reread" \in Pc
    BY <1>0, <1>p
  <2>2. /\ s \in Request /\ s.pc \in {"invite", "reread"} /\ s.project = r.project
        /\ s.seen = r.seen /\ s.todo = r.todo \ {m} /\ s.unstored = r.unstored
    BY <2>0, <2>1, ReportedType, SMTT(60)
  <2>3. /\ s.pc = "reread" => s.todo = {}
        /\ s.kind = r.kind /\ s.users = r.users
        /\ s.failed = (r.failed \/ o = "error")
        /\ s.report[m] = o
        /\ \A n \in Maintainers : n # m => s.report[n] = r.report[n]
    <3>1. /\ s.pc = IF r.todo \ {m} = {} THEN "reread" ELSE "invite"
          /\ s.kind = r.kind /\ s.users = r.users
          /\ s.failed = (r.failed \/ o = "error")
          /\ s.report[m] = o
          /\ \A n \in Maintainers : n # m => s.report[n] = r.report[n]
      BY <2>0, <2>1, ReportedFields
    <3> QED BY <2>2, <3>1
  <2>4. HandlerTrue(r)'
    BY <1>0, TrueStays
  <2>5. AuthorOK(s)'
    BY <1>0, <1>1, <2>2, <2>3 DEF AuthorOK, LabelPc, CommandPc, LabelCommandPc, Growth
  <2>6. AdditionsTrue(s)'
    BY <1>a, <2>2, <2>3, <2>4 DEF HandlerTrue, AdditionsTrue
  <2>7. LabelRunOK(s)'
    <3>1. ~s.failed => ~r.failed /\ o # "error"
      BY <2>3
    <3>2. ~r.failed => /\ ~r.unstored
                       /\ \A n \in r.seen \ r.todo : r.report[n] \in {"invited", "added"}
      BY <1>1, <1>a DEF LabelRunOK, StoredPc
    <3>3. s.seen \subseteq Maintainers
      BY <2>2 DEF Request
    <3>4. ~s.failed => \A n \in s.seen \ s.todo : s.report[n] \in {"invited", "added"}
      BY <1>a, <2>2, <2>3, <3>1, <3>2, <3>3
    <3> QED BY <2>2, <2>3, <3>1, <3>2, <3>4 DEF LabelRunOK, StoredPc
  <2>8. HandlerTrue(s)'
    BY <1>1, <2>3, <2>5, <2>6, <2>7 DEF HandlerTrue
  <2> QED BY <1>a, <2>1, <2>2, <2>8, HandlerStepTrue
<1>2. ASSUME NEW m \in Maintainers, Invite(d, m) PROVE HandlersTrue'
  <2>1. r.pc = "invite" /\ m \in r.todo
    BY <1>0, <1>2 DEF Invite, At
  <2>2. ASSUME NEW o \in {"invited", "error"},
               Continue(d, Reported(r, m, o, "invite", "reread"))
        PROVE  HandlersTrue'
    BY <1>a, <2>1, <2>2
  <2>3. CASE Continue(d, [r EXCEPT !.pc = "addInvited", !.cur = m])
    <3>1. PICK s : s = [r EXCEPT !.pc = "addInvited", !.cur = m]
      OBVIOUS
    <3>2. /\ s \in Request /\ s.pc = "addInvited" /\ s.project = r.project
          /\ s.seen = r.seen /\ s.todo = r.todo /\ s.unstored = r.unstored
          /\ s.kind = r.kind /\ s.users = r.users /\ s.failed = r.failed
          /\ s.report = r.report
      BY <1>0, <1>p, <3>1 DEF Request
    <3>3. HandlerTrue(s)
      BY <1>0, <1>1, <2>1, <3>2 DEF HandlerTrue, AuthorOK, AdditionsTrue, LabelRunOK,
         LabelPc, CommandPc, LabelCommandPc, StoredPc
    <3> QED BY <2>3, <3>1, <3>2, <3>3, HandlerStepTrue
  <2> QED BY <1>0, <1>2, <2>2, <2>3 DEF Invite
<1>3. CASE AddInvitedUser(d)
  <2>1. /\ r.pc = "addInvited" /\ r.cur \in Maintainers
        /\ r.team \in DOMAIN teams /\ teams[r.team].name = NameOf[r.project]
    BY <1>0, <1>3, ConstantsAssumption
    DEF AddInvitedUser, At, HandlerOK, AddingPc, TeamPc, Request
  <2>2. CASE Continue(d, Reported(r, r.cur, "error", "invite", "reread"))
    BY <1>a, <2>1, <2>2
  <2>3. CASE Addable(d) /\ Join(d)
             /\ Continue(d, Reported(r, r.cur, "added", "invite", "reread"))
    <3>1. UNCHANGED <<tables, account>> /\ TypeOK /\ req[d].cur \in Maintainers
      BY <1>0, <1>3, <2>1 DEF AddInvitedUser, IndInv
    <3>2. r.cur \in teams'[r.team].members
      BY <1>0, <2>3, <3>1, JoinGrowth
    <3>3. r.team \in DOMAIN teams' /\ teams'[r.team].name = NameOf[r.project]
      BY <2>1 DEF Growth
    <3>4. InTeam(r.cur, r.project)'
      BY <3>2, <3>3 DEF InTeam, TeamsOf, TeamsNamed
    <3> QED BY <1>a, <2>1, <2>3, <3>4
  <2> QED BY <1>0, <1>3, <2>2, <2>3 DEF AddInvitedUser
<1>4. CASE RereadTeamMap(d)
  <2>1. r.pc = "reread"
    BY <1>0, <1>4 DEF RereadTeamMap, At
  <2>2. CASE RowsOf(r.project) # {} /\ Continue(d, [r EXCEPT !.pc = "comment"])
    <3>1. PICK s : s = [r EXCEPT !.pc = "comment"]
      OBVIOUS
    <3>2. /\ s \in Request /\ s.pc = "comment" /\ s.project = r.project
          /\ s.seen = r.seen /\ s.kind = r.kind /\ s.users = r.users
          /\ s.failed = r.failed /\ s.report = r.report
      BY <1>0, <1>p, <3>1 DEF Request
    <3>3. ~r.failed => \A m \in r.seen : r.report[m] \in {"invited", "added"}
      BY <1>1, <2>1 DEF LabelRunOK, StoredPc
    <3>4. HandlerTrue(s)
      BY <1>0, <1>1, <2>2, <3>2, <3>3 DEF HandlerTrue, AuthorOK, AdditionsTrue, LabelRunOK,
         LabelPc, CommandPc, LabelCommandPc, StoredPc
    <3> QED BY <2>2, <3>1, <3>2, <3>4, HandlerStepTrue
  <2>3. CASE Continue(d, [r EXCEPT !.pc = "panicked"])
    <3>1. PICK s : s = [r EXCEPT !.pc = "panicked"]
      OBVIOUS
    <3>2. /\ s \in Request /\ s.pc = "panicked" /\ s.project = r.project
          /\ s.kind = r.kind /\ s.users = r.users /\ s.report = r.report
      BY <1>0, <1>p, <3>1 DEF Request
    <3>3. HandlerTrue(s)
      BY <1>0, <1>1, <3>2 DEF HandlerTrue, AuthorOK, AdditionsTrue, LabelRunOK,
         LabelPc, CommandPc, LabelCommandPc, StoredPc
    <3> QED BY <2>3, <3>1, <3>2, <3>3, HandlerStepTrue
  <2>4. CASE Continue(d, [r EXCEPT !.pc = "comment", !.failed = TRUE,
                                   !.report = Idle.report])
    <3>1. PICK s : s = [r EXCEPT !.pc = "comment", !.failed = TRUE,
                                 !.report = Idle.report]
      OBVIOUS
    <3>2. Idle.report \in [Maintainers -> Outcome]
          /\ \A m \in Maintainers : Idle.report[m] = "none"
      BY DEF Idle, Outcome
    <3>3. /\ s \in Request /\ s.pc = "comment" /\ s.project = r.project
          /\ s.kind = r.kind /\ s.users = r.users /\ s.failed
          /\ s.report = Idle.report
      BY <1>0, <1>p, <3>1, <3>2 DEF Request
    <3>4. HandlerTrue(s)
      BY <1>0, <1>1, <3>2, <3>3 DEF HandlerTrue, AuthorOK, AdditionsTrue, LabelRunOK,
         LabelPc, CommandPc, LabelCommandPc, StoredPc
    <3> QED BY <2>4, <3>1, <3>3, <3>4, HandlerStepTrue
  <2> QED BY <1>0, <1>4, <2>2, <2>3, <2>4 DEF RereadTeamMap, Project
<1>5. CASE Recover(d)
  BY <1>5, IdleTrue, IdleType, HandlerStepTrue DEF Recover
<1> QED BY <1>2, <1>3, <1>4, <1>5

\* The steps of a command up to its loop keep every handler true.
LEMMA CommandStartTrue ==
  ASSUME IndInv, HandlersTrue, Growth, NEW d \in Deliveries,
         \/ Authorize(d) \/ CommandTeamMap(d) \/ CommandMaintainers(d)
         \/ FetchTeamUserEmails(d)
  PROVE  HandlersTrue'
<1>0. PICK r \in Request :
        /\ r = req[d] /\ HandlerTrue(r) /\ HandlerOK(r) /\ r.project \in Projects
        /\ r.pc \in {"authorize", "cmdTeamMap", "cmdMaintainers", "teamEmails"}
  BY DEF IndInv, TypeOK, HandlersTrue, HandlersOK, HandlerOK, At, Authorize, CommandTeamMap,
     CommandMaintainers, FetchTeamUserEmails
<1>1. /\ r.kind = "accepted" /\ AuthorOK(r) /\ AdditionsTrue(r) /\ CommandRunOK(r)
      /\ r.users \subseteq Users
      /\ r.pc # "authorize" => MayCommand(r.actor, r.project)
  BY <1>0 DEF HandlerTrue, AuthorOK, CommandPc
<1> USE PcSets
<1>a. CASE Fail(d)
  BY <1>0, <1>a, FailTrue DEF At
<1>b. ASSUME NEW s \in Request, Continue(d, s), s.kind = r.kind, s.project = r.project,
             s.actor = r.actor, s.users = r.users, s.report = r.report, CommandRunOK(s),
             \/ s.pc = "comment"
             \/ s.pc \in CommandPc /\ MayCommand(r.actor, r.project)
      PROVE  HandlersTrue'
  <2>1. HandlerTrue(s)
    BY <1>0, <1>1, <1>b DEF HandlerTrue, AuthorOK, AdditionsTrue, LabelPc, CommandPc,
       LabelCommandPc
  <2> QED BY <1>b, <2>1, HandlerStepTrue
<1>2. CASE Authorize(d)
  <2>1. r.pc = "authorize" /\ r.seen = {}
    BY <1>0, <1>1, <1>2 DEF Authorize, At, CommandRunOK
  <2>2. ASSUME NEW s, Continue(d, s),
               \/ s = [r EXCEPT !.pc = "cmdTeamMap"] /\ MayCommand(r.actor, r.project)
               \/ s = [r EXCEPT !.pc = "comment", !.end = "denied",
                         !.failed = MayCommand(r.actor, r.project)]
        PROVE  HandlersTrue'
    <3>1. MayCommand(r.actor, r.project) \in BOOLEAN
      BY DEF MayCommand
    <3>2. /\ s \in Request /\ s.kind = r.kind /\ s.project = r.project
          /\ s.actor = r.actor /\ s.users = r.users /\ s.report = r.report
          /\ s.seen = r.seen
          /\ \/ s.pc = "comment"
             \/ s.pc = "cmdTeamMap" /\ MayCommand(r.actor, r.project)
      BY <1>0, <2>2, <3>1 DEF Request, CommandPc, End
    <3>3. CommandRunOK(s)
      BY <2>1, <3>2 DEF CommandRunOK
    <3> QED BY <1>b, <2>2, <3>2, <3>3 DEF CommandPc
  <2> QED BY <1>0, <1>2, <2>2 DEF Authorize, Project
<1>3. CASE CommandTeamMap(d)
  <2>1. r.pc = "cmdTeamMap" /\ r.seen = {}
    BY <1>0, <1>1, <1>3 DEF CommandTeamMap, At, CommandRunOK
  <2>2. ASSUME NEW t \in Nat, NEW s, Continue(d, s),
               \/ s = [r EXCEPT !.pc = "comment", !.end = "noteam"]
               \/ s = [r EXCEPT !.pc = "cmdMaintainers", !.team = t]
        PROVE  HandlersTrue'
    <3>1. /\ s \in Request /\ s.kind = r.kind /\ s.project = r.project
          /\ s.actor = r.actor /\ s.users = r.users /\ s.report = r.report
          /\ s.seen = r.seen /\ s.pc \in {"comment", "cmdMaintainers"}
      BY <1>0, <2>2 DEF Request, CommandPc, End
    <3>2. CommandRunOK(s)
      BY <2>1, <3>1 DEF CommandRunOK
    <3> QED BY <1>1, <1>b, <2>1, <2>2, <3>1, <3>2 DEF CommandPc
  <2>3. CASE Continue(d, Idle)
    BY <2>3, IdleTrue, IdleType, HandlerStepTrue
  <2>4. \A i \in RowsOf(r.project) : rows[i].team \in Nat
    BY SequenceTypes DEF IndInv, RowsOf, Row
  <2>5. CASE Continue(d, [r EXCEPT !.pc = "comment", !.end = "noteam"])
    BY <2>2, <2>5
  <2>6. ASSUME NEW i \in RowsOf(r.project),
               Continue(d, [r EXCEPT !.pc = "cmdMaintainers", !.team = rows[i].team])
        PROVE  HandlersTrue'
    BY <2>2, <2>4, <2>6
  <2> QED BY <1>0, <1>3, <2>3, <2>5, <2>6 DEF CommandTeamMap, Project
<1>4. CASE CommandMaintainers(d)
  <2>1. r.pc = "cmdMaintainers"
    BY <1>0, <1>4 DEF CommandMaintainers, At
  <2> DEFINE e == Eligible(registered[r.project])
  <2>2. e \subseteq Maintainers
    BY ConstantsAssumption DEF Eligible
  <2>3. CASE Continue(d, [r EXCEPT !.pc = IF e = {} THEN "comment" ELSE "teamEmails",
                                   !.seen = e, !.todo = e])
    <3>1. PICK s : s = [r EXCEPT !.pc = IF e = {} THEN "comment" ELSE "teamEmails",
                                 !.seen = e, !.todo = e]
      OBVIOUS
    <3>2. /\ s \in Request /\ s.kind = r.kind /\ s.project = r.project
          /\ s.actor = r.actor /\ s.users = r.users /\ s.report = r.report
          /\ s.seen = e /\ s.todo = e
          /\ s.pc = IF e = {} THEN "comment" ELSE "teamEmails"
      BY <1>0, <2>2, <3>1 DEF Request, CommandPc
    <3> HIDE DEF e
    <3>3. CommandRunOK(s)
      BY <3>2 DEF CommandRunOK
    <3> QED BY <1>1, <1>b, <2>1, <2>3, <3>1, <3>2, <3>3 DEF CommandPc
  <2> QED BY <1>0, <1>4, <1>a, <2>3 DEF CommandMaintainers, Project
<1>5. CASE FetchTeamUserEmails(d)
  <2>1. r.pc = "teamEmails" /\ r.todo = r.seen
    BY <1>0, <1>1, <1>5 DEF FetchTeamUserEmails, At, CommandRunOK
  <2>2. CASE /\ r.team \in DOMAIN teams
             /\ Continue(d, [r EXCEPT !.pc = "checkPending",
                                      !.existing = teams[r.team].members])
    <3>1. PICK s : s = [r EXCEPT !.pc = "checkPending", !.existing = teams[r.team].members]
      OBVIOUS
    <3>2. teams[r.team].members \subseteq Maintainers
      BY <2>2, SequenceTypes DEF IndInv, Team
    <3>3. /\ s \in Request /\ s.kind = r.kind /\ s.project = r.project
          /\ s.actor = r.actor /\ s.users = r.users /\ s.report = r.report
          /\ s.seen = r.seen /\ s.todo = r.todo /\ s.team = r.team
          /\ s.existing = teams[r.team].members /\ s.pc = "checkPending"
      BY <1>0, <3>1, <3>2 DEF Request, CommandPc
    <3>4. CommandRunOK(s)
      BY <2>1, <2>2, <3>3 DEF CommandRunOK
    <3> QED BY <1>1, <1>b, <2>1, <2>2, <3>1, <3>3, <3>4 DEF CommandPc
  <2> QED BY <1>0, <1>5, <1>a, <2>2 DEF FetchTeamUserEmails
<1> QED BY <1>2, <1>3, <1>4, <1>5

\* The loop of a command keeps every handler true: whoever it passes over is in
\* the team already, was mistaken for somebody else, or a call failed.
LEMMA CommandLoopTrue ==
  ASSUME IndInv, HandlersTrue, Growth, NEW d \in Deliveries,
         \/ \E m \in Maintainers : CheckPending(d, m)
         \/ AddUserToTeam(d) \/ LogAddMember(d)
  PROVE  HandlersTrue'
<1>0. PICK r \in Request :
        /\ r = req[d] /\ HandlerTrue(r) /\ HandlerOK(r) /\ r.project \in Projects
        /\ r.pc \in {"checkPending", "add", "audit"}
  BY DEF IndInv, TypeOK, HandlersTrue, HandlersOK, HandlerOK, At, CheckPending,
     AddUserToTeam, LogAddMember
<1>1. /\ r.kind = "accepted" /\ AuthorOK(r) /\ AdditionsTrue(r) /\ CommandRunOK(r)
      /\ r.users \subseteq Users
      /\ MayCommand(r.actor, r.project)
  BY <1>0 DEF HandlerTrue, AuthorOK, CommandPc
<1>2. /\ r.team \in DOMAIN teams /\ teams[r.team].name = NameOf[r.project]
      /\ r.existing \subseteq teams[r.team].members
      /\ ~r.failed => \A m \in (r.seen \ r.todo) \cap r.users : AddedOrMistaken(r, m)
      /\ r.todo \subseteq r.seen /\ r.seen \subseteq Maintainers
  BY <1>0, <1>1 DEF HandlerOK, TeamPc, CommandRunOK, Request
<1> USE PcSets
<1>p. {"checkPending", "comment", "add", "audit"} \subseteq Pc
      /\ {"added", "already", "pending", "error"} \subseteq Outcome
  BY DEF CommandPc, Outcome
\* One maintainer is dealt with.
<1>a. ASSUME NEW m \in Maintainers, NEW s \in Request, Continue(d, s),
             NEW o \in {"added", "already", "pending", "error"},
             s.kind = r.kind, s.project = r.project, s.actor = r.actor, s.users = r.users,
             s.team = r.team, s.seen = r.seen, s.todo = r.todo \ {m},
             s.existing \subseteq teams[r.team].members,
             s.pc = IF s.todo = {} THEN "comment" ELSE "checkPending",
             s.report[m] = o,
             \A n \in Maintainers : n # m => s.report[n] = r.report[n],
             ~s.failed => ~r.failed /\ o # "error",
             o \in {"added", "already"} => m \in teams[r.team].members,
             o = "pending" /\ ~s.failed => (m \in r.users => AddedOrMistaken(r, m))
      PROVE  HandlersTrue'
  <2>1. AuthorOK(s)
    BY <1>0, <1>1, <1>a DEF AuthorOK, LabelPc, CommandPc, LabelCommandPc
  <2>2. m \in teams[r.team].members => InTeam(m, r.project) /\ AddedOrMistaken(r, m)
    BY <1>2 DEF InTeam, TeamsOf, TeamsNamed, AddedOrMistaken
  <2>3. AdditionsTrue(s)
    BY <1>1, <1>a, <2>2 DEF AdditionsTrue
  <2>4. \A n : AddedOrMistaken(s, n) <=> AddedOrMistaken(r, n)
    BY <1>a DEF AddedOrMistaken
  <2>5. ~s.failed => (m \in r.users => AddedOrMistaken(r, m))
    BY <1>a, <2>2
  <2>6. ~s.failed => \A n \in (s.seen \ s.todo) \cap s.users : AddedOrMistaken(s, n)
    BY <1>2, <1>a, <2>4, <2>5
  <2>7. CommandRunOK(s)
    BY <1>2, <1>a, <2>6 DEF CommandRunOK
  <2>8. HandlerTrue(s)
    BY <1>1, <1>a, <2>1, <2>3, <2>7 DEF HandlerTrue
  <2> QED BY <1>a, <2>8, HandlerStepTrue
\* The handler goes on with the current maintainer.
<1>b. ASSUME NEW s \in Request, Continue(d, s),
             s.kind = r.kind, s.project = r.project, s.actor = r.actor, s.users = r.users,
             s.team = r.team, s.seen = r.seen, s.todo = r.todo, s.existing = r.existing,
             s.report = r.report, ~s.failed => ~r.failed, s.pc \in {"add", "audit"}
      PROVE  HandlersTrue'
  <2>1. AuthorOK(s) /\ AdditionsTrue(s)
    BY <1>0, <1>1, <1>b DEF AuthorOK, AdditionsTrue, LabelPc, CommandPc, LabelCommandPc
  <2>2. \A n : AddedOrMistaken(s, n) <=> AddedOrMistaken(r, n)
    BY <1>b DEF AddedOrMistaken
  <2>3. CommandRunOK(s)
    BY <1>2, <1>b, <2>2 DEF CommandRunOK
  <2>4. HandlerTrue(s)
    BY <1>1, <1>b, <2>1, <2>3 DEF HandlerTrue
  <2> QED BY <1>b, <2>4, HandlerStepTrue
\* The fields of the record that the loop leaves behind.
<1>c. ASSUME NEW q \in Request, NEW m \in Maintainers, NEW o \in Outcome, NEW s,
             s = Reported(q, m, o, "checkPending", "comment"),
             q.kind = r.kind, q.project = r.project, q.actor = r.actor, q.users = r.users,
             q.team = r.team, q.seen = r.seen, q.todo = r.todo, q.existing = r.existing,
             q.report = r.report
      PROVE  /\ s \in Request /\ s.kind = r.kind /\ s.project = r.project
             /\ s.actor = r.actor /\ s.users = r.users
             /\ s.team = r.team /\ s.seen = r.seen /\ s.todo = r.todo \ {m}
             /\ s.existing = r.existing
             /\ s.pc = IF s.todo = {} THEN "comment" ELSE "checkPending"
             /\ s.report[m] = o
             /\ \A n \in Maintainers : n # m => s.report[n] = r.report[n]
             /\ s.failed = (q.failed \/ o = "error")
  <2>0. "checkPending" \in Pc /\ "comment" \in Pc
    BY <1>p
  <2>1. /\ s \in Request /\ s.project = q.project /\ s.team = q.team /\ s.seen = q.seen
        /\ s.todo = q.todo \ {m}
    BY <1>c, <2>0, ReportedType, SMTT(60)
  <2>2. /\ s.pc = IF q.todo \ {m} = {} THEN "comment" ELSE "checkPending"
        /\ s.kind = q.kind /\ s.actor = q.actor /\ s.users = q.users
        /\ s.existing = q.existing
        /\ s.failed = (q.failed \/ o = "error")
        /\ s.report[m] = o
        /\ \A n \in Maintainers : n # m => s.report[n] = q.report[n]
    BY <1>c, <2>0, ReportedFields, SMTT(60)
  <2> QED BY <1>c, <2>1, <2>2
<1>3. ASSUME NEW m \in Maintainers, CheckPending(d, m) PROVE HandlersTrue'
  <2>1. PICK ok \in BOOLEAN :
          LET q == [r EXCEPT !.failed = @ \/ ~ok]
          IN  IF ok /\ HasPendingInvitation(m)
              THEN Continue(d, Reported(q, m, "pending", "checkPending", "comment"))
              ELSE IF m \in r.existing
              THEN Continue(d, Reported(q, m, "already", "checkPending", "comment"))
              ELSE Continue(d, [q EXCEPT !.pc = "add", !.cur = m])
    BY <1>0, <1>3 DEF CheckPending
  <2>2. PICK q : q = [r EXCEPT !.failed = @ \/ ~ok]
    OBVIOUS
  <2>3. /\ q \in Request
        /\ q.kind = r.kind /\ q.project = r.project /\ q.actor = r.actor
        /\ q.users = r.users /\ q.team = r.team /\ q.seen = r.seen /\ q.todo = r.todo
        /\ q.existing = r.existing /\ q.report = r.report
        /\ q.failed = (r.failed \/ ~ok)
    BY <1>0, <2>2 DEF Request
  <2>4. CASE ok /\ HasPendingInvitation(m)
    <3>1. PICK s : s = Reported(q, m, "pending", "checkPending", "comment")
      OBVIOUS
    <3>2. Continue(d, s)
      BY <2>1, <2>2, <2>4, <3>1
    <3>3. m \in r.users => AddedOrMistaken(r, m)
      BY <1>1, <2>4 DEF HasPendingInvitation, AddedOrMistaken, Users
    <3>4. /\ s \in Request /\ s.kind = r.kind /\ s.project = r.project
          /\ s.actor = r.actor /\ s.users = r.users
          /\ s.team = r.team /\ s.seen = r.seen /\ s.todo = r.todo \ {m}
          /\ s.existing = r.existing
          /\ s.pc = IF s.todo = {} THEN "comment" ELSE "checkPending"
          /\ s.report[m] = "pending"
          /\ \A n \in Maintainers : n # m => s.report[n] = r.report[n]
          /\ s.failed = (q.failed \/ "pending" = "error")
      BY <1>c, <1>p, <2>3, <3>1
    <3> QED BY <1>2, <1>a, <2>3, <3>2, <3>3, <3>4
  <2>5. CASE ~(ok /\ HasPendingInvitation(m)) /\ m \in r.existing
    <3>1. PICK s : s = Reported(q, m, "already", "checkPending", "comment")
      OBVIOUS
    <3>2. Continue(d, s)
      BY <2>1, <2>2, <2>5, <3>1
    <3>3. m \in teams[r.team].members
      BY <1>2, <2>5
    <3>4. /\ s \in Request /\ s.kind = r.kind /\ s.project = r.project
          /\ s.actor = r.actor /\ s.users = r.users
          /\ s.team = r.team /\ s.seen = r.seen /\ s.todo = r.todo \ {m}
          /\ s.existing = r.existing
          /\ s.pc = IF s.todo = {} THEN "comment" ELSE "checkPending"
          /\ s.report[m] = "already"
          /\ \A n \in Maintainers : n # m => s.report[n] = r.report[n]
          /\ s.failed = (q.failed \/ "already" = "error")
      BY <1>c, <1>p, <2>3, <3>1
    <3> QED BY <1>2, <1>a, <2>3, <3>2, <3>3, <3>4
  <2>6. CASE ~(ok /\ HasPendingInvitation(m)) /\ m \notin r.existing
    <3>1. PICK s : s = [q EXCEPT !.pc = "add", !.cur = m]
      OBVIOUS
    <3>2. Continue(d, s)
      BY <2>1, <2>2, <2>6, <3>1
    <3>3. /\ s \in Request
          /\ s.kind = q.kind /\ s.project = q.project /\ s.actor = q.actor
          /\ s.users = q.users /\ s.team = q.team /\ s.seen = q.seen /\ s.todo = q.todo
          /\ s.existing = q.existing /\ s.report = q.report /\ s.failed = q.failed
          /\ s.pc = "add"
      BY <1>p, <2>3, <3>1 DEF Request
    <3> QED BY <1>b, <2>3, <3>2, <3>3
  <2> QED BY <2>4, <2>5, <2>6
<1>4. CASE AddUserToTeam(d)
  <2>1. r.pc = "add" /\ r.cur \in Maintainers
    BY <1>0, <1>4, ConstantsAssumption DEF AddUserToTeam, At, HandlerOK, AddingPc, Request
  <2>2. CASE Continue(d, [r EXCEPT !.pc = "audit"])
    <3>1. PICK s : s = [r EXCEPT !.pc = "audit"]
      OBVIOUS
    <3>2. /\ s \in Request
          /\ s.kind = r.kind /\ s.project = r.project /\ s.actor = r.actor
          /\ s.users = r.users /\ s.team = r.team /\ s.seen = r.seen /\ s.todo = r.todo
          /\ s.existing = r.existing /\ s.report = r.report /\ s.failed = r.failed
          /\ s.pc = "audit"
      BY <1>0, <1>p, <3>1 DEF Request
    <3> QED BY <1>b, <2>2, <3>1, <3>2
  <2>3. ASSUME NEW o \in {"already", "error"},
               o = "already" => r.cur \in teams[r.team].members,
               Continue(d, Reported(r, r.cur, o, "checkPending", "comment"))
        PROVE  HandlersTrue'
    <3>1. PICK s, m : s = Reported(r, m, o, "checkPending", "comment") /\ m = r.cur
      OBVIOUS
    <3>2. Continue(d, s) /\ m \in Maintainers /\ o \in Outcome
      BY <1>p, <2>1, <2>3, <3>1
    <3>3. /\ s \in Request /\ s.kind = r.kind /\ s.project = r.project
          /\ s.actor = r.actor /\ s.users = r.users
          /\ s.team = r.team /\ s.seen = r.seen /\ s.todo = r.todo \ {m}
          /\ s.existing = r.existing
          /\ s.pc = IF s.todo = {} THEN "comment" ELSE "checkPending"
          /\ s.report[m] = o
          /\ \A n \in Maintainers : n # m => s.report[n] = r.report[n]
          /\ s.failed = (r.failed \/ o = "error")
      BY <1>0, <1>c, <3>1, <3>2
    <3>4. /\ o \in {"added", "already", "pending", "error"}
          /\ s.existing \subseteq teams[r.team].members
          /\ ~s.failed => ~r.failed /\ o # "error"
          /\ o \in {"added", "already"} => m \in teams[r.team].members
          /\ o # "pending"
      BY <1>2, <2>3, <3>1, <3>3
    <3> QED BY <1>a, <3>2, <3>3, <3>4
  <2> QED BY <1>0, <1>4, <2>2, <2>3 DEF AddUserToTeam
<1>5. CASE LogAddMember(d)
  <2>1. r.pc = "audit" /\ r.cur \in Maintainers
    BY <1>0, <1>5, ConstantsAssumption DEF LogAddMember, At, HandlerOK, AddingPc, Request
  <2>2. r.cur \in teams[r.team].members
    BY <1>0, <2>1 DEF IndInv, HandlerAuditsItsOwn, At
  <2>3. PICK q, m : q = Reported(r, m, "added", "checkPending", "comment") /\ m = r.cur
    OBVIOUS
  <2>4. PICK s : s = [q EXCEPT !.existing = @ \cup {m}]
    OBVIOUS
  <2>5. Continue(d, s) /\ m \in Maintainers /\ "added" \in Outcome
    BY <1>0, <1>5, <1>p, <2>1, <2>3, <2>4 DEF LogAddMember
  <2>6. /\ q \in Request /\ q.kind = r.kind /\ q.project = r.project
        /\ q.actor = r.actor /\ q.users = r.users
        /\ q.team = r.team /\ q.seen = r.seen /\ q.todo = r.todo \ {m}
        /\ q.existing = r.existing
        /\ q.pc = IF q.todo = {} THEN "comment" ELSE "checkPending"
        /\ q.report[m] = "added"
        /\ \A n \in Maintainers : n # m => q.report[n] = r.report[n]
        /\ q.failed = (r.failed \/ "added" = "error")
    BY <1>0, <1>c, <2>3, <2>5
  <2>7. /\ s \in Request /\ s.kind = q.kind /\ s.project = q.project
        /\ s.actor = q.actor /\ s.users = q.users /\ s.pc = q.pc
        /\ s.team = q.team /\ s.seen = q.seen /\ s.todo = q.todo
        /\ s.existing = q.existing \cup {m} /\ s.report = q.report /\ s.failed = q.failed
    BY <2>4, <2>5, <2>6 DEF Request
  <2>8. /\ s.kind = r.kind /\ s.project = r.project
        /\ s.actor = r.actor /\ s.users = r.users
        /\ s.team = r.team /\ s.seen = r.seen /\ s.todo = r.todo \ {m}
        /\ s.existing \subseteq teams[r.team].members
        /\ s.pc = IF s.todo = {} THEN "comment" ELSE "checkPending"
        /\ s.report[m] = "added"
        /\ \A n \in Maintainers : n # m => s.report[n] = r.report[n]
        /\ m \in teams[r.team].members
    BY <1>2, <2>2, <2>3, <2>6, <2>7
  <2>9. ~s.failed => ~r.failed
    BY <2>6, <2>7
  <2> QED BY <1>a, <2>5, <2>7, <2>8, <2>9
<1> QED BY <1>3, <1>4, <1>5

\* The label command, the comment and a new delivery keep every handler true.
LEMMA OtherStepsTrue ==
  ASSUME IndInv, HandlersTrue, Growth, NEW d \in Deliveries,
         \/ AuthorizeLabel(d) \/ AddLabel(d) \/ Comment(d)
         \/ \E n \in Names : Deliver(d, n)
  PROVE  HandlersTrue'
<1>0. PICK r \in Request : r = req[d] /\ HandlerTrue(r) /\ HandlerOK(r)
  BY DEF IndInv, TypeOK, HandlersTrue, HandlersOK
<1>i. /\ Idle \in Request /\ HandlerTrue(Idle) /\ Idle.seen = {} /\ Idle.todo = {}
      /\ ~Idle.unstored /\ \A m \in Maintainers : Idle.report[m] = "none"
      /\ Idle.users = {}
  BY IdleType, IdleTrue DEF Idle
<1> USE PcSets
<1>1. CASE Comment(d)
  BY <1>1, <1>i, HandlerStepTrue DEF Comment
<1>2. ASSUME r.pc \in LabelCommandPc, NEW s \in Request, Continue(d, s),
             s.kind = r.kind, s.project = r.project, s.users = r.users,
             s.report = r.report, s.pc \in {"addLabel", "comment"}
      PROVE  HandlersTrue'
  <2>1. HandlerTrue(s)
    BY <1>0, <1>2 DEF HandlerTrue, AuthorOK, AdditionsTrue, LabelPc, CommandPc, LabelCommandPc
  <2> QED BY <1>2, <2>1, HandlerStepTrue
<1>3. CASE AuthorizeLabel(d)
  <2>1. r.pc \in LabelCommandPc
    BY <1>0, <1>3 DEF AuthorizeLabel, At, LabelCommandPc
  <2>2. ASSUME NEW b \in BOOLEAN, NEW s, Continue(d, s),
               \/ s = [r EXCEPT !.pc = "addLabel"]
               \/ s = [r EXCEPT !.pc = "comment", !.end = "denied", !.failed = b]
        PROVE  HandlersTrue'
    <3>1. /\ s \in Request /\ s.kind = r.kind /\ s.project = r.project
          /\ s.users = r.users /\ s.report = r.report /\ s.pc \in {"addLabel", "comment"}
      BY <1>0, <2>2 DEF Request, LabelCommandPc, End
    <3> QED BY <1>2, <2>1, <2>2, <3>1
  <2> DEFINE b == r.actor \in registered[r.project] \cup Staff
  <2>3. b \in BOOLEAN
    OBVIOUS
  <2>4. \/ Continue(d, [r EXCEPT !.pc = "addLabel"])
        \/ Continue(d, [r EXCEPT !.pc = "comment", !.end = "denied", !.failed = b])
    BY <1>0, <1>3 DEF AuthorizeLabel, Project
  <2> HIDE DEF b
  <2> QED BY <2>2, <2>3, <2>4
<1>4. CASE AddLabel(d)
  <2>1. r.pc \in LabelCommandPc
    BY <1>0, <1>4 DEF AddLabel, At, LabelCommandPc
  <2>2. PICK s : s = [r EXCEPT !.pc = "comment"]
    OBVIOUS
  <2>3. /\ s \in Request /\ s.kind = r.kind /\ s.project = r.project
        /\ s.users = r.users /\ s.report = r.report /\ s.pc = "comment"
    BY <1>0, <2>2 DEF Request
  <2> QED BY <1>0, <1>2, <1>4, <2>1, <2>2, <2>3 DEF AddLabel
<1>5. ASSUME NEW n \in Names, Deliver(d, n) PROVE HandlersTrue'
  <2>0. \A p \in Known(n) : p \in Projects
    BY DEF Known, IndInv, TypeOK
  <2>1. CASE DeliverLabeled(d, n)
    <3>1. ASSUME NEW p \in Known(n),
                 Continue(d, [Idle EXCEPT !.kind = "labeled", !.project = p,
                                          !.pc = "maintainers"])
          PROVE  HandlersTrue'
      <4>1. PICK s : s = [Idle EXCEPT !.kind = "labeled", !.project = p, !.pc = "maintainers"]
        OBVIOUS
      <4>2. /\ s \in Request /\ s.kind = "labeled" /\ s.project = p /\ s.seen = {}
            /\ s.todo = {} /\ s.users = {} /\ s.report = Idle.report
            /\ s.unstored = Idle.unstored /\ s.pc = "maintainers"
        BY <1>i, <2>0, <4>1 DEF Request, LabelPc, Kind
      <4>3. HandlerTrue(s)
        BY <1>i, <2>0, <4>2 DEF HandlerTrue, AuthorOK, AdditionsTrue, LabelRunOK, LabelPc,
           CommandPc, LabelCommandPc, StoredPc
      <4> QED BY <3>1, <4>1, <4>2, <4>3, HandlerStepTrue
    <3>2. ASSUME Continue(d, [Idle EXCEPT !.kind = "labeled", !.pc = "comment",
                                          !.failed = TRUE])
          PROVE  HandlersTrue'
      <4>1. PICK s : s = [Idle EXCEPT !.kind = "labeled", !.pc = "comment", !.failed = TRUE]
        OBVIOUS
      <4>2. /\ s \in Request /\ s.kind = "labeled" /\ s.users = {}
            /\ s.report = Idle.report /\ s.pc = "comment" /\ s.failed
        BY <1>i, <4>1 DEF Request, Kind
      <4>3. HandlerTrue(s)
        BY <1>i, <4>2 DEF HandlerTrue, AuthorOK, AdditionsTrue, LabelRunOK, LabelPc, CommandPc,
           LabelCommandPc, StoredPc
      <4> QED BY <3>2, <4>1, <4>2, <4>3, HandlerStepTrue
    <3> QED BY <2>1, <3>1, <3>2 DEF DeliverLabeled
  <2>2. ASSUME NEW a \in Actors, DeliverAccepted(d, n, a) PROVE HandlersTrue'
    <3>0. PICK u : u = Users
      OBVIOUS
    <3>p. PICK p \in Known(n) :
            Continue(d, [Idle EXCEPT !.kind = "accepted", !.project = p, !.actor = a,
                                     !.pc = "authorize", !.users = u])
      BY <2>2, <3>0 DEF DeliverAccepted
    <3>1. PICK s : s = [Idle EXCEPT !.kind = "accepted", !.project = p, !.actor = a,
                                    !.pc = "authorize", !.users = u]
      OBVIOUS
    <3>2. /\ s \in Request /\ s.kind = "accepted" /\ s.project = p /\ s.seen = {}
          /\ s.users = u /\ s.report = Idle.report /\ s.pc = "authorize"
      BY <1>i, <2>0, <3>0, <3>1 DEF Request, CommandPc, Kind, Users
    <3>3. HandlerTrue(s)
      BY <1>i, <2>0, <3>0, <3>2 DEF HandlerTrue, AuthorOK, AdditionsTrue, CommandRunOK,
         LabelPc, CommandPc, LabelCommandPc
    <3> QED BY <3>p, <3>1, <3>2, <3>3, HandlerStepTrue
  <2>3. ASSUME NEW a \in Actors, DeliverLabelCommand(d, n, a) PROVE HandlersTrue'
    <3>1. ASSUME NEW s \in Request, Continue(d, s), s.kind = "label", s.users = {},
                 s.report = Idle.report,
                 \/ s.pc = "comment"
                 \/ s.pc = "labelAuth" /\ s.project \in Projects
          PROVE  HandlersTrue'
      <4>1. HandlerTrue(s)
        BY <1>i, <3>1 DEF HandlerTrue, AuthorOK, AdditionsTrue, LabelPc, CommandPc,
           LabelCommandPc
      <4> QED BY <3>1, <4>1, HandlerStepTrue
    <3>2. ASSUME NEW p \in Known(n),
                 Continue(d, [Idle EXCEPT !.kind = "label", !.project = p, !.actor = a,
                                          !.pc = "labelAuth"])
          PROVE  HandlersTrue'
      <4>1. PICK s : s = [Idle EXCEPT !.kind = "label", !.project = p, !.actor = a,
                                      !.pc = "labelAuth"]
        OBVIOUS
      <4>2. /\ s \in Request /\ s.kind = "label" /\ s.users = {} /\ s.report = Idle.report
            /\ s.pc = "labelAuth" /\ s.project \in Projects
        BY <1>i, <2>0, <4>1 DEF Request, LabelCommandPc, Kind
      <4> QED BY <3>1, <3>2, <4>1, <4>2
    <3>3. ASSUME Continue(d, [Idle EXCEPT !.kind = "label", !.actor = a, !.pc = "comment"])
          PROVE  HandlersTrue'
      <4>1. PICK s : s = [Idle EXCEPT !.kind = "label", !.actor = a, !.pc = "comment"]
        OBVIOUS
      <4>2. /\ s \in Request /\ s.kind = "label" /\ s.users = {} /\ s.report = Idle.report
            /\ s.pc = "comment"
        BY <1>i, <4>1 DEF Request, Kind
      <4> QED BY <3>1, <3>3, <4>1, <4>2
    <3> QED BY <2>3, <3>2, <3>3 DEF DeliverLabelCommand
  <2> QED BY <1>5, <2>1, <2>2, <2>3 DEF Deliver
<1> QED BY <1>1, <1>3, <1>4, <1>5

\* Every step keeps every handler true.
LEMMA NextTrue ==
  ASSUME IndInv, IndInv', HandlersTrue, [Next]_vars
  PROVE  HandlersTrue'
<1>0. Growth
  BY NextGrows
<1>1. ASSUME NEW d \in Deliveries, Step(d) PROVE HandlersTrue'
  BY <1>0, <1>1, LabelStartTrue, LabelLoopTrue, CommandStartTrue, CommandLoopTrue,
     OtherStepsTrue DEF Step, LabelStep, CommandStep
<1>2. ASSUME NEW d \in Deliveries, NEW n \in Names, Deliver(d, n) PROVE HandlersTrue'
  BY <1>0, <1>2, OtherStepsTrue
<1>3. CASE UNCHANGED req
  <2> SUFFICES ASSUME NEW e \in Deliveries PROVE HandlerTrue(req[e])'
    BY DEF HandlersTrue
  <2>1. PICK r \in Request : r = req[e] /\ HandlerTrue(r)
    BY DEF IndInv, TypeOK, HandlersTrue
  <2>2. HandlerTrue(r)' /\ req'[e] = r
    BY <1>0, <1>3, <2>1, TrueStays
  <2> QED BY <2>2 DEF HandlerTrue, AuthorOK, AdditionsTrue, LabelRunOK, CommandRunOK,
     MayCommand, AddedOrMistaken, InTeam, TeamsOf, TeamsNamed, Users, RowsOf
<1>4. CASE Restart
  <2> SUFFICES ASSUME NEW e \in Deliveries PROVE HandlerTrue(req[e])'
    BY DEF HandlersTrue
  <2>1. PICK r \in Request : r = Idle /\ HandlerTrue(r)
    BY IdleType, IdleTrue
  <2>2. HandlerTrue(r)' /\ req'[e] = r
    BY <1>0, <1>4, <2>1, TrueStays DEF Restart
  <2> QED BY <2>2 DEF HandlerTrue, AuthorOK, AdditionsTrue, LabelRunOK, CommandRunOK,
     MayCommand, AddedOrMistaken, InTeam, TeamsOf, TeamsNamed, Users, RowsOf
<1>5. Environment => Restart \/ UNCHANGED req
  BY DEF Environment, CreateProject, CreateTeamByHand, LabelByHand, RegisterMaintainer,
     ImportServiceTeam, AcceptInvitation, ExpireInvitation
<1>6. UNCHANGED vars => UNCHANGED req
  BY DEF vars
<1> QED BY <1>1, <1>2, <1>3, <1>4, <1>5, <1>6 DEF Next

\* Every handler keeps its word, whatever the others do meanwhile.
THEOREM HandlersKeepTheirWord == Spec => [](IndInv /\ HandlersTrue)
<1>1. Init => IndInv /\ HandlersTrue
  <2>1. Init => HandlersTrue
    BY IdleTrue DEF Init, HandlersTrue
  <2> QED BY <2>1, InitInv
<1>2. (IndInv /\ HandlersTrue) /\ [Next]_vars => (IndInv /\ HandlersTrue)'
  BY NextInv, NextTrue
<1> QED BY <1>1, <1>2, PTL DEF Spec

\* A command does what its comment says it did: accepted maintainers are in the
\* team after "/fossa-invite accepted" unless a call failed or an address was
\* mistaken for another, and a comment names only members as added.
THEOREM CommandSafety == Spec => []CommandsAreHonoured
<1>1. IndInv /\ HandlersTrue => AcceptedAreAdded
  BY DEF HandlersTrue, HandlerTrue, CommandRunOK, AddedOrMistaken, AcceptedAreAdded, At
<1>2. IndInv /\ HandlersTrue => ReportIsTrue
  BY DEF HandlersTrue, HandlerTrue, AdditionsTrue, LabelRunOK, InTeam, ReportIsTrue, At, Project
<1>3. IndInv /\ HandlersTrue => CommandsAreHonoured
  BY <1>1, <1>2 DEF CommandsAreHonoured
<1> QED BY <1>3, HandlersKeepTheirWord, PTL

\* A step that changes the members of a team is the addition of one handler that
\* works for a project of the team's name, with the authority of its author.
LEMMA MembersStep ==
  ASSUME IndInv, HandlersTrue, [Next]_vars, NEW t \in DOMAIN teams,
         teams'[t].members # teams[t].members
  PROVE  \E d \in Deliveries :
           /\ req[d] # req'[d]
           /\ NameOf[Project(d)] = teams[t].name
           /\ req[d].kind = "accepted" => MayCommand(req[d].actor, Project(d))
<1>0. TypeOK /\ \A d \in Deliveries : req[d] \in Request /\ HandlerOK(req[d])
                                      /\ HandlerTrue(req[d])
  BY DEF IndInv, TypeOK, HandlersOK, HandlersTrue
<1>1. ASSUME NEW n \in Names, teams' = Append(teams, [name |-> n, members |-> {}])
      PROVE  FALSE
  <2>1. [name |-> n, members |-> {}] \in Team
    BY DEF Team
  <2>2. teams'[t] = teams[t]
    BY <1>0, <1>1, <2>1 DEF TypeOK
  <2> QED BY <2>2
<1>2. teams' # teams
  OBVIOUS
<1>3. ~Environment
  <2>1. Environment => UNCHANGED teams \/ \E n \in Names : CreateTeamByHand(n)
    BY DEF Environment, Restart, CreateProject, LabelByHand, RegisterMaintainer,
       ImportServiceTeam, AcceptInvitation, ExpireInvitation, tables
  <2> QED BY <1>1, <1>2, <2>1 DEF CreateTeamByHand
<1>4. PICK d \in Deliveries : Step(d) \/ \E n \in Names : Deliver(d, n)
  BY <1>2, <1>3 DEF Next, vars
<1>5. ~CreateTeam(d)
  <2>1. CreateTeam(d) => NameOf[req[d].project] \in Names
    BY <1>0, ConstantsAssumption DEF CreateTeam, At, HandlerOK
  <2> QED BY <1>1, <1>2, <2>1 DEF CreateTeam, Project
<1>6. AddInvitedUser(d) \/ AddUserToTeam(d)
  BY <1>2, <1>4, <1>5
  DEF Step, LabelStep, CommandStep, Deliver, DeliverLabeled, DeliverAccepted,
      DeliverLabelCommand, ReadMaintainers, LookUpTeam, FindServiceTeam, InsertServiceTeam,
      Invite, RereadTeamMap, Recover, Authorize, CommandTeamMap, CommandMaintainers,
      FetchTeamUserEmails, CheckPending, LogAddMember, AuthorizeLabel, AddLabel, Comment
<1>7. PICK r \in Request : r = req[d] /\ HandlerOK(r) /\ HandlerTrue(r)
  BY <1>0
<1>8. /\ r.pc \in {"addInvited", "add"} /\ r.cur \in Maintainers
      /\ teams[r.team].name = NameOf[r.project]
  BY <1>6, <1>7, ConstantsAssumption
  DEF AddInvitedUser, AddUserToTeam, At, HandlerOK, AddingPc, TeamPc, Request
<1>9. Addable(d) /\ Join(d) /\ UNCHANGED <<tables, account>>
  BY <1>2, <1>6 DEF AddInvitedUser, AddUserToTeam
<1>10. t = r.team
  BY <1>0, <1>7, <1>8, <1>9, JoinGrowth
<1>11. r.pc = "addInvited" => r.kind = "labeled"
  BY <1>7 DEF HandlerTrue, AuthorOK, LabelPc
<1>12. r.pc = "add" => MayCommand(r.actor, r.project)
  BY <1>7 DEF HandlerTrue, AuthorOK, CommandPc
<1>13. req'[d] # r
  <2>1. PICK s : Continue(d, s) /\
             \/ \E o \in {"added", "error"} : s = Reported(r, r.cur, o, "invite", "reread")
             \/ \E o \in {"already", "error"} :
                  s = Reported(r, r.cur, o, "checkPending", "comment")
             \/ s = [r EXCEPT !.pc = "audit"]
    BY <1>6, <1>7 DEF AddInvitedUser, AddUserToTeam
  <2>2. s.pc \in {"invite", "reread", "checkPending", "comment", "audit"}
    <3>1. /\ {"invite", "reread", "checkPending", "comment"} \subseteq Pc
          /\ {"added", "error", "already"} \subseteq Outcome
      BY PcSets DEF LabelPc, CommandPc, Outcome
    <3> QED BY <1>7, <2>1 DEF Reported, Request
  <2>3. req'[d] = s
    BY <1>0, <2>1 DEF Continue, TypeOK
  <2> QED BY <1>8, <2>2, <2>3
<1> QED BY <1>7, <1>8, <1>10, <1>11, <1>12, <1>13 DEF Project

\* Nobody gets into a team but through a handler that works for its project and
\* whose author may command it.
THEOREM AuthoritySafety == Spec => MembersOnlyByAuthority
<1>1. IndInv /\ HandlersTrue /\ [Next]_vars =>
        [\A t \in DOMAIN teams : teams'[t].members # teams[t].members =>
           \E d \in Deliveries :
             /\ req[d] # req'[d]
             /\ NameOf[Project(d)] = teams[t].name
             /\ req[d].kind = "accepted" => MayCommand(req[d].actor, Project(d))]_vars
  BY MembersStep
<1> QED BY <1>1, HandlersKeepTheirWord, PTL DEF Spec, MembersOnlyByAuthority
=============================================================================
