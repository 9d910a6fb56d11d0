--------------------------- MODULE BootstrapProofs ---------------------------
(***************************************************************************)
(* Theorems about Bootstrap, for any spreadsheets and FOSSA users, and any *)
(* number of runs, failures and edits.                                     *)
(***************************************************************************)
EXTENDS Bootstrap, SequenceTheorems, WellFoundedInduction, TLAPS

\* Rows of the worksheets, and the rows of Active that are read from them.
ActiveSheetRow == [project : Projects \cup {Blank}, status : STRING,
                   parent : Projects \cup {Blank}, company : Companies \cup {Blank},
                   email : Emails \cup {Blank}]
ActiveRow == [project : Projects \cup {Blank}, status : STRING \cup {Blank},
              parent : Projects \cup {Blank}, company : Companies \cup {Blank},
              email : Emails \cup {Blank}]
StaffSheetRow == [foundation : Foundations \cup {Blank}, name : STRING,
                  email : Emails \cup {Blank}]
-----------------------------------------------------------------------------
\* Min and Max of the library are what they should be.
LEMMA LeastNatural ==
  ASSUME NEW T \in SUBSET Nat, T # {}
  PROVE  Min(T) \in T /\ \A y \in T : Min(T) <= y
<1>1. \E x \in T : \A y \in T : ~(<<y, x>> \in OpToRel(<, Nat))
  BY NatLessThanWellFounded, WFMin
<1>2. \A x, y \in Nat : x < y => <<x, y>> \in OpToRel(<, Nat)
  BY DEF OpToRel
<1>3. PICK x \in T : \A y \in T : ~(<<y, x>> \in OpToRel(<, Nat))
  BY <1>1
<1>4. \A y \in T : ~(y < x)
  BY <1>2, <1>3
<1>5. \A y \in T : x <= y
  BY <1>4
<1> QED BY <1>5 DEF Min

LEMMA GreatestNatural ==
  ASSUME NEW n \in Nat, NEW T \in SUBSET (0..n), T # {}
  PROVE  Max(T) \in T /\ \A y \in T : y <= Max(T)
<1> DEFINE D == {k \in Nat : n - k \in T}
<1>1. D \in SUBSET Nat /\ D # {}
  <2>1. PICK t \in T : TRUE
    OBVIOUS
  <2>2. n - t \in Nat /\ n - (n - t) = t
    OBVIOUS
  <2> QED BY <2>2
<1> HIDE DEF D
<1>2. Min(D) \in D /\ \A y \in D : Min(D) <= y
  BY <1>1, LeastNatural
<1>3. n - Min(D) \in T /\ Min(D) \in Nat
  BY <1>2 DEF D
<1>4. ASSUME NEW y \in T PROVE n - Min(D) >= y
  <2>1. n - y \in D
    <3>1. n - y \in Nat /\ n - (n - y) = y
      OBVIOUS
    <3> QED BY <3>1 DEF D
  <2> QED BY <1>2, <1>3, <2>1
<1>5. \E x \in T : \A y \in T : x >= y
  BY <1>3, <1>4
<1> QED BY <1>5 DEF Max

\* A carried cell is one of those at or above it.
LEMMA CarriedFrom ==
  ASSUME NEW S, NEW rows \in Seq(S), NEW i \in DOMAIN rows, NEW h
  PROVE  \/ Carried(rows, i, h) = Blank /\ \A k \in 1..i : rows[k][h] = Blank
         \/ \E k \in 1..i : /\ k \in DOMAIN rows /\ Carried(rows, i, h) = rows[k][h]
                            /\ rows[k][h] # Blank
                            /\ \A j \in (k + 1)..i : rows[j][h] = Blank
<1> DEFINE named == {k \in 1..i : rows[k][h] # Blank}
<1>1. CASE named = {}
  BY <1>1 DEF Carried
<1>2. CASE named # {}
  <2>1. i \in Nat /\ named \in SUBSET (0..i) /\ DOMAIN rows = 1..Len(rows) /\ Len(rows) \in Nat
    OBVIOUS
  <2>2. Max(named) \in named /\ \A y \in named : y <= Max(named)
    BY <1>2, <2>1, GreatestNatural
  <2>3. Carried(rows, i, h) = rows[Max(named)][h]
    BY <1>2 DEF Carried
  <2>4. PICK k \in named : Carried(rows, i, h) = rows[k][h] /\ \A y \in named : y <= k
    BY <2>2, <2>3
  <2>5. \A j \in (k + 1)..i : rows[j][h] = Blank
    BY <2>1, <2>4
  <2>6. k \in DOMAIN rows
    BY <2>1
  <2> QED BY <2>4, <2>5, <2>6
<1> QED BY <1>1, <1>2

\* The rows read are rows of the worksheets.
LEMMA ActiveRowsTyped ==
  ASSUME NEW s \in Sheets
  PROVE  /\ DOMAIN ActiveRows(s) \subseteq DOMAIN s.active /\ DOMAIN s.active \subseteq Nat \ {0}
         /\ \A i \in DOMAIN ActiveRows(s) : ActiveRows(s)[i] \in ActiveRow
<1>1. s.active \in Seq(ActiveSheetRow)
  BY SheetAssumption DEF ActiveSheetRow
<1>2. DOMAIN ActiveRows(s) \subseteq DOMAIN s.active /\ DOMAIN s.active \subseteq Nat \ {0}
  BY <1>1 DEF ActiveRows, ReadRows
<1>3. ASSUME NEW i \in DOMAIN ActiveRows(s) PROVE ActiveRows(s)[i] \in ActiveRow
  <2>1. i \in DOMAIN s.active /\ s.active[i] \in ActiveSheetRow
    BY <1>1, <1>2
  <2>2. ActiveRows(s)[i] = [h \in DOMAIN s.active[i] |->
            IF h \in {"project", "status"} THEN Carried(s.active, i, h) ELSE s.active[i][h]]
    BY DEF ActiveRows, ReadRows
  <2>3. DOMAIN s.active[i] = {"project", "status", "parent", "company", "email"}
    BY <2>1 DEF ActiveSheetRow
  <2>a. ASSUME NEW h
        PROVE  \/ Carried(s.active, i, h) = Blank
               \/ \E k \in DOMAIN s.active : Carried(s.active, i, h) = s.active[k][h]
    <3>1. i \in DOMAIN s.active
      BY <2>1
    <3> QED BY <1>1, <3>1, CarriedFrom
  <2>b. \A k \in DOMAIN s.active : s.active[k] \in ActiveSheetRow
    BY <1>1
  <2>4. Carried(s.active, i, "project") \in Projects \cup {Blank}
    BY <2>a, <2>b DEF ActiveSheetRow
  <2>5. Carried(s.active, i, "status") \in STRING \cup {Blank}
    BY <2>a, <2>b DEF ActiveSheetRow
  <2> QED BY <2>1, <2>2, <2>3, <2>4, <2>5 DEF ActiveSheetRow, ActiveRow
<1> QED BY <1>2, <1>3

LEMMA StaffRowsTyped ==
  ASSUME NEW s \in Sheets
  PROVE  /\ DOMAIN StaffRows(s) \subseteq DOMAIN s.staff /\ DOMAIN s.staff \subseteq Nat \ {0}
         /\ \A i \in DOMAIN StaffRows(s) : StaffRows(s)[i] \in StaffSheetRow
<1>1. s.staff \in Seq(StaffSheetRow)
  BY SheetAssumption DEF StaffSheetRow
<1>2. DOMAIN StaffRows(s) \subseteq DOMAIN s.staff /\ DOMAIN s.staff \subseteq Nat \ {0}
  BY <1>1 DEF StaffRows, ReadRows
<1>3. ASSUME NEW i \in DOMAIN StaffRows(s) PROVE StaffRows(s)[i] \in StaffSheetRow
  <2>1. i \in DOMAIN s.staff /\ s.staff[i] \in StaffSheetRow
    BY <1>1, <1>2
  <2>2. StaffRows(s)[i] = [h \in DOMAIN s.staff[i] |->
            IF h \in {"foundation"} THEN Carried(s.staff, i, h) ELSE s.staff[i][h]]
    BY DEF StaffRows, ReadRows
  <2>3. DOMAIN s.staff[i] = {"foundation", "name", "email"}
    BY <2>1 DEF StaffSheetRow
  <2>a. \/ Carried(s.staff, i, "foundation") = Blank
        \/ \E k \in DOMAIN s.staff : Carried(s.staff, i, "foundation") = s.staff[k]["foundation"]
    <3>1. i \in DOMAIN s.staff
      BY <2>1
    <3> QED BY <1>1, <3>1, CarriedFrom
  <2>b. \A k \in DOMAIN s.staff : s.staff[k] \in StaffSheetRow
    BY <1>1
  <2>4. Carried(s.staff, i, "foundation") \in Foundations \cup {Blank}
    BY <2>a, <2>b DEF StaffSheetRow
  <2> QED BY <2>1, <2>2, <2>3, <2>4 DEF StaffSheetRow
<1> QED BY <1>2, <1>3
-----------------------------------------------------------------------------
\* The run is where its step says: in a worksheet that was read, at a row that
\* names a project, at a FOSSA user, at one of the user's teams.
JobOK ==
  /\ job = [pc |-> job.pc, at |-> job.at, parent |-> job.parent, team |-> job.team,
            owner |-> job.owner, rows |-> job.rows]
  /\ job.at \in Nat /\ job.parent \in DOMAIN projects \cup {Blank} /\ job.team \in Nat
  /\ job.owner \in {Blank, "maintainer", "collaborator"}
  /\ job.pc \in {"parent", "row"} => \E s \in Sheets : job.rows = ActiveRows(s)
  /\ job.pc = "staff" => \E s \in Sheets : job.rows = StaffRows(s)
  /\ job.pc = "row" => MoreRows /\ Row.project # Blank
  /\ job.pc = "user" => job.at # 0
  /\ job.pc \in {"teams", "link"} => job.at \in DOMAIN FossaUsers /\ User.email \in serviceUsers
  /\ job.pc = "link" => job.team \in 1..Len(User.teams)

CountersOK ==
  /\ sheet \in Sheets
  /\ runs \in 0..MaxRuns /\ faults \in 0..MaxFaults /\ edits \in 0..MaxEdits

\* A parent is a project, and no project is its own ancestor.
ParentsOK ==
  /\ \A p \in DOMAIN projects : projects[p].parent \in DOMAIN projects \cup {Blank}
  /\ ParentsFormAForest

\* Who was given a company has one.
GivenOK ==
  DOMAIN decided \subseteq DOMAIN maintainers /\ \A i \in DOMAIN decided : decided[i] \in Companies

\* While no row came in since an addition found nobody, there is nobody to be
\* found but by an email that was set meanwhile.
NobodyYet ==
  web # NoAddition /\ web.found = 0 /\ web.rows = Len(maintainers) /\ web.ask.email # Missing =>
    \A i \in DOMAIN maintainers : maintainers[i].email = web.ask.email => i \in doubtful

DecidedOK == PeopleStand /\ GivenOK /\ NobodyYet

\* The part of TypeOK about the addition in service.
WebType ==
  web = NoAddition \/
    web \in [ask : {a \in Additions : a.project \in DOMAIN projects},
             found : 0..Len(maintainers), rows : 0..Len(maintainers)]

\* The inductive invariant.
IndInv == TypeOK /\ JobOK /\ ParentsOK /\ DecidedOK

\* The row at hand.
LEMMA RowTyped ==
  ASSUME JobOK, MoreRows, job.pc \in {"parent", "row", "staff"}
  PROVE  /\ Min(RowsLeft) \in Nat /\ Min(RowsLeft) \in DOMAIN job.rows
         /\ Min(RowsLeft) >= job.at /\ \A i \in RowsLeft : Min(RowsLeft) <= i
         /\ job.pc \in {"parent", "row"} => Row \in ActiveRow
         /\ job.pc = "staff" => Row \in StaffSheetRow
<1>1. /\ DOMAIN job.rows \subseteq Nat
      /\ job.pc \in {"parent", "row"} => \A i \in DOMAIN job.rows : job.rows[i] \in ActiveRow
      /\ job.pc = "staff" => \A i \in DOMAIN job.rows : job.rows[i] \in StaffSheetRow
  <2>1. CASE job.pc \in {"parent", "row"}
    <3>1. PICK s \in Sheets : job.rows = ActiveRows(s)
      BY <2>1 DEF JobOK
    <3> QED BY <2>1, <3>1, ActiveRowsTyped
  <2>2. CASE job.pc = "staff"
    <3>1. PICK s \in Sheets : job.rows = StaffRows(s)
      BY <2>2 DEF JobOK
    <3> QED BY <2>2, <3>1, StaffRowsTyped
  <2> QED BY <2>1, <2>2
<1>2. RowsLeft \in SUBSET Nat /\ RowsLeft # {}
  BY <1>1 DEF RowsLeft, MoreRows
<1>3. Min(RowsLeft) \in RowsLeft /\ \A i \in RowsLeft : Min(RowsLeft) <= i
  BY <1>2, LeastNatural
<1>4. Min(RowsLeft) \in DOMAIN job.rows /\ Min(RowsLeft) >= job.at
  BY <1>3 DEF RowsLeft
<1> QED BY <1>1, <1>3, <1>4 DEF Row

\* Every step keeps the bounds.
LEMMA CountersStep ==
  ASSUME CountersOK, [Next]_vars
  PROVE  CountersOK'
<1> USE BoundsAssumption
<1>1. Fault \/ NoFault => faults' \in 0..MaxFaults
  BY DEF CountersOK, Fault, NoFault
<1>2. CASE Kept /\ (Fault \/ NoFault)
  BY <1>1, <1>2 DEF CountersOK, Kept
<1>3. CASE Start
  BY <1>3 DEF CountersOK, Start
<1>4. CASE Finish
  BY <1>4 DEF CountersOK, Finish, Kept
<1>5. CASE Edit /\ sheet' \in Sheets /\ UNCHANGED <<runs, faults>>
  BY <1>5 DEF CountersOK, Edit
<1>6. CASE UNCHANGED vars
  BY <1>6 DEF CountersOK, vars
<1>7. Import => Start \/ Finish \/ (Kept /\ (Fault \/ NoFault))
  BY DEF Import, ReadActive, LookupParent, SkipRow, ImportRow, RowFails, ReadStaff,
     StaffRow, FetchFossaData, FossaUser, CreateServiceTeamsForUser, LinkTeam, Leave
<1>8. Abort => Kept /\ (Fault \/ NoFault)
  BY DEF Abort
<1>9. \/ EditSheet \/ EditMaintainer \/ EditEmail \/ MergeCompanies \/ CreateProject
      \/ AddCommit \/ AddWithinRow
      => Edit /\ sheet' \in Sheets /\ UNCHANGED <<runs, faults>>
  BY DEF EditSheet, EditMaintainer, EditEmail, MergeCompanies, CreateProject, AddCommit, AddWithinRow,
     CountersOK
<1>10. CASE AddLook
  BY <1>10 DEF CountersOK, AddLook
<1> QED BY <1>2, <1>3, <1>4, <1>5, <1>6, <1>7, <1>8, <1>9, <1>10 DEF Next

\* What the people's part of the invariant depends on.
LEMMA PeopleFrame ==
  ASSUME DecidedOK, UNCHANGED <<maintainers, decided, doubtful, web>>
  PROVE  DecidedOK'
BY DEF DecidedOK, PeopleStand, OneRowPerEmail, EditsStand, GivenOK, NobodyYet

\* The addition in service stays what it is while projects and people come in.
LEMMA WebFrame ==
  ASSUME TypeOK, UNCHANGED web, DOMAIN projects \subseteq DOMAIN projects',
         NEW S, maintainers' \in Seq(S), DOMAIN maintainers \subseteq DOMAIN maintainers'
  PROVE  WebType'
<1> DEFINE M == [email : Emails \cup {Missing}, company : Companies \cup {Blank}]
<1>1. maintainers \in Seq(M) /\ WebType
  BY DEF TypeOK, WebType
<1> HIDE DEF M
<1>2. /\ Len(maintainers) \in Nat /\ Len(maintainers') \in Nat
      /\ DOMAIN maintainers = 1..Len(maintainers) /\ DOMAIN maintainers' = 1..Len(maintainers')
  BY <1>1
<1>3. Len(maintainers) <= Len(maintainers')
  BY <1>2
<1>4. PICK n \in Nat, m \in Nat : n = Len(maintainers) /\ m = Len(maintainers') /\ n <= m
  BY <1>2, <1>3
<1>5. CASE web = NoAddition
  BY <1>5 DEF WebType, NoAddition
<1>6. CASE web \in [ask : {a \in Additions : a.project \in DOMAIN projects}, found : 0..n, rows : 0..n]
  <2>1. 0..n \subseteq 0..m
    BY <1>4
  <2>2. web' \in [ask : {a \in Additions : a.project \in DOMAIN projects'}, found : 0..m, rows : 0..m]
    BY <1>6, <2>1
  <2> QED BY <1>4, <2>2 DEF WebType
<1> QED BY <1>1, <1>4, <1>5, <1>6 DEF WebType

\* Steps that change neither the registry nor the FOSSA tables.
LEMMA TablesFrame ==
  ASSUME IndInv, CountersOK', JobOK', job'.pc \in {"idle", "active", "parent", "row", "staff",
                                                    "user", "teams", "link", "done"},
         UNCHANGED <<registry, fossa, web, decided, doubtful>>
  PROVE  IndInv'
<1>1. UNCHANGED <<projects, companies, maintainers, members, foundations, staff, serviceUsers,
                  links, web, decided, doubtful>>
  BY DEF registry, people, fossa
<1>2. TypeOK'
  BY <1>1 DEF IndInv, TypeOK, CountersOK, NoAddition
<1>3. ParentsOK' /\ DecidedOK'
  BY <1>1, PeopleFrame DEF IndInv, ParentsOK, ParentsFormAForest
<1> QED BY <1>2, <1>3 DEF IndInv

\* A run that goes on where it was.
LEMMA JobFrame ==
  ASSUME JobOK, UNCHANGED job, DOMAIN projects \subseteq DOMAIN projects',
         serviceUsers \subseteq serviceUsers'
  PROVE  JobOK'
BY DEF JobOK, MoreRows, RowsLeft, Row, User

LEMMA InitOK == Init => IndInv
<1> SUFFICES ASSUME Init PROVE IndInv
  OBVIOUS
<1>1. DOMAIN <<>> = {}
  OBVIOUS
<1>2. TypeOK
  <2>1. maintainers \in Seq([email : Emails \cup {Missing}, company : Companies \cup {Blank}])
    BY EmptySeq DEF Init
  <2>2. links \in Seq([user : serviceUsers, team : FossaTeams \cup {NoTeam},
                       owner : {Blank, "maintainer", "collaborator"}])
    BY EmptySeq DEF Init
  <2> QED BY <1>1, <2>1, <2>2, BoundsAssumption DEF Init, TypeOK, Idle
<1>3. JobOK
  BY DEF Init, JobOK, Idle
<1>4. ParentsOK
  BY <1>1 DEF Init, ParentsOK, ParentsFormAForest
<1>5. DecidedOK
  BY <1>1 DEF Init, DecidedOK, PeopleStand, OneRowPerEmail, EditsStand, GivenOK, NobodyYet
<1> QED BY <1>2, <1>3, <1>4, <1>5 DEF IndInv
-----------------------------------------------------------------------------
\* The run moves on.

\* Once a row is done with.
LEMMA NextRowOK ==
  ASSUME IndInv, MoreRows, job.pc \in {"parent", "row"}, job' = NextRow
  PROVE  JobOK' /\ job'.pc = "parent"
<1>1. Min(RowsLeft) \in Nat
  BY RowTyped DEF IndInv
<1>2. PICK m \in Nat : m = Min(RowsLeft) + 1
  BY <1>1
<1>3. job' = [pc |-> "parent", at |-> m, parent |-> Blank, team |-> job.team,
              owner |-> job.owner, rows |-> job.rows]
  BY <1>2 DEF IndInv, JobOK, NextRow
<1> QED BY <1>3 DEF IndInv, JobOK

\* At the start of a part.
LEMMA FreshJobOK ==
  ASSUME NEW pc, NEW n \in Nat, NEW rows,
         job' = [pc |-> pc, at |-> n, parent |-> Blank, team |-> 0, owner |-> Blank, rows |-> rows],
         pc \in {"idle", "active", "parent", "staff", "user", "done"},
         pc = "parent" => \E s \in Sheets : rows = ActiveRows(s),
         pc = "staff" => \E s \in Sheets : rows = StaffRows(s),
         pc = "user" => n # 0
  PROVE  JobOK' /\ job'.pc = pc
BY DEF JobOK

LEMMA RunStepOK ==
  ASSUME IndInv, CountersOK',
         \/ Start \/ ReadActive \/ LookupParent \/ SkipRow \/ RowFails
         \/ ReadStaff \/ FetchFossaData \/ Finish \/ Leave \/ Abort \/ EditSheet
  PROVE  IndInv'
<1>0. sheet \in Sheets /\ JobOK
  BY DEF IndInv, TypeOK
<1>1. CASE Start
  <2>1. job' = [pc |-> "active", at |-> 0, parent |-> Blank, team |-> 0, owner |-> Blank,
                rows |-> <<>>]
    BY <1>1 DEF Start, Idle
  <2>2. JobOK' /\ job'.pc = "active"
    BY <2>1, FreshJobOK
  <2> QED BY <1>1, <2>2, TablesFrame DEF Start
<1>2. CASE ReadActive
  <2>1. job' = [pc |-> "parent", at |-> 1, parent |-> Blank, team |-> 0, owner |-> Blank,
                rows |-> ActiveRows(sheet)]
    BY <1>2 DEF ReadActive, Goto, Idle
  <2>2. JobOK' /\ job'.pc = "parent"
    BY <1>0, <2>1, FreshJobOK
  <2> QED BY <1>2, <2>2, TablesFrame DEF ReadActive, Kept
<1>3. CASE LookupParent
  <2>1. PICK q \in DOMAIN projects \cup {Blank} : job' = [job EXCEPT !.pc = "row", !.parent = q]
    <3>1. job.parent \in DOMAIN projects \cup {Blank} /\ job = [job EXCEPT !.parent = job.parent]
      BY <1>0 DEF JobOK
    <3>2. CASE job' = [job EXCEPT !.pc = "row",
                 !.parent = IF Row.parent \in DOMAIN projects THEN Row.parent ELSE Blank]
      BY <3>2
    <3>3. CASE job' = [job EXCEPT !.pc = "row"]
      <4>1. job' = [job EXCEPT !.pc = "row", !.parent = job.parent]
        BY <1>0, <3>3 DEF JobOK
      <4> QED BY <3>1, <4>1
    <3> QED BY <1>3, <3>2, <3>3 DEF LookupParent
  <2>2. job' = [pc |-> "row", at |-> job.at, parent |-> q, team |-> job.team,
                owner |-> job.owner, rows |-> job.rows]
    BY <1>0, <2>1 DEF JobOK
  <2>3. JobOK' /\ job'.pc = "row"
    <3>1. \E s \in Sheets : job.rows = ActiveRows(s)
      BY <1>0, <1>3 DEF JobOK, LookupParent
    <3>2. MoreRows' /\ Row'.project # Blank
      BY <1>3, <2>2 DEF LookupParent, MoreRows, RowsLeft, Row
    <3>3. UNCHANGED projects
      BY <1>3 DEF LookupParent, registry
    <3> QED BY <1>0, <2>2, <3>1, <3>2, <3>3 DEF JobOK
  <2> QED BY <1>3, <2>3, TablesFrame DEF LookupParent, Kept
<1>4. CASE SkipRow
  BY <1>4, NextRowOK, TablesFrame DEF SkipRow, Kept
<1>5. CASE RowFails
  <2>1. MoreRows
    BY <1>0, <1>5 DEF RowFails, JobOK
  <2> QED BY <1>5, <2>1, NextRowOK, TablesFrame DEF RowFails, Kept
<1>6. CASE ReadStaff
  <2>1. job' = [pc |-> "staff", at |-> 1, parent |-> Blank, team |-> 0, owner |-> Blank,
                rows |-> StaffRows(sheet)]
    BY <1>6 DEF ReadStaff, Goto, Idle
  <2>2. JobOK' /\ job'.pc = "staff"
    BY <1>0, <2>1, FreshJobOK
  <2> QED BY <1>6, <2>2, TablesFrame DEF ReadStaff, Kept
<1>7. CASE FetchFossaData
  <2>1. job' = [pc |-> "user", at |-> 1, parent |-> Blank, team |-> 0, owner |-> Blank,
                rows |-> <<>>]
    BY <1>7 DEF FetchFossaData, Goto, Idle
  <2>2. JobOK' /\ job'.pc = "user"
    BY <2>1, FreshJobOK
  <2> QED BY <1>7, <2>2, TablesFrame DEF FetchFossaData, Kept
<1>8. CASE Finish
  <2>1. job' = [pc |-> "done", at |-> 0, parent |-> Blank, team |-> 0, owner |-> Blank,
                rows |-> <<>>]
    BY <1>8 DEF Finish, Idle
  <2>2. JobOK' /\ job'.pc = "done"
    BY <2>1, FreshJobOK
  <2> QED BY <1>8, <2>2, TablesFrame DEF Finish, Kept
<1>9. CASE Leave \/ Abort
  <2>1. job' = [pc |-> "idle", at |-> 0, parent |-> Blank, team |-> 0, owner |-> Blank,
                rows |-> <<>>]
    BY <1>9 DEF Leave, Abort, Idle
  <2>2. JobOK' /\ job'.pc = "idle"
    BY <2>1, FreshJobOK
  <2> QED BY <1>9, <2>2, TablesFrame DEF Leave, Abort, Kept
<1>10. CASE EditSheet
  <2>1. JobOK'
    BY <1>0, <1>10, JobFrame DEF EditSheet, registry, fossa
  <2> QED BY <1>10, <2>1, TablesFrame DEF EditSheet, IndInv, TypeOK
<1> QED BY <1>1, <1>2, <1>3, <1>4, <1>5, <1>6, <1>7, <1>8, <1>9, <1>10
-----------------------------------------------------------------------------
\* A project comes in, under one that is there.
LEMMA ProjectAdded ==
  ASSUME ParentsOK, NEW p, p \notin DOMAIN projects, p # Blank,
         NEW q \in DOMAIN projects \cup {Blank},
         DOMAIN projects' = DOMAIN projects \cup {p},
         \A x \in DOMAIN projects : projects'[x] = projects[x],
         projects'[p].parent = q
  PROVE  ParentsOK'
<1>1. \A x \in DOMAIN projects : projects[x].parent \in DOMAIN projects \cup {Blank}
  BY DEF ParentsOK
<1>2. \A x \in DOMAIN projects' : projects'[x].parent \in DOMAIN projects' \cup {Blank}
  BY <1>1
<1>3. ASSUME NEW S \in SUBSET DOMAIN projects', S # {}
      PROVE  \E x \in S : projects'[x].parent \notin S
  <2>1. CASE S \ {p} = {}
    <3>1. p \in S /\ q \notin S
      BY <1>3, <2>1
    <3> QED BY <3>1
  <2>2. CASE S \ {p} # {}
    <3>1. S \ {p} \in SUBSET DOMAIN projects
      BY <1>3
    <3>2. PICK x \in S \ {p} : projects[x].parent \notin S \ {p}
      BY <2>2, <3>1 DEF ParentsOK, ParentsFormAForest
    <3>3. x \in DOMAIN projects /\ projects'[x] = projects[x] /\ projects[x].parent # p
      BY <1>1, <3>1
    <3> QED BY <3>2, <3>3
  <2> QED BY <2>1, <2>2
<1> QED BY <1>2, <1>3 DEF ParentsOK, ParentsFormAForest

\* A maintainer comes in whom nobody has, or by an email that is doubtful.
LEMMA MaintainerAdded ==
  ASSUME TypeOK, DecidedOK, NEW e \in Emails \cup {Missing}, NEW c \in Companies \cup {Blank},
         UNCHANGED decided, web' \in {web, NoAddition}, doubtful \subseteq doubtful',
         \/ e = Missing \/ Len(maintainers) + 1 \in doubtful'
         \/ \A i \in DOMAIN maintainers : maintainers[i].email = e => i \in doubtful,
         maintainers' = Append(maintainers, [email |-> e, company |-> c])
  PROVE  /\ maintainers' \in Seq([email : Emails \cup {Missing}, company : Companies \cup {Blank}])
         /\ DOMAIN maintainers' = DOMAIN maintainers \cup {Len(maintainers) + 1}
         /\ Len(maintainers') = Len(maintainers) + 1
         /\ DecidedOK'
<1> DEFINE M == [email : Emails \cup {Missing}, company : Companies \cup {Blank}]
<1>0. maintainers \in Seq(M)
  BY DEF TypeOK
<1>1. [email |-> e, company |-> c] \in M
  OBVIOUS
<1>2. PICK new \in M : new = [email |-> e, company |-> c]
  BY <1>1
<1> HIDE DEF M
<1>3. /\ maintainers' \in Seq(M) /\ Len(maintainers') = Len(maintainers) + 1
      /\ DOMAIN maintainers = 1..Len(maintainers) /\ Len(maintainers) \in Nat
      /\ DOMAIN maintainers' = 1..Len(maintainers) + 1
      /\ \A i \in 1..Len(maintainers) : maintainers'[i] = maintainers[i]
      /\ maintainers'[Len(maintainers) + 1] = new
  BY <1>0, <1>2
<1>4. DOMAIN maintainers' = DOMAIN maintainers \cup {Len(maintainers) + 1}
  BY <1>3
<1>5. new.email = e
  BY <1>2
<1>6. OneRowPerEmail'
  <2> SUFFICES ASSUME NEW i \in DOMAIN maintainers', NEW k \in DOMAIN maintainers', i # k,
                      maintainers'[i].email = maintainers'[k].email,
                      maintainers'[i].email # Missing
               PROVE  i \in doubtful' \/ k \in doubtful'
    BY DEF OneRowPerEmail
  <2>1. CASE i \in DOMAIN maintainers /\ k \in DOMAIN maintainers
    <3>1. maintainers'[i] = maintainers[i] /\ maintainers'[k] = maintainers[k]
      BY <1>3, <2>1
    <3> QED BY <2>1, <3>1 DEF DecidedOK, PeopleStand, OneRowPerEmail
  <2>2. CASE i \notin DOMAIN maintainers
    <3>1. /\ i = Len(maintainers) + 1 /\ k \in DOMAIN maintainers /\ maintainers'[i].email = e
          /\ maintainers'[k] = maintainers[k]
      BY <1>3, <1>4, <1>5, <2>2
    <3> QED BY <3>1
  <2>3. CASE k \notin DOMAIN maintainers
    <3>1. /\ k = Len(maintainers) + 1 /\ i \in DOMAIN maintainers /\ maintainers'[k].email = e
          /\ maintainers'[i] = maintainers[i]
      BY <1>3, <1>4, <1>5, <2>3
    <3> QED BY <3>1
  <2> QED BY <2>1, <2>2, <2>3
<1>7. EditsStand' /\ GivenOK'
  <2>1. \A i \in DOMAIN decided : i \in DOMAIN maintainers /\ maintainers'[i] = maintainers[i]
    BY <1>3 DEF DecidedOK, GivenOK
  <2> QED BY <1>4, <2>1 DEF DecidedOK, PeopleStand, EditsStand, GivenOK
<1>8. NobodyYet'
  <2>1. CASE web' = NoAddition
    BY <2>1 DEF NobodyYet, NoAddition
  <2>2. CASE web' = web /\ web # NoAddition
    <3>1. web.rows \in 0..Len(maintainers)
      BY <2>2 DEF TypeOK
    <3>2. web'.rows # Len(maintainers')
      BY <1>3, <2>2, <3>1
    <3> QED BY <3>2 DEF NobodyYet
  <2> QED BY <2>1, <2>2
<1> QED BY <1>3, <1>4, <1>6, <1>7, <1>8 DEF DecidedOK, PeopleStand, M

\* The project of a row.
LEMMA ProjectOfRow ==
  ASSUME IndInv, job.pc = "row", ~ProjectFails, projects' = ProjectsAfter
  PROVE  /\ MoreRows /\ Row \in ActiveRow /\ Row.project \in Projects
         /\ DOMAIN projects' = DOMAIN projects \cup {Row.project}
         /\ DOMAIN projects' \subseteq Projects
         /\ \A x \in DOMAIN projects' : projects'[x].maturity \in Maturities
         /\ ParentsOK'
<1>0. TypeOK /\ JobOK /\ ParentsOK
  BY DEF IndInv
<1>1. job.pc = "row" /\ MoreRows /\ Row.project # Blank
  BY <1>0 DEF JobOK
<1>2. Row \in ActiveRow
  BY <1>0, <1>1, RowTyped
<1>3. PICK p \in Projects : p = Row.project
  BY <1>1, <1>2 DEF ActiveRow
<1>4. /\ DOMAIN projects' = DOMAIN projects \cup {p}
      /\ \A x \in DOMAIN projects : projects'[x] = projects[x]
      /\ p \notin DOMAIN projects => projects'[p] = NewProject
  BY <1>3 DEF ProjectsAfter, Over, Fn
<1>5. p \notin DOMAIN projects =>
        NewProject.maturity \in Maturities /\ NewProject.parent \in DOMAIN projects \cup {Blank}
  BY <1>0, <1>3 DEF ProjectFails, NewProject, JobOK
<1>6. ParentsOK'
  <2>1. CASE p \in DOMAIN projects
    BY <1>0, <1>4, <2>1 DEF ParentsOK, ParentsFormAForest
  <2>2. CASE p \notin DOMAIN projects
    <3>1. PICK q \in DOMAIN projects \cup {Blank} : q = projects'[p].parent
      BY <1>4, <1>5, <2>2
    <3>2. p # Blank
      BY <1>1, <1>3
    <3> QED BY <1>0, <1>4, <2>2, <3>1, <3>2, ProjectAdded
  <2> QED BY <2>1, <2>2
<1>8. /\ DOMAIN projects' \subseteq Projects
      /\ \A x \in DOMAIN projects' : projects'[x].maturity \in Maturities
  BY <1>0, <1>3, <1>4, <1>5 DEF TypeOK
<1> QED BY <1>1, <1>2, <1>3, <1>4, <1>6, <1>8

\* The company of a row.
LEMMA CompanyOfRow ==
  ASSUME TypeOK, Row \in ActiveRow, companies' = CompaniesAfter
  PROVE  DOMAIN companies' \subseteq Companies /\ \A x \in DOMAIN companies' : companies'[x] \in BOOLEAN
<1>2. PICK c \in Companies \cup {Blank} : c = Row.company
  BY DEF ActiveRow
<1>3. CASE c = Blank
  BY <1>2, <1>3 DEF CompaniesAfter, TypeOK
<1>4. CASE c # Blank
  BY <1>2, <1>4 DEF CompaniesAfter, TypeOK, Over, Fn
<1> QED BY <1>3, <1>4

LEMMA ImportRowOK ==
  ASSUME IndInv, CountersOK', ImportRow
  PROVE  IndInv'
<1>0. TypeOK /\ JobOK /\ ParentsOK /\ DecidedOK
  BY DEF IndInv
<1>1. job.pc = "row" /\ ~ProjectFails /\ projects' = ProjectsAfter
  BY DEF ImportRow
<1>2. MoreRows /\ Row \in ActiveRow /\ Row.project \in Projects
  BY <1>1, ProjectOfRow
<1>3. PICK p \in Projects : p = Row.project
  BY <1>2
<1>4. DOMAIN projects' = DOMAIN projects \cup {p}
  BY <1>1, <1>3, ProjectOfRow
<1>6. ParentsOK'
  BY <1>1, ProjectOfRow
<1>7. JobOK' /\ job'.pc = "parent"
  BY <1>1, <1>2, NextRowOK DEF ImportRow
<1>8. /\ DOMAIN projects' \subseteq Projects
      /\ \A x \in DOMAIN projects' : projects'[x].maturity \in Maturities
  BY <1>1, ProjectOfRow
<1>9. UNCHANGED <<foundations, staff, serviceUsers, links, web, decided, doubtful>>
  BY DEF ImportRow, fossa, Kept
<1>10. CASE Row.email = Blank
  <2>1. UNCHANGED <<companies, maintainers, members>>
    BY <1>10 DEF ImportRow, people
  <2>2. members' \subseteq (DOMAIN maintainers') \X DOMAIN projects'
    BY <1>0, <1>4, <2>1 DEF TypeOK
  <2>5. WebType'
    BY <1>0, <1>4, <1>9, <2>1, WebFrame DEF TypeOK
  <2>3. TypeOK'
    BY <1>0, <1>7, <1>8, <1>9, <2>1, <2>2, <2>5 DEF TypeOK, CountersOK, WebType
  <2>4. DecidedOK'
    BY <1>0, <1>9, <2>1, PeopleFrame
  <2> QED BY <1>6, <1>7, <2>3, <2>4 DEF IndInv
<1>11. CASE Row.email # Blank
  <2>1. PICK e \in Emails : e = Row.email
    BY <1>2, <1>11 DEF ActiveRow
  <2>2. PICK c \in Companies \cup {Blank} : c = Row.company
    BY <1>2 DEF ActiveRow
  <2>3. companies' = CompaniesAfter /\ AddMaintainer
    BY <1>11 DEF ImportRow
  <2>4. DOMAIN companies' \subseteq Companies /\ \A x \in DOMAIN companies' : companies'[x] \in BOOLEAN
    BY <1>0, <1>2, <2>3, CompanyOfRow
  <2> DEFINE found == {i \in DOMAIN maintainers : maintainers[i].email = e}
  <2>5. /\ maintainers' = IF found = {} THEN Append(maintainers, [email |-> e, company |-> c])
                          ELSE maintainers
        /\ members' = members \cup
             {<<IF found = {} THEN Len(Append(maintainers, [email |-> e, company |-> c]))
                ELSE Min(found), p>>}
    BY <1>3, <2>1, <2>2, <2>3 DEF AddMaintainer, WithEmail, FoundAsIs
  <2>6. /\ maintainers' \in Seq([email : Emails \cup {Missing}, company : Companies \cup {Blank}])
        /\ DecidedOK'
        /\ DOMAIN maintainers \subseteq DOMAIN maintainers'
        /\ \E i \in DOMAIN maintainers' : members' = members \cup {<<i, p>>}
    <3>1. CASE found = {}
      <4>1. maintainers' = Append(maintainers, [email |-> e, company |-> c])
        BY <2>5, <3>1
      <4>2. \A i \in DOMAIN maintainers : maintainers[i].email # e
        BY <3>1
      <4>3. /\ maintainers' \in Seq([email : Emails \cup {Missing}, company : Companies \cup {Blank}])
            /\ DOMAIN maintainers' = DOMAIN maintainers \cup {Len(maintainers')}
            /\ DecidedOK'
        BY <1>0, <1>9, <4>1, <4>2, MaintainerAdded
      <4>4. members' = members \cup {<<Len(maintainers'), p>>}
        BY <2>5, <3>1, <4>1
      <4> QED BY <4>3, <4>4
    <3>2. CASE found # {}
      <4>1. maintainers' = maintainers /\ members' = members \cup {<<Min(found), p>>}
        BY <2>5, <3>2
      <4>2. found \in SUBSET Nat
        BY <1>0 DEF TypeOK
      <4>3. Min(found) \in found
        BY <3>2, <4>2, LeastNatural
      <4>4. DecidedOK'
        BY <1>0, <1>9, <4>1, PeopleFrame
      <4> QED BY <1>0, <4>1, <4>3, <4>4 DEF TypeOK
    <3> QED BY <3>1, <3>2
  <2>7. members' \subseteq (DOMAIN maintainers') \X DOMAIN projects'
    BY <1>0, <1>4, <2>6 DEF TypeOK
  <2>9. WebType'
    BY <1>0, <1>4, <1>9, <2>6, WebFrame
  <2>8. TypeOK'
    BY <1>0, <1>7, <1>8, <1>9, <2>4, <2>6, <2>7, <2>9 DEF TypeOK, CountersOK, WebType
  <2> QED BY <1>6, <1>7, <2>6, <2>8 DEF IndInv
<1> QED BY <1>10, <1>11
-----------------------------------------------------------------------------
\* Staff, and the steps of the FOSSA part.
LEMMA StaffRowOK ==
  ASSUME IndInv, CountersOK', StaffRow
  PROVE  IndInv'
<1>0. TypeOK /\ JobOK /\ ParentsOK /\ DecidedOK
  BY DEF IndInv
<1>1. job.pc = "staff" /\ MoreRows
  BY DEF StaffRow
<1>2. Row \in StaffSheetRow /\ Min(RowsLeft) \in Nat
  BY <1>0, <1>1, RowTyped
<1>3. PICK n \in Nat : n = Min(RowsLeft) + 1
  BY <1>2
<1>4. job' = [pc |-> "staff", at |-> n, parent |-> job.parent, team |-> job.team,
              owner |-> job.owner, rows |-> job.rows]
  BY <1>0, <1>1, <1>3 DEF StaffRow, JobOK
<1>5. UNCHANGED <<projects, companies, maintainers, members, serviceUsers, links, web, decided, doubtful>>
  BY DEF StaffRow, people, fossa, Kept
<1>6. JobOK'
  BY <1>0, <1>1, <1>4, <1>5 DEF JobOK
<1>7. /\ foundations' \subseteq Foundations
      /\ \A e \in DOMAIN staff' : e \in Emails /\ staff'[e].foundation \in foundations'
  <2>1. CASE UNCHANGED <<foundations, staff>>
    BY <1>0, <2>1 DEF TypeOK
  <2>2. CASE /\ Row.foundation # Blank /\ Row.email # Blank
             /\ foundations' = foundations \cup {Row.foundation}
             /\ staff' = UpsertStaff(Row.email, [name |-> Row.name, foundation |-> Row.foundation])
    <3>1. PICK f \in Foundations : f = Row.foundation
      BY <1>2, <2>2 DEF StaffSheetRow
    <3>2. PICK e \in Emails : e = Row.email
      BY <1>2, <2>2 DEF StaffSheetRow
    <3>3. /\ DOMAIN staff' = DOMAIN staff \cup {e} /\ staff'[e].foundation = f
          /\ \A x \in DOMAIN staff : x # e => staff'[x] = staff[x]
      BY <2>2, <3>1, <3>2 DEF UpsertStaff, Over, Fn
    <3> QED BY <1>0, <2>2, <3>1, <3>3 DEF TypeOK
  <2> QED BY <2>1, <2>2 DEF StaffRow
<1>8. TypeOK'
  BY <1>0, <1>4, <1>5, <1>7 DEF TypeOK, CountersOK, NoAddition
<1>9. ParentsOK' /\ DecidedOK'
  BY <1>0, <1>5, PeopleFrame DEF ParentsOK, ParentsFormAForest
<1> QED BY <1>6, <1>8, <1>9 DEF IndInv

\* The FOSSA part leaves the registry alone.
LEMMA FossaFrame ==
  ASSUME IndInv, CountersOK', JobOK', job'.pc \in {"user", "teams", "link"},
         UNCHANGED <<registry, web, decided, doubtful>>,
         links' \in Seq([user : serviceUsers', team : FossaTeams \cup {NoTeam},
                         owner : {Blank, "maintainer", "collaborator"}])
  PROVE  IndInv'
<1>1. UNCHANGED <<projects, companies, maintainers, members, foundations, staff, web, decided, doubtful>>
  BY DEF registry, people
<1>2. TypeOK'
  BY <1>1 DEF IndInv, TypeOK, CountersOK, NoAddition
<1>3. ParentsOK' /\ DecidedOK'
  BY <1>1, PeopleFrame DEF IndInv, ParentsOK, ParentsFormAForest
<1> QED BY <1>2, <1>3 DEF IndInv

LEMMA UserTyped ==
  ASSUME JobOK, job.pc \in {"teams", "link"}
  PROVE  job.at \in DOMAIN FossaUsers /\ User \in [email : STRING, teams : Seq(STRING)]
<1> DEFINE U == [email : STRING, teams : Seq(STRING)]
<1>1. job.at \in DOMAIN FossaUsers
  BY DEF JobOK
<1>2. FossaUsers \in Seq(U)
  BY FossaAssumption
<1> HIDE DEF U
<1>3. FossaUsers[job.at] \in U
  BY <1>1, <1>2
<1> QED BY <1>1, <1>3 DEF User, U

LEMMA NextUserOK ==
  ASSUME JobOK, job' = NextUser
  PROVE  JobOK' /\ job'.pc = "user"
<1>1. job.at + 1 \in Nat /\ job.at + 1 # 0
  BY DEF JobOK
<1>2. job' = [pc |-> "user", at |-> job.at + 1, parent |-> Blank, team |-> 0, owner |-> Blank,
              rows |-> <<>>]
  BY DEF NextUser, Goto, Idle
<1> QED BY <1>1, <1>2, FreshJobOK

LEMMA FossaUserOK ==
  ASSUME IndInv, CountersOK', FossaUser
  PROVE  IndInv'
<1>0. TypeOK /\ JobOK
  BY DEF IndInv
<1>1. job.at \in DOMAIN FossaUsers
  BY <1>0, FossaAssumption DEF JobOK, FossaUser, MoreUsers
<1>2. PICK o \in {Blank, "maintainer", "collaborator"} : job' = [job EXCEPT !.pc = "teams", !.owner = o]
  BY DEF FossaUser, Owned
<1>3. job' = [pc |-> "teams", at |-> job.at, parent |-> job.parent, team |-> job.team,
              owner |-> o, rows |-> job.rows]
  BY <1>0, <1>2 DEF JobOK
<1>4. serviceUsers' = serviceUsers \cup {User.email} /\ UNCHANGED <<projects, links, registry, web, decided, doubtful>>
  BY DEF FossaUser, registry, Kept
<1>5. User'.email \in serviceUsers'
  BY <1>3, <1>4 DEF User
<1>6. JobOK'
  BY <1>0, <1>1, <1>3, <1>4, <1>5 DEF JobOK
<1>7. links' \in Seq([user : serviceUsers', team : FossaTeams \cup {NoTeam},
                      owner : {Blank, "maintainer", "collaborator"}])
  <2> DEFINE L == [user : serviceUsers, team : FossaTeams \cup {NoTeam},
                   owner : {Blank, "maintainer", "collaborator"}]
             N == [user : serviceUsers', team : FossaTeams \cup {NoTeam},
                   owner : {Blank, "maintainer", "collaborator"}]
  <2>1. links' \in Seq(L) /\ L \subseteq N
    BY <1>0, <1>4 DEF TypeOK
  <2> HIDE DEF L, N
  <2>2. links' \in [1..Len(links') -> N] /\ Len(links') \in Nat
    BY <2>1
  <2>3. links' \in Seq(N)
    BY <2>2, SeqDef
  <2> QED BY <2>3 DEF N
<1> QED BY <1>3, <1>4, <1>6, <1>7, FossaFrame

LEMMA TeamsOK ==
  ASSUME IndInv, CountersOK', CreateServiceTeamsForUser
  PROVE  IndInv'
<1>0. TypeOK /\ JobOK /\ job.pc = "teams"
  BY DEF IndInv, CreateServiceTeamsForUser
<1>1. UNCHANGED <<projects, serviceUsers, links, registry, web, decided, doubtful>>
  BY DEF CreateServiceTeamsForUser, registry, Kept
<1>2. job.at \in DOMAIN FossaUsers /\ User \in [email : STRING, teams : Seq(STRING)]
  BY <1>0, UserTyped
<1>3. JobOK' /\ job'.pc \in {"user", "link"}
  <2>1. CASE job' = GiveUp
    BY <1>0, <2>1, NextUserOK DEF GiveUp
  <2>2. CASE /\ TeamsCreated(User.teams) # <<>> /\ TeamsCreated(User.teams) = User.teams
             /\ job' = [job EXCEPT !.pc = "link", !.team = 1]
    <3>1. User.teams \in Seq(STRING) /\ User.teams # <<>>
      BY <1>2, <2>2
    <3>2. 1 \in 1..Len(User.teams)
      BY <3>1, EmptySeq
    <3>3. job' = [pc |-> "link", at |-> job.at, parent |-> job.parent, team |-> 1,
                  owner |-> job.owner, rows |-> job.rows]
      BY <1>0, <2>2 DEF JobOK
    <3> QED BY <1>0, <1>1, <1>2, <3>2, <3>3 DEF JobOK, User
  <2> QED BY <2>1, <2>2 DEF CreateServiceTeamsForUser
<1> QED BY <1>0, <1>1, <1>3, FossaFrame DEF TypeOK

LEMMA LinkTeamOK ==
  ASSUME IndInv, CountersOK', LinkTeam
  PROVE  IndInv'
<1>0. TypeOK /\ JobOK /\ job.pc = "link"
  BY DEF IndInv, LinkTeam
<1>1. UNCHANGED <<projects, serviceUsers, registry, web, decided, doubtful>>
  BY DEF LinkTeam, registry, Kept
<1>2. job.at \in DOMAIN FossaUsers /\ User \in [email : STRING, teams : Seq(STRING)]
  BY <1>0, UserTyped
<1>3. PICK t \in FossaTeams : t = User.teams[job.team]
  <2>1. User.teams \in Seq(STRING) /\ job.team \in DOMAIN User.teams
    BY <1>0, <1>2 DEF JobOK
  <2>2. User \in Range(FossaUsers) /\ User.teams[job.team] \in Range(User.teams)
    BY <1>2, <2>1 DEF Range, User
  <2> QED BY <2>2 DEF FossaTeams
<1>4. PICK u \in serviceUsers : u = User.email
  BY <1>0 DEF JobOK
<1>5. PICK o \in {Blank, "maintainer", "collaborator"} : o = job.owner
  BY <1>0 DEF JobOK
<1> DEFINE L == [user : serviceUsers, team : FossaTeams \cup {NoTeam},
                 owner : {Blank, "maintainer", "collaborator"}]
           bare == [user |-> u, team |-> NoTeam, owner |-> Blank]
           whole == [user |-> u, team |-> t, owner |-> o]
           with == IF LinksOf(u, t) = {} THEN Append(links, bare) ELSE links
           k == IF LinksOf(u, t) = {} THEN Len(with) ELSE Min(LinksOf(u, t))
<1>6. bare \in L /\ whole \in L /\ links \in Seq(L)
  BY <1>0 DEF TypeOK
<1>7. \/ links' = [with EXCEPT ![k].owner = IF o = Blank THEN @ ELSE o]
      \/ links' = with
      \/ links' = Append(links, whole)
  BY <1>3, <1>4, <1>5 DEF LinkTeam
<1>8. with \in Seq(L) /\ k \in DOMAIN with
  <2> HIDE DEF L, bare, whole
  <2>1. CASE LinksOf(u, t) = {}
    BY <1>6, <2>1
  <2>2. CASE LinksOf(u, t) # {}
    <3>1. LinksOf(u, t) \in SUBSET Nat
      BY <1>6 DEF LinksOf
    <3>2. Min(LinksOf(u, t)) \in LinksOf(u, t)
      BY <2>2, <3>1, LeastNatural
    <3> QED BY <1>6, <2>2, <3>2 DEF LinksOf
  <2> QED BY <2>1, <2>2
<1>9. links' \in Seq(L)
  <2> HIDE DEF with, k
  <2>1. CASE links' = with \/ links' = Append(links, whole)
    <3> HIDE DEF L, bare, whole
    <3> QED BY <1>6, <1>8, <2>1
  <2>2. CASE links' = [with EXCEPT ![k].owner = IF o = Blank THEN @ ELSE o]
    <3>1. PICK r \in L : r = [with[k] EXCEPT !.owner = IF o = Blank THEN @ ELSE o]
      <4>1. with[k] \in L
        <5> HIDE DEF L
        <5> QED BY <1>8
      <4> QED BY <1>5, <4>1
    <3>2. links' = [with EXCEPT ![k] = r]
      BY <2>2, <3>1
    <3> HIDE DEF L
    <3> QED BY <1>8, <3>1, <3>2
  <2> QED BY <1>7, <2>1, <2>2
<1>10. JobOK' /\ job'.pc \in {"user", "link"}
  <2>1. CASE job' = NextUser
    BY <1>0, <2>1, NextUserOK
  <2>2. CASE job.team # Len(User.teams) /\ job' = [job EXCEPT !.team = @ + 1]
    <3>1. job' = [pc |-> "link", at |-> job.at, parent |-> job.parent, team |-> job.team + 1,
                  owner |-> job.owner, rows |-> job.rows]
      BY <1>0, <2>2 DEF JobOK
    <3>2. job.team + 1 \in 1..Len(User.teams)
      BY <1>0, <1>2, <2>2 DEF JobOK
    <3> QED BY <1>0, <1>1, <1>2, <3>1, <3>2 DEF JobOK, User
  <2> QED BY <2>1, <2>2 DEF LinkTeam
<1> QED BY <1>1, <1>9, <1>10, FossaFrame
-----------------------------------------------------------------------------
\* Edits on the web.
LEMMA EditMaintainerOK ==
  ASSUME IndInv, CountersOK', EditMaintainer
  PROVE  IndInv'
<1> DEFINE M == [email : Emails \cup {Missing}, company : Companies \cup {Blank}]
<1>0. TypeOK /\ JobOK /\ ParentsOK /\ DecidedOK /\ maintainers \in Seq(M)
  BY DEF IndInv, TypeOK
<1>1. PICK i \in DOMAIN maintainers, c \in DOMAIN companies :
        /\ maintainers' = [maintainers EXCEPT ![i].company = c]
        /\ decided' = Over(decided, Fn(i, c))
  BY DEF EditMaintainer
<1>2. UNCHANGED <<projects, companies, members, foundations, staff, serviceUsers, links, job, web, doubtful>>
  BY DEF EditMaintainer, fossa
<1>3. JobOK'
  BY <1>0, <1>2, JobFrame
<1>4. PICK m \in M : m = [maintainers[i] EXCEPT !.company = c]
  <2>1. maintainers[i] \in M
    <3> HIDE DEF M
    <3> QED BY <1>0
  <2> QED BY <1>0, <2>1 DEF TypeOK
<1>5. m.email = maintainers[i].email /\ m.company = c
  <2>1. maintainers[i] \in M
    <3> HIDE DEF M
    <3> QED BY <1>0
  <2> QED BY <1>4, <2>1
<1>6. maintainers' = [maintainers EXCEPT ![i] = m]
  BY <1>1, <1>4
<1>7. maintainers' \in Seq(M) /\ DOMAIN maintainers' = DOMAIN maintainers
  <2> HIDE DEF M
  <2> QED BY <1>0, <1>6
<1>a. WebType'
  BY <1>0, <1>2, <1>7, WebFrame
<1>8. TypeOK'
  BY <1>0, <1>2, <1>7, <1>a DEF TypeOK, CountersOK, WebType
<1>9. ParentsOK'
  BY <1>0, <1>2 DEF ParentsOK, ParentsFormAForest
<1>10. \A k \in DOMAIN maintainers : /\ maintainers'[k].email = maintainers[k].email
                                     /\ k # i => maintainers'[k] = maintainers[k]
  BY <1>0, <1>5, <1>6
<1>11. OneRowPerEmail'
  BY <1>0, <1>2, <1>7, <1>10 DEF DecidedOK, PeopleStand, OneRowPerEmail
<1>12. DOMAIN decided' = DOMAIN decided \cup {i} /\ decided'[i] = c
       /\ \A k \in DOMAIN decided : k # i => decided'[k] = decided[k]
  BY <1>1 DEF Over, Fn
<1>13. EditsStand' /\ GivenOK'
  <2>1. c \in Companies
    BY <1>0 DEF TypeOK
  <2> QED BY <1>0, <1>5, <1>6, <1>7, <1>10, <1>12, <2>1 DEF DecidedOK, PeopleStand, EditsStand, GivenOK
<1>14. NobodyYet'
  <2>1. Len(maintainers') = Len(maintainers)
    <3> HIDE DEF M
    <3> QED BY <1>0, <1>7
  <2> QED BY <1>0, <1>2, <1>7, <1>10, <2>1 DEF DecidedOK, NobodyYet
<1> QED BY <1>3, <1>8, <1>9, <1>11, <1>13, <1>14 DEF IndInv, DecidedOK, PeopleStand

LEMMA MergeCompaniesOK ==
  ASSUME IndInv, CountersOK', MergeCompanies
  PROVE  IndInv'
<1> DEFINE M == [email : Emails \cup {Missing}, company : Companies \cup {Blank}]
<1>0. TypeOK /\ JobOK /\ ParentsOK /\ DecidedOK /\ maintainers \in Seq(M)
  BY DEF IndInv, TypeOK
<1>1. PICK from \in DOMAIN companies, to \in DOMAIN companies :
       /\ companies' = [companies EXCEPT ![from] = FALSE]
       /\ maintainers' = [i \in DOMAIN maintainers |->
            IF maintainers[i].company = from THEN [maintainers[i] EXCEPT !.company = to]
            ELSE maintainers[i]]
       /\ decided' = Over(decided, [i \in {i \in DOMAIN maintainers : maintainers[i].company = from} |-> to])
  BY DEF MergeCompanies
<1>2. UNCHANGED <<projects, members, foundations, staff, serviceUsers, links, job, web, doubtful>>
  BY DEF MergeCompanies, fossa
<1>3. JobOK'
  BY <1>0, <1>2, JobFrame
<1>4. ASSUME NEW i \in DOMAIN maintainers
      PROVE  /\ maintainers'[i] \in M /\ maintainers'[i].email = maintainers[i].email
             /\ maintainers[i].company = from => maintainers'[i].company = to
             /\ maintainers[i].company # from => maintainers'[i] = maintainers[i]
  <2>1. maintainers[i] \in M
    <3> HIDE DEF M
    <3> QED BY <1>0
  <2> QED BY <1>0, <1>1, <2>1 DEF TypeOK
<1>5. DOMAIN maintainers' = DOMAIN maintainers
  BY <1>1
<1>6. maintainers' \in Seq(M)
  <2> HIDE DEF M
  <2>1. DOMAIN maintainers = 1..Len(maintainers) /\ Len(maintainers) \in Nat
    BY <1>0
  <2>2. maintainers' \in [1..Len(maintainers) -> M]
    BY <1>1, <1>4, <2>1
  <2> QED BY <2>1, <2>2, SeqDef
<1>7. DOMAIN companies' = DOMAIN companies /\ \A c \in DOMAIN companies : companies'[c] \in BOOLEAN
  BY <1>0, <1>1 DEF TypeOK
<1>a. WebType'
  BY <1>0, <1>2, <1>5, <1>6, WebFrame
<1>8. TypeOK'
  BY <1>0, <1>2, <1>5, <1>6, <1>7, <1>a DEF TypeOK, CountersOK, WebType
<1>9. ParentsOK'
  BY <1>0, <1>2 DEF ParentsOK, ParentsFormAForest
<1>10. OneRowPerEmail'
  BY <1>0, <1>2, <1>4, <1>5 DEF DecidedOK, PeopleStand, OneRowPerEmail
<1>11. EditsStand' /\ GivenOK'
  <2>1. DOMAIN decided' = DOMAIN decided \cup {i \in DOMAIN maintainers : maintainers[i].company = from}
    BY <1>1 DEF Over
  <2>2. ASSUME NEW i \in DOMAIN decided'
        PROVE  /\ i \in DOMAIN maintainers /\ maintainers'[i].company = decided'[i]
               /\ decided'[i] \in Companies
    <3>1. i \in DOMAIN maintainers
      BY <1>0, <2>1 DEF DecidedOK, GivenOK
    <3>2. CASE maintainers[i].company = from
      <4>1. decided'[i] = to
        BY <1>1, <3>1, <3>2 DEF Over
      <4> QED BY <1>0, <1>4, <3>1, <3>2, <4>1 DEF TypeOK
    <3>3. CASE maintainers[i].company # from
      <4>1. i \in DOMAIN decided /\ decided'[i] = decided[i]
        BY <1>1, <2>1, <3>3 DEF Over
      <4> QED BY <1>0, <1>4, <3>1, <3>3, <4>1 DEF DecidedOK, PeopleStand, EditsStand, GivenOK
    <3> QED BY <3>1, <3>2, <3>3
  <2> QED BY <1>5, <2>2 DEF EditsStand, GivenOK
<1>12. NobodyYet'
  <2>1. Len(maintainers') = Len(maintainers)
    <3> HIDE DEF M
    <3> QED BY <1>0, <1>5, <1>6
  <2> QED BY <1>0, <1>2, <1>4, <1>5, <2>1 DEF DecidedOK, NobodyYet
<1> QED BY <1>3, <1>8, <1>9, <1>10, <1>11, <1>12 DEF IndInv, DecidedOK, PeopleStand

LEMMA CreateProjectOK ==
  ASSUME IndInv, CountersOK', CreateProject
  PROVE  IndInv'
<1>0. TypeOK /\ JobOK /\ ParentsOK /\ DecidedOK
  BY DEF IndInv
<1>1. PICK p \in Projects \ DOMAIN projects, q \in DOMAIN projects \cup {Blank}, m \in Maturities :
        projects' = Over(projects, Fn(p, [maturity |-> m, parent |-> q]))
  BY DEF CreateProject
<1>2. UNCHANGED <<companies, maintainers, members, foundations, staff, serviceUsers, links, job, web,
                  decided, doubtful>>
  BY DEF CreateProject, people, fossa
<1>3. /\ DOMAIN projects' = DOMAIN projects \cup {p}
      /\ \A x \in DOMAIN projects : projects'[x] = projects[x]
      /\ projects'[p].parent = q /\ projects'[p].maturity = m
  BY <1>1 DEF Over, Fn
<1>4. p # Blank
  BY BlankAssumption
<1>5. ParentsOK'
  BY <1>0, <1>1, <1>3, <1>4, ProjectAdded
<1>6. JobOK'
  BY <1>0, <1>2, <1>3, JobFrame
<1>a. WebType'
  BY <1>0, <1>2, <1>3, WebFrame DEF TypeOK
<1>7. TypeOK'
  BY <1>0, <1>1, <1>2, <1>3, <1>a DEF TypeOK, CountersOK, WebType
<1>8. DecidedOK'
  BY <1>0, <1>2, PeopleFrame
<1> QED BY <1>5, <1>6, <1>7, <1>8 DEF IndInv

\* A maintainer's row is rewritten: with another email it becomes doubtful, and
\* only a company that is lacking is filled in.
LEMMA MaintainerRewritten ==
  ASSUME TypeOK, DecidedOK, NEW i \in DOMAIN maintainers,
         NEW m \in [email : Emails \cup {Missing}, company : Companies \cup {Blank}],
         maintainers' = [maintainers EXCEPT ![i] = m],
         m.email = maintainers[i].email \/ i \in doubtful',
         m.company = maintainers[i].company \/ maintainers[i].company = Blank,
         doubtful \subseteq doubtful', UNCHANGED decided, web' \in {web, NoAddition}
  PROVE  /\ maintainers' \in Seq([email : Emails \cup {Missing}, company : Companies \cup {Blank}])
         /\ DOMAIN maintainers' = DOMAIN maintainers
         /\ DecidedOK'
<1> DEFINE M == [email : Emails \cup {Missing}, company : Companies \cup {Blank}]
<1>0. maintainers \in Seq(M) /\ m \in M
  BY DEF TypeOK
<1> HIDE DEF M
<1>1. /\ maintainers' \in Seq(M) /\ DOMAIN maintainers' = DOMAIN maintainers
      /\ Len(maintainers') = Len(maintainers)
      /\ maintainers'[i] = m /\ \A k \in DOMAIN maintainers : k # i => maintainers'[k] = maintainers[k]
  BY <1>0
<1>2. \A k \in DOMAIN maintainers : maintainers'[k].email = maintainers[k].email \/ k \in doubtful'
  BY <1>1
<1>3. OneRowPerEmail'
  BY <1>1, <1>2 DEF DecidedOK, PeopleStand, OneRowPerEmail
<1>4. EditsStand' /\ GivenOK'
  <2>1. ASSUME NEW k \in DOMAIN decided
        PROVE  /\ k \in DOMAIN maintainers /\ decided[k] \in Companies
               /\ maintainers'[k].company = decided[k]
    <3>1. k \in DOMAIN maintainers /\ decided[k] \in Companies /\ maintainers[k].company = decided[k]
      BY DEF DecidedOK, PeopleStand, EditsStand, GivenOK
    <3>2. decided[k] # Blank
      BY <3>1, BlankAssumption
    <3> QED BY <1>1, <3>1, <3>2
  <2> QED BY <1>1, <2>1 DEF EditsStand, GivenOK
<1>5. NobodyYet'
  <2>1. CASE web' = NoAddition
    BY <2>1 DEF NobodyYet
  <2>2. CASE web' = web
    BY <1>1, <1>2, <2>2 DEF DecidedOK, NobodyYet
  <2> QED BY <2>1, <2>2
<1> QED BY <1>1, <1>3, <1>4, <1>5 DEF DecidedOK, PeopleStand, M

LEMMA EditEmailOK ==
  ASSUME IndInv, CountersOK', EditEmail
  PROVE  IndInv'
<1> DEFINE M == [email : Emails \cup {Missing}, company : Companies \cup {Blank}]
<1>0. TypeOK /\ JobOK /\ ParentsOK /\ DecidedOK /\ maintainers \in Seq(M)
  BY DEF IndInv, TypeOK
<1>1. PICK i \in DOMAIN maintainers, e \in Emails \cup {Missing} :
        maintainers' = [maintainers EXCEPT ![i].email = e] /\ doubtful' = doubtful \cup {i}
  BY DEF EditEmail
<1>2. UNCHANGED <<projects, companies, members, foundations, staff, serviceUsers, links, job, web, decided>>
  BY DEF EditEmail, fossa
<1>3. JobOK'
  BY <1>0, <1>2, JobFrame
<1>4. maintainers[i] \in M
  <2> HIDE DEF M
  <2> QED BY <1>0
<1>5. PICK m \in M : m = [maintainers[i] EXCEPT !.email = e]
  BY <1>4
<1>6. m.company = maintainers[i].company
  BY <1>4, <1>5
<1>7. maintainers' = [maintainers EXCEPT ![i] = m]
  BY <1>1, <1>5
<1>8. /\ maintainers' \in Seq(M) /\ DOMAIN maintainers' = DOMAIN maintainers
      /\ DecidedOK'
  <2>1. i \in doubtful' /\ doubtful \subseteq doubtful'
    BY <1>1
  <2> QED BY <1>0, <1>2, <1>6, <1>7, <2>1, MaintainerRewritten
<1>9. WebType'
  BY <1>0, <1>2, <1>8, WebFrame
<1>10. TypeOK'
  BY <1>0, <1>2, <1>8, <1>9 DEF TypeOK, CountersOK, WebType
<1>11. ParentsOK'
  BY <1>0, <1>2 DEF ParentsOK, ParentsFormAForest
<1> QED BY <1>3, <1>8, <1>10, <1>11 DEF IndInv

LEMMA AddLookOK ==
  ASSUME IndInv, CountersOK', AddLook
  PROVE  IndInv'
<1> DEFINE M == [email : Emails \cup {Missing}, company : Companies \cup {Blank}]
<1>0. TypeOK /\ JobOK /\ ParentsOK /\ DecidedOK /\ maintainers \in Seq(M)
  BY DEF IndInv, TypeOK
<1>1. PICK a \in Additions, found \in 0..Len(maintainers) :
        /\ a.project \in DOMAIN projects
        /\ found = 0 => NobodyWith(a.email)
        /\ web' = [ask |-> a, found |-> found, rows |-> Len(maintainers)]
  BY DEF AddLook
<1>2. UNCHANGED <<projects, companies, maintainers, members, foundations, staff, serviceUsers, links, job,
                  decided, doubtful>>
  BY DEF AddLook, registry, people, fossa, history
<1>3. JobOK'
  BY <1>0, <1>2, JobFrame
<1>4. WebType'
  <2>1. Len(maintainers) \in Nat
    <3> HIDE DEF M
    <3> QED BY <1>0
  <2>2. PICK n \in Nat : n = Len(maintainers)
    BY <2>1
  <2>3. web' \in [ask : {x \in Additions : x.project \in DOMAIN projects}, found : 0..n, rows : 0..n]
    BY <1>1, <2>2
  <2> QED BY <1>2, <2>2, <2>3 DEF WebType
<1>5. TypeOK'
  BY <1>0, <1>2, <1>4 DEF TypeOK, CountersOK, WebType
<1>6. web'.ask = a /\ web'.found = found
  BY <1>1
<1>7. NobodyYet'
  BY <1>1, <1>2, <1>6 DEF NobodyYet, NobodyWith, Registered
<1>8. ParentsOK' /\ DecidedOK'
  BY <1>0, <1>2, <1>7 DEF ParentsOK, ParentsFormAForest, DecidedOK, PeopleStand, OneRowPerEmail,
     EditsStand, GivenOK
<1> QED BY <1>3, <1>5, <1>8 DEF IndInv

LEMMA AddCommitOK ==
  ASSUME IndInv, CountersOK', AddCommit
  PROVE  IndInv'
<1> DEFINE M == [email : Emails \cup {Missing}, company : Companies \cup {Blank}]
<1>0. /\ TypeOK /\ JobOK /\ ParentsOK /\ DecidedOK /\ maintainers \in Seq(M)
      /\ web # NoAddition /\ web' = NoAddition
  BY DEF IndInv, TypeOK, AddCommit
<1>1. UNCHANGED <<projects, companies, foundations, staff, serviceUsers, links, job, decided>>
  BY DEF AddCommit, fossa
<1>2. JobOK'
  BY <1>0, <1>1, JobFrame
<1>3. PICK a \in Additions : a = web.ask /\ a.project \in DOMAIN projects
  BY <1>0 DEF TypeOK
<1>4. /\ DOMAIN maintainers = 1..Len(maintainers) /\ Len(maintainers) \in Nat
      /\ web.found \in 0..Len(maintainers)
  <2>1. web.found \in 0..Len(maintainers)
    BY <1>0 DEF TypeOK
  <2> HIDE DEF M
  <2> QED BY <1>0, <2>1
<1>5. a.email \in Emails \cup {Missing} /\ a.company \in Companies \cup {Blank}
  BY AdditionsAssumption
<1>6. PICK c \in Companies \cup {Blank} : c = AddedCompany
  BY <1>3, <1>5 DEF AddedCompany
<1>7. /\ maintainers' \in Seq(M) /\ DOMAIN maintainers \subseteq DOMAIN maintainers'
      /\ DecidedOK'
      /\ \E i \in DOMAIN maintainers' : members' = members \cup {<<i, a.project>>}
  <2>1. CASE web.found = 0
    <3>1. /\ maintainers' = Append(maintainers, [email |-> a.email, company |-> c])
          /\ members' = members \cup {<<Len(maintainers) + 1, a.project>>}
          /\ doubtful' = IF Len(maintainers) = web.rows THEN doubtful
                         ELSE doubtful \cup {Len(maintainers) + 1}
      BY <1>3, <1>6, <2>1 DEF AddCommit
    <3>2. \/ a.email = Missing \/ Len(maintainers) + 1 \in doubtful'
          \/ \A i \in DOMAIN maintainers : maintainers[i].email = a.email => i \in doubtful
      BY <1>0, <1>3, <2>1, <3>1 DEF DecidedOK, NobodyYet
    <3>3. doubtful \subseteq doubtful' /\ web' \in {web, NoAddition}
      BY <1>0, <3>1
    <3>4. /\ maintainers' \in Seq(M)
          /\ DOMAIN maintainers' = DOMAIN maintainers \cup {Len(maintainers) + 1}
          /\ DecidedOK'
      BY <1>0, <1>1, <1>5, <3>1, <3>2, <3>3, MaintainerAdded
    <3> QED BY <3>1, <3>4
  <2>2. CASE web.found # 0
    <3>1. PICK i \in DOMAIN maintainers : i = web.found
      BY <1>4, <2>2
    <3>2. maintainers[i] \in M
      <4> HIDE DEF M
      <4> QED BY <1>0
    <3>3. PICK old \in M : old = maintainers[i]
      BY <3>2
    <3>4. PICK m \in M : m = [email |-> IF old.email = Missing THEN a.email ELSE old.email,
                             company |-> IF old.company = Blank THEN c ELSE old.company]
      BY <1>5, <1>6
    <3>5. /\ m.email = IF old.email = Missing THEN a.email ELSE old.email
          /\ m.company = IF old.company = Blank THEN c ELSE old.company
      BY <3>4
    <3>6. /\ maintainers' = [maintainers EXCEPT ![i] = m]
          /\ members' = members \cup {<<i, a.project>>}
          /\ doubtful' = IF old.email = Missing THEN doubtful \cup {i} ELSE doubtful
      BY <1>3, <1>6, <2>2, <3>1, <3>3, <3>4 DEF AddCommit
    <3>7. /\ m.email = maintainers[i].email \/ i \in doubtful'
          /\ m.company = maintainers[i].company \/ maintainers[i].company = Blank
          /\ doubtful \subseteq doubtful' /\ web' \in {web, NoAddition}
      BY <1>0, <3>3, <3>5, <3>6
    <3>8. /\ maintainers' \in Seq(M) /\ DOMAIN maintainers' = DOMAIN maintainers
          /\ DecidedOK'
      BY <1>0, <1>1, <3>6, <3>7, MaintainerRewritten
    <3> QED BY <3>6, <3>8
  <2> QED BY <2>1, <2>2
<1>8. members' \subseteq (DOMAIN maintainers') \X DOMAIN projects'
  BY <1>0, <1>1, <1>3, <1>7 DEF TypeOK
<1>9. TypeOK'
  BY <1>0, <1>1, <1>7, <1>8 DEF TypeOK, CountersOK, NoAddition
<1>10. ParentsOK'
  BY <1>0, <1>1 DEF ParentsOK, ParentsFormAForest
<1> QED BY <1>2, <1>7, <1>9, <1>10 DEF IndInv

LEMMA AddWithinRowOK ==
  ASSUME IndInv, CountersOK', AddWithinRow
  PROVE  IndInv'
<1> DEFINE M == [email : Emails \cup {Missing}, company : Companies \cup {Blank}]
<1>0. /\ TypeOK /\ JobOK /\ DecidedOK /\ maintainers \in Seq(M)
      /\ web # NoAddition /\ web' = NoAddition
  BY DEF IndInv, TypeOK, AddWithinRow
<1>1. job.pc = "row" /\ ~ProjectFails /\ projects' = ProjectsAfter /\ companies' = CompaniesAfter
  BY DEF AddWithinRow
<1>2. /\ MoreRows /\ Row \in ActiveRow /\ DOMAIN projects' = DOMAIN projects \cup {Row.project}
      /\ DOMAIN projects' \subseteq Projects
      /\ \A x \in DOMAIN projects' : projects'[x].maturity \in Maturities
      /\ ParentsOK'
  BY <1>1, ProjectOfRow
<1>3. DOMAIN companies' \subseteq Companies /\ \A x \in DOMAIN companies' : companies'[x] \in BOOLEAN
  BY <1>0, <1>1, <1>2, CompanyOfRow
<1>4. JobOK' /\ job'.pc = "parent"
  BY <1>1, <1>2, NextRowOK DEF AddWithinRow
<1>5. PICK a \in Additions : a = web.ask /\ a.project \in DOMAIN projects
  BY <1>0 DEF TypeOK
<1>6. PICK e \in Emails \cup {Missing} : e = Row.email /\ e = a.email
  BY <1>5, AdditionsAssumption DEF AddWithinRow
<1>7. PICK c \in Companies \cup {Blank} : c = AddedCompany
  BY <1>5, AdditionsAssumption DEF AddedCompany
<1>8. PICK d \in Companies \cup {Blank} : d = Row.company
  BY <1>2 DEF ActiveRow
<1>9. PICK x \in M, y \in M : x = [email |-> e, company |-> c] /\ y = [email |-> e, company |-> d]
  OBVIOUS
<1>10. x.email = e /\ y.email = e
  BY <1>9
<1>11. PICK n \in Nat : n = Len(maintainers)
  <2> HIDE DEF M
  <2> QED BY <1>0
<1>12. /\ maintainers' = maintainers \o <<x, y>>
       /\ members' = members \cup {<<n + 1, a.project>>, <<n + 2, Row.project>>}
       /\ doubtful' = doubtful \cup {n + 2} /\ UNCHANGED decided
  BY <1>5, <1>6, <1>7, <1>8, <1>9, <1>11 DEF AddWithinRow
<1> HIDE DEF M
<1>13. /\ maintainers' \in Seq(M) /\ DOMAIN maintainers = 1..n /\ DOMAIN maintainers' = 1..(n + 2)
       /\ \A i \in 1..n : maintainers'[i] = maintainers[i]
       /\ maintainers'[n + 1] = x /\ maintainers'[n + 2] = y
  <2>1. <<x, y>> \in Seq(M) /\ Len(<<x, y>>) = 2 /\ <<x, y>>[1] = x /\ <<x, y>>[2] = y
    BY <1>9
  <2>2. PICK two \in Seq(M) : two = <<x, y>> /\ Len(two) = 2 /\ two[1] = x /\ two[2] = y
    BY <2>1
  <2>3. maintainers' = maintainers \o two
    BY <1>12, <2>2
  <2> QED BY <1>0, <1>11, <2>2, <2>3
<1>14. DOMAIN maintainers' = DOMAIN maintainers \cup {n + 1, n + 2}
  BY <1>13
<1>15. \A i \in DOMAIN maintainers : maintainers[i].email # e
  BY <1>6 DEF AddWithinRow, Registered
<1>16. OneRowPerEmail'
  <2> SUFFICES ASSUME NEW i \in DOMAIN maintainers', NEW k \in DOMAIN maintainers', i # k,
                      maintainers'[i].email = maintainers'[k].email,
                      maintainers'[i].email # Missing
               PROVE  i \in doubtful' \/ k \in doubtful'
    BY DEF OneRowPerEmail
  <2>1. CASE i = n + 2 \/ k = n + 2
    BY <1>12, <2>1
  <2>2. CASE i \in DOMAIN maintainers /\ k \in DOMAIN maintainers
    <3>1. maintainers'[i] = maintainers[i] /\ maintainers'[k] = maintainers[k]
      BY <1>13, <2>2
    <3> QED BY <1>0, <1>12, <2>2, <3>1 DEF DecidedOK, PeopleStand, OneRowPerEmail
  <2>3. CASE \/ i = n + 1 /\ k \in DOMAIN maintainers
             \/ k = n + 1 /\ i \in DOMAIN maintainers
    BY <1>10, <1>13, <1>15, <2>3
  <2> QED BY <1>14, <2>1, <2>2, <2>3
<1>17. EditsStand' /\ GivenOK'
  <2>1. \A i \in DOMAIN decided : i \in DOMAIN maintainers /\ maintainers'[i] = maintainers[i]
    BY <1>0, <1>13 DEF DecidedOK, GivenOK
  <2> QED BY <1>0, <1>12, <1>14, <2>1 DEF DecidedOK, PeopleStand, EditsStand, GivenOK
<1>18. DecidedOK'
  BY <1>0, <1>16, <1>17 DEF DecidedOK, PeopleStand, NobodyYet
<1>19. members' \subseteq (DOMAIN maintainers') \X DOMAIN projects'
  <2>1. members \subseteq (DOMAIN maintainers) \X DOMAIN projects
    BY <1>0 DEF TypeOK
  <2> QED BY <1>2, <1>5, <1>12, <1>14, <2>1
<1>20. UNCHANGED <<foundations, staff, serviceUsers, links>>
  BY DEF AddWithinRow, fossa
<1>21. TypeOK'
  BY <1>0, <1>2, <1>3, <1>4, <1>13, <1>19, <1>20 DEF TypeOK, CountersOK, M
<1> QED BY <1>2, <1>4, <1>18, <1>21 DEF IndInv

LEMMA StepOK == IndInv /\ [Next]_vars => IndInv'
<1> SUFFICES ASSUME IndInv, [Next]_vars PROVE IndInv'
  OBVIOUS
<1>1. CountersOK'
  <2>1. CountersOK
    BY DEF IndInv, TypeOK, CountersOK
  <2> QED BY <2>1, CountersStep
<1>2. CASE UNCHANGED vars
  <2>1. JobOK' /\ job'.pc = job.pc /\ UNCHANGED <<registry, fossa, web, decided, doubtful>>
    BY <1>2, JobFrame DEF IndInv, vars, registry, fossa, history
  <2> QED BY <1>1, <2>1, TablesFrame DEF IndInv, TypeOK
<1>3. CASE Import
  BY <1>1, <1>3, RunStepOK, ImportRowOK, StaffRowOK, FossaUserOK, TeamsOK, LinkTeamOK DEF Import
<1>4. CASE Abort \/ EditSheet
  BY <1>1, <1>4, RunStepOK
<1>5. CASE EditMaintainer \/ EditEmail \/ MergeCompanies \/ CreateProject
  BY <1>1, <1>5, EditMaintainerOK, EditEmailOK, MergeCompaniesOK, CreateProjectOK
<1>6. CASE AddLook \/ AddCommit \/ AddWithinRow
  BY <1>1, <1>6, AddLookOK, AddCommitOK, AddWithinRowOK
<1> QED BY <1>2, <1>3, <1>4, <1>5, <1>6 DEF Next

LEMMA IndInvHolds == Spec => []IndInv
BY InitOK, StepOK, PTL DEF Spec

\* The tables stay well formed: memberships and links refer to rows that are
\* there, and staff to foundations, whatever fails and is edited meanwhile.
THEOREM TypeCorrect == Spec => []TypeOK
<1>1. IndInv => TypeOK
  BY DEF IndInv
<1> QED BY <1>1, IndInvHolds, PTL

\* FirstOrCreate by email: runs, edits and additions on the web, in whatever
\* order, take back no company that staff decided on and give no email a second
\* row, but an email that was set on the web, and one that a run and an addition
\* that overlap both insert.
THEOREM PeopleKeepTheirRows == Spec => []PeopleStand
<1>1. IndInv => PeopleStand
  BY DEF IndInv, DecidedOK
<1> QED BY <1>1, IndInvHolds, PTL

\* The parent that is looked up before the transaction of a row is there when
\* the row is imported: no project becomes its own ancestor.
THEOREM ParentsAreAForest == Spec => []ParentsFormAForest
<1>1. IndInv => ParentsFormAForest
  BY DEF IndInv, ParentsOK
<1> QED BY <1>1, IndInvHolds, PTL
-----------------------------------------------------------------------------
(***************************************************************************)
(* A second layer on top of IndInv: what a run without faults and edits    *)
(* has brought in so far, and what is left to do for one that repeats it.  *)
(***************************************************************************)
\* The maintainer whom the import finds for the row is on its project.
Listed(r) ==
  \E k \in DOMAIN maintainers :
    /\ maintainers[k].email = r.email /\ <<k, r.project>> \in members
    /\ \A j \in DOMAIN maintainers : maintainers[j].email = r.email => k <= j

\* A usable row of the worksheet Active is in the registry.
RowIn(r) ==
  /\ r.project # Blank /\ r.status \in Maturities
  /\ r.email # Blank /\ ~Deleted(r.company)
  => Listed(r)

\* The transaction of the row changes nothing, or fails again.
RowStands(r) ==
  r.project # Blank /\ (r.email = Blank \/ ~Deleted(r.company)) =>
    /\ r.project \in DOMAIN projects
    /\ r.email # Blank =>
         /\ Listed(r)
         /\ r.company # Blank => r.company \in DOMAIN companies /\ companies[r.company]

RowsThrough(rows, S) ==
  \A i \in S : RowIn(rows[i]) /\ (InOrder(sheet) => RowStands(rows[i]))

\* The rows of a worksheet that the run is through with.
Passed == {i \in DOMAIN job.rows : i < job.at}

Whole(rows, S) == {i \in S : rows[i].foundation # Blank /\ rows[i].email # Blank}

\* The staff st are as their last complete row among S has it.
StaffAs(st, rows, S) ==
  \A i \in Whole(rows, S) :
    /\ rows[i].email \in DOMAIN st /\ rows[i].foundation \in foundations
    /\ (\A j \in Whole(rows, S) : rows[j].email = rows[i].email => j <= i) =>
         st[rows[i].email] = [name |-> rows[i].name, foundation |-> rows[i].foundation]

UserKnown(e) == e \in serviceUsers /\ (~Registered(e) => e \in Range(collaborators))
TeamsMade(u) == Range(TeamsCreated(u.teams)) \subseteq serviceTeams

UserIn(u) ==
  /\ UserKnown(u.email) /\ TeamsMade(u)
  /\ Range(u.teams) \subseteq DOMAIN projects => Linked(u, Len(u.teams))

ActiveProgress ==
  /\ job.pc \in {"parent", "row"} =>
       job.rows = ActiveRows(sheet) /\ RowsThrough(job.rows, Passed)
  /\ job.pc = "row" =>
       job.parent = IF Row.parent \in DOMAIN projects THEN Row.parent ELSE Blank
  /\ job.pc \in {"staff", "user", "teams", "link", "done"} =>
       RowsThrough(ActiveRows(sheet), DOMAIN ActiveRows(sheet))

StaffProgress ==
  /\ job.pc = "staff" => job.rows = StaffRows(sheet) /\ StaffAs(staff, job.rows, Passed)
  /\ job.pc \in {"user", "teams", "link", "done"} =>
       StaffAs(staff, StaffRows(sheet), DOMAIN StaffRows(sheet))

FossaProgress ==
  /\ job.pc \in {"user", "teams", "link"} =>
       \A n \in DOMAIN FossaUsers : n < job.at => UserIn(FossaUsers[n])
  /\ job.pc \in {"teams", "link"} =>
       UserKnown(User.email) /\ job.owner = RightOwner(User.email)
  /\ job.pc = "link" => TeamsMade(User) /\ Linked(User, job.team - 1)
  /\ job.pc = "done" => \A n \in DOMAIN FossaUsers : UserIn(FossaUsers[n])

Progress == clean => ActiveProgress /\ StaffProgress /\ FossaProgress

\* The tables but for the staff are the settled ones, and the staff st of those
\* come back with the rows that are left.
StaffReturn(st) ==
  LET rows == StaffRows(sheet)
  IN  /\ st = [e \in DOMAIN staff |-> st[e]]
      /\ StaffAs(st, rows, DOMAIN rows)
      /\ \A e \in DOMAIN staff :
           \/ staff[e] = st[e]
           \/ job.pc = "staff" /\ \E i \in Whole(rows, DOMAIN rows) :
                                    i >= job.at /\ rows[i].email = e

SettledWith(st) ==
  settled = << <<projects, companies, people, foundations, st>>,
               serviceUsers, serviceTeams, collaborators >>

SettledOK ==
  settled # <<>> =>
    /\ clean
    /\ InOrder(sheet) =>
         /\ \A i \in DOMAIN ActiveRows(sheet) : RowStands(ActiveRows(sheet)[i])
         /\ \A n \in DOMAIN FossaUsers :
              UserKnown(FossaUsers[n].email) /\ TeamsMade(FossaUsers[n])
         /\ \E st : SettledWith(st) /\ StaffReturn(st)

\* The keyed tables are functions.
FunctionsOK ==
  /\ projects = [p \in DOMAIN projects |-> projects[p]]
  /\ companies = [c \in DOMAIN companies |-> companies[c]]
  /\ staff = [e \in DOMAIN staff |-> staff[e]]

\* What a step without faults may do to the registry: no project, maintainer or
\* membership goes away, and a company is neither merged away nor brought back.
Grow ==
  /\ UNCHANGED sheet
  /\ DOMAIN projects \subseteq DOMAIN projects'
  /\ \A c \in DOMAIN companies : c \in DOMAIN companies' /\ companies'[c] = companies[c]
  /\ \A c \in DOMAIN companies' \ DOMAIN companies : companies'[c] = TRUE
  /\ DOMAIN maintainers \subseteq DOMAIN maintainers'
  /\ \A k \in DOMAIN maintainers : maintainers'[k] = maintainers[k]
  /\ \A k \in DOMAIN maintainers, j \in DOMAIN maintainers' : j \in DOMAIN maintainers \/ k <= j
  /\ members \subseteq members'

LEMMA DeletedStays ==
  ASSUME Grow, NEW c
  PROVE  Deleted(c)' <=> Deleted(c)
BY DEF Grow, Deleted

LEMMA InOrderStays ==
  ASSUME Grow
  PROVE  InOrder(sheet)' <=> InOrder(sheet)
<1>1. \A c : Deleted(c)' <=> Deleted(c)
  BY DeletedStays
<1>2. sheet' = sheet
  BY DEF Grow
<1> QED BY <1>1, <1>2 DEF InOrder

\* What is in stays in.
LEMMA RowStays ==
  ASSUME Grow, NEW r
  PROVE  /\ RowIn(r) => RowIn(r)'
         /\ RowStands(r) => RowStands(r)'
<1>1. Deleted(r.company)' <=> Deleted(r.company)
  BY DeletedStays
<1>2. ASSUME Listed(r) PROVE Listed(r)'
  <2>1. PICK k \in DOMAIN maintainers :
          /\ maintainers[k].email = r.email /\ <<k, r.project>> \in members
          /\ \A j \in DOMAIN maintainers : maintainers[j].email = r.email => k <= j
    BY <1>2 DEF Listed
  <2>2. k \in DOMAIN maintainers' /\ maintainers'[k].email = r.email /\ <<k, r.project>> \in members'
    BY <2>1 DEF Grow
  <2>3. ASSUME NEW j \in DOMAIN maintainers', maintainers'[j].email = r.email PROVE k <= j
    BY <2>1, <2>3 DEF Grow
  <2> QED BY <2>2, <2>3 DEF Listed
<1>3. RowIn(r) => RowIn(r)'
  BY <1>1, <1>2 DEF RowIn
<1>4. r.company \in DOMAIN companies /\ companies[r.company] =>
        r.company \in DOMAIN companies' /\ companies'[r.company]
  BY DEF Grow
<1>5. r.project \in DOMAIN projects => r.project \in DOMAIN projects'
  BY DEF Grow
<1>6. RowStands(r) => RowStands(r)'
  BY <1>1, <1>2, <1>4, <1>5 DEF RowStands
<1> QED BY <1>3, <1>6

LEMMA RowsThroughStay ==
  ASSUME Grow, NEW rows, NEW S, RowsThrough(rows, S)
  PROVE  RowsThrough(rows, S)'
<1>1. InOrder(sheet)' <=> InOrder(sheet)
  BY InOrderStays
<1> SUFFICES ASSUME NEW i \in S
             PROVE  RowIn(rows[i])' /\ (InOrder(sheet)' => RowStands(rows[i])')
  BY DEF RowsThrough
<1>2. PICK r : r = rows[i]
  OBVIOUS
<1>3. RowIn(r) /\ (InOrder(sheet) => RowStands(r))
  BY <1>2 DEF RowsThrough
<1>4. RowIn(r)' /\ (InOrder(sheet)' => RowStands(r)')
  BY <1>1, <1>3, RowStays
<1> QED BY <1>2, <1>4

\* After a fault or an edit nothing is claimed.
LEMMA DisturbedOK ==
  ASSUME clean' = FALSE, settled' = <<>>
  PROVE  Progress' /\ SettledOK'
BY DEF Progress, SettledOK

\* A repeated run that leaves the tables alone.
LEMMA SettledFrame ==
  ASSUME SettledOK, job.pc # "staff", UNCHANGED <<sheet, tables, settled>>,
         clean => clean'
  PROVE  SettledOK'
<1>0. UNCHANGED <<projects, companies, maintainers, members, people, foundations, staff,
                  serviceUsers, serviceTeams, collaborators>>
  BY DEF tables, registry, people
<1> SUFFICES ASSUME settled' # <<>>
             PROVE  /\ clean'
                    /\ InOrder(sheet)' =>
                        /\ \A i \in DOMAIN ActiveRows(sheet) : RowStands(ActiveRows(sheet)[i])'
                        /\ \A n \in DOMAIN FossaUsers :
                             UserKnown(FossaUsers[n].email)' /\ TeamsMade(FossaUsers[n])'
                        /\ \E st : SettledWith(st)' /\ StaffReturn(st)'
  BY <1>0 DEF SettledOK
<1>1. settled # <<>> /\ clean
  BY DEF SettledOK
<1>2. CASE InOrder(sheet)'
  <2>1. InOrder(sheet)
    BY <1>0, <1>2 DEF InOrder, Deleted
  <2>2. \A i \in DOMAIN ActiveRows(sheet) : RowStands(ActiveRows(sheet)[i])
    BY <1>1, <2>1 DEF SettledOK
  <2>3. \A n \in DOMAIN FossaUsers :
          UserKnown(FossaUsers[n].email) /\ TeamsMade(FossaUsers[n])
    BY <1>1, <2>1 DEF SettledOK
  <2>4. PICK st : SettledWith(st) /\ StaffReturn(st)
    BY <1>1, <2>1 DEF SettledOK
  <2>5. ASSUME NEW i \in DOMAIN ActiveRows(sheet) PROVE RowStands(ActiveRows(sheet)[i])'
    BY <1>0, <2>2 DEF RowStands, Listed, Deleted
  <2>6. ASSUME NEW n \in DOMAIN FossaUsers
        PROVE  UserKnown(FossaUsers[n].email)' /\ TeamsMade(FossaUsers[n])'
    BY <1>0, <2>3 DEF UserKnown, TeamsMade, Registered, TeamsCreated
  <2>7. SettledWith(st)'
    BY <1>0, <2>4 DEF SettledWith
  <2>8. StaffReturn(st)'
    <3>1. st = [e \in DOMAIN staff |-> st[e]] /\ \A e \in DOMAIN staff : staff[e] = st[e]
      BY <2>4 DEF StaffReturn
    <3>2. StaffAs(st, StaffRows(sheet), DOMAIN StaffRows(sheet))
      BY <2>4 DEF StaffReturn
    <3>3. StaffAs(st, StaffRows(sheet), DOMAIN StaffRows(sheet))'
      BY <1>0, <3>2 DEF StaffAs, Whole
    <3> QED BY <1>0, <3>1, <3>3 DEF StaffReturn
  <2> QED BY <1>1, <2>5, <2>6, <2>7, <2>8
<1> QED BY <1>1, <1>2

LEMMA OverIsFunction ==
  ASSUME NEW f, NEW g
  PROVE  Over(f, g) = [x \in DOMAIN Over(f, g) |-> Over(f, g)[x]]
BY DEF Over

LEMMA FunctionsStep ==
  ASSUME FunctionsOK, [Next]_vars
  PROVE  FunctionsOK'
<1>1. \/ UNCHANGED projects
      \/ \E f, g : projects' = Over(f, g)
  BY DEF Next, vars, registry, Import, Start, ReadActive, LookupParent, SkipRow, ImportRow,
     RowFails, ReadStaff, StaffRow, FetchFossaData, FossaUser, CreateServiceTeamsForUser, LinkTeam,
     Finish, Leave, Abort, EditSheet, EditMaintainer, EditEmail, MergeCompanies, CreateProject,
     AddLook, AddCommit, AddWithinRow, ProjectsAfter
<1>2. \/ UNCHANGED companies
      \/ \E f, g : companies' = Over(f, g)
      \/ \E c : companies' = [companies EXCEPT ![c] = FALSE]
  BY DEF Next, vars, registry, Import, Start, ReadActive, LookupParent, SkipRow, ImportRow,
     RowFails, ReadStaff, StaffRow, FetchFossaData, FossaUser, CreateServiceTeamsForUser, LinkTeam,
     Finish, Leave, Abort, EditSheet, EditMaintainer, EditEmail, MergeCompanies, CreateProject,
     AddLook, AddCommit, AddWithinRow, CompaniesAfter
<1>3. \/ UNCHANGED staff
      \/ \E f, g : staff' = Over(f, g)
  BY DEF Next, vars, registry, Import, Start, ReadActive, LookupParent, SkipRow, ImportRow,
     RowFails, ReadStaff, StaffRow, FetchFossaData, FossaUser, CreateServiceTeamsForUser, LinkTeam,
     Finish, Leave, Abort, EditSheet, EditMaintainer, EditEmail, MergeCompanies, CreateProject,
     AddLook, AddCommit, AddWithinRow, UpsertStaff
<1>4. projects' = [p \in DOMAIN projects' |-> projects'[p]]
  BY <1>1, OverIsFunction DEF FunctionsOK
<1>5. companies' = [c \in DOMAIN companies' |-> companies'[c]]
  <2>1. CASE \E c : companies' = [companies EXCEPT ![c] = FALSE]
    BY <2>1 DEF FunctionsOK
  <2> QED BY <1>2, <2>1, OverIsFunction DEF FunctionsOK
<1>6. staff' = [e \in DOMAIN staff' |-> staff'[e]]
  BY <1>3, OverIsFunction DEF FunctionsOK
<1> QED BY <1>4, <1>5, <1>6 DEF FunctionsOK

\* Among the rows a run is through with is, after a step, the row at hand too.
LEMMA PassedStep ==
  ASSUME JobOK, MoreRows, job.pc \in {"parent", "row", "staff"},
         job'.rows = job.rows, job'.at = Min(RowsLeft) + 1
  PROVE  Passed' = Passed \cup {Min(RowsLeft)}
<1> DEFINE m == Min(RowsLeft)
<1>1. m \in Nat /\ m \in DOMAIN job.rows /\ m >= job.at /\ \A i \in RowsLeft : m <= i
  BY RowTyped
<1>2. DOMAIN job.rows \subseteq Nat
  <2>1. CASE job.pc \in {"parent", "row"}
    BY <2>1, ActiveRowsTyped DEF JobOK
  <2>2. CASE job.pc = "staff"
    BY <2>2, StaffRowsTyped DEF JobOK
  <2> QED BY <2>1, <2>2
<1>3. job.at \in Nat
  BY DEF JobOK
<1>4. Passed' = {i \in DOMAIN job.rows : i < m + 1}
  BY DEF Passed
<1> HIDE DEF m
<1>5. ASSUME NEW i \in DOMAIN job.rows PROVE i < m + 1 <=> (i < job.at \/ i = m)
  <2>1. i \in Nat /\ (i >= job.at => m <= i)
    BY <1>1, <1>2 DEF RowsLeft
  <2> QED BY <1>1, <1>3, <2>1
<1>6. Passed' = Passed \cup {m}
  BY <1>1, <1>4, <1>5 DEF Passed
<1> QED BY <1>6 DEF m

\* Between the rows and the parts of a run, where the tables stay as they are.
LEMMA SameTables ==
  ASSUME UNCHANGED <<sheet, registry>>
  PROVE  Grow
BY DEF Grow, registry, people
-----------------------------------------------------------------------------
\* The worksheet Active.

\* The run is through with the row at hand.
LEMMA RowDone ==
  ASSUME IndInv, Progress, clean, job.pc \in {"parent", "row"}, MoreRows, job' = NextRow, Grow,
         NEW r, r = Row, RowIn(r)', InOrder(sheet) => RowStands(r)'
  PROVE  Progress'
<1>0. JobOK /\ ActiveProgress
  BY DEF IndInv, Progress
<1>1. PICK m \in Nat : m = Min(RowsLeft) /\ m \in DOMAIN job.rows
  BY <1>0, RowTyped
<1>2. job' = [pc |-> "parent", at |-> m + 1, parent |-> Blank, team |-> job.team,
              owner |-> job.owner, rows |-> job.rows]
  BY <1>0, <1>1 DEF JobOK, NextRow
<1>3. job'.pc = "parent" /\ job'.rows = job.rows /\ job'.at = Min(RowsLeft) + 1
  BY <1>1, <1>2
<1>4. Passed' = Passed \cup {m}
  BY <1>0, <1>1, <1>3, PassedStep
<1>5. PICK rows, S : rows = job.rows /\ S = Passed
  OBVIOUS
<1>6. rows = ActiveRows(sheet) /\ RowsThrough(rows, S)
  BY <1>0, <1>5 DEF ActiveProgress
<1>7. RowsThrough(rows, S)'
  BY <1>6, RowsThroughStay
<1>8. rows[m] = r
  BY <1>1, <1>5 DEF Row
<1>9. InOrder(sheet)' <=> InOrder(sheet)
  BY InOrderStays
<1>10. RowsThrough(rows, S \cup {m})'
  <2>1. ASSUME NEW i \in S \cup {m}
        PROVE  RowIn(rows[i])' /\ (InOrder(sheet)' => RowStands(rows[i])')
    <3>1. CASE i \in S
      BY <1>7, <3>1 DEF RowsThrough
    <3>2. CASE i = m
      BY <1>8, <1>9, <3>2
    <3> QED BY <3>1, <3>2
  <2> QED BY <2>1 DEF RowsThrough
<1>11. RowsThrough(job.rows, Passed)'
  <2>1. job'.rows = rows /\ Passed' = S \cup {m}
    BY <1>3, <1>4, <1>5
  <2> QED BY <1>10, <2>1 DEF RowsThrough
<1>12. job'.rows = ActiveRows(sheet)'
  BY <1>3, <1>5, <1>6 DEF Grow
<1> QED BY <1>3, <1>11, <1>12 DEF Progress, ActiveProgress, StaffProgress, FossaProgress

\* If every parent stands above its project, the project of a row can be stored.
LEMMA ProjectFits ==
  ASSUME IndInv, Progress, clean, job.pc = "row", InOrder(sheet)
  PROVE  ~ProjectFails
<1>0. JobOK /\ ActiveProgress /\ TypeOK
  BY DEF IndInv, Progress
<1>1. MoreRows /\ Row.project # Blank
  BY <1>0 DEF JobOK
<1>2. PICK m \in Nat : m = Min(RowsLeft) /\ m \in DOMAIN job.rows /\ \A i \in RowsLeft : m <= i
  BY <1>0, <1>1, RowTyped
<1>3. PICK rows : rows = job.rows /\ rows = ActiveRows(sheet) /\ RowsThrough(rows, Passed)
  BY <1>0 DEF ActiveProgress
<1>4. PICK r : r = Row /\ r = rows[m]
  BY <1>2, <1>3 DEF Row
<1>5. job.parent = IF r.parent \in DOMAIN projects THEN r.parent ELSE Blank
  BY <1>0, <1>4 DEF ActiveProgress
<1>6. Blank \notin DOMAIN projects
  BY <1>0, BlankAssumption DEF TypeOK
<1>7. CASE r.parent = Blank
  <2>1. r.status \in Maturities
    BY <1>1, <1>2, <1>3, <1>4, <1>7 DEF InOrder
  <2> QED BY <1>4, <1>5, <1>6, <1>7, <2>1 DEF ProjectFails, NewProject
<1>8. CASE r.parent # Blank
  <2>1. PICK k \in DOMAIN rows : /\ k < m /\ rows[k].project = r.parent
                                 /\ rows[k].email = Blank \/ ~Deleted(rows[k].company)
    BY <1>1, <1>2, <1>3, <1>4, <1>8 DEF InOrder
  <2>2. k \in Passed
    <3>1. k \in Nat /\ job.at \in Nat
      BY <1>0, <1>3, ActiveRowsTyped DEF JobOK, TypeOK
    <3> QED BY <1>2, <1>3, <2>1, <3>1 DEF Passed, RowsLeft
  <2>3. RowStands(rows[k])
    BY <1>3, <2>2 DEF RowsThrough
  <2>4. r.parent \in DOMAIN projects
    BY <1>8, <2>1, <2>3 DEF RowStands
  <2>5. projects[job.parent].maturity \in Maturities /\ job.parent # Blank
    BY <1>0, <1>5, <1>8, <2>4 DEF TypeOK
  <2> QED BY <2>5 DEF ProjectFails, NewProject
<1> QED BY <1>7, <1>8

LEMMA SkipRowProgress ==
  ASSUME IndInv, Progress, SkipRow, clean
  PROVE  Progress'
<1>1. PICK r : r = Row
  OBVIOUS
<1>2. r.project = Blank /\ UNCHANGED <<sheet, registry>>
  BY <1>1 DEF SkipRow, Kept
<1>3. RowIn(r)' /\ RowStands(r)'
  BY <1>2 DEF RowIn, RowStands
<1>4. Grow
  BY <1>2, SameTables
<1> QED BY <1>1, <1>3, <1>4, RowDone DEF SkipRow

LEMMA RowFailsProgress ==
  ASSUME IndInv, Progress, RowFails, NoFault, clean,
         ProjectFails \/ (Row.email # Blank /\ CompanyFails)
  PROVE  Progress'
<1>0. JobOK /\ TypeOK /\ job.pc = "row" /\ MoreRows
  BY DEF IndInv, JobOK, RowFails
<1>1. PICK r : r = Row
  OBVIOUS
<1>2. UNCHANGED <<sheet, registry>> /\ UNCHANGED <<projects, companies>>
  BY DEF RowFails, Kept, registry
<1>3. Grow
  BY <1>2, SameTables
<1>4. CompanyFails <=> Deleted(r.company)
  BY <1>1 DEF CompanyFails, Deleted
<1>5. ProjectFails => r.status \notin Maturities
  <2>1. job.parent # Blank => projects[job.parent].maturity \in Maturities
    BY <1>0 DEF JobOK, TypeOK
  <2> QED BY <1>1, <2>1 DEF ProjectFails, NewProject
<1>6. Deleted(r.company)' <=> Deleted(r.company)
  BY <1>3, DeletedStays
<1>7. RowIn(r)'
  BY <1>1, <1>4, <1>5, <1>6 DEF RowIn
<1>8. InOrder(sheet) => RowStands(r)'
  BY <1>0, <1>1, <1>4, <1>6, ProjectFits DEF RowStands
<1> QED BY <1>0, <1>1, <1>3, <1>7, <1>8, RowDone DEF RowFails

\* What the transaction of a row does to the people.
LEMMA PersonBrought ==
  ASSUME IndInv, ImportRow, NEW r, r = Row, r.email # Blank
  PROVE  /\ DOMAIN maintainers \subseteq DOMAIN maintainers'
         /\ \A k \in DOMAIN maintainers : maintainers'[k] = maintainers[k]
         /\ \A k \in DOMAIN maintainers, j \in DOMAIN maintainers' : j \in DOMAIN maintainers \/ k <= j
         /\ \E k \in DOMAIN maintainers' :
              /\ maintainers'[k].email = r.email /\ members' = members \cup {<<k, r.project>>}
              /\ \A j \in DOMAIN maintainers' : maintainers'[j].email = r.email => k <= j
              /\ (\E j \in DOMAIN maintainers : maintainers[j].email = r.email)
                   => k \in DOMAIN maintainers /\ maintainers' = maintainers
<1> DEFINE M == [email : Emails \cup {Missing}, company : Companies \cup {Blank}]
<1>0. TypeOK /\ JobOK /\ maintainers \in Seq(M)
  BY DEF IndInv, TypeOK
<1>1. r \in ActiveRow
  <2>1. job.pc = "row" /\ MoreRows
    BY <1>0 DEF ImportRow, JobOK
  <2> QED BY <1>0, <2>1, RowTyped
<1>2. PICK e \in Emails, c \in Companies \cup {Blank} : e = r.email /\ c = r.company
  BY <1>1 DEF ActiveRow
<1> DEFINE found == {i \in DOMAIN maintainers : maintainers[i].email = e}
<1>3. PICK new \in M : new = [email |-> e, company |-> c]
  OBVIOUS
<1>4. new.email = e
  BY <1>3
<1>5. /\ maintainers' = IF found = {} THEN Append(maintainers, new) ELSE maintainers
      /\ members' = members \cup
           {<<IF found = {} THEN Len(Append(maintainers, new)) ELSE Min(found), r.project>>}
  BY <1>2, <1>3 DEF ImportRow, AddMaintainer, WithEmail, FoundAsIs
<1> HIDE DEF M
<1>6. CASE found = {}
  <2>1. /\ DOMAIN maintainers = 1..Len(maintainers) /\ Len(maintainers) \in Nat
        /\ maintainers' = Append(maintainers, new) /\ Len(maintainers') = Len(maintainers) + 1
        /\ DOMAIN maintainers' = 1..Len(maintainers) + 1
        /\ \A i \in 1..Len(maintainers) : maintainers'[i] = maintainers[i]
        /\ maintainers'[Len(maintainers) + 1] = new
    BY <1>0, <1>3, <1>5, <1>6
  <2>2. PICK k \in DOMAIN maintainers' : k = Len(maintainers) + 1
    BY <2>1
  <2>3. maintainers'[k].email = r.email /\ members' = members \cup {<<k, r.project>>}
    BY <1>2, <1>4, <1>5, <1>6, <2>1, <2>2
  <2>4. /\ DOMAIN maintainers \subseteq DOMAIN maintainers'
        /\ \A n \in DOMAIN maintainers, j \in DOMAIN maintainers' : j \in DOMAIN maintainers \/ n <= j
    BY <2>1
  <2>5. ASSUME NEW j \in DOMAIN maintainers', maintainers'[j].email = r.email PROVE k <= j
    <3>1. j \notin DOMAIN maintainers
      BY <1>2, <1>6, <2>1, <2>5
    <3> QED BY <2>1, <2>2, <3>1
  <2> QED BY <1>2, <1>6, <2>1, <2>3, <2>4, <2>5
<1>7. CASE found # {}
  <2>1. found \in SUBSET Nat
    BY <1>0
  <2>2. PICK k \in found : k = Min(found) /\ \A j \in found : k <= j
    BY <1>7, <2>1, LeastNatural
  <2> QED BY <1>2, <1>5, <1>7, <2>2
<1> QED BY <1>6, <1>7

LEMMA ImportRowGrows ==
  ASSUME IndInv, ImportRow, NEW r, r = Row
  PROVE  Grow /\ RowIn(r)' /\ RowStands(r)'
<1>0. TypeOK /\ JobOK
  BY DEF IndInv
<1>1. DOMAIN projects' = DOMAIN projects \cup {r.project} /\ UNCHANGED sheet
  BY DEF ImportRow, ProjectsAfter, Over, Fn, Kept
<1>2. CASE r.email = Blank
  <2>1. UNCHANGED <<companies, maintainers, members>>
    BY <1>2 DEF ImportRow, people
  <2>2. Grow
    BY <1>1, <2>1 DEF Grow
  <2> QED BY <1>1, <1>2, <2>2 DEF RowIn, RowStands
<1>3. CASE r.email # Blank
  <2>1. PICK k \in DOMAIN maintainers' :
          /\ maintainers'[k].email = r.email /\ members' = members \cup {<<k, r.project>>}
          /\ \A j \in DOMAIN maintainers' : maintainers'[j].email = r.email => k <= j
    BY <1>3, PersonBrought
  <2>2. /\ DOMAIN maintainers \subseteq DOMAIN maintainers'
        /\ \A j \in DOMAIN maintainers : maintainers'[j] = maintainers[j]
        /\ \A n \in DOMAIN maintainers, j \in DOMAIN maintainers' : j \in DOMAIN maintainers \/ n <= j
    BY <1>3, PersonBrought
  <2>3. Listed(r)'
    BY <2>1 DEF Listed
  <2>4. /\ \A c \in DOMAIN companies : c \in DOMAIN companies' /\ companies'[c] = companies[c]
        /\ \A c \in DOMAIN companies' \ DOMAIN companies : companies'[c] = TRUE
        /\ r.company # Blank => r.company \in DOMAIN companies' /\ companies'[r.company]
    <3>1. companies' = IF r.company = Blank THEN companies
                       ELSE Over(companies, Fn(r.company, TRUE))
      BY <1>3 DEF ImportRow, CompaniesAfter
    <3>2. CASE r.company = Blank
      BY <3>1, <3>2
    <3>3. CASE r.company # Blank
      <4>1. /\ DOMAIN companies' = DOMAIN companies \cup {r.company}
            /\ companies'[r.company] = TRUE
            /\ \A c \in DOMAIN companies : c # r.company => companies'[c] = companies[c]
        BY <3>1, <3>3 DEF Over, Fn
      <4>2. r.company \in DOMAIN companies => companies[r.company] = TRUE
        BY <1>0, <1>3 DEF ImportRow, CompanyFails, TypeOK
      <4> QED BY <4>1, <4>2
    <3> QED BY <3>2, <3>3
  <2>5. Grow
    BY <1>1, <2>1, <2>2, <2>4 DEF Grow
  <2> QED BY <1>1, <2>3, <2>4, <2>5 DEF RowIn, RowStands
<1> QED BY <1>2, <1>3

\* A row that stands is imported again without effect.
LEMMA ImportRowIdles ==
  ASSUME IndInv, FunctionsOK, ImportRow, NEW r, r = Row, RowStands(r)
  PROVE  UNCHANGED <<sheet, tables>>
<1>0. TypeOK /\ JobOK /\ DOMAIN maintainers \subseteq Nat
  BY DEF IndInv, TypeOK
<1>1. r.project # Blank
  BY <1>0 DEF ImportRow, JobOK
<1>2. r.email = Blank \/ ~Deleted(r.company)
  BY DEF ImportRow, CompanyFails, Deleted
<1>3. r.project \in DOMAIN projects
  BY <1>1, <1>2 DEF RowStands
<1>4. projects' = projects
  <2>1. projects' = [x \in DOMAIN projects |-> projects[x]]
    BY <1>3 DEF ImportRow, ProjectsAfter, Over, Fn
  <2> QED BY <2>1 DEF FunctionsOK
<1>5. UNCHANGED <<sheet, foundations, staff, serviceUsers, serviceTeams, collaborators>>
  BY DEF ImportRow, Kept, fossa
<1>6. UNCHANGED <<companies, people>>
  <2>1. CASE r.email = Blank
    BY <2>1 DEF ImportRow
  <2>2. CASE r.email # Blank
    <3>1. PICK k \in DOMAIN maintainers :
            /\ maintainers[k].email = r.email /\ <<k, r.project>> \in members
            /\ \A j \in DOMAIN maintainers : maintainers[j].email = r.email => k <= j
      BY <1>1, <1>2, <2>2 DEF RowStands, Listed
    <3>2. PICK i \in DOMAIN maintainers' :
            /\ maintainers'[i].email = r.email /\ members' = members \cup {<<i, r.project>>}
            /\ \A j \in DOMAIN maintainers' : maintainers'[j].email = r.email => i <= j
            /\ (\E j \in DOMAIN maintainers : maintainers[j].email = r.email)
                 => i \in DOMAIN maintainers /\ maintainers' = maintainers
      BY <2>2, PersonBrought
    <3>3. i = k /\ maintainers' = maintainers
      <4>1. i \in DOMAIN maintainers /\ maintainers' = maintainers
        BY <3>1, <3>2
      <4>2. i <= k /\ k <= i /\ i \in Nat /\ k \in Nat
        BY <1>0, <3>1, <3>2, <4>1
      <4> QED BY <4>1, <4>2
    <3>4. members' = members
      BY <3>1, <3>2, <3>3
    <3>5. r.company # Blank => r.company \in DOMAIN companies /\ companies[r.company]
      BY <1>1, <1>2, <2>2 DEF RowStands
    <3>6. r.company \in DOMAIN companies => companies[r.company] \in BOOLEAN
      BY <1>0 DEF TypeOK
    <3>7. companies' = companies
      <4>1. companies' = IF r.company = Blank THEN companies
                         ELSE Over(companies, Fn(r.company, TRUE))
        BY <2>2 DEF ImportRow, CompaniesAfter
      <4>2. CASE r.company # Blank
        <5>1. companies' = [c \in DOMAIN companies |-> companies[c]]
          BY <3>5, <3>6, <4>1, <4>2 DEF Over, Fn
        <5> QED BY <5>1 DEF FunctionsOK
      <4> QED BY <4>1, <4>2
    <3> QED BY <3>3, <3>4, <3>7 DEF people
  <2> QED BY <2>1, <2>2
<1> QED BY <1>4, <1>5, <1>6 DEF tables, registry

LEMMA ImportRowProgress ==
  ASSUME IndInv, Progress, SettledOK, FunctionsOK, ImportRow
  PROVE  Progress' /\ SettledOK'
<1>0. JobOK /\ job.pc = "row" /\ MoreRows /\ job' = NextRow /\ NoFault
  BY DEF IndInv, JobOK, ImportRow
<1>1. PICK r : r = Row
  OBVIOUS
<1>2. Grow /\ RowIn(r)' /\ RowStands(r)'
  BY <1>1, ImportRowGrows
<1>3. clean' = clean /\ settled' = settled
  BY <1>0 DEF NoFault
<1>4. Progress'
  <2>1. CASE clean
    BY <1>0, <1>1, <1>2, <2>1, RowDone
  <2>2. CASE ~clean
    BY <1>3, <2>2 DEF Progress
  <2> QED BY <2>1, <2>2
<1>5. SettledOK'
  <2>1. CASE settled # <<>> /\ InOrder(sheet)
    <3>1. clean /\ \A i \in DOMAIN ActiveRows(sheet) : RowStands(ActiveRows(sheet)[i])
      BY <2>1 DEF SettledOK
    <3>2. job.rows = ActiveRows(sheet)
      BY <1>0, <3>1 DEF Progress, ActiveProgress
    <3>3. RowStands(r)
      BY <1>0, <1>1, <3>1, <3>2, RowTyped DEF Row
    <3>4. UNCHANGED <<sheet, tables>>
      BY <1>1, <3>3, ImportRowIdles
    <3> QED BY <1>0, <1>3, <3>4, SettledFrame
  <2>2. CASE settled # <<>> /\ ~InOrder(sheet)
    <3>1. ~InOrder(sheet)'
      BY <1>2, <2>2, InOrderStays
    <3> QED BY <1>3, <2>2, <3>1 DEF SettledOK
  <2>3. CASE settled = <<>>
    BY <1>3, <2>3 DEF SettledOK
  <2> QED BY <2>1, <2>2, <2>3
<1> QED BY <1>4, <1>5

\* Without a row left everything has been passed.
LEMMA PassedAll ==
  ASSUME NEW s \in Sheets, job.at \in Nat, job.rows \in {ActiveRows(s), StaffRows(s)}, ~MoreRows
  PROVE  Passed = DOMAIN job.rows
<1>1. DOMAIN job.rows \subseteq Nat \ {0}
  BY ActiveRowsTyped, StaffRowsTyped
<1> QED BY <1>1 DEF Passed, MoreRows, RowsLeft

LEMMA ReadActiveProgress ==
  ASSUME IndInv, ReadActive
  PROVE  Progress'
<1>1. job' = [pc |-> "parent", at |-> 1, parent |-> Blank, team |-> 0, owner |-> Blank,
              rows |-> ActiveRows(sheet)]
  BY DEF ReadActive, Goto, Idle
<1>2. sheet' = sheet /\ sheet \in Sheets
  BY DEF IndInv, TypeOK, ReadActive, Kept
<1>3. job'.pc = "parent" /\ job'.at = 1 /\ job'.rows = ActiveRows(sheet)
  BY <1>1
<1>4. Passed' = {}
  <2>1. DOMAIN job'.rows \subseteq Nat \ {0}
    BY <1>2, <1>3, ActiveRowsTyped
  <2> QED BY <1>3, <2>1 DEF Passed
<1>5. RowsThrough(job.rows, Passed)'
  BY <1>4 DEF RowsThrough
<1> QED BY <1>2, <1>3, <1>5 DEF Progress, ActiveProgress, StaffProgress, FossaProgress

LEMMA LookupParentProgress ==
  ASSUME IndInv, Progress, clean, LookupParent,
         NEW q, q = IF Row.parent \in DOMAIN projects THEN Row.parent ELSE Blank,
         job' = [pc |-> "row", at |-> job.at, parent |-> q, team |-> job.team,
                 owner |-> job.owner, rows |-> job.rows]
  PROVE  Progress'
<1>0. JobOK /\ ActiveProgress /\ job.pc = "parent"
  BY DEF IndInv, Progress, LookupParent
<1>1. job'.pc = "row" /\ job'.at = job.at /\ job'.rows = job.rows /\ job'.parent = q
  OBVIOUS
<1>2. UNCHANGED <<sheet, registry, projects>>
  BY DEF LookupParent, Kept, registry
<1>3. Passed' = Passed /\ Row' = Row
  BY <1>1 DEF Passed, Row, RowsLeft
<1>4. Grow
  BY <1>2, SameTables
<1>5. PICK rows, S : rows = job.rows /\ S = Passed
  OBVIOUS
<1>6. rows = ActiveRows(sheet) /\ RowsThrough(rows, S)
  BY <1>0, <1>5 DEF ActiveProgress
<1>7. RowsThrough(rows, S)'
  BY <1>4, <1>6, RowsThroughStay
<1>8. RowsThrough(job.rows, Passed)'
  BY <1>1, <1>3, <1>5, <1>7 DEF RowsThrough
<1>9. job'.rows = ActiveRows(sheet)'
  BY <1>1, <1>2, <1>5, <1>6
<1> QED BY <1>1, <1>2, <1>3, <1>8, <1>9
        DEF Progress, ActiveProgress, StaffProgress, FossaProgress

LEMMA ReadStaffProgress ==
  ASSUME IndInv, Progress, clean, ReadStaff
  PROVE  Progress'
<1>0. JobOK /\ ActiveProgress /\ job.pc = "parent" /\ ~MoreRows
  BY DEF IndInv, Progress, ReadStaff
<1>1. job' = [pc |-> "staff", at |-> 1, parent |-> Blank, team |-> 0, owner |-> Blank,
              rows |-> StaffRows(sheet)]
  BY DEF ReadStaff, Goto, Idle
<1>2. job'.pc = "staff" /\ job'.at = 1 /\ job'.rows = StaffRows(sheet)
  BY <1>1
<1>3. UNCHANGED <<sheet, registry>> /\ sheet \in Sheets
  BY DEF IndInv, TypeOK, ReadStaff, Kept
<1>4. Grow
  BY <1>3, SameTables
<1>5. PICK rows : rows = ActiveRows(sheet)
  OBVIOUS
<1>6. job.rows = rows /\ Passed = DOMAIN rows
  <2>1. job.rows = ActiveRows(sheet) /\ job.at \in Nat
    BY <1>0 DEF ActiveProgress, JobOK
  <2> QED BY <1>0, <1>3, <1>5, <2>1, PassedAll
<1>7. RowsThrough(rows, DOMAIN rows)
  BY <1>0, <1>6 DEF ActiveProgress
<1>8. RowsThrough(rows, DOMAIN rows)'
  BY <1>4, <1>7, RowsThroughStay
<1>9. RowsThrough(ActiveRows(sheet), DOMAIN ActiveRows(sheet))'
  BY <1>3, <1>5, <1>8 DEF RowsThrough
<1>10. Passed' = {}
  <2>1. DOMAIN job'.rows \subseteq Nat \ {0}
    BY <1>2, <1>3, StaffRowsTyped
  <2> QED BY <1>2, <2>1 DEF Passed
<1>11. StaffAs(staff, job.rows, Passed)'
  BY <1>10 DEF StaffAs, Whole
<1> QED BY <1>2, <1>3, <1>9, <1>11 DEF Progress, ActiveProgress, StaffProgress, FossaProgress

LEMMA ActiveStepProgress ==
  ASSUME IndInv, Progress, SettledOK,
         Start \/ ReadActive \/ LookupParent \/ SkipRow \/ RowFails \/ ReadStaff \/ Leave
  PROVE  Progress' /\ SettledOK'
<1>0. JobOK /\ job.pc # "staff" /\ UNCHANGED <<sheet, tables>>
  BY DEF IndInv, Start, ReadActive, LookupParent, SkipRow, RowFails, ReadStaff, Leave, Kept, tables,
     fossa
<1>1. CASE Fault
  BY <1>1, DisturbedOK DEF Fault
<1>2. CASE NoFault \/ Start
  <2>1. settled' = settled /\ (clean => clean')
    BY <1>2 DEF NoFault, Start
  <2>2. SettledOK'
    BY <1>0, <2>1, SettledFrame
  <2>3. Progress'
    <3>1. CASE Start
      <4>1. job'.pc = "active"
        BY <3>1 DEF Start, Idle
      <4> QED BY <4>1 DEF Progress, ActiveProgress, StaffProgress, FossaProgress
    <3>2. CASE Leave
      <4>1. job'.pc = "idle"
        BY <3>2 DEF Leave, Idle
      <4> QED BY <4>1 DEF Progress, ActiveProgress, StaffProgress, FossaProgress
    <3>3. CASE NoFault /\ ~clean
      BY <3>3 DEF NoFault, Progress
    <3>4. CASE NoFault /\ clean /\ LookupParent
      <4>1. ~Fault
        BY <3>4 DEF NoFault, Fault
      <4>2. PICK q : q = IF Row.parent \in DOMAIN projects THEN Row.parent ELSE Blank
        OBVIOUS
      <4>3. job' = [job EXCEPT !.pc = "row", !.parent = q]
        BY <3>4, <4>1, <4>2 DEF LookupParent
      <4>4. job' = [pc |-> "row", at |-> job.at, parent |-> q, team |-> job.team,
                    owner |-> job.owner, rows |-> job.rows]
        BY <1>0, <4>3 DEF JobOK
      <4> QED BY <3>4, <4>2, <4>4, LookupParentProgress
    <3>5. CASE NoFault /\ clean /\ RowFails
      <4>1. ~Fault
        BY <3>5 DEF NoFault, Fault
      <4>2. ProjectFails \/ (Row.email # Blank /\ CompanyFails)
        BY <3>5, <4>1 DEF RowFails
      <4> QED BY <3>5, <4>2, RowFailsProgress
    <3>6. CASE NoFault /\ clean /\ SkipRow
      BY <3>6, SkipRowProgress
    <3>7. CASE ReadActive
      BY <3>7, ReadActiveProgress
    <3>8. CASE NoFault /\ clean /\ ReadStaff
      BY <3>8, ReadStaffProgress
    <3> QED BY <1>2, <3>1, <3>2, <3>3, <3>4, <3>5, <3>6, <3>7, <3>8
  <2> QED BY <2>2, <2>3
<1> QED BY <1>1, <1>2 DEF Start, ReadActive, LookupParent, SkipRow, RowFails, ReadStaff, Leave
-----------------------------------------------------------------------------
\* The worksheet Staff.

\* The registry but for the staff stays as it is.
LEMMA SettledRowsStay ==
  ASSUME SettledOK, UNCHANGED <<sheet, projects, companies, people, serviceUsers, serviceTeams,
                                collaborators, settled, clean>>,
         InOrder(sheet)', settled # <<>>
  PROVE  /\ clean' /\ InOrder(sheet)
         /\ \A i \in DOMAIN ActiveRows(sheet)' : RowStands(ActiveRows(sheet)[i])'
         /\ \A n \in DOMAIN FossaUsers :
              UserKnown(FossaUsers[n].email)' /\ TeamsMade(FossaUsers[n])'
<1>0. UNCHANGED <<maintainers, members>>
  BY DEF people
<1>1. InOrder(sheet)
  BY DEF InOrder, Deleted
<1>2. clean /\ \A i \in DOMAIN ActiveRows(sheet) : RowStands(ActiveRows(sheet)[i])
  BY <1>1 DEF SettledOK
<1>3. \A n \in DOMAIN FossaUsers :
        UserKnown(FossaUsers[n].email) /\ TeamsMade(FossaUsers[n])
  BY <1>1 DEF SettledOK
<1>4. ASSUME NEW i \in DOMAIN ActiveRows(sheet) PROVE RowStands(ActiveRows(sheet)[i])'
  BY <1>0, <1>2 DEF RowStands, Listed, Deleted
<1>5. ASSUME NEW n \in DOMAIN FossaUsers
      PROVE  UserKnown(FossaUsers[n].email)' /\ TeamsMade(FossaUsers[n])'
  BY <1>0, <1>3 DEF UserKnown, TeamsMade, Registered, TeamsCreated
<1> QED BY <1>1, <1>2, <1>4, <1>5

\* Staff as their last complete row has it, one row on.
LEMMA StaffAsStep ==
  ASSUME NEW rows, NEW S \in SUBSET Nat, NEW m \in Nat, \A i \in S : i < m,
         StaffAs(staff, rows, S),
         \/ (rows[m].foundation = Blank \/ rows[m].email = Blank) /\ UNCHANGED <<staff, foundations>>
         \/ /\ rows[m].foundation # Blank /\ rows[m].email # Blank
            /\ foundations' = foundations \cup {rows[m].foundation}
            /\ DOMAIN staff' = DOMAIN staff \cup {rows[m].email}
            /\ staff'[rows[m].email] = [name |-> rows[m].name, foundation |-> rows[m].foundation]
            /\ \A e \in DOMAIN staff : e # rows[m].email => staff'[e] = staff[e]
  PROVE  StaffAs(staff, rows, S \cup {m})'
<1>1. CASE (rows[m].foundation = Blank \/ rows[m].email = Blank) /\ UNCHANGED <<staff, foundations>>
  <2>1. Whole(rows, S \cup {m}) = Whole(rows, S)
    BY <1>1 DEF Whole
  <2> QED BY <1>1, <2>1 DEF StaffAs, Whole
<1>2. CASE /\ rows[m].foundation # Blank /\ rows[m].email # Blank
           /\ foundations' = foundations \cup {rows[m].foundation}
           /\ DOMAIN staff' = DOMAIN staff \cup {rows[m].email}
           /\ staff'[rows[m].email] = [name |-> rows[m].name, foundation |-> rows[m].foundation]
           /\ \A e \in DOMAIN staff : e # rows[m].email => staff'[e] = staff[e]
  <2>1. Whole(rows, S \cup {m}) = Whole(rows, S) \cup {m}
    BY <1>2 DEF Whole
  <2>2. ASSUME NEW i \in Whole(rows, S)
        PROVE  /\ rows[i].email \in DOMAIN staff' /\ rows[i].foundation \in foundations'
               /\ (\A j \in Whole(rows, S) \cup {m} : rows[j].email = rows[i].email => j <= i) =>
                    staff'[rows[i].email] = [name |-> rows[i].name, foundation |-> rows[i].foundation]
    <3>1. rows[i].email \in DOMAIN staff /\ rows[i].foundation \in foundations
      BY DEF StaffAs
    <3>2. i < m /\ i \in Nat
      BY DEF Whole
    <3>3. ASSUME \A j \in Whole(rows, S) \cup {m} : rows[j].email = rows[i].email => j <= i
          PROVE  staff'[rows[i].email] = [name |-> rows[i].name, foundation |-> rows[i].foundation]
      <4>1. rows[i].email # rows[m].email
        BY <3>2, <3>3
      <4>2. staff[rows[i].email] = [name |-> rows[i].name, foundation |-> rows[i].foundation]
        BY <3>3 DEF StaffAs
      <4> QED BY <1>2, <3>1, <4>1, <4>2
    <3> QED BY <1>2, <3>1, <3>3
  <2>3. rows[m].email \in DOMAIN staff' /\ rows[m].foundation \in foundations'
    BY <1>2
  <2>4. ASSUME NEW i \in Whole(rows, S) \cup {m}
        PROVE  /\ rows[i].email \in DOMAIN staff' /\ rows[i].foundation \in foundations'
               /\ (\A j \in Whole(rows, S) \cup {m} : rows[j].email = rows[i].email => j <= i) =>
                    staff'[rows[i].email] = [name |-> rows[i].name, foundation |-> rows[i].foundation]
    <3>1. CASE i \in Whole(rows, S)
      BY <2>2, <3>1
    <3>2. CASE i = m
      BY <1>2, <2>3, <3>2
    <3> QED BY <3>1, <3>2
  <2>5. Whole(rows, S \cup {m})' = Whole(rows, S) \cup {m}
    BY <2>1 DEF Whole
  <2> QED BY <2>4, <2>5 DEF StaffAs
<1> QED BY <1>1, <1>2

\* What a staff row does when nothing fails.
LEMMA StaffRowEffect ==
  ASSUME IndInv, StaffRow, NoFault
  PROVE  /\ \/ (Row.foundation = Blank \/ Row.email = Blank) /\ UNCHANGED <<staff, foundations>>
            \/ /\ Row.foundation # Blank /\ Row.email # Blank
               /\ foundations' = foundations \cup {Row.foundation}
               /\ DOMAIN staff' = DOMAIN staff \cup {Row.email}
               /\ staff'[Row.email] = [name |-> Row.name, foundation |-> Row.foundation]
               /\ \A e \in DOMAIN staff : e # Row.email => staff'[e] = staff[e]
         /\ job'.pc = "staff" /\ job'.rows = job.rows /\ job'.at = Min(RowsLeft) + 1
<1>0. JobOK /\ job.pc = "staff"
  BY DEF IndInv, StaffRow
<1>1. ~Fault
  BY DEF NoFault, Fault, IndInv, TypeOK
<1>2. PICK n : n = Min(RowsLeft) + 1
  OBVIOUS
<1>3. job' = [pc |-> "staff", at |-> n, parent |-> job.parent, team |-> job.team,
              owner |-> job.owner, rows |-> job.rows]
  BY <1>0, <1>2 DEF JobOK, StaffRow
<1>4. CASE Row.foundation = Blank \/ Row.email = Blank
  BY <1>2, <1>3, <1>4 DEF StaffRow
<1>5. CASE ~(Row.foundation = Blank \/ Row.email = Blank)
  <2>1. PICK e, v : e = Row.email /\ v = [name |-> Row.name, foundation |-> Row.foundation]
    OBVIOUS
  <2>2. foundations' = foundations \cup {Row.foundation} /\ staff' = Over(staff, Fn(e, v))
    BY <1>1, <1>5, <2>1 DEF StaffRow, UpsertStaff
  <2>3. /\ DOMAIN staff' = DOMAIN staff \cup {e} /\ staff'[e] = v
        /\ \A x \in DOMAIN staff : x # e => staff'[x] = staff[x]
    BY <2>2 DEF Over, Fn
  <2>4. job'.pc = "staff" /\ job'.rows = job.rows /\ job'.at = Min(RowsLeft) + 1
    BY <1>2, <1>3
  <2> QED BY <1>5, <2>1, <2>2, <2>3, <2>4
<1> QED BY <1>4, <1>5

LEMMA StaffRowProgress ==
  ASSUME IndInv, Progress, clean, StaffRow, NoFault
  PROVE  Progress'
<1>0. JobOK /\ job.pc = "staff" /\ MoreRows /\ ActiveProgress /\ StaffProgress
  BY DEF IndInv, StaffRow, Progress
<1>1. job'.pc = "staff" /\ job'.rows = job.rows /\ job'.at = Min(RowsLeft) + 1
  BY StaffRowEffect
<1>2. PICK m \in Nat : m = Min(RowsLeft) /\ m \in DOMAIN job.rows /\ m >= job.at
  BY <1>0, RowTyped
<1>3. PICK rows, S : rows = job.rows /\ S = Passed
  OBVIOUS
<1>4. rows = StaffRows(sheet) /\ StaffAs(staff, rows, S)
  BY <1>0, <1>3 DEF StaffProgress
<1>5. UNCHANGED <<sheet, projects, companies, maintainers, members>>
  BY DEF StaffRow, Kept, people
<1>6. Grow
  BY <1>5 DEF Grow
<1>7. S \in SUBSET Nat /\ \A i \in S : i < m
  <2>1. sheet \in Sheets /\ job.at \in Nat
    BY <1>0 DEF IndInv, TypeOK, JobOK
  <2>2. DOMAIN rows \subseteq Nat
    BY <1>4, <2>1, StaffRowsTyped
  <2> QED BY <1>2, <1>3, <2>1, <2>2 DEF Passed
<1>8. Row = rows[m]
  BY <1>2, <1>3 DEF Row
<1>9. StaffAs(staff, rows, S \cup {m})'
  <2>1. \/ (rows[m].foundation = Blank \/ rows[m].email = Blank) /\ UNCHANGED <<staff, foundations>>
        \/ /\ rows[m].foundation # Blank /\ rows[m].email # Blank
           /\ foundations' = foundations \cup {rows[m].foundation}
           /\ DOMAIN staff' = DOMAIN staff \cup {rows[m].email}
           /\ staff'[rows[m].email] = [name |-> rows[m].name, foundation |-> rows[m].foundation]
           /\ \A e \in DOMAIN staff : e # rows[m].email => staff'[e] = staff[e]
    BY <1>8, StaffRowEffect
  <2> QED BY <1>4, <1>7, <2>1, StaffAsStep
<1>10. StaffAs(staff, job.rows, Passed)'
  <2>1. job'.rows = rows /\ Passed' = S \cup {m}
    BY <1>0, <1>1, <1>2, <1>3, PassedStep
  <2> QED BY <1>9, <2>1 DEF StaffAs
<1>11. RowsThrough(ActiveRows(sheet), DOMAIN ActiveRows(sheet))'
  <2>1. PICK ar : ar = ActiveRows(sheet)
    OBVIOUS
  <2>2. RowsThrough(ar, DOMAIN ar)
    BY <1>0, <2>1 DEF ActiveProgress
  <2>3. RowsThrough(ar, DOMAIN ar)'
    BY <1>6, <2>2, RowsThroughStay
  <2> QED BY <1>5, <2>1, <2>3 DEF RowsThrough
<1>12. job'.rows = StaffRows(sheet)'
  BY <1>1, <1>3, <1>4, <1>5
<1> QED BY <1>1, <1>10, <1>11, <1>12 DEF Progress, ActiveProgress, StaffProgress, FossaProgress

LEMMA StaffRowSettled ==
  ASSUME IndInv, Progress, SettledOK, StaffRow, NoFault
  PROVE  SettledOK'
<1> SUFFICES ASSUME settled # <<>>, InOrder(sheet)'
             PROVE  SettledOK'
  <2>1. settled' = settled /\ clean' = clean
    BY DEF NoFault
  <2> QED BY <2>1 DEF SettledOK
<1>0. JobOK /\ job.pc = "staff" /\ MoreRows
  BY DEF IndInv, StaffRow
<1>1. UNCHANGED <<sheet, projects, companies, people, serviceUsers, serviceTeams, collaborators,
                  settled, clean>>
  BY DEF StaffRow, Kept, NoFault, fossa
<1>2. /\ clean' /\ InOrder(sheet)
      /\ \A i \in DOMAIN ActiveRows(sheet)' : RowStands(ActiveRows(sheet)[i])'
      /\ \A n \in DOMAIN FossaUsers :
           UserKnown(FossaUsers[n].email)' /\ TeamsMade(FossaUsers[n])'
  BY <1>1, SettledRowsStay
<1>3. PICK st : SettledWith(st) /\ StaffReturn(st)
  BY <1>2 DEF SettledOK
<1>4. PICK rows : rows = StaffRows(sheet) /\ rows = job.rows
  BY <1>0, <1>1, <1>2 DEF Progress, StaffProgress
<1>5. PICK m \in Nat : m = Min(RowsLeft) /\ m \in DOMAIN rows /\ \A i \in RowsLeft : m <= i
  BY <1>0, <1>4, RowTyped
<1>6. job'.pc = "staff" /\ job'.at = m + 1
  BY <1>5, StaffRowEffect
<1>7. DOMAIN rows \subseteq Nat
  BY <1>4, StaffRowsTyped DEF IndInv, TypeOK
<1>8. Row = rows[m]
  BY <1>4, <1>5 DEF Row
<1>9. PICK W : W = Whole(rows, DOMAIN rows)
  OBVIOUS
<1>10. DOMAIN st = DOMAIN staff /\ StaffAs(st, rows, DOMAIN rows)
  BY <1>3, <1>4 DEF StaffReturn
<1>11. m \in W => foundations' = foundations /\ DOMAIN staff' = DOMAIN staff
  <2> SUFFICES ASSUME m \in W
               PROVE  foundations' = foundations /\ DOMAIN staff' = DOMAIN staff
    OBVIOUS
  <2>1. Row.email \in DOMAIN st /\ Row.foundation \in foundations
    BY <1>8, <1>9, <1>10 DEF StaffAs
  <2>2. Row.email # Blank /\ Row.foundation # Blank
    BY <1>8, <1>9 DEF Whole
  <2>3. foundations' = foundations \cup {Row.foundation} /\ DOMAIN staff' = DOMAIN staff \cup {Row.email}
    BY <2>2, StaffRowEffect
  <2> QED BY <1>10, <2>1, <2>3
<1>12. m \notin W => UNCHANGED <<staff, foundations>>
  BY <1>5, <1>8, <1>9, StaffRowEffect DEF Whole
<1>13. foundations' = foundations /\ DOMAIN staff' = DOMAIN staff
  BY <1>11, <1>12
<1>14. SettledWith(st)'
  BY <1>1, <1>3, <1>13 DEF SettledWith
<1>15. StaffAs(st, rows, DOMAIN rows)'
  BY <1>10, <1>13 DEF StaffAs, Whole
<1>16. ASSUME NEW e \in DOMAIN staff
       PROVE  staff'[e] = st[e] \/ \E i \in W : i >= m + 1 /\ rows[i].email = e
  <2>0. staff[e] = st[e] \/ \E i \in W : i >= job.at /\ rows[i].email = e
    BY <1>3, <1>4, <1>9 DEF StaffReturn
  <2>1. ASSUME NEW i \in W, i >= job.at, i # m
        PROVE  i >= m + 1
    <3>1. i \in RowsLeft /\ i \in Nat
      BY <1>4, <1>7, <1>9, <2>1 DEF RowsLeft, Whole
    <3> QED BY <1>5, <2>1, <3>1
  <2>2. CASE m \notin W
    BY <1>12, <2>0, <2>1, <2>2
  <2>3. CASE m \in W
    <3>1. Row.email # Blank /\ Row.foundation # Blank
      BY <1>8, <1>9, <2>3 DEF Whole
    <3>2. /\ staff'[Row.email] = [name |-> Row.name, foundation |-> Row.foundation]
          /\ \A x \in DOMAIN staff : x # Row.email => staff'[x] = staff[x]
      BY <3>1, StaffRowEffect
    <3>3. CASE e # Row.email
      BY <1>8, <2>0, <2>1, <3>2, <3>3
    <3>4. CASE e = Row.email
      <4>1. CASE \A j \in W : rows[j].email = e => j <= m
        <5>1. st[e] = [name |-> rows[m].name, foundation |-> rows[m].foundation]
          BY <1>8, <1>9, <1>10, <2>3, <3>4, <4>1 DEF StaffAs
        <5> QED BY <1>8, <3>2, <3>4, <5>1
      <4>2. CASE ~(\A j \in W : rows[j].email = e => j <= m)
        <5>1. PICK j \in W : rows[j].email = e /\ ~(j <= m)
          BY <4>2
        <5>2. j \in Nat
          BY <1>7, <1>9 DEF Whole
        <5> QED BY <5>1, <5>2
      <4> QED BY <4>1, <4>2
    <3> QED BY <3>3, <3>4
  <2> QED BY <2>2, <2>3
<1>17. StaffReturn(st)'
  <2>1. st = [e \in DOMAIN staff' |-> st[e]]
    BY <1>3, <1>13 DEF StaffReturn
  <2>2. StaffRows(sheet)' = rows /\ Whole(rows, DOMAIN rows)' = W
    BY <1>1, <1>4, <1>9 DEF Whole
  <2>3. StaffAs(st, StaffRows(sheet), DOMAIN StaffRows(sheet))'
    BY <1>15, <2>2 DEF StaffAs
  <2> QED BY <1>6, <1>13, <1>16, <2>1, <2>2, <2>3 DEF StaffReturn, Whole
<1> QED BY <1>2, <1>14, <1>17 DEF SettledOK

LEMMA FetchProgress ==
  ASSUME IndInv, Progress, SettledOK, FetchFossaData
  PROVE  Progress' /\ SettledOK'
<1>0. JobOK /\ job.pc = "staff" /\ ~MoreRows /\ sheet \in Sheets
  BY DEF IndInv, TypeOK, FetchFossaData
<1>1. job'.pc = "user" /\ job'.at = 1
  BY DEF FetchFossaData, Goto, Idle
<1>2. /\ UNCHANGED <<sheet, projects, companies, people, maintainers, members, foundations, staff,
                     serviceUsers, serviceTeams, collaborators, settled, clean>>
      /\ UNCHANGED registry
  BY DEF FetchFossaData, NoFault, Kept, registry, fossa, people
<1>3. Grow
  BY <1>2, SameTables
<1>4. PICK rows : rows = StaffRows(sheet)
  OBVIOUS
<1>5. clean => job.rows = rows /\ Passed = DOMAIN rows
  <2>1. clean => job.rows = StaffRows(sheet)
    BY <1>0 DEF Progress, StaffProgress
  <2>2. job.at \in Nat
    BY <1>0 DEF JobOK
  <2> QED BY <1>0, <1>4, <2>1, <2>2, PassedAll
<1>6. Progress'
  <2> SUFFICES ASSUME clean PROVE Progress'
    BY <1>2 DEF Progress
  <2>1. StaffAs(staff, rows, DOMAIN rows)
    BY <1>0, <1>5 DEF Progress, StaffProgress
  <2>2. StaffAs(staff, rows, DOMAIN rows)'
    BY <1>2, <2>1 DEF StaffAs, Whole
  <2>3. StaffAs(staff, StaffRows(sheet), DOMAIN StaffRows(sheet))'
    BY <1>2, <1>4, <2>2 DEF StaffAs
  <2>4. RowsThrough(ActiveRows(sheet), DOMAIN ActiveRows(sheet))'
    <3>1. PICK ar : ar = ActiveRows(sheet)
      OBVIOUS
    <3>2. RowsThrough(ar, DOMAIN ar)
      BY <1>0, <3>1 DEF Progress, ActiveProgress
    <3>3. RowsThrough(ar, DOMAIN ar)'
      BY <1>3, <3>2, RowsThroughStay
    <3> QED BY <1>2, <3>1, <3>3 DEF RowsThrough
  <2>5. \A n \in DOMAIN FossaUsers : ~(n < job'.at)
    BY <1>1, FossaAssumption
  <2> QED BY <1>1, <2>3, <2>4, <2>5 DEF Progress, ActiveProgress, StaffProgress, FossaProgress
<1>7. SettledOK'
  <2> SUFFICES ASSUME settled # <<>>, InOrder(sheet)' PROVE SettledOK'
    BY <1>2 DEF SettledOK
  <2>1. /\ clean' /\ InOrder(sheet)
        /\ \A i \in DOMAIN ActiveRows(sheet)' : RowStands(ActiveRows(sheet)[i])'
        /\ \A n \in DOMAIN FossaUsers :
             UserKnown(FossaUsers[n].email)' /\ TeamsMade(FossaUsers[n])'
    BY <1>2, SettledRowsStay
  <2>2. PICK st : SettledWith(st) /\ StaffReturn(st)
    BY <2>1 DEF SettledOK
  <2>3. SettledWith(st)'
    BY <1>2, <2>2 DEF SettledWith
  <2>4. \A e \in DOMAIN staff : staff[e] = st[e]
    <3>1. \A i \in DOMAIN rows : ~(i >= job.at)
      BY <1>0, <1>2, <1>5, <2>1 DEF MoreRows, RowsLeft
    <3> QED BY <1>4, <2>2, <3>1 DEF StaffReturn, Whole
  <2>5. StaffAs(st, rows, DOMAIN rows) /\ st = [e \in DOMAIN staff |-> st[e]]
    BY <1>4, <2>2 DEF StaffReturn
  <2>6. StaffAs(st, rows, DOMAIN rows)'
    BY <1>2, <2>5 DEF StaffAs, Whole
  <2>7. StaffAs(st, StaffRows(sheet), DOMAIN StaffRows(sheet))'
    BY <1>2, <1>4, <2>6 DEF StaffAs
  <2>8. StaffReturn(st)'
    BY <1>2, <2>4, <2>5, <2>7 DEF StaffReturn
  <2> QED BY <2>1, <2>3, <2>8 DEF SettledOK
<1> QED BY <1>6, <1>7
-----------------------------------------------------------------------------
\* FOSSA's users.

\* What a step of the FOSSA part without faults may do: the registry stays as
\* it is, and a link keeps its user, its team and the right owner.
FossaGrow ==
  /\ UNCHANGED <<sheet, registry>>
  /\ serviceUsers \subseteq serviceUsers' /\ serviceTeams \subseteq serviceTeams'
  /\ Range(collaborators) \subseteq Range(collaborators')
  /\ DOMAIN links \subseteq DOMAIN links'
  /\ \A k \in DOMAIN links :
       /\ links'[k].user = links[k].user /\ links'[k].team = links[k].team
       /\ links[k].owner = RightOwner(links[k].user) => links'[k].owner = links[k].owner

LEMMA UserStays ==
  ASSUME FossaGrow, NEW u
  PROVE  /\ RightOwner(u.email)' = RightOwner(u.email)
         /\ UserKnown(u.email) => UserKnown(u.email)'
         /\ TeamsMade(u) => TeamsMade(u)'
         /\ \A n : Linked(u, n) => Linked(u, n)'
         /\ UserIn(u) => UserIn(u)'
<1>0. UNCHANGED <<projects, maintainers>>
  BY DEF FossaGrow, registry, people
<1>1. Registered(u.email)' <=> Registered(u.email)
  BY <1>0 DEF Registered
<1>2. RightOwner(u.email)' = RightOwner(u.email)
  BY <1>1 DEF RightOwner
<1>3. UserKnown(u.email) => UserKnown(u.email)'
  BY <1>1 DEF UserKnown, FossaGrow
<1>4. TeamsMade(u) => TeamsMade(u)'
  BY <1>0 DEF TeamsMade, TeamsCreated, FossaGrow
<1>5. ASSUME NEW n, Linked(u, n) PROVE Linked(u, n)'
  <2>1. PICK f \in [1..n -> DOMAIN links] :
          /\ \A j, k \in 1..n : f[j] = f[k] => j = k
          /\ \A j \in 1..n : /\ links[f[j]].user = u.email
                             /\ links[f[j]].team \in {NoTeam, u.teams[j]}
                             /\ links[f[j]].owner = RightOwner(u.email)
    BY <1>5 DEF Linked
  <2>2. f \in [1..n -> DOMAIN links']
    BY DEF FossaGrow
  <2>3. ASSUME NEW j \in 1..n
        PROVE  /\ links'[f[j]].user = u.email
               /\ links'[f[j]].team \in {NoTeam, u.teams[j]}
               /\ links'[f[j]].owner = RightOwner(u.email)
    <3>1. f[j] \in DOMAIN links
      BY <2>1
    <3> QED BY <2>1, <3>1 DEF FossaGrow
  <2> QED BY <1>2, <2>1, <2>2, <2>3 DEF Linked
<1>6. UserIn(u) => UserIn(u)'
  BY <1>0, <1>3, <1>4, <1>5 DEF UserIn
<1> QED BY <1>2, <1>3, <1>4, <1>5, <1>6

LEMMA FossaProgressFrame ==
  ASSUME Progress, clean, FossaProgress', UNCHANGED <<sheet, registry>>,
         job.pc \in {"user", "teams", "link"}, job'.pc \in {"user", "teams", "link", "done"}
  PROVE  Progress'
<1>0. UNCHANGED <<foundations, staff>>
  BY DEF registry
<1>1. PICK ar, sr : ar = ActiveRows(sheet) /\ sr = StaffRows(sheet)
  OBVIOUS
<1>2. RowsThrough(ar, DOMAIN ar) /\ StaffAs(staff, sr, DOMAIN sr)
  BY <1>1 DEF Progress, ActiveProgress, StaffProgress
<1>3. RowsThrough(ar, DOMAIN ar)'
  BY <1>2, SameTables, RowsThroughStay
<1>4. StaffAs(staff, sr, DOMAIN sr)'
  BY <1>0, <1>2 DEF StaffAs, Whole
<1>5. RowsThrough(ActiveRows(sheet), DOMAIN ActiveRows(sheet))'
  BY <1>1, <1>3 DEF RowsThrough
<1>6. StaffAs(staff, StaffRows(sheet), DOMAIN StaffRows(sheet))'
  BY <1>1, <1>4 DEF StaffAs
<1> QED BY <1>5, <1>6 DEF Progress, ActiveProgress, StaffProgress

\* The run is through with the user at hand.
LEMMA UserDone ==
  ASSUME IndInv, Progress, clean, job.pc \in {"teams", "link"}, job' = NextUser, FossaGrow,
         NEW u, u = User, UserIn(u)'
  PROVE  Progress'
<1>0. JobOK /\ job.at \in Nat /\ FossaProgress
  BY DEF IndInv, JobOK, Progress
<1>1. job'.pc = "user" /\ job'.at = job.at + 1
  BY DEF NextUser, Goto, Idle
<1>2. ASSUME NEW n \in DOMAIN FossaUsers, n < job.at + 1
      PROVE  UserIn(FossaUsers[n])'
  <2>1. n \in Nat
    BY FossaAssumption
  <2>2. CASE n < job.at
    <3>1. PICK v : v = FossaUsers[n]
      OBVIOUS
    <3>2. UserIn(v)
      BY <1>0, <2>2, <3>1 DEF FossaProgress
    <3>3. UserIn(v)'
      BY <3>2, UserStays
    <3> QED BY <3>1, <3>3
  <2>3. CASE n = job.at
    BY <2>3 DEF User
  <2> QED BY <1>0, <1>2, <2>1, <2>2, <2>3
<1>3. FossaProgress'
  BY <1>1, <1>2 DEF FossaProgress
<1> QED BY <1>1, <1>3, FossaProgressFrame DEF FossaGrow

\* The users before the one at hand stay as they are.
LEMMA UsersStay ==
  ASSUME Progress, clean, job.pc \in {"user", "teams", "link"}, FossaGrow, job'.at = job.at
  PROVE  \A n \in DOMAIN FossaUsers : n < job'.at => UserIn(FossaUsers[n])'
<1> SUFFICES ASSUME NEW n \in DOMAIN FossaUsers, n < job.at
             PROVE  UserIn(FossaUsers[n])'
  OBVIOUS
<1>1. PICK v : v = FossaUsers[n]
  OBVIOUS
<1>2. UserIn(v)
  BY <1>1 DEF Progress, FossaProgress
<1>3. UserIn(v)'
  BY <1>2, UserStays
<1> QED BY <1>1, <1>3

LEMMA FossaUserProgress ==
  ASSUME IndInv, Progress, SettledOK, FossaUser, NoFault
  PROVE  Progress' /\ SettledOK'
<1>0. JobOK /\ TypeOK /\ job.pc = "user" /\ MoreUsers
  BY DEF IndInv, FossaUser
<1>1. ~Fault
  BY <1>0 DEF NoFault, Fault, TypeOK
<1>2. job.at \in DOMAIN FossaUsers
  BY <1>0, FossaAssumption DEF JobOK, MoreUsers
<1>3. PICK u, o : u = User /\ o = RightOwner(u.email)
  OBVIOUS
<1>4. /\ serviceUsers' = serviceUsers \cup {u.email}
      /\ UNCHANGED <<sheet, registry, serviceTeams, links, clean, settled>>
  BY <1>3 DEF FossaUser, NoFault, Kept
<1>5. Owned(o)
  BY <1>1, <1>3 DEF FossaUser, RightOwner
<1>6. job' = [pc |-> "teams", at |-> job.at, parent |-> job.parent, team |-> job.team,
              owner |-> o, rows |-> job.rows]
  BY <1>0, <1>5 DEF JobOK, Owned
<1>7. job'.pc = "teams" /\ job'.at = job.at /\ job'.owner = o
  BY <1>6
<1>8. collaborators' = IF Registered(u.email) \/ u.email \in Range(collaborators) THEN collaborators
                       ELSE Append(collaborators, u.email)
  BY <1>3, <1>5 DEF Owned, WithCollaborator, RightOwner
<1>9. Progress'
  <2> SUFFICES ASSUME clean PROVE Progress'
    BY <1>4 DEF Progress
  <2>1. FossaGrow /\ UserKnown(u.email)'
    <3>1. UNCHANGED maintainers
      BY <1>4 DEF registry, people
    <3>2. Registered(u.email)' <=> Registered(u.email)
      BY <3>1 DEF Registered
    <3>3. /\ Range(collaborators) \subseteq Range(collaborators')
          /\ ~Registered(u.email) => u.email \in Range(collaborators')
      <4>1. CASE collaborators' = collaborators
        BY <1>8, <4>1
      <4>2. CASE collaborators' = Append(collaborators, u.email)
        BY <4>2 DEF Range
      <4> QED BY <1>8, <4>1, <4>2
    <3> QED BY <1>4, <3>2, <3>3 DEF FossaGrow, UserKnown
  <2>2. \A n \in DOMAIN FossaUsers : n < job'.at => UserIn(FossaUsers[n])'
    BY <1>0, <1>7, <2>1, UsersStay
  <2>3. User' = u /\ RightOwner(u.email)' = o
    BY <1>3, <1>7, <2>1, UserStays DEF User
  <2>4. UserKnown(User.email)' /\ RightOwner(User.email)' = o
    BY <2>1, <2>3 DEF UserKnown, RightOwner, Registered
  <2>5. FossaProgress'
    BY <1>7, <2>2, <2>4 DEF FossaProgress
  <2> QED BY <1>0, <1>4, <1>7, <2>5, FossaProgressFrame
<1>10. SettledOK'
  <2>1. CASE settled = <<>> \/ ~InOrder(sheet)
    <3>1. Grow
      BY <1>4, SameTables
    <3>2. InOrder(sheet)' <=> InOrder(sheet)
      BY <3>1, InOrderStays
    <3> QED BY <1>4, <2>1, <3>2 DEF SettledOK
  <2>2. CASE settled # <<>> /\ InOrder(sheet)
    <3>1. UserKnown(u.email)
      BY <1>2, <1>3, <2>2 DEF SettledOK, User
    <3>2. UNCHANGED <<serviceUsers, collaborators>>
      BY <1>4, <1>8, <3>1 DEF UserKnown
    <3>3. UNCHANGED <<sheet, tables, settled>>
      BY <1>4, <3>2 DEF tables
    <3> QED BY <1>0, <1>4, <3>3, SettledFrame
  <2> QED BY <2>1, <2>2
<1> QED BY <1>9, <1>10

LEMMA TeamsProgress ==
  ASSUME IndInv, Progress, SettledOK, CreateServiceTeamsForUser, NoFault
  PROVE  Progress' /\ SettledOK'
<1>0. JobOK /\ TypeOK /\ job.pc = "teams"
  BY DEF IndInv, CreateServiceTeamsForUser
<1>1. ~Fault
  BY <1>0 DEF NoFault, Fault, TypeOK
<1>2. job.at \in DOMAIN FossaUsers /\ User \in [email : STRING, teams : Seq(STRING)]
  BY <1>0, UserTyped
<1>3. PICK u \in [email : STRING, teams : Seq(STRING)] : u = User
  BY <1>2
<1>4. PICK made : made = TeamsCreated(u.teams)
  OBVIOUS
<1>5. /\ serviceTeams' = serviceTeams \cup Range(made)
      /\ job' = IF made = <<>> \/ made # u.teams THEN NextUser
                ELSE [job EXCEPT !.pc = "link", !.team = 1]
      /\ UNCHANGED <<sheet, registry, serviceUsers, collaborators, links, clean, settled>>
  BY <1>1, <1>3, <1>4 DEF CreateServiceTeamsForUser, GiveUp, NoFault, Kept
<1>6. UNCHANGED <<projects, maintainers>>
  BY <1>5 DEF registry, people
<1>7. FossaGrow
  BY <1>5 DEF FossaGrow
<1>8. TeamsMade(u)'
  BY <1>4, <1>5, <1>6 DEF TeamsMade, TeamsCreated
<1>9. Progress'
  <2> SUFFICES ASSUME clean PROVE Progress'
    BY <1>5 DEF Progress
  <2>1. UserKnown(u.email) /\ job.owner = RightOwner(u.email)
    BY <1>0, <1>3 DEF Progress, FossaProgress
  <2>2. UserKnown(u.email)' /\ RightOwner(u.email)' = RightOwner(u.email)
    BY <1>7, <2>1, UserStays
  <2>3. Linked(u, 0)'
    <3>1. [j \in 1..0 |-> j] \in [1..0 -> DOMAIN links'] /\ 1..0 = {}
      OBVIOUS
    <3> QED BY <3>1 DEF Linked
  <2>4. CASE job' = NextUser /\ (made = <<>> \/ made # u.teams)
    <3>1. Range(u.teams) \subseteq DOMAIN projects' => Linked(u, Len(u.teams))'
      <4> SUFFICES ASSUME Range(u.teams) \subseteq DOMAIN projects
                   PROVE  Linked(u, Len(u.teams))'
        BY <1>6
      <4>1. made = u.teams
        BY <1>4 DEF TeamsCreated, Range
      <4>2. u.teams = <<>>
        BY <2>4, <4>1
      <4>3. Len(u.teams) = 0
        BY <4>2
      <4> QED BY <2>3, <4>3
    <3>2. UserIn(u)'
      BY <1>8, <2>2, <3>1 DEF UserIn
    <3> QED BY <1>0, <1>3, <1>7, <2>4, <3>2, UserDone
  <2>5. CASE job' = [job EXCEPT !.pc = "link", !.team = 1]
    <3>1. job' = [pc |-> "link", at |-> job.at, parent |-> job.parent, team |-> 1,
                  owner |-> job.owner, rows |-> job.rows]
      BY <1>0, <2>5 DEF JobOK
    <3> HIDE <2>5
    <3>2. job'.pc = "link" /\ job'.at = job.at /\ job'.owner = job.owner /\ job'.team - 1 = 0
      BY <3>1
    <3>3. \A n \in DOMAIN FossaUsers : n < job'.at => UserIn(FossaUsers[n])'
      BY <1>0, <1>7, <3>2, UsersStay
    <3>4. User' = u
      BY <1>3, <3>2 DEF User
    <3>5. UserKnown(User.email)' /\ job'.owner = RightOwner(User.email)'
      BY <2>1, <2>2, <3>2, <3>4 DEF UserKnown, RightOwner, Registered
    <3>6. TeamsMade(User)' /\ Linked(User, job.team - 1)'
      <4>1. TeamsMade(User)'
        BY <1>8, <3>4 DEF TeamsMade, TeamsCreated
      <4>2. PICK u2, n : u2 = User' /\ n = job'.team - 1
        OBVIOUS
      <4>3. Linked(u2, n)'
        BY <2>3, <3>2, <3>4, <4>2
      <4>4. Linked(User, job.team - 1)'
        BY <4>2, <4>3 DEF Linked, RightOwner, Registered
      <4> QED BY <4>1, <4>4
    <3>7. FossaProgress'
      BY <3>2, <3>3, <3>5, <3>6 DEF FossaProgress
    <3> QED BY <1>0, <1>5, <3>2, <3>7, FossaProgressFrame
  <2> QED BY <1>5, <2>4, <2>5
<1>10. SettledOK'
  <2>1. CASE settled = <<>> \/ ~InOrder(sheet)
    <3>1. Grow
      BY <1>5, SameTables
    <3>2. InOrder(sheet)' <=> InOrder(sheet)
      BY <3>1, InOrderStays
    <3> QED BY <1>5, <2>1, <3>2 DEF SettledOK
  <2>2. CASE settled # <<>> /\ InOrder(sheet)
    <3>1. TeamsMade(u)
      BY <1>2, <1>3, <2>2 DEF SettledOK, User
    <3>2. UNCHANGED serviceTeams
      BY <1>4, <1>5, <3>1 DEF TeamsMade
    <3>3. UNCHANGED <<sheet, tables, settled>>
      BY <1>5, <3>2 DEF tables
    <3> QED BY <1>0, <1>5, <3>3, SettledFrame
  <2> QED BY <2>1, <2>2
<1> QED BY <1>9, <1>10

\* What LinkTeam does when nothing fails: one link of the user and the team, or
\* a new one without a team, has the owner.
LEMMA LinkEffect ==
  ASSUME IndInv, LinkTeam, NoFault,
         NEW u, u = User, NEW t, t = u.teams[job.team], NEW o, o = job.owner, o # Blank
  PROVE  \E k \in DOMAIN links' :
           /\ DOMAIN links \subseteq DOMAIN links'
           /\ \A j \in DOMAIN links : j # k => links'[j] = links[j]
           /\ links'[k].user = u.email /\ links'[k].team \in {NoTeam, t} /\ links'[k].owner = o
           /\ k \in DOMAIN links => /\ links[k].user = u.email
                                    /\ links[k].team = t /\ links'[k].team = t
<1>0. TypeOK /\ JobOK /\ job.pc = "link"
  BY DEF IndInv, LinkTeam
<1>1. ~Fault
  BY <1>0 DEF NoFault, Fault, TypeOK
<1>2. PICK e \in serviceUsers : e = u.email
  BY <1>0 DEF JobOK
<1> DEFINE L == [user : serviceUsers, team : FossaTeams \cup {NoTeam},
                 owner : {Blank, "maintainer", "collaborator"}]
<1>3. PICK bare \in L : bare = [user |-> e, team |-> NoTeam, owner |-> Blank]
  OBVIOUS
<1>4. links \in Seq(L)
  BY <1>0 DEF TypeOK
<1>5. PICK with, k :
        /\ with = IF LinksOf(e, t) = {} THEN Append(links, bare) ELSE links
        /\ k = IF LinksOf(e, t) = {} THEN Len(with) ELSE Min(LinksOf(e, t))
  OBVIOUS
<1>6. links' = [with EXCEPT ![k].owner = IF o = Blank THEN @ ELSE o]
  BY <1>1, <1>2, <1>3, <1>5 DEF LinkTeam
<1>7. links' = [with EXCEPT ![k].owner = o]
  BY <1>6
<1>8. /\ with \in Seq(L) /\ k \in DOMAIN with /\ DOMAIN links \subseteq DOMAIN with
      /\ \A j \in DOMAIN links : with[j] = links[j]
      /\ with[k].user = e /\ with[k].team \in {NoTeam, t}
      /\ k \in DOMAIN links => with[k].team = t
  <2>1. CASE LinksOf(e, t) = {}
    <3>1. bare.user = e /\ bare.team = NoTeam
      BY <1>3
    <3>2. with = Append(links, bare) /\ k = Len(with)
      BY <1>5, <2>1
    <3> HIDE DEF L
    <3>3. /\ DOMAIN links = 1..Len(links) /\ Len(links) \in Nat
          /\ with \in Seq(L) /\ Len(with) = Len(links) + 1
          /\ DOMAIN with = 1..Len(links) + 1
          /\ \A j \in 1..Len(links) : with[j] = links[j]
          /\ with[Len(links) + 1] = bare
      BY <1>3, <1>4, <3>2
    <3> QED BY <3>1, <3>2, <3>3
  <2>2. CASE LinksOf(e, t) # {}
    <3>1. with = links /\ k = Min(LinksOf(e, t))
      BY <1>5, <2>2
    <3> HIDE DEF L
    <3>2. LinksOf(e, t) \in SUBSET Nat
      BY <1>4 DEF LinksOf
    <3>3. k \in LinksOf(e, t)
      BY <2>2, <3>1, <3>2, LeastNatural
    <3> QED BY <1>4, <3>1, <3>3 DEF LinksOf
  <2> QED BY <2>1, <2>2
<1>9. PICK r : r = [with[k] EXCEPT !.owner = o]
  OBVIOUS
<1>10. links' = [with EXCEPT ![k] = r]
  BY <1>7, <1>9
<1>11. r.user = with[k].user /\ r.team = with[k].team /\ r.owner = o
  <2>1. with[k] \in L
    <3> HIDE DEF L
    <3> QED BY <1>8
  <2> QED BY <1>9, <2>1
<1>12. /\ DOMAIN links' = DOMAIN with /\ links'[k] = r
       /\ \A j \in DOMAIN with : j # k => links'[j] = with[j]
  <2> HIDE DEF L
  <2> QED BY <1>8, <1>10
<1> HIDE DEF L
<1>13. k \in DOMAIN links => links[k].user = e /\ links[k].team = t /\ links'[k].team = t
  <2> SUFFICES ASSUME k \in DOMAIN links
               PROVE  links[k].user = e /\ links[k].team = t /\ links'[k].team = t
    OBVIOUS
  <2>1. with[k] = links[k]
    BY <1>8
  <2>2. with[k].user = e /\ with[k].team = t
    BY <1>8
  <2> QED BY <1>11, <1>12, <2>1, <2>2
<1>14. links'[k].user = u.email /\ links'[k].team \in {NoTeam, t} /\ links'[k].owner = o
  <2>1. with[k].user = e /\ with[k].team \in {NoTeam, t}
    BY <1>8
  <2> QED BY <1>2, <1>11, <1>12, <2>1
<1>15. \A j \in DOMAIN links : j # k => links'[j] = links[j]
  <2>1. \A j \in DOMAIN links : with[j] = links[j] /\ j \in DOMAIN with
    BY <1>8
  <2> QED BY <1>12, <2>1
<1>16. k \in DOMAIN links' /\ DOMAIN links \subseteq DOMAIN links'
  <2>1. k \in DOMAIN with /\ DOMAIN links \subseteq DOMAIN with
    BY <1>8
  <2> QED BY <1>12, <2>1
<1> QED BY <1>2, <1>13, <1>14, <1>15, <1>16

LEMMA LinkTeamProgress ==
  ASSUME IndInv, Progress, SettledOK, LinkTeam, NoFault
  PROVE  Progress' /\ SettledOK'
<1>0. JobOK /\ TypeOK /\ job.pc = "link"
  BY DEF IndInv, LinkTeam
<1>1. UNCHANGED <<sheet, registry, serviceUsers, serviceTeams, collaborators, clean, settled>>
  BY DEF LinkTeam, NoFault, Kept
<1>2. UNCHANGED <<sheet, tables, settled>>
  BY <1>1 DEF tables
<1>3. SettledOK'
  BY <1>0, <1>1, <1>2, SettledFrame
<1>4. Progress'
  <2> SUFFICES ASSUME clean PROVE Progress'
    BY <1>1 DEF Progress
  <2>1. job.at \in DOMAIN FossaUsers /\ User \in [email : STRING, teams : Seq(STRING)]
    BY <1>0, UserTyped
  <2>2. PICK u \in [email : STRING, teams : Seq(STRING)] : u = User /\ u = FossaUsers[job.at]
    BY <2>1 DEF User
  <2>3. PICK n \in 1..Len(u.teams) : n = job.team
    BY <1>0, <2>2 DEF JobOK
  <2>4. u.teams \in Seq(STRING) /\ DOMAIN u.teams = 1..Len(u.teams) /\ Len(u.teams) \in Nat
    BY <2>2
  <2>5. PICK t, o : t = u.teams[n] /\ o = job.owner
    OBVIOUS
  <2>6. UserKnown(u.email) /\ o = RightOwner(u.email) /\ TeamsMade(u)
    BY <1>0, <2>2, <2>5 DEF Progress, FossaProgress
  <2>7. Linked(u, n - 1)
    BY <1>0, <2>2, <2>3 DEF Progress, FossaProgress
  <2>8. o # Blank
    BY <2>6 DEF RightOwner, Blank
  <2>9. t # NoTeam /\ \A j \in 1..n - 1 : u.teams[j] # t
    <3>1. \A j, k \in DOMAIN u.teams :
            u.teams[j] # NoTeam /\ (u.teams[j] = u.teams[k] => j = k)
      BY <2>1, <2>2, FossaTeamsAssumption
    <3> QED BY <2>3, <2>4, <2>5, <3>1
  <2>10. PICK k \in DOMAIN links' :
           /\ DOMAIN links \subseteq DOMAIN links'
           /\ \A j \in DOMAIN links : j # k => links'[j] = links[j]
           /\ links'[k].user = u.email /\ links'[k].team \in {NoTeam, t} /\ links'[k].owner = o
           /\ k \in DOMAIN links => /\ links[k].user = u.email
                                    /\ links[k].team = t /\ links'[k].team = t
    <3>1. t = u.teams[job.team]
      BY <2>3, <2>5
    <3> QED BY <2>2, <2>5, <2>8, <3>1, LinkEffect
  <2>11. FossaGrow
    <3>1. ASSUME NEW j \in DOMAIN links
          PROVE  /\ links'[j].user = links[j].user /\ links'[j].team = links[j].team
                 /\ links[j].owner = RightOwner(links[j].user) => links'[j].owner = links[j].owner
      BY <2>6, <2>10
    <3> QED BY <1>1, <2>10, <3>1 DEF FossaGrow
  <2>12. Linked(u, n)'
    <3>1. PICK f \in [1..n - 1 -> DOMAIN links] :
            /\ \A i, j \in 1..n - 1 : f[i] = f[j] => i = j
            /\ \A j \in 1..n - 1 : /\ links[f[j]].user = u.email
                                   /\ links[f[j]].team \in {NoTeam, u.teams[j]}
                                   /\ links[f[j]].owner = RightOwner(u.email)
      BY <2>7 DEF Linked
    <3>2. PICK g : g = [j \in 1..n |-> IF j = n THEN k ELSE f[j]]
      OBVIOUS
    <3>3. \A j \in 1..n : j = n \/ j \in 1..n - 1
      BY <2>3, <2>4
    <3>4. \A j \in 1..n - 1 : f[j] \in DOMAIN links /\ f[j] # k
      BY <2>9, <2>10, <3>1
    <3>5. g[n] = k /\ \A j \in 1..n - 1 : g[j] = f[j]
      BY <2>3, <2>4, <3>2
    <3>6. g \in [1..n -> DOMAIN links']
      BY <2>10, <3>2, <3>3, <3>4
    <3>7. ASSUME NEW i \in 1..n, NEW j \in 1..n, g[i] = g[j] PROVE i = j
      BY <3>1, <3>3, <3>4, <3>5, <3>7
    <3>8. RightOwner(u.email)' = RightOwner(u.email)
      BY <2>11, UserStays
    <3>9. ASSUME NEW j \in 1..n
          PROVE  /\ links'[g[j]].user = u.email
                 /\ links'[g[j]].team \in {NoTeam, u.teams[j]}
                 /\ links'[g[j]].owner = RightOwner(u.email)
      <4>1. CASE j = n
        BY <2>5, <2>6, <2>10, <3>5, <4>1
      <4>2. CASE j \in 1..n - 1
        BY <2>10, <3>1, <3>4, <3>5, <4>2
      <4> QED BY <3>3, <4>1, <4>2
    <3> QED BY <3>6, <3>7, <3>8, <3>9 DEF Linked
  <2>13. UserKnown(u.email)' /\ TeamsMade(u)' /\ RightOwner(u.email)' = o
    BY <2>6, <2>11, UserStays
  <2>14. CASE n = Len(u.teams)
    <3>1. UserIn(u)'
      BY <2>12, <2>13, <2>14 DEF UserIn
    <3>2. job' = NextUser
      BY <2>2, <2>3, <2>14 DEF LinkTeam
    <3> QED BY <1>0, <2>2, <2>11, <3>1, <3>2, UserDone
  <2>15. CASE n # Len(u.teams)
    <3>1. job' = [pc |-> "link", at |-> job.at, parent |-> job.parent, team |-> n + 1,
                  owner |-> job.owner, rows |-> job.rows]
      BY <1>0, <2>2, <2>3, <2>15 DEF JobOK, LinkTeam
    <3>2. job'.pc = "link" /\ job'.at = job.at /\ job'.owner = o /\ job'.team - 1 = n
      BY <2>3, <2>4, <2>5, <3>1
    <3>3. \A i \in DOMAIN FossaUsers : i < job'.at => UserIn(FossaUsers[i])'
      BY <1>0, <2>11, <3>2, UsersStay
    <3>4. User' = u
      BY <2>2, <3>2 DEF User
    <3>5. UserKnown(User.email)' /\ job'.owner = RightOwner(User.email)'
      BY <2>13, <3>2, <3>4 DEF UserKnown, RightOwner, Registered
    <3>6. TeamsMade(User)'
      BY <2>13, <3>4 DEF TeamsMade, TeamsCreated
    <3>7. PICK u2, n2 : u2 = User' /\ n2 = job'.team - 1
      OBVIOUS
    <3>8. Linked(u2, n2)'
      BY <2>12, <3>2, <3>4, <3>7
    <3>9. Linked(User, job.team - 1)'
      BY <3>7, <3>8 DEF Linked, RightOwner, Registered
    <3>10. FossaProgress'
      BY <3>2, <3>3, <3>5, <3>6, <3>9 DEF FossaProgress
    <3> QED BY <1>0, <1>1, <3>2, <3>10, FossaProgressFrame
  <2> QED BY <2>14, <2>15
<1> QED BY <1>3, <1>4

LEMMA FinishProgress ==
  ASSUME IndInv, Progress, SettledOK, FunctionsOK, Finish
  PROVE  Progress' /\ SettledOK'
<1>0. JobOK /\ job.pc = "user" /\ ~MoreUsers
  BY DEF IndInv, Finish
<1>1. /\ UNCHANGED <<sheet, registry, serviceUsers, serviceTeams, collaborators, links, clean>>
      /\ UNCHANGED fossa /\ job'.pc = "done"
      /\ settled' = IF clean THEN tables ELSE settled
  BY DEF Finish, Kept, fossa, Idle
<1>2. UNCHANGED <<projects, companies, people, maintainers, members, foundations, staff>>
  BY <1>1 DEF registry, people
<1>3. CASE ~clean
  BY <1>1, <1>3 DEF Progress, SettledOK
<1>4. CASE clean
  <2>1. FossaGrow /\ Grow
    BY <1>1, SameTables DEF FossaGrow
  <2>2. \A n \in DOMAIN FossaUsers : UserIn(FossaUsers[n])
    <3>1. \A n \in DOMAIN FossaUsers : n < job.at
      BY <1>0, FossaAssumption DEF MoreUsers, JobOK
    <3> QED BY <1>0, <1>4, <3>1 DEF Progress, FossaProgress
  <2>3. \A n \in DOMAIN FossaUsers : UserIn(FossaUsers[n])'
    <3> SUFFICES ASSUME NEW n \in DOMAIN FossaUsers PROVE UserIn(FossaUsers[n])'
      OBVIOUS
    <3>1. PICK v : v = FossaUsers[n]
      OBVIOUS
    <3>2. UserIn(v)'
      BY <2>1, <2>2, <3>1, UserStays
    <3> QED BY <3>1, <3>2
  <2>4. Progress'
    <3>1. FossaProgress'
      BY <1>1, <2>3 DEF FossaProgress
    <3> QED BY <1>0, <1>1, <1>4, <3>1, FossaProgressFrame
  <2>5. InOrder(sheet)' <=> InOrder(sheet)
    BY <2>1, InOrderStays
  <2>6. InOrder(sheet) => \A i \in DOMAIN ActiveRows(sheet)' : RowStands(ActiveRows(sheet)[i])'
    <3>1. RowsThrough(ActiveRows(sheet), DOMAIN ActiveRows(sheet))'
      BY <1>1, <1>4, <2>4 DEF Progress, ActiveProgress
    <3> QED BY <2>5, <3>1 DEF RowsThrough
  <2>7. \A n \in DOMAIN FossaUsers : UserKnown(FossaUsers[n].email)' /\ TeamsMade(FossaUsers[n])'
    BY <2>3 DEF UserIn
  <2>8. PICK st : st = staff
    OBVIOUS
  <2>9. SettledWith(st)'
    BY <1>1, <1>2, <1>4, <2>8 DEF SettledWith, tables, registry
  <2>10. StaffReturn(st)'
    <3>1. st = [e \in DOMAIN staff' |-> st[e]] /\ \A e \in DOMAIN staff' : staff'[e] = st[e]
      BY <1>2, <2>8 DEF FunctionsOK
    <3>2. StaffAs(staff, StaffRows(sheet), DOMAIN StaffRows(sheet))'
      BY <1>1, <1>4, <2>4 DEF Progress, StaffProgress
    <3>3. StaffAs(st, StaffRows(sheet), DOMAIN StaffRows(sheet))'
      BY <1>2, <2>8, <3>2 DEF StaffAs
    <3> QED BY <3>1, <3>3 DEF StaffReturn
  <2>11. SettledOK'
    BY <1>1, <1>4, <2>5, <2>6, <2>7, <2>9, <2>10 DEF SettledOK
  <2> QED BY <2>4, <2>11
<1> QED BY <1>3, <1>4
-----------------------------------------------------------------------------
LEMMA QuietProgress ==
  ASSUME Progress, SettledOK, UNCHANGED <<sheet, registry, fossa, job, clean, settled>>
  PROVE  Progress' /\ SettledOK'
<1>0. /\ UNCHANGED <<sheet, projects, companies, maintainers, members, people, foundations, staff,
                     serviceUsers, serviceTeams, collaborators, links, job, clean, settled>>
      /\ UNCHANGED <<registry, tables, fossa>>
  BY DEF registry, fossa, tables, people
<1>1. FossaGrow /\ Grow
  BY <1>0, SameTables DEF FossaGrow
<1>2. Progress'
  <2> SUFFICES ASSUME clean PROVE Progress'
    BY <1>0 DEF Progress
  <2>1. \A r : /\ RowIn(r) => RowIn(r)'
               /\ RowStands(r) => RowStands(r)'
    BY <1>1, RowStays
  <2>2. InOrder(sheet)' <=> InOrder(sheet)
    BY <1>1, InOrderStays
  <2>3. \A rows, S : RowsThrough(rows, S) => RowsThrough(rows, S)'
    BY <1>1, RowsThroughStay
  <2>4. ActiveProgress'
    <3>1. PICK rows, S, ar : rows = job.rows /\ S = Passed /\ ar = ActiveRows(sheet)
      OBVIOUS
    <3>2. /\ job.pc \in {"parent", "row"} => rows = ar /\ RowsThrough(rows, S)
          /\ job.pc \in {"staff", "user", "teams", "link", "done"} => RowsThrough(ar, DOMAIN ar)
      BY <3>1 DEF Progress, ActiveProgress
    <3>3. /\ job.pc \in {"parent", "row"} => RowsThrough(rows, S)'
          /\ job.pc \in {"staff", "user", "teams", "link", "done"} => RowsThrough(ar, DOMAIN ar)'
      BY <2>3, <3>2
    <3>4. Passed' = S /\ job'.rows = rows /\ ActiveRows(sheet)' = ar
      BY <1>0, <3>1 DEF Passed
    <3>5. job.pc \in {"parent", "row"} => RowsThrough(job.rows, Passed)'
      BY <3>3, <3>4 DEF RowsThrough
    <3>6. job.pc \in {"staff", "user", "teams", "link", "done"} =>
            RowsThrough(ActiveRows(sheet), DOMAIN ActiveRows(sheet))'
      BY <3>3, <3>4 DEF RowsThrough
    <3>7. job.pc = "row" =>
            job.parent = IF Row.parent \in DOMAIN projects THEN Row.parent ELSE Blank
      BY DEF Progress, ActiveProgress
    <3>8. Row' = Row
      BY <1>0 DEF Row, RowsLeft
    <3> QED BY <1>0, <3>2, <3>4, <3>5, <3>6, <3>7, <3>8 DEF ActiveProgress
  <2>5. StaffProgress'
    <3>1. StaffProgress
      BY DEF Progress
    <3> QED BY <1>0, <3>1 DEF StaffProgress, StaffAs, Whole, Passed
  <2>6. FossaProgress'
    <3>1. \A u : /\ RightOwner(u.email)' = RightOwner(u.email)
                 /\ UserKnown(u.email) => UserKnown(u.email)'
                 /\ TeamsMade(u) => TeamsMade(u)'
                 /\ \A n : Linked(u, n) => Linked(u, n)'
                 /\ UserIn(u) => UserIn(u)'
      BY <1>1, UserStays
    <3>2. FossaProgress
      BY DEF Progress
    <3>3. /\ job.pc \in {"user", "teams", "link"} =>
               \A n \in DOMAIN FossaUsers : n < job.at => UserIn(FossaUsers[n])'
          /\ job.pc = "done" => \A n \in DOMAIN FossaUsers : UserIn(FossaUsers[n])'
      BY <3>1, <3>2 DEF FossaProgress
    <3>4. PICK u, n : u = User /\ n = job.team - 1
      OBVIOUS
    <3>5. /\ job.pc \in {"teams", "link"} => UserKnown(u.email)' /\ job.owner = RightOwner(u.email)'
          /\ job.pc = "link" => TeamsMade(u)' /\ Linked(u, n)'
      BY <3>1, <3>2, <3>4 DEF FossaProgress
    <3>6. User' = u /\ job'.team - 1 = n
      BY <1>0, <3>4 DEF User
    <3>7. job.pc \in {"teams", "link"} => UserKnown(User.email)' /\ job.owner = RightOwner(User.email)'
      BY <3>5, <3>6 DEF UserKnown, RightOwner, Registered
    <3>8. job.pc = "link" => TeamsMade(User)'
      BY <3>5, <3>6 DEF TeamsMade, TeamsCreated
    <3>9. job.pc = "link" => Linked(User, job.team - 1)'
      BY <3>5, <3>6 DEF Linked, RightOwner, Registered
    <3> QED BY <1>0, <3>3, <3>7, <3>8, <3>9 DEF FossaProgress
  <2> QED BY <2>4, <2>5, <2>6 DEF Progress
<1>3. SettledOK'
  <2>1. CASE job.pc # "staff"
    BY <1>0, <2>1, SettledFrame
  <2>2. CASE job.pc = "staff"
    <3> SUFFICES ASSUME settled # <<>>, InOrder(sheet)' PROVE SettledOK'
      BY <1>0 DEF SettledOK
    <3>1. /\ clean' /\ InOrder(sheet)
          /\ \A i \in DOMAIN ActiveRows(sheet)' : RowStands(ActiveRows(sheet)[i])'
          /\ \A n \in DOMAIN FossaUsers :
               UserKnown(FossaUsers[n].email)' /\ TeamsMade(FossaUsers[n])'
      BY <1>0, SettledRowsStay
    <3>2. PICK st : SettledWith(st) /\ StaffReturn(st)
      BY <3>1 DEF SettledOK
    <3>3. SettledWith(st)' /\ StaffReturn(st)'
      BY <1>0, <3>2 DEF SettledWith, StaffReturn, StaffAs, Whole
    <3> QED BY <3>1, <3>3 DEF SettledOK
  <2> QED BY <2>1, <2>2
<1> QED BY <1>2, <1>3

\* The second invariant.
RunInv == IndInv /\ Progress /\ SettledOK /\ FunctionsOK

LEMMA RunStep == RunInv /\ [Next]_vars => RunInv'
<1> SUFFICES ASSUME RunInv, [Next]_vars PROVE RunInv'
  OBVIOUS
<1>0. IndInv /\ Progress /\ SettledOK /\ FunctionsOK
  BY DEF RunInv
<1>1. IndInv' /\ FunctionsOK'
  BY <1>0, StepOK, FunctionsStep
<1>2. Progress' /\ SettledOK'
  <2>1. CASE Fault \/ Edit
    BY <2>1, DisturbedOK DEF Fault, Edit
  <2>2. CASE Start \/ ReadActive \/ LookupParent \/ SkipRow \/ RowFails \/ ReadStaff \/ Leave
    BY <1>0, <2>2, ActiveStepProgress
  <2>3. CASE ImportRow
    BY <1>0, <2>3, ImportRowProgress
  <2>4. CASE StaffRow /\ NoFault
    <3>1. SettledOK'
      BY <1>0, <2>4, StaffRowSettled
    <3>2. CASE clean
      BY <1>0, <2>4, <3>1, <3>2, StaffRowProgress
    <3>3. CASE ~clean
      BY <2>4, <3>1, <3>3 DEF NoFault, Progress
    <3> QED BY <3>2, <3>3
  <2>5. CASE FetchFossaData
    BY <1>0, <2>5, FetchProgress
  <2>6. CASE FossaUser /\ NoFault
    BY <1>0, <2>6, FossaUserProgress
  <2>7. CASE CreateServiceTeamsForUser /\ NoFault
    BY <1>0, <2>7, TeamsProgress
  <2>8. CASE LinkTeam /\ NoFault
    BY <1>0, <2>8, LinkTeamProgress
  <2>9. CASE Finish
    BY <1>0, <2>9, FinishProgress
  <2>10. CASE UNCHANGED vars \/ AddLook
    <3>1. UNCHANGED <<sheet, registry, fossa, job, clean, settled>>
      BY <2>10 DEF vars, AddLook, history
    <3> QED BY <1>0, <3>1, QuietProgress
  <2>11. StaffRow => NoFault \/ Fault
    BY DEF StaffRow
  <2>12. FossaUser \/ CreateServiceTeamsForUser \/ LinkTeam => NoFault \/ Fault
    BY DEF FossaUser, CreateServiceTeamsForUser, LinkTeam
  <2>13. \/ Abort \/ EditSheet \/ EditMaintainer \/ EditEmail \/ MergeCompanies \/ CreateProject
         \/ AddCommit \/ AddWithinRow
         => Fault \/ Edit
    BY DEF Abort, EditSheet, EditMaintainer, EditEmail, MergeCompanies, CreateProject, AddCommit,
       AddWithinRow
  <2> QED BY <2>1, <2>2, <2>3, <2>4, <2>5, <2>6, <2>7, <2>8, <2>9, <2>10, <2>11, <2>12, <2>13
          DEF Next, Import
<1> QED BY <1>1, <1>2 DEF RunInv

LEMMA RunInit == Init => RunInv
<1> SUFFICES ASSUME Init PROVE RunInv
  OBVIOUS
<1>1. job.pc = "idle" /\ settled = <<>>
  BY DEF Init, Idle
<1>2. Progress /\ SettledOK
  BY <1>1 DEF Progress, ActiveProgress, StaffProgress, FossaProgress, SettledOK
<1>3. FunctionsOK
  BY DEF Init, FunctionsOK
<1> QED BY <1>2, <1>3, InitOK DEF RunInv

LEMMA RunInvHolds == Spec => []RunInv
BY RunInit, RunStep, PTL DEF Spec
-----------------------------------------------------------------------------
\* The cell that is carried is the nearest one that is not blank.
LEMMA CarriedIs ==
  ASSUME NEW S, NEW rows \in Seq(S), NEW i \in DOMAIN rows, NEW h,
         NEW k \in 1..i, rows[k][h] # Blank, \A j \in (k + 1)..i : rows[j][h] = Blank
  PROVE  Carried(rows, i, h) = rows[k][h]
<1>0. i \in Nat
  OBVIOUS
<1>1. PICK n \in 1..i : /\ Carried(rows, i, h) = rows[n][h] /\ rows[n][h] # Blank
                        /\ \A j \in (n + 1)..i : rows[j][h] = Blank
  BY CarriedFrom
<1>2. ~(n < k) /\ ~(k < n)
  BY <1>0, <1>1
<1>3. n = k
  BY <1>0, <1>2
<1> QED BY <1>1, <1>3

LEMMA ImportedRows == RunInv => RowsAreImported
<1> SUFFICES ASSUME RunInv, job.pc = "done", clean,
                    NEW i \in DOMAIN sheet.active, NEW p \in Projects, NEW m \in Maturities,
                    BelongsTo(i, p), HasStatus(i, m), sheet.active[i].email # Blank,
                    ~Deleted(sheet.active[i].company)
             PROVE  \E k \in DOMAIN maintainers :
                      maintainers[k].email = sheet.active[i].email /\ <<k, p>> \in members
  BY DEF RowsAreImported
<1>1. sheet \in Sheets /\ RowsThrough(ActiveRows(sheet), DOMAIN ActiveRows(sheet))
  BY DEF RunInv, IndInv, TypeOK, Progress, ActiveProgress
<1>2. PICK act \in Seq(ActiveSheetRow) : act = sheet.active
  BY <1>1, SheetAssumption DEF ActiveSheetRow
<1>3. p # Blank /\ m # Blank
  BY BlankAssumption
<1>4. act[i] \in ActiveSheetRow /\ i \in DOMAIN act
  BY <1>2
<1>5. DOMAIN act[i] = {"project", "status", "parent", "company", "email"}
  BY <1>4 DEF ActiveSheetRow
<1>6. i \in DOMAIN ActiveRows(sheet)
  BY <1>2, <1>4, <1>5 DEF ActiveRows, ReadRows
<1>7. ActiveRows(sheet)[i] = [h \in DOMAIN act[i] |->
          IF h \in {"project", "status"} THEN Carried(act, i, h) ELSE act[i][h]]
  BY <1>2, <1>6 DEF ActiveRows, ReadRows
<1>8. PICK r : r = ActiveRows(sheet)[i]
  OBVIOUS
<1>9. /\ r.project = Carried(act, i, "project") /\ r.status = Carried(act, i, "status")
      /\ r.email = act[i].email /\ r.company = act[i].company
  BY <1>5, <1>7, <1>8
<1>10. r.project = p
  <2>1. PICK k \in 1..i : /\ act[k]["project"] = p
                          /\ \A j \in (k + 1)..i : act[j]["project"] = Blank
    BY <1>2 DEF BelongsTo
  <2>2. Carried(act, i, "project") = p
    BY <1>3, <1>4, <2>1, CarriedIs
  <2> QED BY <1>9, <2>2
<1>11. r.status = m
  <2>1. PICK k \in 1..i : /\ act[k]["status"] = m
                          /\ \A j \in (k + 1)..i : act[j]["status"] = Blank
    BY <1>2 DEF HasStatus
  <2>2. Carried(act, i, "status") = m
    BY <1>3, <1>4, <2>1, CarriedIs
  <2> QED BY <1>9, <2>2
<1>12. RowIn(r)
  BY <1>1, <1>6, <1>8 DEF RowsThrough
<1>13. Listed(r)
  BY <1>2, <1>3, <1>9, <1>10, <1>11, <1>12 DEF RowIn
<1> QED BY <1>2, <1>9, <1>10, <1>13 DEF Listed

LEMMA ImportedStaff == RunInv => StaffFollowSheet
<1> SUFFICES ASSUME RunInv, job.pc = "done", clean PROVE StaffFollowSheet
  BY DEF StaffFollowSheet
<1>1. StaffAs(staff, StaffRows(sheet), DOMAIN StaffRows(sheet))
  BY DEF RunInv, Progress, StaffProgress
<1> QED BY <1>1 DEF StaffFollowSheet, StaffAs, Whole

LEMMA UsersIn == RunInv => FossaUsersAreIn
<1> SUFFICES ASSUME RunInv, job.pc = "done", clean, NEW u \in Range(FossaUsers)
             PROVE  /\ u.email \in serviceUsers
                    /\ Registered(u.email) \/ u.email \in Range(collaborators)
                    /\ Range(u.teams) \subseteq DOMAIN projects =>
                         Range(u.teams) \subseteq serviceTeams /\ Linked(u, Len(u.teams))
  BY DEF FossaUsersAreIn
<1>1. PICK n \in DOMAIN FossaUsers : u = FossaUsers[n]
  BY DEF Range
<1>2. UserKnown(u.email) /\ TeamsMade(u) /\ (Range(u.teams) \subseteq DOMAIN projects => Linked(u, Len(u.teams)))
  BY <1>1 DEF RunInv, Progress, FossaProgress, UserIn
<1>3. Range(u.teams) \subseteq DOMAIN projects => TeamsCreated(u.teams) = u.teams
  BY DEF TeamsCreated, Range
<1> QED BY <1>2, <1>3 DEF UserKnown, TeamsMade

\* A run that meets no error leaves nothing out, whatever failed and was edited
\* before it: every usable row of the worksheets is in the registry, staff are
\* as their last row has it, every FOSSA user is a service user and a maintainer
\* or a collaborator, and those whose teams are projects have their service
\* teams and, one to one, links, which need not name the team.
THEOREM RunsAreComplete == Spec => []RunIsComplete
<1>1. RunInv => RunIsComplete
  BY ImportedRows, ImportedStaff, UsersIn DEF RunIsComplete
<1> QED BY <1>1, RunInvHolds, PTL

\* The import is idempotent: an undisturbed run that directly repeats another
\* leaves every table but the links as it found them, although on its way it
\* writes the staff back row by row.
THEOREM RerunsChangeNothing == Spec => []RerunChangesNothing
<1>1. RunInv => RerunChangesNothing
  <2> SUFFICES ASSUME RunInv, job.pc = "user", settled # <<>>, InOrder(sheet)
               PROVE  tables = settled
    BY DEF RerunChangesNothing
  <2>1. PICK st : SettledWith(st) /\ StaffReturn(st)
    BY DEF RunInv, SettledOK
  <2>2. st = [e \in DOMAIN staff |-> st[e]] /\ \A e \in DOMAIN staff : staff[e] = st[e]
    BY <2>1 DEF StaffReturn
  <2>3. staff = [e \in DOMAIN staff |-> staff[e]]
    BY DEF RunInv, FunctionsOK
  <2>4. st = staff
    BY <2>2, <2>3
  <2> QED BY <2>1, <2>4 DEF SettledWith, tables, registry
<1> QED BY <1>1, RunInvHolds, PTL
==============================================================================
