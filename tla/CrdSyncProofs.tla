----------------------------- MODULE CrdSyncProofs ----------------------------
(***************************************************************************)
(* Theorems about CrdSync, for any registry, and any number of changes and *)
(* failures.                                                               *)
(***************************************************************************)
EXTENDS CrdSync, FiniteSetTheorems, TLAPS

\* An object that exists, or of which it is known why it does not.
Known(t) == t \in DOMAIN cluster \cup late \cup lost

\* The same, or a Project that is still to be copied.
Soon(t) == Known(t) \/ t \in Pending \cup owed

\* The running job is at some phase; what it is about to write is proper and
\* refers to known objects.
JobOK ==
  \/ job = Idle
  \/ job = [pc |-> "load", phase |-> job.phase] /\ job.phase \in 1..5
  \/ /\ job = [pc |-> "apply", phase |-> job.phase, todo |-> job.todo]
     /\ job.phase \in 1..5
     /\ \A x \in job.todo :
          /\ Proper(Order[job.phase], x.name, x.spec)
          /\ \A t \in References(Order[job.phase], x.spec) : Known(t)
          /\ \A t \in Parents(Order[job.phase], x.spec) : Soon(t)

\* A running job past phase k has seen to each of these names, and in phase k it
\* has, or is about to.
Covered(k, names) ==
  job # Idle =>
    /\ job.phase > k => \A n \in names : Known(<<Order[k], n>>)
    /\ job.phase = k /\ job.pc = "apply" =>
         \A n \in names : Known(<<Order[k], n>>) \/ \E x \in job.todo : x.name = n

EmailsInUse == {maintainers[m].email : m \in Rows(maintainers)}

CoverageOK == Covered(1, companies) /\ Covered(3, EmailsInUse) /\ Covered(4, Rows(projects))

\* The Projects that are still to be copied have rows.
OwedOK == \A t \in Pending \cup owed : \E n \in Rows(projects) : t = <<"project", n>>

\* The inductive invariant.
IndInv == TypeOK /\ JobOK /\ CoverageOK /\ OwedOK /\ RefsResolve
-----------------------------------------------------------------------------
\* The order of the kinds.
LEMMA OrderIs ==
  /\ Len(Order) = 5 /\ DOMAIN Order = 1..5
  /\ Order[1] = "company" /\ Order[2] = "staff" /\ Order[3] = "maintainer"
  /\ Order[4] = "project" /\ Order[5] = "membership"
BY DEF Order

\* The rows of the tables are well formed.
LEMMA RowTypes ==
  ASSUME TypeOK
  PROVE  /\ \A m \in Rows(maintainers) :
              /\ m \in Maintainers /\ maintainers[m].email \in Emails
              /\ maintainers[m].version \in Versions
              /\ maintainers[m].company \in Companies \cup {None}
         /\ \A p \in Rows(projects) :
              /\ p \in Projects /\ projects[p] \in Project
         /\ \A s \in Rows(staff) : s \in Staff /\ staff[s].version \in Versions
         /\ EmailsInUse \subseteq Emails
<1>1. \A m \in Rows(maintainers) :
        /\ m \in Maintainers /\ maintainers[m].email \in Emails
        /\ maintainers[m].version \in Versions
        /\ maintainers[m].company \in Companies \cup {None}
  BY DEF TypeOK, Rows, Absent, Maintainer, Emails
<1>2. \A p \in Rows(projects) : p \in Projects /\ projects[p] \in Project
  BY DEF TypeOK, Rows, Absent
<1>3. \A s \in Rows(staff) : s \in Staff /\ staff[s].version \in Versions
  BY DEF TypeOK, Rows, Absent
<1> QED BY <1>1, <1>2, <1>3 DEF EmailsInUse

\* What a kind's rows ask for is proper.
LEMMA WantedIsProper ==
  ASSUME TypeOK, NEW k \in 1..5, NEW last \in LastByEmail, NEW x \in Wanted(Order[k], last)
  PROVE  Proper(Order[k], x.name, x.spec)
<1>1. CASE k = 1
  BY <1>1, OrderIs DEF TypeOK, Wanted, CompanyObjects, Proper
<1>2. CASE k = 2
  BY <1>2, OrderIs, RowTypes DEF Wanted, StaffObjects, Proper
<1>3. CASE k = 3
  <2>1. PICK e \in EmailsInUse : x = [name |-> e, spec |-> MaintainerSpec(last[e])]
    BY <1>3, OrderIs DEF Wanted, MaintainerObjects, EmailsInUse
  <2>2. last[e] \in Rows(maintainers) /\ e \in Emails
    BY <2>1, RowTypes DEF LastByEmail, EmailsInUse
  <2>3. MaintainerSpec(last[e]) \in [version : Versions, company : Companies \cup {None}]
    BY <2>2, RowTypes DEF MaintainerSpec
  <2> QED BY <1>3, <2>1, <2>2, <2>3, OrderIs DEF Proper
<1>4. CASE k = 4
  <2>1. PICK p \in Rows(projects) : x = [name |-> p, spec |-> ProjectSpec(p)]
    BY <1>4, OrderIs DEF Wanted, ProjectObjects
  <2>2. p \in Projects /\ projects[p].version \in Versions
    BY RowTypes DEF Project
  <2>3. ProjectSpec(p).parent \in Projects \cup {None} /\ ProjectSpec(p).version \in Versions
    BY <2>2, RowTypes DEF ProjectSpec
  <2>4. ProjectSpec(p).refs.names \subseteq Emails
    BY RowTypes DEF ProjectSpec, Refs
  <2> QED BY <1>4, <2>1, <2>2, <2>3, <2>4, OrderIs DEF Proper
<1>5. CASE k = 5
  <2>0. PICK p \in Rows(projects) :
          \E e \in Refs(p).names : x = [name |-> <<p, e>>, spec |-> <<p, e>>]
    BY <1>5, OrderIs DEF Wanted, MembershipObjects
  <2>1. PICK e \in Refs(p).names : x = [name |-> <<p, e>>, spec |-> <<p, e>>]
    BY <2>0
  <2>2. e \in Emails
    BY <2>1, RowTypes DEF Refs
  <2> QED BY <1>5, <2>1, <2>2, OrderIs, RowTypes DEF Proper
<1> QED BY <1>1, <1>2, <1>3, <1>4, <1>5

\* What a kind's rows refer to has been seen to in earlier phases.
LEMMA WantedIsKnown ==
  ASSUME IndInv, job.pc = "load", NEW last \in LastByEmail,
         NEW x \in Wanted(Order[job.phase], last),
         NEW t \in References(Order[job.phase], x.spec)
  PROVE  Known(t)
<1>0. TypeOK /\ job # Idle /\ job.phase \in 1..5
  BY DEF IndInv, JobOK, Idle
<1>1. CASE job.phase \in {1, 2}
  BY <1>1, OrderIs DEF References
<1>2. CASE job.phase = 3
  <2>1. PICK e \in EmailsInUse : x = [name |-> e, spec |-> MaintainerSpec(last[e])]
    BY <1>2, OrderIs DEF Wanted, MaintainerObjects, EmailsInUse
  <2>2. t = <<"company", x.spec.company>> /\ x.spec.company # None
    BY <1>2, OrderIs DEF References
  <2>3. x.spec.company \in companies
    BY <2>1, <2>2 DEF MaintainerSpec
  <2> QED BY <1>0, <1>2, <2>2, <2>3, OrderIs DEF IndInv, CoverageOK, Covered
<1>3. CASE job.phase = 4
  <2>1. PICK p \in Rows(projects) : x = [name |-> p, spec |-> ProjectSpec(p)]
    BY <1>3, OrderIs DEF Wanted, ProjectObjects
  <2>2. PICK e \in Refs(p).names : t = <<"maintainer", e>>
    BY <1>3, <2>1, OrderIs DEF References, ProjectSpec
  <2>3. e \in EmailsInUse
    BY <2>2 DEF Refs, EmailsInUse
  <2> QED BY <1>0, <1>3, <2>2, <2>3, OrderIs DEF IndInv, CoverageOK, Covered
<1>4. CASE job.phase = 5
  <2>0. PICK p \in Rows(projects) :
          \E e \in Refs(p).names : x = [name |-> <<p, e>>, spec |-> <<p, e>>]
    BY <1>4, OrderIs DEF Wanted, MembershipObjects
  <2>1. PICK e \in Refs(p).names : x = [name |-> <<p, e>>, spec |-> <<p, e>>]
    BY <2>0
  <2>2. t = <<"project", p>> \/ t = <<"maintainer", e>>
    BY <1>4, <2>1, OrderIs DEF References
  <2>3. e \in EmailsInUse
    BY <2>1 DEF Refs, EmailsInUse
  <2> QED BY <1>0, <1>4, <2>2, <2>3, OrderIs DEF IndInv, CoverageOK, Covered
<1> QED BY <1>0, <1>1, <1>2, <1>3, <1>4

\* The initial states satisfy the invariant.
LEMMA InitOK == Init => IndInv
<1> SUFFICES ASSUME Init PROVE IndInv
  OBVIOUS
<1> USE ConstantsAssumption
<1>1. TypeOK
  <2>1. companies \subseteq Companies
    BY DEF Init
  <2>2. staff \in [Staff -> [version : Versions] \cup {NoRow}]
    BY DEF Init
  <2>3. maintainers \in [Maintainers -> Maintainer \cup {NoRow}]
    BY DEF Init, Maintainer
  <2>4. projects \in [Projects -> Project \cup {NoRow}]
    BY DEF Init, Project
  <2> QED BY <2>1, <2>2, <2>3, <2>4 DEF Init, TypeOK, Idle
<1>2. JobOK /\ CoverageOK /\ RefsResolve
  BY DEF Init, JobOK, CoverageOK, Covered, RefsResolve
<1>3. OwedOK
  BY DEF Init, OwedOK, Pending, Idle
<1> QED BY <1>1, <1>2, <1>3 DEF IndInv

\* The CronJob's start and the end of a job, which may come at any time.
LEMMA StartAndFailOK ==
  ASSUME IndInv, Start \/ Fail
  PROVE  IndInv'
<1> USE ConstantsAssumption
<1>1. TypeOK'
  BY DEF IndInv, TypeOK, Start, Fail, registry, Idle
<1>2. JobOK' /\ CoverageOK'
  <2>1. CASE Start
    BY <2>1 DEF Start, JobOK, CoverageOK, Covered
  <2>2. CASE Fail
    BY <2>2 DEF Fail, JobOK, CoverageOK, Covered
  <2> QED BY <2>1, <2>2
<1>3. /\ UNCHANGED <<projects, cluster, late, lost, foreign>>
      /\ Pending' \cup owed' = Pending \cup owed
  <2>1. CASE Start
    BY <2>1 DEF Start, Pending, Idle, registry
  <2>2. CASE Fail
    BY <2>2 DEF Fail, Pending, Idle, registry
  <2> QED BY <2>1, <2>2
<1>4. OwedOK'
  BY <1>3 DEF IndInv, OwedOK, Rows
<1>5. RefsResolve'
  <2>1. \A o \in DOMAIN cluster \ foreign :
          /\ \A t \in References(o[1], cluster[o]) : Known(t)
          /\ \A t \in Parents(o[1], cluster[o]) : Soon(t)
    BY DEF IndInv, RefsResolve, Known, Soon
  <2> QED BY <1>3, <2>1 DEF RefsResolve, Known, Soon
<1> QED BY <1>1, <1>2, <1>4, <1>5 DEF IndInv

\* Reading a kind's rows.
LEMMA LoadOK ==
  ASSUME IndInv, Load
  PROVE  IndInv'
<1>0. PICK last \in LastByEmail :
        job' = [pc |-> "apply", phase |-> job.phase, todo |-> Wanted(Order[job.phase], last)]
  BY DEF Load
<1>a. /\ TypeOK /\ job # Idle /\ job.phase \in 1..5 /\ job.pc = "load"
      /\ UNCHANGED <<companies, staff, maintainers, projects, cluster, changes, faults, late, lost,
                     foreign, owed>>
  BY DEF IndInv, JobOK, Load, Idle, registry, history
<1>b. \A x \in Wanted(Order[job.phase], last) :
        /\ Proper(Order[job.phase], x.name, x.spec)
        /\ \A t \in References(Order[job.phase], x.spec) : Known(t)
  BY <1>a, WantedIsProper, WantedIsKnown
<1>c. Pending = {} /\ (job.phase # 4 => Pending' = {})
        /\ (job.phase = 4 => Pending' = {<<"project", n>> : n \in Rows(projects)})
  <2>1. Pending = {} /\ (job.phase # 4 => Pending' = {})
    BY <1>0, <1>a, OrderIs DEF Pending
  <2>2. ASSUME job.phase = 4 PROVE Pending' = {<<"project", n>> : n \in Rows(projects)}
    <3>1. Pending' = {<<"project", x.name>> : x \in ProjectObjects}
      BY <1>0, <1>a, <2>2, OrderIs DEF Pending, Wanted
    <3>2. ASSUME NEW n \in Rows(projects) PROVE <<"project", n>> \in Pending'
      <4>1. PICK x : x = [name |-> n, spec |-> ProjectSpec(n)]
        OBVIOUS
      <4> QED BY <3>1, <4>1 DEF ProjectObjects
    <3>3. ASSUME NEW t \in Pending' PROVE \E n \in Rows(projects) : t = <<"project", n>>
      <4>1. PICK x \in ProjectObjects : t = <<"project", x.name>>
        BY <3>1, <3>3
      <4> QED BY <4>1 DEF ProjectObjects
    <3> QED BY <3>2, <3>3
  <2> QED BY <2>1, <2>2
<1>d. ASSUME NEW x \in Wanted(Order[job.phase], last), NEW t \in Parents(Order[job.phase], x.spec)
      PROVE  t \in Pending'
  <2>1. job.phase = 4 /\ t = <<"project", x.spec.parent>> /\ x.spec.parent # None
    BY <1>a, <1>d, OrderIs DEF Parents
  <2>2. PICK p \in Rows(projects) : x = [name |-> p, spec |-> ProjectSpec(p)]
    BY <2>1, OrderIs DEF Wanted, ProjectObjects
  <2>3. x.spec.parent \in Rows(projects)
    BY <2>1, <2>2 DEF ProjectSpec
  <2> QED BY <1>c, <2>1, <2>3
<1>1. TypeOK'
  BY <1>0, <1>a DEF TypeOK
<1>2. JobOK'
  <2>1. \A x \in job'.todo :
          /\ Proper(Order[job'.phase], x.name, x.spec)
          /\ \A t \in References(Order[job'.phase], x.spec) : Known(t)'
          /\ \A t \in Parents(Order[job'.phase], x.spec) : Soon(t)'
    BY <1>0, <1>a, <1>b, <1>d DEF Known, Soon
  <2> QED BY <1>0, <1>a, <2>1 DEF JobOK
<1>3. Covered(1, companies)'
  <2>1. ASSUME NEW n \in companies PROVE \E x \in Wanted(Order[1], last) : x.name = n
    <3>1. [name |-> n, spec |-> n] \in Wanted(Order[1], last)
      BY OrderIs DEF Wanted, CompanyObjects
    <3> QED BY <3>1
  <2> QED BY <1>0, <1>a, <2>1 DEF IndInv, CoverageOK, Covered, Known
<1>4. Covered(3, EmailsInUse)'
  <2>1. ASSUME NEW n \in EmailsInUse PROVE \E x \in Wanted(Order[3], last) : x.name = n
    <3>1. [name |-> n, spec |-> MaintainerSpec(last[n])] \in Wanted(Order[3], last)
      BY OrderIs DEF Wanted, MaintainerObjects, EmailsInUse
    <3> QED BY <3>1
  <2>2. EmailsInUse' = EmailsInUse
    BY <1>a DEF EmailsInUse, Rows
  <2> QED BY <1>0, <1>a, <2>1, <2>2 DEF IndInv, CoverageOK, Covered, Known
<1>5. Covered(4, Rows(projects))'
  <2>1. ASSUME NEW n \in Rows(projects) PROVE \E x \in Wanted(Order[4], last) : x.name = n
    <3>1. [name |-> n, spec |-> ProjectSpec(n)] \in Wanted(Order[4], last)
      BY OrderIs DEF Wanted, ProjectObjects
    <3> QED BY <3>1
  <2> QED BY <1>0, <1>a, <2>1 DEF IndInv, CoverageOK, Covered, Known
<1>6. RefsResolve'
  BY <1>a, <1>c DEF IndInv, RefsResolve
<1>7. OwedOK'
  BY <1>a, <1>c DEF IndInv, OwedOK, Rows
<1> QED BY <1>1, <1>2, <1>3, <1>4, <1>5, <1>6, <1>7 DEF IndInv, CoverageOK

\* What Apply does to the objects.
LEMMA Applied ==
  ASSUME IndInv, Apply
  PROVE  \E x \in job.todo :
           LET o == <<Order[job.phase], x.name>>
           IN /\ job' = [pc |-> "apply", phase |-> job.phase, todo |-> job.todo \ {x}]
              /\ DOMAIN cluster' = DOMAIN cluster \cup {o}
              /\ \A y \in DOMAIN cluster : y # o => cluster'[y] = cluster[y]
              /\ \/ cluster'[o] = x.spec /\ foreign' = foreign \ {o}
                 \/ /\ cluster'[o] = cluster[o] /\ o \in DOMAIN cluster
                    /\ SpecEqual(Order[job.phase], cluster[o], x.spec)
                    /\ foreign' = foreign
<1>1. PICK x \in job.todo :
        /\ job' = [job EXCEPT !.todo = @ \ {x}]
        /\ IF /\ <<Order[job.phase], x.name>> \in DOMAIN cluster
              /\ SpecEqual(Order[job.phase], cluster[<<Order[job.phase], x.name>>], x.spec)
           THEN UNCHANGED <<cluster, foreign>>
           ELSE /\ cluster' = Put(<<Order[job.phase], x.name>>, x.spec)
                /\ foreign' = foreign \ {<<Order[job.phase], x.name>>}
  BY DEF Apply
<1>2. job = [pc |-> "apply", phase |-> job.phase, todo |-> job.todo]
  BY DEF IndInv, JobOK, Apply, Idle
<1>3. job' = [pc |-> "apply", phase |-> job.phase, todo |-> job.todo \ {x}]
  BY <1>1, <1>2
<1> QED BY <1>1, <1>3 DEF Put

\* Applying an object.
LEMMA ApplyOK ==
  ASSUME IndInv, Apply
  PROVE  IndInv'
<1> DEFINE kind == Order[job.phase]
<1>0. PICK x \in job.todo :
           /\ job' = [pc |-> "apply", phase |-> job.phase, todo |-> job.todo \ {x}]
           /\ DOMAIN cluster' = DOMAIN cluster \cup {<<kind, x.name>>}
           /\ \A y \in DOMAIN cluster : y # <<kind, x.name>> => cluster'[y] = cluster[y]
           /\ \/ cluster'[<<kind, x.name>>] = x.spec /\ foreign' = foreign \ {<<kind, x.name>>}
              \/ /\ cluster'[<<kind, x.name>>] = cluster[<<kind, x.name>>]
                 /\ <<kind, x.name>> \in DOMAIN cluster /\ foreign' = foreign
  BY Applied
<1> DEFINE o == <<kind, x.name>>
<1>a. /\ job # Idle /\ job.phase \in 1..5 /\ job.pc = "apply"
      /\ UNCHANGED <<companies, staff, maintainers, projects, changes, faults, late, lost, owed>>
      /\ job'.phase = job.phase /\ job'.pc = "apply" /\ job'.todo = job.todo \ {x}
      /\ job' # Idle
  BY <1>0 DEF IndInv, JobOK, Apply, Idle, registry, history
<1>b. /\ Proper(kind, x.name, x.spec) /\ \A t \in References(kind, x.spec) : Known(t)
      /\ \A t \in Parents(kind, x.spec) : Soon(t)
  BY <1>a DEF IndInv, JobOK, Idle
<1>c. \A t : Known(t) => Known(t)'
  BY <1>0, <1>a DEF Known
<1>d. o[1] = kind /\ o[2] = x.name /\ o \in DOMAIN cluster'
  BY <1>0
<1>e. Pending' \subseteq Pending /\ Pending \subseteq Pending' \cup {o}
  BY <1>a DEF Pending
<1>f. \A t : Soon(t) => Soon(t)'
  <2>1. PICK u : u = o
    OBVIOUS
  <2>2. Known(u)'
    BY <1>d, <2>1 DEF Known
  <2> QED BY <1>a, <1>c, <1>e, <2>1, <2>2 DEF Soon
<1> HIDE DEF o, kind
<1>1. TypeOK'
  <2>1. \A y \in DOMAIN cluster' : Proper(y[1], y[2], cluster'[y])
    <3>1. \A y \in DOMAIN cluster : Proper(y[1], y[2], cluster[y])
      BY DEF IndInv, TypeOK
    <3> QED BY <1>0, <1>b, <1>d, <3>1 DEF o
  <2> QED BY <1>a, <2>1 DEF IndInv, TypeOK
<1>2. JobOK'
  <2>1. \A y \in job'.todo :
          /\ Proper(Order[job'.phase], y.name, y.spec)
          /\ \A t \in References(Order[job'.phase], y.spec) : Known(t)'
          /\ \A t \in Parents(Order[job'.phase], y.spec) : Soon(t)'
    BY <1>a, <1>c, <1>f DEF IndInv, JobOK, Idle
  <2> QED BY <1>0, <1>a, <2>1 DEF JobOK
<1>3. \A k \in 1..5 : \A names : Covered(k, names) =>
        /\ job'.phase > k => \A n \in names : Known(<<Order[k], n>>)'
        /\ job'.phase = k /\ job'.pc = "apply" =>
            \A n \in names : Known(<<Order[k], n>>)' \/ \E y \in job'.todo : y.name = n
  <2> SUFFICES ASSUME NEW k \in 1..5, NEW names, Covered(k, names)
               PROVE  /\ job.phase > k => \A n \in names : Known(<<Order[k], n>>)'
                      /\ job.phase = k =>
                          \A n \in names : \/ Known(<<Order[k], n>>)'
                                           \/ \E y \in job.todo \ {x} : y.name = n
    BY <1>a
  <2>1. ASSUME job.phase > k PROVE \A n \in names : Known(<<Order[k], n>>)'
    BY <1>a, <1>c, <2>1 DEF Covered
  <2>2. ASSUME job.phase = k, NEW n \in names
        PROVE  Known(<<Order[k], n>>)' \/ \E y \in job.todo \ {x} : y.name = n
    <3>1. Known(<<Order[k], n>>) \/ \E y \in job.todo : y.name = n
      BY <1>a, <2>2 DEF Covered
    <3>2. x.name = n => Known(<<Order[k], n>>)'
      BY <1>d, <2>2 DEF o, kind, Known
    <3> QED BY <1>c, <3>1, <3>2
  <2> QED BY <2>1, <2>2
<1>4. CoverageOK'
  <2>1. EmailsInUse' = EmailsInUse /\ Rows(projects)' = Rows(projects)
    BY <1>a DEF EmailsInUse, Rows
  <2>2. Covered(1, companies) /\ Covered(3, EmailsInUse) /\ Covered(4, Rows(projects))
    BY DEF IndInv, CoverageOK
  <2>3. Covered(1, companies)'
    BY <1>3, <1>a, <2>2 DEF Covered
  <2>4. Covered(3, EmailsInUse)'
    BY <1>3, <2>1, <2>2 DEF Covered
  <2>5. Covered(4, Rows(projects))'
    BY <1>3, <2>1, <2>2 DEF Covered
  <2> QED BY <2>3, <2>4, <2>5 DEF CoverageOK
<1>5. RefsResolve'
  <2>1. \A y \in DOMAIN cluster \ foreign :
          /\ \A t \in References(y[1], cluster[y]) : Known(t)
          /\ \A t \in Parents(y[1], cluster[y]) : Soon(t)
    BY DEF IndInv, RefsResolve, Known, Soon
  <2>2. ASSUME NEW y \in DOMAIN cluster' \ foreign'
        PROVE  /\ \A t \in References(y[1], cluster'[y]) : Known(t)'
               /\ \A t \in Parents(y[1], cluster'[y]) : Soon(t)'
    <3>1. CASE y = o /\ cluster'[o] = x.spec
      BY <1>b, <1>c, <1>d, <1>f, <3>1
    <3>2. CASE y \in DOMAIN cluster \ foreign /\ cluster'[y] = cluster[y]
      BY <1>c, <1>f, <2>1, <3>2
    <3> QED BY <1>0, <2>2, <3>1, <3>2 DEF o
  <2> QED BY <2>2 DEF RefsResolve, Known, Soon
<1>6. OwedOK'
  BY <1>a, <1>e DEF IndInv, OwedOK, Rows
<1> QED BY <1>1, <1>2, <1>4, <1>5, <1>6 DEF IndInv

\* The end of a kind.
LEMMA EndPhaseOK ==
  ASSUME IndInv, EndPhase
  PROVE  IndInv'
<1>a. /\ job # Idle /\ job.phase \in 1..5 /\ job.pc = "apply" /\ job.todo = {}
      /\ UNCHANGED <<companies, staff, maintainers, projects, cluster, changes, faults,
                     late, lost, foreign>>
      /\ owed' = IF job.phase = 4 THEN {} ELSE owed
      /\ \/ job' = Idle
         \/ job' = [pc |-> "load", phase |-> job.phase + 1] /\ job.phase + 1 \in 1..5
  BY OrderIs DEF IndInv, JobOK, EndPhase, Idle, registry
<1>0. TypeOK'
  BY <1>a DEF IndInv, TypeOK, Idle
<1>b. Pending = {} /\ Pending' = {}
  BY <1>a DEF Pending, Idle
<1>c. \A t : Soon(t) => Soon(t)'
  <2>1. ASSUME job.phase = 4, NEW t \in owed PROVE Known(t)
    BY <1>a, <2>1, OrderIs DEF IndInv, OwedOK, CoverageOK, Covered
  <2> QED BY <1>a, <1>b, <2>1 DEF Soon, Known
<1>1. RefsResolve' /\ OwedOK'
  <2>1. \A o \in DOMAIN cluster \ foreign :
          /\ \A t \in References(o[1], cluster[o]) : Known(t)
          /\ \A t \in Parents(o[1], cluster[o]) : Soon(t)
    BY DEF IndInv, RefsResolve, Known, Soon
  <2>2. RefsResolve'
    BY <1>a, <1>c, <2>1 DEF RefsResolve, Known, Soon
  <2>3. OwedOK'
    BY <1>a, <1>b DEF IndInv, OwedOK, Rows
  <2> QED BY <2>2, <2>3
<1>2. JobOK'
  BY <1>a DEF JobOK
<1>3. \A k \in 1..5 : \A names : Covered(k, names) =>
        \/ job' = Idle
        \/ /\ job'.phase > k => \A n \in names : Known(<<Order[k], n>>)'
           /\ job'.pc # "apply"
  <2> SUFFICES ASSUME NEW k \in 1..5, NEW names, Covered(k, names), job' # Idle
               PROVE  job.phase >= k => \A n \in names : Known(<<Order[k], n>>)'
    BY <1>a
  <2> QED BY <1>a DEF Covered, Known
<1>4. EmailsInUse' = EmailsInUse /\ Rows(projects)' = Rows(projects)
  BY <1>a DEF EmailsInUse, Rows
<1>5. Covered(1, companies)' /\ Covered(3, EmailsInUse)' /\ Covered(4, Rows(projects))'
  BY <1>a, <1>3, <1>4 DEF IndInv, CoverageOK, Covered
<1> QED BY <1>0, <1>1, <1>2, <1>5 DEF IndInv, CoverageOK

\* A disturbance that keeps its new rows in mind.
LEMMA DisturbOK ==
  ASSUME IndInv, TypeOK', UNCHANGED <<job, owed>>, late \subseteq late', lost \subseteq lost',
         \A o \in DOMAIN cluster : o \in DOMAIN cluster' \/ o \in lost',
         \A o \in DOMAIN cluster' \ foreign' :
           o \in DOMAIN cluster \ foreign /\ cluster'[o] = cluster[o],
         Rows(projects) \subseteq Rows(projects)',
         job # Idle => /\ \A c \in companies' \ companies : Known(<<"company", c>>)'
                       /\ \A e \in EmailsInUse' \ EmailsInUse : Known(<<"maintainer", e>>)'
                       /\ \A q \in Rows(projects)' \ Rows(projects) : Known(<<"project", q>>)'
  PROVE  IndInv'
<1>1. \A t : Known(t) => Known(t)'
  BY DEF Known
<1>a. Pending' = Pending /\ \A t : Soon(t) => Soon(t)'
  BY <1>1 DEF Pending, Soon
<1>2. JobOK'
  BY <1>1, <1>a DEF IndInv, JobOK
<1>3. CoverageOK'
  <2>1. Covered(1, companies)'
    BY <1>1, OrderIs DEF IndInv, CoverageOK, Covered
  <2>2. Covered(3, EmailsInUse)'
    BY <1>1, OrderIs DEF IndInv, CoverageOK, Covered
  <2>3. Covered(4, Rows(projects))'
    BY <1>1, OrderIs DEF IndInv, CoverageOK, Covered
  <2> QED BY <2>1, <2>2, <2>3 DEF CoverageOK
<1>4. RefsResolve'
  <2>1. \A o \in DOMAIN cluster \ foreign :
          /\ \A t \in References(o[1], cluster[o]) : Known(t)
          /\ \A t \in Parents(o[1], cluster[o]) : Soon(t)
    BY DEF IndInv, RefsResolve, Known, Soon
  <2> QED BY <1>1, <1>a, <2>1 DEF RefsResolve, Known, Soon
<1>5. OwedOK'
  BY <1>a DEF IndInv, OwedOK
<1> QED BY <1>2, <1>3, <1>4, <1>5 DEF IndInv

\* What others write is a spec of the object's kind.
LEMMA ForeignSpecs ==
  ASSUME NEW kind, NEW name, NEW old, Proper(kind, name, old), NEW spec \in Foreign[kind]
  PROVE  Proper(kind, name, spec)
<1>1. PICK k \in 1..5 : kind = Order[k]
  <2>1. kind \in {"company", "staff", "maintainer", "project", "membership"}
    BY DEF Proper
  <2> QED BY <2>1, OrderIs
<1>2. spec \in SpecsOf(kind)
  BY <1>1, ForeignAssumption, OrderIs
<1>3. CASE kind \in {"company", "staff", "maintainer", "membership"}
  BY <1>2, <1>3 DEF SpecsOf, Proper
<1>4. CASE kind = "project"
  <2>1. spec \in [refs : [names : SUBSET Emails, length : Nat], version : Versions,
                  parent : Projects \cup {None}]
    BY <1>2, <1>4 DEF SpecsOf
  <2> QED BY <1>4, <2>1 DEF Proper
<1> QED BY <1>1, <1>3, <1>4, OrderIs

\* New and changed companies, staff and objects that others delete or change.
LEMMA SimpleDisturbancesOK ==
  ASSUME IndInv, AddCompany \/ EditStaff \/ DeleteObject \/ ChangeObject
  PROVE  IndInv'
<1>0. TypeOK
  BY DEF IndInv
<1>1. CASE AddCompany
  <2>1. /\ UNCHANGED <<job, staff, maintainers, projects, cluster, faults, lost, foreign, owed>>
        /\ companies' \subseteq Companies /\ changes' \in 0..MaxChanges
    BY <1>0, <1>1, ConstantsAssumption DEF AddCompany, Disturb, TypeOK
  <2>2. TypeOK'
    BY <1>0, <2>1 DEF TypeOK
  <2>3. UNCHANGED <<EmailsInUse, Rows(projects)>>
    BY <2>1 DEF EmailsInUse, Rows
  <2>4. /\ late \subseteq late'
        /\ job # Idle => \A c \in companies' \ companies : <<"company", c>> \in late'
    BY <1>1 DEF AddCompany, New
  <2> QED BY <2>1, <2>2, <2>3, <2>4, DisturbOK DEF Known
<1>2. CASE EditStaff
  <2>1. /\ UNCHANGED <<job, companies, maintainers, projects, cluster, faults, late, lost, foreign, owed>>
        /\ changes' \in 0..MaxChanges
    BY <1>0, <1>2, ConstantsAssumption DEF EditStaff, Disturb, TypeOK
  <2>2. staff' \in [Staff -> [version : Versions] \cup {NoRow}]
    BY <1>0, <1>2 DEF EditStaff, TypeOK
  <2>3. TypeOK'
    BY <1>0, <2>1, <2>2 DEF TypeOK
  <2>4. UNCHANGED <<EmailsInUse, Rows(projects)>>
    BY <2>1 DEF EmailsInUse, Rows
  <2> QED BY <2>1, <2>3, <2>4, DisturbOK
<1>3. CASE DeleteObject
  <2>1. /\ UNCHANGED <<job, companies, staff, maintainers, projects, faults, late, owed>>
        /\ changes' \in 0..MaxChanges
    BY <1>0, <1>3, ConstantsAssumption DEF DeleteObject, Disturb, TypeOK, registry
  <2>2. /\ lost \subseteq lost'
        /\ \A o \in DOMAIN cluster : o \in DOMAIN cluster' \/ o \in lost'
        /\ \A o \in DOMAIN cluster' : o \in DOMAIN cluster /\ cluster'[o] = cluster[o]
        /\ \A o \in DOMAIN cluster' \ foreign' : o \notin foreign
    BY <1>3 DEF DeleteObject
  <2>3. TypeOK'
    BY <1>0, <2>1, <2>2 DEF TypeOK
  <2>4. UNCHANGED <<EmailsInUse, Rows(projects)>>
    BY <2>1 DEF EmailsInUse, Rows
  <2> QED BY <2>1, <2>2, <2>3, <2>4, DisturbOK
<1>4. CASE ChangeObject
  <2>1. /\ UNCHANGED <<job, companies, staff, maintainers, projects, faults, late, lost, owed>>
        /\ changes' \in 0..MaxChanges
    BY <1>0, <1>4, ConstantsAssumption DEF ChangeObject, Disturb, TypeOK, registry
  <2>2. PICK o \in DOMAIN cluster :
          \E spec \in Foreign[o[1]] : /\ cluster' = [cluster EXCEPT ![o] = spec]
                                     /\ foreign' = foreign \cup {o}
    BY <1>4 DEF ChangeObject
  <2>3. PICK spec \in Foreign[o[1]] : /\ cluster' = [cluster EXCEPT ![o] = spec]
                                      /\ foreign' = foreign \cup {o}
    BY <2>2
  <2>4. Proper(o[1], o[2], cluster[o])
    BY <1>0 DEF TypeOK
  <2>5. Proper(o[1], o[2], spec)
    BY <2>3, <2>4, ForeignSpecs
  <2>6. DOMAIN cluster' = DOMAIN cluster /\ \A y \in DOMAIN cluster : y # o => cluster'[y] = cluster[y]
    BY <2>3
  <2>7. cluster'[o] = spec
    BY <2>3
  <2>8. \A y \in DOMAIN cluster' : Proper(y[1], y[2], cluster'[y])
    BY <1>0, <2>5, <2>6, <2>7 DEF TypeOK
  <2>9. TypeOK'
    BY <1>0, <2>1, <2>8 DEF TypeOK
  <2>10. UNCHANGED <<EmailsInUse, Rows(projects)>>
    BY <2>1 DEF EmailsInUse, Rows
  <2> QED BY <2>1, <2>3, <2>6, <2>9, <2>10, DisturbOK
<1> QED BY <1>1, <1>2, <1>3, <1>4

\* New and changed projects.
LEMMA ProjectEditsOK ==
  ASSUME IndInv, AddProject \/ EditProject
  PROVE  IndInv'
<1>0. TypeOK
  BY DEF IndInv
<1>1. /\ UNCHANGED <<job, companies, staff, maintainers, cluster, faults, lost, foreign, owed>>
      /\ changes' \in 0..MaxChanges
  <2>1. CASE AddProject
    BY <1>0, <2>1, ConstantsAssumption DEF AddProject, Disturb, TypeOK
  <2>2. CASE EditProject
    <3>1. Disturb /\ UNCHANGED <<companies, staff, maintainers, cluster, lost, foreign>>
      BY <2>2 DEF EditProject
    <3>2. faults \in 0..MaxFaults /\ changes \in 0..MaxChanges
      BY <1>0 DEF TypeOK
    <3> QED BY <3>1, <3>2, ConstantsAssumption DEF Disturb
  <2> QED BY <2>1, <2>2
<1>2. UNCHANGED EmailsInUse
  BY <1>1 DEF EmailsInUse, Rows
<1>3. CASE AddProject
  <2>1. PICK p \in Projects \ Rows(projects), q \in Rows(projects) \cup {None} :
          /\ projects' = [projects EXCEPT ![p] = [members |-> Maintainers, parent |-> q,
                                                  version |-> 0]]
          /\ New(<<"project", p>>)
    BY <1>3 DEF AddProject
  <2>2. [members |-> Maintainers, parent |-> q, version |-> 0] \in Project
    BY <1>0, RowTypes, ConstantsAssumption DEF Project
  <2>3. projects' \in [Projects -> Project \cup {NoRow}]
    BY <1>0, <2>1, <2>2 DEF TypeOK
  <2>4. TypeOK'
    BY <1>0, <1>1, <2>3 DEF TypeOK
  <2>5. Rows(projects)' \subseteq Rows(projects) \cup {p} /\ Rows(projects) \subseteq Rows(projects)'
    BY <1>0, <2>1 DEF TypeOK, Rows, Absent
  <2>6. late \subseteq late' /\ (job # Idle => <<"project", p>> \in late')
    BY <2>1 DEF New
  <2> QED BY <1>1, <1>2, <2>4, <2>5, <2>6, DisturbOK DEF Known
<1>4. CASE EditProject
  <2>1. PICK p \in Rows(projects), v \in Versions, ms \in SUBSET Maintainers,
             q \in Rows(projects) \cup {None} :
          projects' = [projects EXCEPT ![p].version = v, ![p].members = @ \cup ms,
                                       ![p].parent = q]
    BY <1>4 DEF EditProject
  <2>2. PICK x \in Project : projects' = [projects EXCEPT ![p] = x]
    <3>1. p \in Projects /\ projects[p] \in Project
      BY <1>0, RowTypes
    <3>2. [projects[p] EXCEPT !.version = v, !.members = @ \cup ms, !.parent = q] \in Project
      BY <1>0, <3>1, RowTypes DEF Project
    <3>3. projects' = [projects EXCEPT ![p] = [projects[p] EXCEPT !.version = v,
                                                 !.members = @ \cup ms, !.parent = q]]
      BY <1>0, <2>1, <3>1 DEF TypeOK
    <3> QED BY <3>2, <3>3
  <2>3. projects' \in [Projects -> Project \cup {NoRow}]
    BY <1>0, <2>2 DEF TypeOK
  <2>4. TypeOK'
    BY <1>0, <1>1, <2>3 DEF TypeOK
  <2>5. Rows(projects)' = Rows(projects)
    <3>1. x # NoRow
      BY DEF Project, NoRow
    <3> QED BY <1>0, <2>2, <3>1 DEF TypeOK, Rows, Absent
  <2>6. UNCHANGED late
    BY <1>4 DEF EditProject
  <2> QED BY <1>1, <1>2, <2>4, <2>5, <2>6, DisturbOK
<1> QED BY <1>3, <1>4

\* New and changed maintainers, and companies merged away.
LEMMA MaintainerEditsOK ==
  ASSUME IndInv, EditMaintainer \/ MergeCompanies
  PROVE  IndInv'
<1>0. TypeOK
  BY DEF IndInv
<1>1. /\ UNCHANGED <<job, staff, projects, cluster, faults, lost, foreign, owed>>
      /\ changes' \in 0..MaxChanges /\ companies' \subseteq companies
  BY <1>0, ConstantsAssumption DEF EditMaintainer, MergeCompanies, Disturb, TypeOK
<1>2. UNCHANGED Rows(projects)
  BY <1>1 DEF Rows
<1>3. CASE EditMaintainer
  <2>0. PICK m \in Maintainers :
          \E x \in [email : EmailsOf[m], company : companies \cup {None}, version : Versions] :
            /\ maintainers' = [maintainers EXCEPT ![m] = x]
            /\ New(<<"maintainer", x.email>>)
    BY <1>3 DEF EditMaintainer
  <2>1. PICK x \in [email : EmailsOf[m], company : companies \cup {None}, version : Versions] :
          /\ maintainers' = [maintainers EXCEPT ![m] = x]
          /\ New(<<"maintainer", x.email>>)
    BY <2>0
  <2>2. x \in Maintainer
    BY <1>0 DEF TypeOK, Maintainer
  <2>3. maintainers' \in [Maintainers -> Maintainer \cup {NoRow}]
    BY <1>0, <2>1, <2>2 DEF TypeOK
  <2>4. TypeOK'
    BY <1>0, <1>1, <2>3 DEF TypeOK
  <2>5. EmailsInUse' \subseteq EmailsInUse \cup {x.email}
    BY <1>0, <2>1 DEF TypeOK, EmailsInUse, Rows, Absent
  <2>6. late \subseteq late' /\ (job # Idle => <<"maintainer", x.email>> \in late')
    BY <2>1 DEF New
  <2> QED BY <1>1, <1>2, <2>4, <2>5, <2>6, DisturbOK DEF Known
<1>4. CASE MergeCompanies
  <2>1. PICK c \in companies, d \in companies :
          maintainers' = [m \in Maintainers |->
            IF ~Absent(maintainers[m]) /\ maintainers[m].company = c
            THEN [maintainers[m] EXCEPT !.company = d] ELSE maintainers[m]]
    BY <1>4 DEF MergeCompanies
  <2>2. ASSUME NEW m \in Maintainers
        PROVE  /\ maintainers'[m] \in Maintainer \cup {NoRow}
               /\ Absent(maintainers'[m]) <=> Absent(maintainers[m])
               /\ ~Absent(maintainers[m]) => maintainers'[m].email = maintainers[m].email
    <3>1. CASE ~Absent(maintainers[m]) /\ maintainers[m].company = c
      <4>1. PICK n \in Maintainers : maintainers[m] \in [email : EmailsOf[n],
                company : Companies \cup {None}, version : Versions]
        BY <1>0, <3>1 DEF TypeOK, Absent, Maintainer
      <4>2. d \in Companies
        BY <1>0 DEF TypeOK
      <4>3. [maintainers[m] EXCEPT !.company = d] \in [email : EmailsOf[n],
                company : Companies \cup {None}, version : Versions]
        BY <4>1, <4>2
      <4>4. /\ [maintainers[m] EXCEPT !.company = d].email = maintainers[m].email
            /\ [maintainers[m] EXCEPT !.company = d] # NoRow
        BY <4>1 DEF NoRow
      <4> QED BY <2>1, <3>1, <4>3, <4>4 DEF Maintainer, Absent
    <3>2. CASE ~(~Absent(maintainers[m]) /\ maintainers[m].company = c)
      BY <1>0, <2>1, <3>2 DEF TypeOK
    <3> QED BY <3>1, <3>2
  <2>3. maintainers' \in [Maintainers -> Maintainer \cup {NoRow}]
    BY <2>1, <2>2
  <2>4. TypeOK'
    BY <1>0, <1>1, <2>3 DEF TypeOK
  <2>5. EmailsInUse' = EmailsInUse
    BY <1>0, <2>2, <2>3 DEF TypeOK, EmailsInUse, Rows
  <2>6. UNCHANGED late
    BY <1>4 DEF MergeCompanies
  <2> QED BY <1>1, <1>2, <2>4, <2>5, <2>6, DisturbOK
<1> QED BY <1>3, <1>4

\* Every step keeps the invariant.
LEMMA NextOK == IndInv /\ [Next]_vars => IndInv'
<1> SUFFICES ASSUME IndInv, [Next]_vars PROVE IndInv'
  OBVIOUS
<1>1. CASE UNCHANGED vars
  <2>1. UNCHANGED <<companies, staff, maintainers, projects, cluster, job, changes, faults,
                    late, lost, foreign, owed>>
    BY <1>1 DEF vars, registry, history
  <2>2. UNCHANGED <<EmailsInUse, Rows(projects)>> /\ TypeOK'
    BY <2>1 DEF EmailsInUse, Rows, IndInv, TypeOK
  <2> QED BY <2>1, <2>2, DisturbOK
<1> QED BY <1>1, StartAndFailOK, LoadOK, ApplyOK, EndPhaseOK, SimpleDisturbancesOK,
           ProjectEditsOK, MaintainerEditsOK DEF Next, JobStep

\* The tables, the objects and the job are well formed.
THEOREM TypeCorrect == Spec => []TypeOK
<1>1. IndInv => TypeOK
  BY DEF IndInv
<1> QED BY InitOK, NextOK, <1>1, PTL DEF Spec

\* Even after failed and killed jobs, an object that the job wrote refers only to
\* objects that exist, but for rows that were new while a job was running and
\* objects that others deleted: syncAll copies each kind before those that refer
\* to it.  The parent of a Project may also be missing while syncProjects has
\* yet to come to it, and after a job that ended there until a later one has
\* gone through the projects.
THEOREM ReferencesResolve == Spec => []RefsResolve
<1>1. IndInv => RefsResolve
  BY DEF IndInv
<1> QED BY InitOK, NextOK, <1>1, PTL DEF Spec
-----------------------------------------------------------------------------
\* No two maintainers have the same email, as EMAIL_MISSING would make them.
NoSharedEmails == \A m, n \in Maintainers : m # n => EmailsOf[m] \cap EmailsOf[n] = {}

OwnEmails == \A m \in Rows(maintainers) : maintainers[m].email \in EmailsOf[m]

\* A project's list of references holds no name twice.
NoRepeats(spec) ==
  IsFiniteSet(spec.refs.names) /\ spec.refs.length = Cardinality(spec.refs.names)

\* The object that x asks for exists, and says what it should.
Had(k, x) ==
  /\ <<Order[k], x.name>> \in DOMAIN cluster
  /\ SameSpec(Order[k], cluster[<<Order[k], x.name>>], x.spec)

HadAll(k) == \A last \in LastByEmail : \A x \in Wanted(Order[k], last) : Had(k, x)

\* While nothing but the job changes anything, it has seen to all kinds of the
\* phases before, and what it has not seen to of this kind is yet to do.
SteadyOK ==
  steady /\ job # Idle =>
    /\ \A k \in 1..(job.phase - 1) : HadAll(k)
    /\ job.pc = "apply" =>
         \A last \in LastByEmail :
           /\ job.todo \subseteq Wanted(Order[job.phase], last)
           /\ \A x \in Wanted(Order[job.phase], last) : x \in job.todo \/ Had(job.phase, x)

RepeatsOK ==
  /\ \A o \in DOMAIN cluster : o[1] = "project" => IsList(cluster[o].refs)
  /\ job.pc = "apply" /\ job.phase = 4 => \A x \in job.todo : NoRepeats(x.spec)

SyncedOK == synced => steady /\ \A k \in 1..5 : HadAll(k)

\* The inductive invariant of the mirror.
SyncInv == IndInv /\ OwnEmails /\ RepeatsOK /\ SteadyOK /\ SyncedOK

\* With emails of their own, the rows say whom the map by email holds.
LEMMA OneLast ==
  ASSUME NoSharedEmails, TypeOK, OwnEmails, NEW f \in LastByEmail, NEW g \in LastByEmail
  PROVE  f = g
<1>1. ASSUME NEW e \in Emails PROVE f[e] = g[e]
  <2> DEFINE rows == {m \in Rows(maintainers) : maintainers[m].email = e}
  <2>1. \A m, n \in rows : m = n
    <3>1. \A m \in rows : m \in Maintainers /\ e \in EmailsOf[m]
      BY RowTypes DEF OwnEmails
    <3> QED BY <3>1 DEF NoSharedEmails
  <2>2. /\ IF rows = {} THEN f[e] = None ELSE f[e] \in rows
        /\ IF rows = {} THEN g[e] = None ELSE g[e] \in rows
    BY DEF LastByEmail
  <2> QED BY <2>1, <2>2
<1>2. f \in [Emails -> Maintainers \cup {None}] /\ g \in [Emails -> Maintainers \cup {None}]
  BY DEF LastByEmail
<1> QED BY <1>1, <1>2

\* The map by email has some value.
LEMMA SomeLast ==
  ASSUME TypeOK
  PROVE  LastByEmail # {}
<1> DEFINE rows(e) == {m \in Rows(maintainers) : maintainers[m].email = e}
           f == [e \in Emails |-> IF rows(e) = {} THEN None ELSE CHOOSE m \in rows(e) : TRUE]
<1>1. ASSUME NEW e \in Emails
      PROVE  /\ IF rows(e) = {} THEN f[e] = None ELSE f[e] \in rows(e)
             /\ f[e] \in Maintainers \cup {None}
  BY RowTypes
<1>2. f \in LastByEmail
  BY <1>1 DEF LastByEmail
<1> QED BY <1>2

\* With emails of their own, members are listed under different names.
LEMMA RefsNoRepeats ==
  ASSUME NoSharedEmails, TypeOK, OwnEmails, NEW p
  PROVE  IsFiniteSet(Refs(p).names) /\ Refs(p).length = Cardinality(Refs(p).names)
<1> DEFINE rows == projects[p].members \cap Rows(maintainers)
           f == [m \in rows |-> maintainers[m].email]
           T == {maintainers[m].email : m \in rows}
<1>1. IsFiniteSet(rows)
  BY RowTypes, FS_Subset, ConstantsAssumption
<1>2. f \in Surjection(rows, T)
  BY DEF Surjection
<1>3. f \in Injection(rows, T)
  <2>1. ASSUME NEW m \in rows, NEW n \in rows, f[m] = f[n] PROVE m = n
    BY <2>1, RowTypes DEF NoSharedEmails, OwnEmails
  <2> QED BY <2>1 DEF Injection, IsInjective
<1> HIDE DEF rows, f, T
<1>4. IsFiniteSet(T) /\ Cardinality(T) = Cardinality(rows)
  BY <1>1, <1>2, <1>3, FS_Surjection
<1> QED BY <1>4 DEF rows, T, Refs

\* A row asks for one object of its kind: names are keys.
LEMMA NamesAreKeys ==
  ASSUME NEW k \in 1..5, NEW last, NEW x \in Wanted(Order[k], last),
         NEW y \in Wanted(Order[k], last), x.name = y.name
  PROVE  x = y
<1>1. CASE k = 1
  BY <1>1, OrderIs DEF Wanted, CompanyObjects
<1>2. CASE k = 2
  BY <1>2, OrderIs DEF Wanted, StaffObjects
<1>3. CASE k = 3
  BY <1>3, OrderIs DEF Wanted, MaintainerObjects
<1>4. CASE k = 4
  BY <1>4, OrderIs DEF Wanted, ProjectObjects
<1>5. CASE k = 5
  BY <1>5, OrderIs DEF Wanted, MembershipObjects
<1> QED BY <1>1, <1>2, <1>3, <1>4, <1>5

\* If the new list names nobody twice, projectSpecEqual is equality by name,
\* whatever the old one is.
LEMMA SpecEqualIsSame ==
  ASSUME NEW a, NEW b, IsList(a.refs), NoRepeats(b), ProjectSpecEqual(a, b)
  PROVE  SameSpec("project", a, b)
<1>1. PICK A, B : A = a.refs.names /\ B = b.refs.names
  OBVIOUS
<1>2. IsFiniteSet(A) /\ B \subseteq A /\ Cardinality(A) <= Cardinality(B)
  BY <1>1 DEF IsList, NoRepeats, ProjectSpecEqual
<1>3. A = B
  BY <1>2, FS_Subset, FS_CardinalityType
<1> QED BY <1>1, <1>3 DEF SameSpec, ProjectSpecEqual

LEMMA NoRepeatsIsList ==
  ASSUME NEW x, NoRepeats(x)
  PROVE  IsList(x.refs)
BY FS_CardinalityType DEF NoRepeats, IsList

LEMMA SyncInitOK == Init => SyncInv
<1> SUFFICES ASSUME Init PROVE SyncInv
  OBVIOUS
<1>1. OwnEmails
  BY DEF Init, OwnEmails, Rows
<1>2. RepeatsOK /\ SteadyOK /\ SyncedOK
  BY DEF Init, RepeatsOK, SteadyOK, SyncedOK, Idle
<1> QED BY <1>1, <1>2, InitOK DEF SyncInv

\* What a kind's rows ask for depends on the registry alone.
LEMMA SameWanted ==
  ASSUME UNCHANGED registry
  PROVE  /\ LastByEmail' = LastByEmail
         /\ \A kind, last : Wanted(kind, last)' = Wanted(kind, last)
<1>1. UNCHANGED <<companies, staff, maintainers, projects>>
  BY DEF registry
<1>2. LastByEmail' = LastByEmail
  BY <1>1 DEF LastByEmail, Rows
<1>3. ASSUME NEW kind, NEW last PROVE Wanted(kind, last)' = Wanted(kind, last)
  BY <1>1 DEF Wanted, CompanyObjects, StaffObjects, MaintainerObjects, MaintainerSpec,
       ProjectObjects, ProjectSpec, MembershipObjects, Refs, Rows
<1> QED BY <1>2, <1>3

\* What exists stays while neither the registry nor the objects change.
LEMMA SameHad ==
  ASSUME UNCHANGED registry, UNCHANGED cluster
  PROVE  /\ \A k, x : Had(k, x)' <=> Had(k, x)
         /\ \A k : HadAll(k) => HadAll(k)'
<1>1. \A k, x : Had(k, x)' <=> Had(k, x)
  BY DEF Had
<1>2. ASSUME NEW k, HadAll(k) PROVE HadAll(k)'
  BY <1>1, <1>2, SameWanted DEF HadAll
<1> QED BY <1>1, <1>2

\* The job's start, end and failure.
LEMMA SyncStartAndEndOK ==
  ASSUME SyncInv, Start \/ Fail \/ EndPhase
  PROVE  OwnEmails' /\ RepeatsOK' /\ SteadyOK' /\ SyncedOK'
<1>0. UNCHANGED <<registry, cluster>>
  BY DEF Start, Fail, EndPhase
<1>1. OwnEmails'
  BY <1>0 DEF SyncInv, OwnEmails, registry, Rows
<1>2. RepeatsOK'
  BY <1>0 DEF SyncInv, RepeatsOK, Start, Fail, EndPhase, Idle
<1>3. CASE Start
  <2>1. SteadyOK'
    BY <1>3 DEF Start, SteadyOK
  <2>2. SyncedOK'
    BY <1>0, <1>3, SameHad DEF Start, SyncInv, SyncedOK
  <2> QED BY <1>1, <1>2, <2>1, <2>2
<1>4. CASE Fail
  <2>1. SteadyOK'
    BY <1>4 DEF Fail, SteadyOK
  <2>2. SyncedOK'
    BY <1>0, <1>4, SameHad DEF Fail, SyncInv, SyncedOK, history
  <2> QED BY <1>1, <1>2, <2>1, <2>2
<1>5. CASE EndPhase
  <2>1. job # Idle /\ job.phase \in 1..5 /\ job.pc = "apply" /\ job.todo = {} /\ UNCHANGED steady
    BY <1>5 DEF SyncInv, IndInv, JobOK, EndPhase, Idle
  <2>2. ASSUME steady, NEW k \in 1..job.phase PROVE HadAll(k)'
    <3>1. HadAll(k)
      <4>1. CASE k = job.phase
        BY <2>1, <2>2, <4>1 DEF SyncInv, SteadyOK, HadAll
      <4>2. CASE k # job.phase
        <5>1. k \in 1..(job.phase - 1)
          BY <2>1, <4>2
        <5> QED BY <2>1, <2>2, <5>1 DEF SyncInv, SteadyOK
      <4> QED BY <4>1, <4>2
    <3> QED BY <1>0, <3>1, SameHad
  <2>3. CASE job.phase < 5
    <3>1. job' = [pc |-> "load", phase |-> job.phase + 1] /\ UNCHANGED synced
      BY <1>5, <2>3, OrderIs DEF EndPhase
    <3>2. SteadyOK'
      BY <2>1, <2>2, <3>1 DEF SteadyOK
    <3>3. SyncedOK'
      BY <1>0, <2>1, <3>1, SameHad DEF SyncInv, SyncedOK
    <3> QED BY <1>1, <1>2, <3>2, <3>3
  <2>4. CASE job.phase = 5
    <3>1. job' = Idle /\ synced' = steady
      BY <1>5, <2>4, OrderIs DEF EndPhase
    <3>2. SteadyOK' /\ SyncedOK'
      BY <2>1, <2>2, <2>4, <3>1 DEF SteadyOK, SyncedOK
    <3> QED BY <1>1, <1>2, <3>2
  <2> QED BY <2>1, <2>3, <2>4
<1> QED BY <1>3, <1>4, <1>5

\* Reading a kind's rows.
LEMMA SyncLoadOK ==
  ASSUME NoSharedEmails, SyncInv, Load
  PROVE  OwnEmails' /\ RepeatsOK' /\ SteadyOK' /\ SyncedOK'
<1>0. PICK last \in LastByEmail :
        job' = [pc |-> "apply", phase |-> job.phase, todo |-> Wanted(Order[job.phase], last)]
  BY DEF Load
<1>a. /\ TypeOK /\ OwnEmails /\ job # Idle /\ job.phase \in 1..5 /\ job.pc = "load"
      /\ UNCHANGED <<registry, cluster, steady, synced>>
      /\ job' # Idle /\ job'.phase = job.phase /\ job'.todo = Wanted(Order[job.phase], last)
  BY <1>0 DEF SyncInv, IndInv, JobOK, Load, Idle, history
<1>1. OwnEmails'
  BY <1>a DEF OwnEmails, registry, Rows
<1>2. RepeatsOK'
  <2>1. ASSUME job.phase = 4, NEW x \in Wanted(Order[job.phase], last) PROVE NoRepeats(x.spec)
    <3>1. PICK p \in Rows(projects) : x = [name |-> p, spec |-> ProjectSpec(p)]
      BY <2>1, OrderIs DEF Wanted, ProjectObjects
    <3> QED BY <1>a, <3>1, RefsNoRepeats DEF NoRepeats, ProjectSpec
  <2> QED BY <1>0, <1>a, <2>1 DEF SyncInv, RepeatsOK
<1>3. SteadyOK'
  <2>1. ASSUME NEW l \in LastByEmail PROVE l = last
    BY <1>a, OneLast
  <2> QED BY <1>0, <1>a, <2>1, SameHad, SameWanted DEF SyncInv, SteadyOK
<1>4. SyncedOK'
  BY <1>a, SameHad DEF SyncInv, SyncedOK
<1> QED BY <1>1, <1>2, <1>3, <1>4

\* Applying an object.
LEMMA SyncApplyOK ==
  ASSUME NoSharedEmails, SyncInv, Apply
  PROVE  OwnEmails' /\ RepeatsOK' /\ SteadyOK' /\ SyncedOK'
<1> DEFINE kind == Order[job.phase]
<1>0. PICK x \in job.todo :
           /\ job' = [pc |-> "apply", phase |-> job.phase, todo |-> job.todo \ {x}]
           /\ DOMAIN cluster' = DOMAIN cluster \cup {<<kind, x.name>>}
           /\ \A y \in DOMAIN cluster : y # <<kind, x.name>> => cluster'[y] = cluster[y]
           /\ \/ cluster'[<<kind, x.name>>] = x.spec
              \/ /\ cluster'[<<kind, x.name>>] = cluster[<<kind, x.name>>]
                 /\ <<kind, x.name>> \in DOMAIN cluster
                 /\ SpecEqual(kind, cluster[<<kind, x.name>>], x.spec)
  BY Applied DEF SyncInv
<1> DEFINE o == <<kind, x.name>>
<1>a. /\ TypeOK /\ OwnEmails /\ RepeatsOK
      /\ job # Idle /\ job.phase \in 1..5 /\ job.pc = "apply"
      /\ UNCHANGED <<registry, steady, synced>>
      /\ job'.phase = job.phase /\ job'.pc = "apply" /\ job'.todo = job.todo \ {x}
      /\ job' # Idle
  BY <1>0 DEF SyncInv, IndInv, JobOK, Apply, Idle, history
<1>1. OwnEmails'
  BY <1>a DEF OwnEmails, registry, Rows
<1>b. o[1] = kind /\ o[2] = x.name /\ o \in DOMAIN cluster' /\ (kind = "project" <=> job.phase = 4)
  BY <1>0, <1>a, OrderIs
<1> HIDE DEF o, kind
<1>2. RepeatsOK'
  <2>1. \A y \in DOMAIN cluster' : y[1] = "project" => IsList(cluster'[y].refs)
    <3>1. kind = "project" => IsList(x.spec.refs)
      BY <1>a, <1>b, NoRepeatsIsList DEF RepeatsOK
    <3> QED BY <1>0, <1>a, <1>b, <3>1 DEF RepeatsOK, o
  <2> QED BY <1>a, <2>1 DEF RepeatsOK
<1>3. SameSpec(kind, cluster'[o], x.spec)
  <2>1. CASE cluster'[o] = x.spec
    BY <2>1 DEF SameSpec
  <2>2. CASE cluster'[o] = cluster[o] /\ o \in DOMAIN cluster /\ SpecEqual(kind, cluster[o], x.spec)
    <3>1. CASE kind = "project"
      BY <1>a, <1>b, <2>2, <3>1, SpecEqualIsSame DEF SpecEqual, RepeatsOK
    <3>2. CASE kind # "project"
      BY <2>2, <3>2 DEF SpecEqual, SameSpec
    <3> QED BY <3>1, <3>2
  <2> QED BY <1>0, <2>1, <2>2 DEF o
<1>4. ASSUME steady, NEW k \in 1..5, NEW last \in LastByEmail,
             NEW y \in Wanted(Order[k], last), Had(k, y) \/ (k = job.phase /\ y = x)
      PROVE  Had(k, y)'
  <2>1. CASE <<Order[k], y.name>> = o
    <3>1. k = job.phase /\ y.name = x.name
      <4>1. Order[k] = kind /\ y.name = x.name
        BY <2>1 DEF o
      <4> QED BY <1>a, <4>1, OrderIs DEF kind
    <3>2. x \in Wanted(Order[k], last)
      BY <1>a, <1>4, <3>1 DEF SyncInv, SteadyOK
    <3>3. y = x
      BY <3>1, <3>2, NamesAreKeys
    <3> QED BY <1>3, <1>b, <3>1, <3>3 DEF Had, o, kind
  <2>2. CASE <<Order[k], y.name>> # o
    <3>1. Had(k, y)
      BY <1>4, <2>2 DEF o, kind
    <3> QED BY <1>0, <2>2, <3>1 DEF Had, o
  <2> QED BY <2>1, <2>2
<1>5. ASSUME steady, NEW k \in 1..5, HadAll(k) PROVE HadAll(k)'
  BY <1>a, <1>4, <1>5, SameWanted DEF HadAll
<1>6. SteadyOK'
  <2>0. SUFFICES ASSUME steady
                 PROVE  /\ \A k \in 1..(job.phase - 1) : HadAll(k)'
                        /\ \A last \in LastByEmail :
                             /\ job.todo \ {x} \subseteq Wanted(kind, last)
                             /\ \A y \in Wanted(kind, last) :
                                  y \in job.todo \ {x} \/ Had(job.phase, y)'
    BY <1>a, SameWanted DEF SteadyOK, kind
  <2>1. \A k \in 1..(job.phase - 1) : HadAll(k)'
    <3>1. \A k \in 1..(job.phase - 1) : k \in 1..5 /\ HadAll(k)
      BY <1>a, <2>0 DEF SyncInv, SteadyOK
    <3> QED BY <1>5, <2>0, <3>1
  <2>2. ASSUME NEW last \in LastByEmail, NEW y \in Wanted(kind, last)
        PROVE  y \in job.todo \ {x} \/ Had(job.phase, y)'
    <3>1. y \in job.todo \/ Had(job.phase, y)
      BY <1>a, <2>0 DEF SyncInv, SteadyOK, kind
    <3> QED BY <1>a, <1>4, <2>0, <3>1 DEF kind
  <2>3. ASSUME NEW last \in LastByEmail PROVE job.todo \ {x} \subseteq Wanted(kind, last)
    BY <1>a, <2>0 DEF SyncInv, SteadyOK, kind
  <2> QED BY <2>1, <2>2, <2>3
<1>7. SyncedOK'
  BY <1>a, <1>5 DEF SyncInv, SyncedOK
<1> QED BY <1>1, <1>2, <1>6, <1>7

\* Disturbances end what was steady and synced.
LEMMA SyncDisturbOK ==
  ASSUME SyncInv, steady' = FALSE, synced' = FALSE, UNCHANGED job, OwnEmails',
         \A o \in DOMAIN cluster' : \/ o \in DOMAIN cluster /\ cluster'[o] = cluster[o]
                                    \/ o[1] = "project" => IsList(cluster'[o].refs)
  PROVE  OwnEmails' /\ RepeatsOK' /\ SteadyOK' /\ SyncedOK'
BY DEF SyncInv, RepeatsOK, SteadyOK, SyncedOK

\* What others do.
LEMMA SyncOthersOK ==
  ASSUME SyncInv, \/ AddCompany \/ MergeCompanies \/ EditStaff \/ EditMaintainer
                  \/ AddProject \/ EditProject \/ DeleteObject \/ ChangeObject
  PROVE  OwnEmails' /\ RepeatsOK' /\ SteadyOK' /\ SyncedOK'
<1>1. steady' = FALSE /\ synced' = FALSE /\ UNCHANGED job
  BY DEF AddCompany, MergeCompanies, EditStaff, EditMaintainer, AddProject, EditProject,
         DeleteObject, ChangeObject, Disturb
<1>2. \A o \in DOMAIN cluster' : \/ o \in DOMAIN cluster /\ cluster'[o] = cluster[o]
                                 \/ o[1] = "project" => IsList(cluster'[o].refs)
  <2>1. CASE ChangeObject
    <3>1. PICK o \in DOMAIN cluster : \E spec \in Foreign[o[1]] : cluster' = [cluster EXCEPT ![o] = spec]
      BY <2>1 DEF ChangeObject
    <3>2. PICK spec \in Foreign[o[1]] : cluster' = [cluster EXCEPT ![o] = spec]
      BY <3>1
    <3>3. o[1] = "project" => IsList(spec.refs)
      BY <3>2, ForeignAssumption, OrderIs DEF SpecsOf
    <3> QED BY <3>2, <3>3
  <2> QED BY <2>1 DEF AddCompany, MergeCompanies, EditStaff, EditMaintainer, AddProject, EditProject,
         DeleteObject
<1>3. OwnEmails'
  <2>1. CASE UNCHANGED maintainers
    BY <2>1 DEF SyncInv, OwnEmails, Rows
  <2>2. CASE EditMaintainer
    <3>1. DOMAIN maintainers = Maintainers
      BY DEF SyncInv, IndInv, TypeOK
    <3> QED BY <2>2, <3>1 DEF EditMaintainer, SyncInv, OwnEmails, Rows
  <2>3. CASE MergeCompanies
    <3>1. PICK c \in companies, d \in companies :
            maintainers' = [m \in Maintainers |->
              IF ~Absent(maintainers[m]) /\ maintainers[m].company = c
              THEN [maintainers[m] EXCEPT !.company = d] ELSE maintainers[m]]
      BY <2>3 DEF MergeCompanies
    <3>2. ASSUME NEW m \in Rows(maintainers)'
          PROVE  m \in Rows(maintainers) /\ maintainers'[m].email = maintainers[m].email
      <4>1. m \in Maintainers /\ DOMAIN maintainers = Maintainers
        BY <3>1 DEF Rows, SyncInv, IndInv, TypeOK
      <4>2. m \in Rows(maintainers)
        BY <3>1, <4>1 DEF Rows
      <4>3. PICK n \in Maintainers : maintainers[m] \in [email : EmailsOf[n],
                company : Companies \cup {None}, version : Versions]
        BY <4>1, <4>2 DEF SyncInv, IndInv, TypeOK, Absent, Maintainer, Rows
      <4>4. [maintainers[m] EXCEPT !.company = d].email = maintainers[m].email
        BY <4>3
      <4> QED BY <3>1, <4>1, <4>2, <4>4
    <3> QED BY <3>2 DEF SyncInv, OwnEmails
  <2> QED BY <2>1, <2>2, <2>3 DEF AddCompany, EditStaff, AddProject, EditProject, DeleteObject,
             ChangeObject, registry
<1> QED BY <1>1, <1>2, <1>3, SyncDisturbOK

\* Every step keeps the invariant of the mirror.
LEMMA SyncNextOK ==
  ASSUME NoSharedEmails
  PROVE  SyncInv /\ [Next]_vars => SyncInv'
<1> SUFFICES ASSUME SyncInv, [Next]_vars PROVE SyncInv'
  OBVIOUS
<1>1. IndInv'
  BY NextOK DEF SyncInv
<1>2. CASE UNCHANGED vars
  <2>1. UNCHANGED <<registry, cluster, job, steady, synced>>
    BY <1>2 DEF vars, history
  <2>2. OwnEmails' /\ RepeatsOK'
    BY <2>1 DEF SyncInv, OwnEmails, RepeatsOK, registry, Rows
  <2>3. SteadyOK' /\ SyncedOK'
    BY <2>1, SameHad, SameWanted DEF SyncInv, SteadyOK, SyncedOK
  <2> QED BY <1>1, <2>2, <2>3 DEF SyncInv
<1> QED BY <1>1, <1>2, SyncStartAndEndOK, SyncLoadOK, SyncApplyOK, SyncOthersOK
        DEF Next, JobStep, SyncInv

\* If maintainers have emails of their own, a job that succeeds while nothing
\* else changes leaves every row's object as the row says, whatever earlier jobs
\* left half done and whatever others did to the objects.
THEOREM SyncMirrors ==
  ASSUME NoSharedEmails
  PROVE  Spec => []SyncedIsMirrored
<1>1. SyncInv => SyncedIsMirrored
  BY SomeLast, OrderIs DEF SyncInv, IndInv, SyncedOK, SyncedIsMirrored, Mirrored, HadAll, Had
<1> QED BY SyncInitOK, SyncNextOK, <1>1, PTL DEF Spec
===============================================================================
