-------------------------------- MODULE CrdSync -------------------------------
(***************************************************************************)
(* The job that copies the registry into custom resources                  *)
(* (src/cmd/sync/main.go): it goes through companies, staff, maintainers,  *)
(* projects and memberships, reads the tables anew for each kind, creates  *)
(* or updates one object per row, deletes none, and stops at the first     *)
(* error.  A CronJob starts it every half hour, one at a time.             *)
(*                                                                         *)
(* Names stand for what sanitizeName makes of them.  Whatever an object's  *)
(* spec copies from its own row is one version number; its references to   *)
(* objects of the job are kept.  FoundationRef and MaintainerLeadRef are   *)
(* part of the version: foundations have no objects, and the lead of a     *)
(* project is the link in LegacyMaintainerRef, which names no object.      *)
(***************************************************************************)
EXTENDS Naturals, Sequences, FiniteSets

CONSTANTS
  Companies, Staff, Projects, \* names, which are keys
  Maintainers,  \* ids
  EmailsOf,     \* the emails each maintainer may have
  Versions,     \* of a row's other columns
  Foreign,      \* specs that others may write, by kind
  MaxChanges,   \* bound: changes of the registry, and of objects by others
  MaxFaults     \* bound: failing calls and killed jobs

None == "none"

ASSUME ConstantsAssumption ==
  /\ MaxChanges \in Nat /\ MaxFaults \in Nat
  /\ 0 \in Versions /\ None \notin Companies \cup Projects
  /\ Companies # {} /\ IsFiniteSet(Maintainers)
  /\ DOMAIN EmailsOf = Maintainers

VARIABLES
  companies,    \* registry: names of companies
  staff,        \* registry: staff rows, None if there is none
  maintainers,  \* registry: maintainers, None if there is none
  projects,     \* registry: projects, None if there is none
  cluster,      \* spec of each object, by kind and name
  job,          \* the running job
  changes, faults, \* how many are still to come
  steady,       \* history: nothing but the job changed anything since it began
  synced,       \* history: a steady job succeeded, and nothing changed since
  late,         \* history: kind and name of rows new while a job was running
  lost,         \* history: objects that others deleted
  foreign,      \* history: objects whose spec others wrote last
  owed          \* history: Projects that a job left to do when it ended, until
                \* a later one has gone through the projects

registry == <<companies, staff, maintainers, projects>>
history == <<steady, synced, late, lost, foreign, owed>>
vars == <<registry, cluster, job, changes, faults, history>>
-----------------------------------------------------------------------------
Emails == UNION {EmailsOf[m] : m \in Maintainers}
Maintainer == UNION {[email : EmailsOf[m], company : Companies \cup {None},
                      version : Versions] : m \in Maintainers}
Project == [members : SUBSET Maintainers, parent : Projects \cup {None},
            version : Versions]
NoRow == [deleted |-> TRUE]

Absent(x) == x = NoRow
Rows(table) == {k \in DOMAIN table : ~Absent(table[k])}

\* Variant: maintainers are copied after what refers to them.
LateMaintainers == <<"company", "staff", "project", "membership", "maintainer">>

\* syncAll
Order == <<"company", "staff", "maintainer", "project", "membership">>

\* MaintainerRefs is a list of names, one for each member.
Refs(p) == LET rows == projects[p].members \cap Rows(maintainers)
           IN [names |-> {maintainers[m].email : m \in rows}, length |-> Cardinality(rows)]

ProjectSpec(p) ==
  [refs |-> Refs(p), version |-> projects[p].version,
   parent |-> IF projects[p].parent \in Rows(projects) THEN projects[p].parent ELSE None]

\* Variant: the empty name is sanitized too.
UnnamedCompany(m) ==
  [version |-> maintainers[m].version,
   company |-> IF maintainers[m].company \in companies THEN maintainers[m].company
               ELSE "unnamed"]

\* A company that was merged away is not loaded with the maintainer.
MaintainerSpec(m) ==
  [version |-> maintainers[m].version,
   company |-> IF maintainers[m].company \in companies THEN maintainers[m].company
               ELSE None]

\* What each function reads: the name and the spec of its objects.
CompanyObjects == {[name |-> c, spec |-> c] : c \in companies}
StaffObjects == {[name |-> s, spec |-> staff[s].version] : s \in Rows(staff)}
\* One maintainer for each email, since the map is keyed by it: last says which.
MaintainerObjects(last) ==
  {[name |-> e, spec |-> MaintainerSpec(last[e])] :
     e \in {maintainers[m].email : m \in Rows(maintainers)}}
ProjectObjects == {[name |-> p, spec |-> ProjectSpec(p)] : p \in Rows(projects)}
MembershipObjects ==
  UNION {{[name |-> <<p, e>>, spec |-> <<p, e>>] : e \in Refs(p).names} :
           p \in Rows(projects)}

Wanted(kind, last) ==
  CASE kind = "company" -> CompanyObjects
    [] kind = "staff" -> StaffObjects
    [] kind = "maintainer" -> MaintainerObjects(last)
    [] kind = "project" -> ProjectObjects
    [] kind = "membership" -> MembershipObjects

\* The ways in which a map by email can come out.
LastByEmail ==
  {f \in [Emails -> Maintainers \cup {None}] :
     \A e \in Emails :
       LET rows == {m \in Rows(maintainers) : maintainers[m].email = e}
       IN IF rows = {} THEN f[e] = None ELSE f[e] \in rows}
-----------------------------------------------------------------------------
Idle == [pc |-> "idle"]

\* An object with a name and a spec of its kind.
Proper(kind, name, spec) ==
  \/ kind = "company" /\ name \in Companies /\ spec \in Companies
  \/ kind = "staff" /\ name \in Staff /\ spec \in Versions
  \/ /\ kind = "maintainer" /\ name \in Emails
     /\ spec \in [version : Versions, company : Companies \cup {None}]
  \/ /\ kind = "project" /\ name \in Projects
     /\ spec.parent \in Projects \cup {None} /\ spec.version \in Versions
     /\ spec.refs.names \subseteq Emails
  \/ kind = "membership" /\ name \in Projects \X Emails /\ spec \in Projects \X Emails

\* Lists of names: a name may be there more than once.
IsList(l) == IsFiniteSet(l.names) /\ l.length \in Nat /\ Cardinality(l.names) <= l.length

SpecsOf(kind) ==
  CASE kind = "company" -> Companies
    [] kind = "staff" -> Versions
    [] kind = "maintainer" -> [version : Versions, company : Companies \cup {None}]
    [] kind = "project" ->
         {x \in [refs : [names : SUBSET Emails, length : Nat], version : Versions,
                 parent : Projects \cup {None}] : IsList(x.refs)}
    [] kind = "membership" -> Projects \X Emails

ASSUME ForeignAssumption ==
  \A k \in DOMAIN Order : Foreign[Order[k]] \subseteq SpecsOf(Order[k])

TypeOK ==
  /\ companies \subseteq Companies
  /\ staff \in [Staff -> [version : Versions] \cup {NoRow}]
  /\ maintainers \in [Maintainers -> Maintainer \cup {NoRow}]
  /\ projects \in [Projects -> Project \cup {NoRow}]
  /\ \A o \in DOMAIN cluster : Proper(o[1], o[2], cluster[o])
  /\ job.pc \in {"idle", "load", "apply"}
  /\ changes \in 0..MaxChanges /\ faults \in 0..MaxFaults

\* A registry with a company, a maintainer and a project; an empty cluster.
Init ==
  /\ companies = {CHOOSE c \in Companies : TRUE}
  /\ staff = [s \in Staff |-> [version |-> 0]]
  /\ \E e \in [Maintainers -> Emails] :
       /\ \A m \in Maintainers : e[m] \in EmailsOf[m]
       /\ maintainers = [m \in Maintainers |->
                           [email |-> e[m], company |-> None, version |-> 0]]
  /\ projects = [p \in Projects |->
       IF p = CHOOSE q \in Projects : TRUE
       THEN [members |-> Maintainers, parent |-> None, version |-> 0] ELSE NoRow]
  /\ cluster = [o \in {} |-> None]
  /\ job = Idle
  /\ changes = MaxChanges /\ faults = MaxFaults
  /\ steady = FALSE /\ synced = FALSE /\ late = {} /\ lost = {}
  /\ foreign = {} /\ owed = {}
-----------------------------------------------------------------------------
\* The CronJob starts a job when none is running.
Start ==
  /\ job = Idle
  /\ job' = [pc |-> "load", phase |-> 1]
  /\ steady' = TRUE
  /\ UNCHANGED <<registry, cluster, changes, faults, synced, late, lost, foreign, owed>>

\* A kind's rows are read, in one query.
Load ==
  /\ job.pc = "load"
  /\ \E last \in LastByEmail :
       job' = [pc |-> "apply", phase |-> job.phase,
               todo |-> Wanted(Order[job.phase], last)]
  /\ UNCHANGED <<registry, cluster, changes, faults, history>>

\* Variant: the list of maintainers is not looked at.
SpecEqualButRefs(a, b) == a.version = b.version /\ a.parent = b.parent

\* projectSpecEqual: as many references, and the new ones among the old.
ProjectSpecEqual(a, b) ==
  /\ a.version = b.version /\ a.parent = b.parent
  /\ a.refs.length = b.refs.length
  /\ b.refs.names \subseteq a.refs.names

SpecEqual(kind, a, b) == IF kind = "project" THEN ProjectSpecEqual(a, b) ELSE a = b

Put(o, spec) == [x \in DOMAIN cluster \cup {o} |-> IF x = o THEN spec ELSE cluster[x]]

\* Variant: objects are created without a Get, and one that exists is an error.
CreateOnly ==
  /\ job.pc = "apply"
  /\ \E x \in job.todo :
       LET o == <<Order[job.phase], x.name>>
       IN IF o \in DOMAIN cluster THEN job' = Idle /\ UNCHANGED cluster
          ELSE /\ cluster' = Put(o, x.spec)
               /\ job' = [job EXCEPT !.todo = @ \ {x}]
  /\ UNCHANGED <<registry, changes, faults, history>>

\* An object is read, and created, updated or left alone.
Apply ==
  /\ job.pc = "apply"
  /\ \E x \in job.todo :
       LET kind == Order[job.phase]
           o == <<kind, x.name>>
       IN /\ IF o \in DOMAIN cluster /\ SpecEqual(kind, cluster[o], x.spec)
             THEN UNCHANGED <<cluster, foreign>>
             ELSE cluster' = Put(o, x.spec) /\ foreign' = foreign \ {o}
          /\ job' = [job EXCEPT !.todo = @ \ {x}]
  /\ UNCHANGED <<registry, changes, faults, steady, synced, late, lost, owed>>

\* The Projects that the running job is still to apply.
Pending ==
  IF job.pc = "apply" /\ Order[job.phase] = "project"
  THEN {<<"project", x.name>> : x \in job.todo} ELSE {}

\* A kind is done.
EndPhase ==
  /\ job.pc = "apply" /\ job.todo = {}
  /\ owed' = IF Order[job.phase] = "project" THEN {} ELSE owed
  /\ IF job.phase < Len(Order)
     THEN job' = [pc |-> "load", phase |-> job.phase + 1] /\ UNCHANGED synced
     ELSE job' = Idle /\ synced' = steady
  /\ UNCHANGED <<registry, cluster, changes, faults, steady, late, lost, foreign>>

\* A query or a call fails and the job ends, or it is killed.
Fail ==
  /\ job # Idle
  /\ faults > 0 /\ faults' = faults - 1
  /\ job' = Idle
  /\ owed' = owed \cup Pending
  /\ UNCHANGED <<registry, cluster, changes, steady, synced, late, lost, foreign>>
-----------------------------------------------------------------------------
\* What the rest of the system does to the registry, and others to objects.
Disturb ==
  /\ changes > 0 /\ changes' = changes - 1
  /\ steady' = FALSE /\ synced' = FALSE
  /\ UNCHANGED <<job, faults, owed>>

\* Rows that a running job may have missed.
New(o) == late' = IF job = Idle THEN late ELSE late \cup {o}

AddCompany ==
  /\ \E c \in Companies \ companies : companies' = companies \cup {c} /\ New(<<"company", c>>)
  /\ Disturb /\ UNCHANGED <<staff, maintainers, projects, cluster, lost, foreign>>

MergeCompanies ==
  /\ \E c, d \in companies :
       /\ c # d
       /\ companies' = companies \ {c}
       /\ maintainers' = [m \in Maintainers |->
            IF ~Absent(maintainers[m]) /\ maintainers[m].company = c
            THEN [maintainers[m] EXCEPT !.company = d] ELSE maintainers[m]]
  /\ Disturb /\ UNCHANGED <<staff, projects, cluster, late, lost, foreign>>

EditStaff ==
  /\ \E s \in Staff, v \in Versions : staff' = [staff EXCEPT ![s] = [version |-> v]]
  /\ Disturb /\ UNCHANGED <<companies, maintainers, projects, cluster, late, lost, foreign>>

EditMaintainer ==
  /\ \E m \in Maintainers :
       \E x \in [email : EmailsOf[m], company : companies \cup {None}, version : Versions] :
         /\ maintainers' = [maintainers EXCEPT ![m] = x]
         /\ New(<<"maintainer", x.email>>)
  /\ Disturb /\ UNCHANGED <<companies, staff, projects, cluster, lost, foreign>>

AddProject ==
  /\ \E p \in Projects \ Rows(projects), q \in Rows(projects) \cup {None} :
       /\ projects' = [projects EXCEPT ![p] = [members |-> Maintainers, parent |-> q,
                                               version |-> 0]]
       /\ New(<<"project", p>>)
  /\ Disturb /\ UNCHANGED <<companies, staff, maintainers, cluster, lost, foreign>>

EditProject ==
  /\ \E p \in Rows(projects), v \in Versions, ms \in SUBSET Maintainers,
         q \in Rows(projects) \cup {None} :
       projects' = [projects EXCEPT ![p].version = v, ![p].members = @ \cup ms,
                                    ![p].parent = q]
  /\ Disturb /\ UNCHANGED <<companies, staff, maintainers, cluster, late, lost, foreign>>

\* Somebody deletes an object, ...
DeleteObject ==
  /\ \E o \in DOMAIN cluster :
       /\ cluster' = [x \in DOMAIN cluster \ {o} |-> cluster[x]]
       /\ lost' = lost \cup {o}
       /\ foreign' = foreign \ {o}
  /\ Disturb /\ UNCHANGED <<registry, late>>

\* ... or changes its spec.
ChangeObject ==
  /\ \E o \in DOMAIN cluster : \E spec \in Foreign[o[1]] :
       /\ cluster' = [cluster EXCEPT ![o] = spec]
       /\ foreign' = foreign \cup {o}
  /\ Disturb /\ UNCHANGED <<registry, late, lost>>

JobStep == Load \/ Apply \/ EndPhase

Next ==
  \/ Start \/ JobStep \/ Fail
  \/ AddCompany \/ MergeCompanies \/ EditStaff \/ EditMaintainer
  \/ AddProject \/ EditProject \/ DeleteObject \/ ChangeObject

Spec == Init /\ [][Next]_vars

\* The CronJob is not suspended, and a started job runs to its end or fails.
FairSpec == Spec /\ WF_vars(Start) /\ WF_vars(JobStep)
-----------------------------------------------------------------------------
SameSpec(kind, a, b) ==
  IF kind # "project" THEN a = b
  ELSE /\ a.version = b.version /\ a.parent = b.parent
       /\ a.refs.names = b.refs.names

\* Every row has its object, as it should be.
Mirrored ==
  \E last \in LastByEmail : \A k \in DOMAIN Order : \A x \in Wanted(Order[k], last) :
    LET o == <<Order[k], x.name>>
    IN o \in DOMAIN cluster /\ SameSpec(Order[k], cluster[o], x.spec)

\* A job that succeeds while nothing else changes leaves the objects as the
\* registry has them, whatever earlier jobs left half done and whatever
\* others did to the objects.  projectSpecEqual says it compares "sets by
\* name".
SyncedIsMirrored == synced => Mirrored

\* References to objects of kinds that are copied before.
References(kind, spec) ==
  CASE kind = "maintainer" -> {<<"company", c>> : c \in {spec.company} \ {None}}
    [] kind = "project" -> {<<"maintainer", e>> : e \in spec.refs.names}
    [] kind = "membership" -> {<<"project", spec[1]>>, <<"maintainer", spec[2]>>}
    [] OTHER -> {}

\* The ParentProjectRef is one to an object of the same kind.
Parents(kind, spec) ==
  IF kind = "project" THEN {<<"project", q>> : q \in {spec.parent} \ {None}} ELSE {}

\* Kinds are copied before those that refer to them: even after a failed job
\* an object refers to one that does not exist only if that row was new
\* while a job was running, or somebody deleted the object or wrote the
\* reference.  Projects are copied in no order (that of a map): a parent may
\* also be one that the running job has yet to copy, or that a job which
\* ended among the projects has left to the next one.
RefsResolve ==
  \A o \in DOMAIN cluster \ foreign :
    /\ \A t \in References(o[1], cluster[o]) : t \in DOMAIN cluster \cup late \cup lost
    /\ \A t \in Parents(o[1], cluster[o]) :
         t \in DOMAIN cluster \cup late \cup lost \cup Pending \cup owed

\* Once nothing changes and no job fails any more, the cluster mirrors the
\* registry for good.
ClusterCatchesUp == <>[]Mirrored
===============================================================================
