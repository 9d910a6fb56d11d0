------------------------------ MODULE Bootstrap ------------------------------
(***************************************************************************)
(* db/bootstrap.go, run by cmd/bootstrap: fills the registry from the      *)
(* spreadsheet and from FOSSA.  Every sheet row is a transaction of its    *)
(* own and a row that fails is skipped; a FOSSA user takes several         *)
(* statements.  The job may fail or be killed anywhere and be started      *)
(* again later, on a registry that web-bff has edited meanwhile.           *)
(*                                                                         *)
(* A row is what the import tells apart: a cell is a name or Blank.  The   *)
(* name, the GitHub account and the mailing list of a row travel with its  *)
(* email or project and are left out.                                      *)
(***************************************************************************)
EXTENDS Naturals, Sequences, SequencesExt, FiniteSets, FiniteSetsExt

CONSTANTS Projects, Companies, Emails, Foundations,
          Maturities,     \* the values model.Maturity.IsValid accepts
          Sheets,         \* what the spreadsheet may hold: [active, staff]
          FossaUsers,     \* sequence of [email, teams], in FOSSA's order
          Additions,      \* what may be added on the web: [email, project, company]
          MaxRuns, MaxFaults, MaxEdits

Blank == ""
Missing == "EMAIL_MISSING"
NoTeam == "none"          \* service_team_id 0

ASSUME BlankAssumption ==
  Blank \notin Projects \cup Companies \cup Emails \cup Foundations \cup Maturities
ASSUME AdditionsAssumption ==
  /\ Missing \notin Emails
  /\ Additions \subseteq [email : Emails \cup {Missing}, project : Projects,
                          company : Companies \cup {Blank}]
ASSUME BoundsAssumption == MaxRuns \in Nat /\ MaxFaults \in Nat /\ MaxEdits \in Nat
ASSUME SheetAssumption ==
  \A s \in Sheets :
    /\ s.active \in Seq([project : Projects \cup {Blank}, status : STRING,
                         parent : Projects \cup {Blank}, company : Companies \cup {Blank},
                         email : Emails \cup {Blank}])
    /\ s.staff \in Seq([foundation : Foundations \cup {Blank}, name : STRING,
                        email : Emails \cup {Blank}])
ASSUME FossaAssumption == FossaUsers \in Seq([email : STRING, teams : Seq(STRING)])

\* FOSSA lists a team of a user once.
ASSUME FossaTeamsAssumption ==
  \A n \in DOMAIN FossaUsers :
    LET teams == FossaUsers[n].teams
    IN  \A j, k \in DOMAIN teams : teams[j] # NoTeam /\ (teams[j] = teams[k] => j = k)

VARIABLES
  sheet,          \* the spreadsheet
  projects,       \* name -> [maturity, parent], the rows of projects
  companies,      \* name -> BOOLEAN: live, or soft-deleted by a merge
  maintainers,    \* sequence of rows [email, company]
  members,        \* maintainer_projects: <<maintainer row, project>>
  foundations, staff,               \* staff: email -> [name, foundation]
  serviceUsers, serviceTeams,
  collaborators,  \* sequence of the rows' emails
  links,          \* service_user_teams: sequence of [user, team, owner]
  job,            \* the run: [pc, at, parent, team, owner, rows]
  web,            \* the addition in service: [ask, found, rows], or NoAddition
  runs, faults, edits,
  clean,          \* history: no fault and no edit so far in this run
  decided,        \* history: maintainer row -> the company staff gave it
  doubtful,       \* history: maintainer rows whose email was set on the web, or that an
                  \* addition and an import inserted blind to what the other inserted
  settled         \* history: the tables after the last clean run,
                  \* or <<>> after a fault or an edit

people == <<maintainers, members>>
fossa == <<serviceUsers, serviceTeams, collaborators, links>>
registry == <<projects, companies, people, foundations, staff>>
tables == <<registry, serviceUsers, serviceTeams, collaborators>>
history == <<clean, decided, doubtful, settled>>
vars == <<sheet, registry, fossa, job, web, runs, faults, edits, history>>

NoAddition == [found |-> 0]

Idle == [pc |-> "idle", at |-> 0, parent |-> Blank, team |-> 0, owner |-> Blank,
         rows |-> <<>>]
Fn(x, y) == [z \in {x} |-> y]
Over(f, g) == [x \in DOMAIN f \cup DOMAIN g |-> IF x \in DOMAIN g THEN g[x] ELSE f[x]]

Init ==
  /\ sheet \in Sheets
  /\ projects = <<>> /\ companies = <<>> /\ maintainers = <<>> /\ members = {}
  /\ foundations = {} /\ staff = <<>>
  /\ serviceUsers = {} /\ serviceTeams = {} /\ collaborators = <<>> /\ links = <<>>
  /\ job = Idle /\ web = NoAddition
  /\ runs = 0 /\ faults = MaxFaults /\ edits = MaxEdits
  /\ clean = TRUE /\ decided = <<>> /\ doubtful = {} /\ settled = <<>>
-----------------------------------------------------------------------------
\* readSheetRows

\* Variant: a blank cell stays blank.
NoCarry(rows, i, h) == rows[i][h]

\* The cell of column h, or the last one above it that is not blank.
Carried(rows, i, h) ==
  LET named == {k \in 1..i : rows[k][h] # Blank}
  IN IF named = {} THEN Blank ELSE rows[Max(named)][h]

\* Rows with carried columns filled in, by their numbers; rows without any cell
\* are dropped.
ReadRows(rows, carry) ==
  [i \in {k \in DOMAIN rows : \E h \in DOMAIN rows[k] : rows[k][h] # Blank} |->
     [h \in DOMAIN rows[i] |->
        IF h \in carry THEN Carried(rows, i, h) ELSE rows[i][h]]]

ActiveRows(s) == ReadRows(s.active, {"project", "status"})
StaffRows(s) == ReadRows(s.staff, {"foundation"})
-----------------------------------------------------------------------------
Goto(pc) == [Idle EXCEPT !.pc = pc, !.at = 1]
Fault == faults > 0 /\ faults' = faults - 1 /\ clean' = FALSE /\ settled' = <<>>
NoFault == UNCHANGED <<faults, clean, settled>>
Kept == UNCHANGED <<sheet, web, runs, edits, decided, doubtful>>

\* cmd/bootstrap starts: migrates the schema and seeds the services, constant
\* rows that nothing here reads.
Start ==
  /\ job.pc = "idle" /\ runs < MaxRuns
  /\ runs' = runs + 1 /\ clean' = TRUE
  /\ job' = [Idle EXCEPT !.pc = "active"]
  /\ UNCHANGED <<sheet, registry, fossa, web, faults, edits, decided, doubtful, settled>>

\* loadMaintainersAndProjects reads the worksheet Active.
ReadActive ==
  /\ job.pc = "active"
  /\ job' = [Goto("parent") EXCEPT !.rows = ActiveRows(sheet)]
  /\ NoFault /\ Kept /\ UNCHANGED <<registry, fossa>>

\* The rows to come, and the row at hand.
RowsLeft == {i \in DOMAIN job.rows : i >= job.at}
MoreRows == RowsLeft # {}
Row == job.rows[Min(RowsLeft)]
NextRow == [job EXCEPT !.at = Min(RowsLeft) + 1, !.parent = Blank, !.pc = "parent"]

\* The parent is looked up before the transaction; a failed lookup counts as none.
LookupParent ==
  /\ job.pc = "parent" /\ MoreRows /\ Row.project # Blank
  /\ \/ /\ NoFault
        /\ job' = [job EXCEPT !.pc = "row",
                     !.parent = IF Row.parent \in DOMAIN projects THEN Row.parent ELSE Blank]
     \/ /\ Row.parent # Blank /\ Fault
        /\ job' = [job EXCEPT !.pc = "row"]
  /\ Kept /\ UNCHANGED <<registry, fossa>>

SkipRow ==
  /\ job.pc = "parent" /\ MoreRows /\ Row.project = Blank
  /\ job' = NextRow
  /\ NoFault /\ Kept /\ UNCHANGED <<registry, fossa>>

\* What a row makes of its project when there is none of that name.
NewProject ==
  [maturity |-> IF job.parent = Blank THEN Row.status ELSE projects[job.parent].maturity,
   parent |-> job.parent]

\* Variant: the row overwrites the project it finds.
UpsertProject == Over(projects, Fn(Row.project, NewProject))

ProjectsAfter == Over(Fn(Row.project, NewProject), projects)

\* Variant: any status is stored.
NeverFails == FALSE
ProjectFails == Row.project \notin DOMAIN projects /\ NewProject.maturity \notin Maturities

\* Its name is in the unique index, but FirstOrCreate does not see it.
CompanyFails == Row.company \in DOMAIN companies /\ ~companies[Row.company]
CompaniesAfter == IF Row.company = Blank THEN companies
                  ELSE Over(companies, Fn(Row.company, TRUE))

\* Variant: the maintainer is looked up by all the fields of the row.
SameRow(e, c) == {i \in DOMAIN maintainers : maintainers[i] = [email |-> e, company |-> c]}
WithEmail(e, c) == {i \in DOMAIN maintainers : maintainers[i].email = e}

\* Variant: the maintainer found is given the row's company.
Refreshed(i, c) == [maintainers EXCEPT ![i].company = c]
FoundAsIs(i, c) == maintainers

AddMaintainer ==
  LET found == WithEmail(Row.email, Row.company)
      new == Append(maintainers, [email |-> Row.email, company |-> Row.company])
      i == IF found = {} THEN Len(new) ELSE Min(found)
  IN /\ maintainers' = IF found = {} THEN new ELSE FoundAsIs(i, Row.company)
     /\ members' = members \cup {<<i, Row.project>>}

\* The transaction of a row: project, company, maintainer, membership.
ImportRow ==
  /\ job.pc = "row" /\ ~ProjectFails
  /\ Row.email # Blank => ~CompanyFails
  /\ projects' = ProjectsAfter
  /\ IF Row.email = Blank THEN UNCHANGED <<companies, people>>
     ELSE companies' = CompaniesAfter /\ AddMaintainer
  /\ job' = NextRow
  /\ NoFault /\ Kept /\ UNCHANGED <<foundations, staff, fossa>>

\* It is rolled back and the row is skipped.
RowFails ==
  /\ job.pc = "row"
  /\ IF ProjectFails \/ (Row.email # Blank /\ CompanyFails) THEN NoFault ELSE Fault
  /\ job' = NextRow
  /\ Kept /\ UNCHANGED <<registry, fossa>>
-----------------------------------------------------------------------------
\* loadStaff
ReadStaff ==
  /\ job.pc = "parent" /\ ~MoreRows
  /\ job' = [Goto("staff") EXCEPT !.rows = StaffRows(sheet)]
  /\ NoFault /\ Kept /\ UNCHANGED <<registry, fossa>>

\* Variant: a staff member that is found is left alone.
KeepStaff(e, s) == Over(Fn(e, s), staff)
UpsertStaff(e, s) == Over(staff, Fn(e, s))

StaffRow ==
  /\ job.pc = "staff" /\ MoreRows
  /\ IF Row.foundation = Blank \/ Row.email = Blank
     THEN UNCHANGED <<foundations, staff>> /\ NoFault
     ELSE \/ /\ foundations' = foundations \cup {Row.foundation}
             /\ staff' = UpsertStaff(Row.email, [name |-> Row.name, foundation |-> Row.foundation])
             /\ NoFault
          \/ UNCHANGED <<foundations, staff>> /\ Fault
  /\ job' = [job EXCEPT !.at = Min(RowsLeft) + 1]
  /\ Kept /\ UNCHANGED <<projects, companies, people, fossa>>
-----------------------------------------------------------------------------
\* loadFOSSA
FetchFossaData ==
  /\ job.pc = "staff" /\ ~MoreRows
  /\ job' = Goto("user")
  /\ NoFault /\ Kept /\ UNCHANGED <<registry, fossa>>

User == FossaUsers[job.at]
MoreUsers == job.at <= Len(FossaUsers)
NextUser == [Goto("user") EXCEPT !.at = job.at + 1]

\* Variant: the import stops at a user it gives up.
StopImport == [Goto("user") EXCEPT !.at = Len(FossaUsers) + 1]
GiveUp == NextUser

\* MapFossaUserToMaintainer
Registered(e) == \E i \in DOMAIN maintainers : maintainers[i].email = e

\* Variant: a collaborator is always inserted.
NewCollaborator(e) == Append(collaborators, e)

\* MapFossaUserCollaborator
WithCollaborator(e) ==
  IF e \in Range(collaborators) THEN collaborators ELSE Append(collaborators, e)

Owned(owner) ==
  /\ job' = [job EXCEPT !.pc = "teams", !.owner = owner]
  /\ collaborators' = IF owner = "collaborator" THEN WithCollaborator(User.email)
                      ELSE collaborators

\* The service user, and the person: a maintainer, or else a collaborator.  An
\* error while looking for the maintainer makes one of a maintainer too.
FossaUser ==
  /\ job.pc = "user" /\ MoreUsers
  /\ serviceUsers' = serviceUsers \cup {User.email}
  /\ \/ NoFault /\ Owned(IF Registered(User.email) THEN "maintainer" ELSE "collaborator")
     \/ Fault /\ Owned(IF Registered(User.email) THEN "collaborator" ELSE Blank)
  /\ Kept /\ UNCHANGED <<registry, serviceTeams, links>>

\* The teams CreateServiceTeamsForUser goes through: up to the first one that
\* is not a project.
TeamsCreated(ts) ==
  LET bad == {k \in DOMAIN ts : ts[k] \notin DOMAIN projects}
  IN IF bad = {} THEN ts ELSE SubSeq(ts, 1, Min(bad) - 1)

\* A team that is not a project, no team at all, or one that failed, and the
\* user is given up.  A team that fails is skipped, not those after it.
CreateServiceTeamsForUser ==
  LET made == TeamsCreated(User.teams)
  IN /\ job.pc = "teams"
     /\ \/ /\ NoFault
           /\ serviceTeams' = serviceTeams \cup Range(made)
           /\ job' = IF made = <<>> \/ made # User.teams THEN GiveUp
                     ELSE [job EXCEPT !.pc = "link", !.team = 1]
        \/ /\ Fault
           /\ \E some \in SUBSET Range(made) : serviceTeams' = serviceTeams \cup some
           /\ job' = GiveUp
     /\ Kept /\ UNCHANGED <<registry, serviceUsers, collaborators, links>>

\* The links of user e to team t.
LinksOf(e, t) == {k \in DOMAIN links : links[k].user = e /\ links[k].team = t}

\* LinkServiceUserToTeam for one team.  The row FirstOrCreate inserts has no
\* team; then the owner is set and saved.  After an error of FirstOrCreate the
\* link is inserted whole.
LinkTeam ==
  LET t == User.teams[job.team]
      found == LinksOf(User.email, t)
      with == IF found = {} THEN Append(links, [user |-> User.email, team |-> NoTeam, owner |-> Blank])
              ELSE links
      k == IF found = {} THEN Len(with) ELSE Min(found)
  IN /\ job.pc = "link"
     /\ \/ NoFault /\ links' = [with EXCEPT ![k].owner = IF job.owner = Blank THEN @ ELSE job.owner]
        \/ Fault /\ links' = with
        \/ Fault /\ links' = Append(links, [user |-> User.email, team |-> t, owner |-> job.owner])
     /\ job' = IF job.team = Len(User.teams) THEN NextUser ELSE [job EXCEPT !.team = @ + 1]
     /\ Kept /\ UNCHANGED <<registry, serviceUsers, serviceTeams, collaborators>>

\* The run is complete.
Finish ==
  /\ job.pc = "user" /\ ~MoreUsers
  /\ job' = [Idle EXCEPT !.pc = "done"]
  /\ settled' = IF clean THEN tables ELSE settled
  /\ Kept /\ UNCHANGED <<registry, fossa, faults, clean>>

Leave ==
  /\ job.pc = "done" /\ job' = Idle
  /\ NoFault /\ Kept /\ UNCHANGED <<registry, fossa>>

\* The job dies, or Sheets, FOSSA or the insertion of a service user fails.
Abort ==
  /\ job.pc \notin {"idle", "done"} /\ Fault
  /\ job' = Idle
  /\ Kept /\ UNCHANGED <<registry, fossa>>
-----------------------------------------------------------------------------
\* Meanwhile
Edit == edits > 0 /\ edits' = edits - 1 /\ settled' = <<>> /\ clean' = FALSE

EditSheet ==
  /\ Edit
  /\ \E s \in Sheets \ {sheet} : sheet' = s
  /\ UNCHANGED <<registry, fossa, job, web, runs, faults, decided, doubtful>>

\* web-bff: staff give a maintainer another company, ...
EditMaintainer ==
  /\ Edit
  /\ \E i \in DOMAIN maintainers, c \in DOMAIN companies :
       /\ companies[c] /\ maintainers[i].company # c
       /\ maintainers' = [maintainers EXCEPT ![i].company = c]
       /\ decided' = Over(decided, Fn(i, c))
  /\ UNCHANGED <<sheet, projects, companies, members, foundations, staff, fossa, job, web, runs, faults,
                 doubtful>>

\* ... or another email, or none, ...
EditEmail ==
  /\ Edit
  /\ \E i \in DOMAIN maintainers, e \in Emails \cup {Missing} :
       /\ maintainers[i].email # e
       /\ maintainers' = [maintainers EXCEPT ![i].email = e]
       /\ doubtful' = doubtful \cup {i}
  /\ UNCHANGED <<sheet, projects, companies, members, foundations, staff, fossa, job, web, runs, faults,
                 decided>>

\* ... merge a company into another, ...
MergeCompanies ==
  /\ Edit
  /\ \E from, to \in DOMAIN companies :
       /\ from # to /\ companies[from] /\ companies[to]
       /\ companies' = [companies EXCEPT ![from] = FALSE]
       /\ maintainers' = [i \in DOMAIN maintainers |->
            IF maintainers[i].company = from THEN [maintainers[i] EXCEPT !.company = to]
            ELSE maintainers[i]]
       /\ decided' = Over(decided, [i \in {i \in DOMAIN maintainers : maintainers[i].company = from} |-> to])
  /\ UNCHANGED <<sheet, projects, members, foundations, staff, fossa, job, web, runs, faults, doubtful>>

\* ... create a project, ...
CreateProject ==
  /\ Edit
  /\ \E p \in Projects \ DOMAIN projects, q \in DOMAIN projects \cup {Blank}, m \in Maturities :
       projects' = Over(projects, Fn(p, [maturity |-> m, parent |-> q]))
  /\ UNCHANGED <<sheet, companies, people, foundations, staff, fossa, job, web, runs, faults, decided,
                 doubtful>>

\* Variant: the email is not looked for.
NotLooked(e) == TRUE
NobodyWith(e) == e = Missing \/ ~Registered(e)

\* ... or add a maintainer.  UpsertMaintainer looks for the row, by the handle,
\* which may be anybody's, and then by the email, ...
AddLook ==
  /\ web = NoAddition /\ edits > 0
  /\ \E a \in Additions, found \in 0..Len(maintainers) :
       /\ a.project \in DOMAIN projects
       /\ found = 0 => NobodyWith(a.email)
       /\ web' = [ask |-> a, found |-> found, rows |-> Len(maintainers)]
  /\ UNCHANGED <<sheet, registry, fossa, job, runs, faults, edits, history>>

\* A company that is not live becomes one without a name, which nothing here
\* looks up: it is Blank.
AddedCompany ==
  LET c == web.ask.company
  IN IF c \in DOMAIN companies /\ companies[c] THEN c ELSE Blank

\* ... and commits, an import or none later.  Who is there gets what they lack.
AddCommit ==
  /\ web # NoAddition /\ Edit
  /\ LET a == web.ask
         c == AddedCompany
         old == maintainers[web.found]
     IN IF web.found = 0
        THEN /\ maintainers' = Append(maintainers, [email |-> a.email, company |-> c])
             /\ members' = members \cup {<<Len(maintainers) + 1, a.project>>}
             /\ doubtful' = IF Len(maintainers) = web.rows THEN doubtful
                            ELSE doubtful \cup {Len(maintainers) + 1}
        ELSE /\ maintainers' = [maintainers EXCEPT ![web.found] =
                  [email |-> IF old.email = Missing THEN a.email ELSE old.email,
                   company |-> IF old.company = Blank THEN c ELSE old.company]]
             /\ members' = members \cup {<<web.found, a.project>>}
             /\ doubtful' = IF old.email = Missing THEN doubtful \cup {web.found} ELSE doubtful
  /\ web' = NoAddition
  /\ UNCHANGED <<sheet, projects, companies, foundations, staff, fossa, job, runs, faults, decided>>

\* Or it commits while the transaction of a row, which has not found the email
\* either, is about to insert it.
AddWithinRow ==
  /\ web # NoAddition /\ web.found = 0 /\ Edit
  /\ job.pc = "row" /\ Row.email = web.ask.email /\ ~Registered(Row.email)
  /\ ~ProjectFails /\ ~CompanyFails
  /\ projects' = ProjectsAfter /\ companies' = CompaniesAfter
  /\ LET n == Len(maintainers)
     IN /\ maintainers' = maintainers \o <<[email |-> Row.email, company |-> AddedCompany],
                                          [email |-> Row.email, company |-> Row.company]>>
        /\ members' = members \cup {<<n + 1, web.ask.project>>, <<n + 2, Row.project>>}
        /\ doubtful' = doubtful \cup {n + 2}
  /\ job' = NextRow /\ web' = NoAddition
  /\ UNCHANGED <<sheet, foundations, staff, fossa, runs, faults, decided>>

Import ==
  \/ Start \/ ReadActive \/ LookupParent \/ SkipRow \/ ImportRow \/ RowFails
  \/ ReadStaff \/ StaffRow \/ FetchFossaData \/ FossaUser
  \/ CreateServiceTeamsForUser \/ LinkTeam \/ Finish \/ Leave

Next ==
  \/ Import \/ Abort \/ EditSheet \/ EditMaintainer \/ EditEmail \/ MergeCompanies
  \/ CreateProject \/ AddLook \/ AddCommit \/ AddWithinRow

Spec == Init /\ [][Next]_vars
-----------------------------------------------------------------------------
FossaTeams == UNION {Range(u.teams) : u \in Range(FossaUsers)}

TypeOK ==
  /\ sheet \in Sheets
  /\ DOMAIN projects \subseteq Projects
  /\ \A p \in DOMAIN projects : projects[p].maturity \in Maturities
  /\ DOMAIN companies \subseteq Companies
  /\ \A c \in DOMAIN companies : companies[c] \in BOOLEAN
  /\ maintainers \in Seq([email : Emails \cup {Missing}, company : Companies \cup {Blank}])
  /\ members \subseteq (DOMAIN maintainers) \X DOMAIN projects
  /\ foundations \subseteq Foundations
  /\ \A e \in DOMAIN staff : e \in Emails /\ staff[e].foundation \in foundations
  /\ links \in Seq([user : serviceUsers, team : FossaTeams \cup {NoTeam},
                    owner : {Blank, "maintainer", "collaborator"}])
  /\ job.pc \in {"idle", "active", "parent", "row", "staff", "user", "teams", "link", "done"}
  /\ web = NoAddition \/
       web \in [ask : {a \in Additions : a.project \in DOMAIN projects},
               found : 0..Len(maintainers), rows : 0..Len(maintainers)]
  /\ runs \in 0..MaxRuns /\ faults \in 0..MaxFaults /\ edits \in 0..MaxEdits

\* Row i of the worksheet Active belongs to the project of the nearest row
\* that names one.
BelongsTo(i, p) ==
  \E k \in 1..i : /\ sheet.active[k].project = p /\ p # Blank
                  /\ \A j \in (k + 1)..i : sheet.active[j].project = Blank

\* The status that holds in row i.
HasStatus(i, m) ==
  \E k \in 1..i : /\ sheet.active[k].status = m
                  /\ \A j \in (k + 1)..i : sheet.active[j].status = Blank

Deleted(c) == c \in DOMAIN companies /\ ~companies[c]

\* loadMaintainersAndProjects: after a run that met no error, everybody in the
\* worksheet is on the project they are listed under, even when an earlier run
\* died half way; only a row with an unusable status or a company that was
\* merged away may be missing.
RowsAreImported ==
  job.pc = "done" /\ clean =>
    \A i \in DOMAIN sheet.active, p \in Projects, m \in Maturities :
      LET row == sheet.active[i]
      IN BelongsTo(i, p) /\ HasStatus(i, m) /\ row.email # Blank /\ ~Deleted(row.company)
           => \E k \in DOMAIN maintainers :
                maintainers[k].email = row.email /\ <<k, p>> \in members

\* FirstOrCreate by email: no number of runs, with edits and additions on the
\* web in between, gives one email two rows, unless the email of one was set on
\* the web, or a run and an addition on the web that overlapped inserted them,
\* neither seeing the other's (there is no unique index).
OneRowPerEmail ==
  \A i, k \in DOMAIN maintainers :
    i # k /\ maintainers[i].email = maintainers[k].email /\ maintainers[i].email # Missing
      => i \in doubtful \/ k \in doubtful

\* A later run does not take back the company that staff gave a maintainer.
EditsStand == \A i \in DOMAIN decided : maintainers[i].company = decided[i]

\* Runs and edits on the web do not get into each other's way.
PeopleStand == OneRowPerEmail /\ EditsStand

\* A parent is set only on insertion and only to a project already there: no
\* sequence of runs and of changes of the worksheet makes a project its own
\* ancestor.
ParentsFormAForest ==
  \A S \in SUBSET DOMAIN projects :
    S # {} => \E p \in S : projects[p].parent \notin S

\* loadStaff: after a run that met no error, everybody in the worksheet Staff
\* is as their last complete row has it.
StaffFollowSheet ==
  job.pc = "done" /\ clean =>
    LET rows == StaffRows(sheet)
        whole == {i \in DOMAIN rows : rows[i].foundation # Blank /\ rows[i].email # Blank}
    IN \A i \in whole :
         (\A j \in whole : rows[j].email = rows[i].email => j <= i)
           => /\ rows[i].email \in DOMAIN staff
              /\ staff[rows[i].email] = [name |-> rows[i].name, foundation |-> rows[i].foundation]

RightOwner(e) == IF Registered(e) THEN "maintainer" ELSE "collaborator"

\* User u has a link of their own for each of their first n teams, as what they
\* are.  Which team it is for the link does not say, unless a fault made
\* LinkServiceUserToTeam insert it whole.
Linked(u, n) ==
  \E f \in [1..n -> DOMAIN links] :
    /\ \A j, k \in 1..n : f[j] = f[k] => j = k
    /\ \A j \in 1..n : /\ links[f[j]].user = u.email
                       /\ links[f[j]].team \in {NoTeam, u.teams[j]}
                       /\ links[f[j]].owner = RightOwner(u.email)

\* loadFOSSA: after a run that met no error every user of FOSSA is a service
\* user, and a maintainer or a collaborator.  Whoever was given up on, those
\* whose teams are all projects have their service teams, and as many links;
\* since a link without a team is not found again, every run adds them anew.
FossaUsersAreIn ==
  job.pc = "done" /\ clean =>
    \A u \in Range(FossaUsers) :
      /\ u.email \in serviceUsers
      /\ Registered(u.email) \/ u.email \in Range(collaborators)
      /\ Range(u.teams) \subseteq DOMAIN projects =>
           Range(u.teams) \subseteq serviceTeams /\ Linked(u, Len(u.teams))

\* An undisturbed run leaves nothing out.
RunIsComplete == RowsAreImported /\ StaffFollowSheet /\ FossaUsersAreIn

\* A project has a usable status, or its parent stands above it, in a row that
\* is imported.
InOrder(s) ==
  LET rows == ActiveRows(s)
  IN \A i \in DOMAIN rows :
       rows[i].project # Blank =>
         IF rows[i].parent = Blank THEN rows[i].status \in Maturities
         ELSE \E k \in DOMAIN rows :
                /\ k < i /\ rows[k].project = rows[i].parent
                /\ rows[k].email = Blank \/ ~Deleted(rows[k].company)

\* A run that directly repeats an undisturbed one leaves all tables but the links as
\* they were, if no row waits for what a later one brings.
RerunChangesNothing ==
  job.pc = "user" /\ ~MoreUsers /\ clean /\ settled # <<>> /\ InOrder(sheet)
    => tables = settled
=============================================================================
