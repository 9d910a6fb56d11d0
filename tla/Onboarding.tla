------------------------------ MODULE Onboarding ------------------------------
(***************************************************************************)
(* The onboarding webhook server (src/onboarding/server.go) together with  *)
(* the database tables it reads and writes, the FOSSA service it calls and *)
(* the GitHub issue it answers on.                                         *)
(*                                                                         *)
(* net/http serves every delivery on a goroutine of its own and nothing in *)
(* EventListener is locked, so a handler is one action per call that reads *)
(* or writes shared state, and the handlers of all Deliveries interleave.  *)
(* Every call may fail; a FOSSA call may also be applied and its answer be *)
(* lost.  GitHub may deliver an event late, twice or never.                *)
(*                                                                         *)
(* A project is a row of the table projects, and several rows may bear one *)
(* name.  A name is that of an onboarding issue (its title) and of a FOSSA *)
(* team; a title that names no project behaves like a name that is not in  *)
(* the cache.  The table services holds FOSSA under id 1, the id           *)
(* CreateServiceTeam writes.                                               *)
(***************************************************************************)
EXTENDS Naturals, Sequences

CONSTANTS
  Projects,     \* projects (ids) the registry may come to hold
  Names,        \* names of projects
  NameOf,       \* NameOf[p]: the name of project p
  Maintainers,  \* people that may be registered as maintainers
  Candidates,   \* Candidates[p]: those that may be registered for p
  Contactable,  \* those with an email and a GitHub handle
  Actors,       \* GitHub logins that write comments
  Staff,        \* logins in staff_members
  Assignees,    \* Assignees[n]: logins assigned to the issue titled n
  Embeds,       \* <<n, m>>: the email of m is a substring of the one of n
  Deliveries,   \* webhook requests in flight at the same time
  None          \* no project, no actor, no maintainer

ASSUME ConstantsAssumption ==
  /\ Contactable \subseteq Maintainers
  /\ Staff \subseteq Actors
  /\ Candidates \in [Projects -> SUBSET Maintainers]
  /\ NameOf \in [Projects -> Names]
  /\ Assignees \in [Names -> SUBSET Actors]
  /\ Embeds \subseteq Maintainers \X Maintainers
  /\ None \notin Projects \cup Maintainers \cup Actors

VARIABLES
  projects,    \* table projects
  registered,  \* table maintainer_projects: registered[p] \subseteq Maintainers
  rows,        \* table service_teams, in insertion order
  audit,       \* table audit_logs: how many entries per action, project, person
  teams,       \* FOSSA: team id -> [name, members]
  account,     \* FOSSA: what each person is in the organisation
  labelled,    \* GitHub: titles of issues that carry the label "fossa"
  cached,      \* EventListener.Projects, a map by name
  req          \* the handler of each delivery

vars == <<projects, registered, rows, audit, teams, account, labelled, cached, req>>
tables == <<projects, registered, rows, audit>>
-----------------------------------------------------------------------------
Team == [name : Names, members : SUBSET Maintainers]
Row == [team : Nat, project : Projects]
AuditAction == {"FOSSA_ADD_MEMBER", "FOSSA_TEAM_CREATED"}
AuditEntry == AuditAction \X Projects \X (Maintainers \cup {None})

Outcome == {"none", "invited", "added", "already", "pending", "error"}

LabelPc == {"maintainers", "teamMap", "createTeam", "findRow", "insertRow",
            "invite", "addInvited", "reread", "panicked"}
CommandPc == {"authorize", "cmdTeamMap", "cmdMaintainers", "teamEmails",
              "checkPending", "add", "audit"}
LabelCommandPc == {"labelAuth", "addLabel"}
Pc == {"idle", "comment"} \cup LabelPc \cup CommandPc \cup LabelCommandPc
Kind == {"none", "labeled", "accepted", "label"}
End == {"none", "denied", "noteam"}

Request ==
  [kind    : Kind,
   project : Projects \cup {None},
   actor   : Actors \cup {None},
   pc      : Pc,
   seen    : SUBSET Maintainers,   \* eligible maintainers read from the store
   todo    : SUBSET Maintainers,   \* those the loop has not reached yet
   cur     : Maintainers \cup {None},
   team    : Nat,                  \* st.ServiceTeamID, 0 when unknown
   existing : SUBSET Maintainers,  \* existingEmails
   report  : [Maintainers -> Outcome],  \* the lines of the comment
   end     : End,
   failed  : BOOLEAN,              \* some call of this delivery failed
   unstored : BOOLEAN,             \* CreateServiceTeam failed
   users   : SUBSET Maintainers]   \* who had accepted when the command came in

Idle ==
  [kind |-> "none", project |-> None, actor |-> None, pc |-> "idle",
   seen |-> {}, todo |-> {}, cur |-> None, team |-> 0, existing |-> {},
   report |-> [m \in Maintainers |-> "none"], end |-> "none",
   failed |-> FALSE, unstored |-> FALSE, users |-> {}]

At(d, pc) == req[d].pc = pc
Project(d) == req[d].project

\* The handler of d moves on; r is its next record.
Continue(d, r) == req' = [req EXCEPT ![d] = r]

\* The handler of d goes to its comment with an error among its actions.
Fail(d) == Continue(d, [req[d] EXCEPT !.pc = "comment", !.failed = TRUE])

\* Variant: a maintainer whose call failed is tried again at once.
ReportedErrorStays(r, m, outcome, loop, after) ==
  [r EXCEPT !.pc = IF r.todo \ {m} = {} /\ outcome # "error" THEN after ELSE loop,
            !.todo = IF outcome = "error" THEN @ ELSE @ \ {m}, !.cur = None,
            !.report = [@ EXCEPT ![m] = outcome],
            !.failed = @ \/ outcome = "error"]

\* The handler of d has dealt with the current maintainer m, and repeats its
\* loop or leaves it.
Reported(r, m, outcome, loop, after) ==
  [r EXCEPT !.pc = IF r.todo \ {m} = {} THEN after ELSE loop,
            !.todo = @ \ {m}, !.cur = None,
            !.report = [@ EXCEPT ![m] = outcome],
            !.failed = @ \/ outcome = "error"]

Users == {m \in Maintainers : account[m] = "user"}
TeamsNamed(n) == {t \in DOMAIN teams : teams[t].name = n}
TeamsOf(p) == TeamsNamed(NameOf[p])
RowsOf(p) == {i \in DOMAIN rows : rows[i].project = p}
RowsForTeam(t) == {i \in DOMAIN rows : rows[i].team = t}

\* filterEligibleMaintainers
Eligible(people) == people \cap Contactable

\* GetProjectMapByName over the rows ps: one project per name.  The query has
\* no ORDER BY, so any of the projects of a name may be the one kept.
ProjectMaps(ps) ==
  {c \in SUBSET ps : \A p \in ps : \E q \in c :
     {x \in c : NameOf[x] = NameOf[p]} = {q}}

\* EventListener.Projects[n]: the project under the name n, if any.
Known(n) == {p \in cached : NameOf[p] = n}
-----------------------------------------------------------------------------
Init ==
  /\ projects \in SUBSET Projects
  /\ registered = [p \in Projects |-> {}]
  /\ rows = <<>>
  /\ audit = [e \in AuditEntry |-> 0]
  /\ teams = <<>>
  /\ account = [m \in Maintainers |-> "none"]
  /\ labelled = {}
  /\ cached \in ProjectMaps(projects)
  /\ req = [d \in Deliveries |-> Idle]
-----------------------------------------------------------------------------
(***************************************************************************)
(* The label "fossa": handleWebhook (IssuesEvent), fossaChosen and         *)
(* signProjectUpForFOSSA.                                                  *)
(***************************************************************************)

\* A "labeled" event whose payload lists the label "fossa" (whichever label
\* was added).  A name that is not in the cache gives the zero Project, whose
\* maintainers are not found.
DeliverLabeled(d, n) ==
  /\ At(d, "idle")
  /\ n \in labelled
  /\ \/ \E p \in Known(n) :
          Continue(d, [Idle EXCEPT !.kind = "labeled", !.project = p, !.pc = "maintainers"])
     \/ /\ Known(n) = {}
        /\ Continue(d, [Idle EXCEPT !.kind = "labeled", !.pc = "comment", !.failed = TRUE])
  /\ UNCHANGED <<tables, teams, account, labelled, cached>>

\* GetMaintainersByProject and filterEligibleMaintainers.
ReadMaintainers(d) ==
  /\ At(d, "maintainers")
  /\ \/ LET e == Eligible(registered[Project(d)])
        IN  Continue(d, [req[d] EXCEPT !.pc = "teamMap", !.seen = e, !.todo = e])
     \/ Fail(d)
  /\ UNCHANGED <<tables, teams, account, labelled, cached>>

\* Where signProjectUpForFOSSA goes once it knows the team: nobody to invite
\* ends it with an error.
TeamKnown(r) ==
  IF r.seen = {} THEN [r EXCEPT !.pc = "comment", !.failed = TRUE]
                 ELSE [r EXCEPT !.pc = "invite"]

\* GetProjectServiceTeamMap: the query has no ORDER BY, so any row of the
\* project may be the one left in the map.  An error counts as no row.
LookUpTeam(d) ==
  /\ At(d, "teamMap")
  /\ \/ \E i \in RowsOf(Project(d)) :
          Continue(d, TeamKnown([req[d] EXCEPT !.team = rows[i].team]))
     \/ /\ RowsOf(Project(d)) = {}
        /\ Continue(d, [req[d] EXCEPT !.pc = "createTeam"])
     \/ Continue(d, [req[d] EXCEPT !.pc = "createTeam", !.failed = TRUE])
  /\ UNCHANGED <<tables, teams, account, labelled, cached>>

\* Variant: two teams of one name.
CreateTeamAlways(d) ==
  /\ At(d, "createTeam")
  /\ teams' = Append(teams, [name |-> NameOf[Project(d)], members |-> {}])
  /\ Continue(d, [req[d] EXCEPT !.pc = "findRow", !.team = Len(teams) + 1])
  /\ UNCHANGED <<tables, account, labelled, cached>>

\* Client.CreateTeam: FOSSA refuses a second team of the same name (code 2003)
\* and the client then fetches the existing one.
CreateTeam(d) ==
  /\ At(d, "createTeam")
  /\ \/ \E t \in TeamsOf(Project(d)) :
          /\ Continue(d, [req[d] EXCEPT !.pc = "findRow", !.team = t])
          /\ UNCHANGED teams
     \/ /\ TeamsOf(Project(d)) = {}
        /\ teams' = Append(teams, [name |-> NameOf[Project(d)], members |-> {}])
        /\ Continue(d, [req[d] EXCEPT !.pc = "findRow", !.team = Len(teams) + 1])
     \/ /\ Fail(d)
        /\ \/ UNCHANGED teams
           \/ /\ TeamsOf(Project(d)) = {}
              /\ teams' = Append(teams, [name |-> NameOf[Project(d)], members |-> {}])
  /\ UNCHANGED <<tables, account, labelled, cached>>

\* Variant: the row is looked for and never made.
FindServiceTeamOnly(d) ==
  /\ At(d, "findRow")
  /\ Continue(d, TeamKnown(req[d]))
  /\ UNCHANGED <<tables, teams, account, labelled, cached>>

\* CreateServiceTeam, first half of FirstOrCreate: select by service_team_id.
FindServiceTeam(d) ==
  /\ At(d, "findRow")
  /\ \/ /\ RowsForTeam(req[d].team) # {}
        /\ Continue(d, TeamKnown(req[d]))
     \/ /\ RowsForTeam(req[d].team) = {}
        /\ Continue(d, [req[d] EXCEPT !.pc = "insertRow"])
     \/ Continue(d, TeamKnown([req[d] EXCEPT !.failed = TRUE, !.unstored = TRUE]))
  /\ UNCHANGED <<tables, teams, account, labelled, cached>>

\* CreateServiceTeam, second half: insert.  An error is only logged.
InsertServiceTeam(d) ==
  /\ At(d, "insertRow")
  /\ \/ /\ rows' = Append(rows, [team |-> req[d].team, project |-> Project(d)])
        /\ Continue(d, TeamKnown(req[d]))
     \/ /\ Continue(d, TeamKnown([req[d] EXCEPT !.failed = TRUE, !.unstored = TRUE]))
        /\ UNCHANGED rows
  /\ UNCHANGED <<projects, registered, audit, teams, account, labelled, cached>>

\* SendUserInvitation to the next eligible maintainer.
Invite(d, m) ==
  /\ At(d, "invite")
  /\ m \in req[d].todo
  /\ \/ /\ account[m] = "none"
        /\ account' = [account EXCEPT ![m] = "pending"]
        /\ Continue(d, Reported(req[d], m, "invited", "invite", "reread"))
     \/ /\ account[m] = "pending"      \* ErrInviteAlreadyExists
        /\ Continue(d, Reported(req[d], m, "invited", "invite", "reread"))
        /\ UNCHANGED account
     \/ /\ account[m] = "user"         \* ErrUserAlreadyMember
        /\ Continue(d, [req[d] EXCEPT !.pc = "addInvited", !.cur = m])
        /\ UNCHANGED account
     \/ /\ Continue(d, Reported(req[d], m, "error", "invite", "reread"))
        /\ \/ UNCHANGED account
           \/ /\ account[m] = "none"
              /\ account' = [account EXCEPT ![m] = "pending"]
  /\ UNCHANGED <<tables, teams, labelled, cached>>

\* Variant: an address is added whether or not a user has it.
AddableAnyone(d) ==
  /\ req[d].team \in DOMAIN teams
  /\ req[d].cur \notin teams[req[d].team].members

\* What FOSSA and the client's user lookup make of AddUserToTeamByEmail:
\* the person must be a user of the organisation and not yet in the team.
Addable(d) ==
  /\ req[d].team \in DOMAIN teams
  /\ account[req[d].cur] = "user"
  /\ req[d].cur \notin teams[req[d].team].members

Join(d) == teams' = [teams EXCEPT ![req[d].team].members = @ \cup {req[d].cur}]

\* Variant: the error of AddUserToTeamByEmail is dropped.
AddInvitedUserBlindly(d) ==
  /\ At(d, "addInvited")
  /\ \/ Addable(d) /\ Join(d)
     \/ UNCHANGED teams
  /\ Continue(d, Reported(req[d], req[d].cur, "added", "invite", "reread"))
  /\ UNCHANGED <<tables, account, labelled, cached>>

\* AddUserToTeamByEmail for a maintainer who was a user already; any error,
\* "already a member" included, is reported as one.
AddInvitedUser(d) ==
  /\ At(d, "addInvited")
  /\ \/ /\ Addable(d)
        /\ Join(d)
        /\ Continue(d, Reported(req[d], req[d].cur, "added", "invite", "reread"))
     \/ /\ Continue(d, Reported(req[d], req[d].cur, "error", "invite", "reread"))
        /\ \/ UNCHANGED teams
           \/ Addable(d) /\ Join(d)
  /\ UNCHANGED <<tables, account, labelled, cached>>

\* The second GetProjectServiceTeamMap; teamMap[project.ID] is dereferenced
\* without a check.  FetchImportedRepos only adds text to the comment.
RereadTeamMap(d) ==
  /\ At(d, "reread")
  /\ \/ /\ RowsOf(Project(d)) # {}
        /\ Continue(d, [req[d] EXCEPT !.pc = "comment"])
     \/ /\ RowsOf(Project(d)) = {}
        /\ Continue(d, [req[d] EXCEPT !.pc = "panicked"])
     \/ Continue(d, [req[d] EXCEPT !.pc = "comment", !.failed = TRUE,
                                   !.report = Idle.report])
  /\ UNCHANGED <<tables, teams, account, labelled, cached>>

\* net/http recovers the panic of a handler and drops its connection.
Recover(d) ==
  /\ At(d, "panicked")
  /\ Continue(d, Idle)
  /\ UNCHANGED <<tables, teams, account, labelled, cached>>
-----------------------------------------------------------------------------
(***************************************************************************)
(* The comment "/fossa-invite accepted": handleWebhook                     *)
(* (IssueCommentEvent) and addProjectMaintainersToFossaTeam.               *)
(***************************************************************************)

\* A comment on an issue whose title names no cached project is ignored.
DeliverAccepted(d, n, a) ==
  /\ At(d, "idle")
  /\ \E p \in Known(n) :
       Continue(d, [Idle EXCEPT !.kind = "accepted", !.project = p, !.actor = a,
                                   !.pc = "authorize", !.users = Users])
  /\ UNCHANGED <<tables, teams, account, labelled, cached>>

\* Who may command: registered maintainers, staff and assignees.
MayCommand(a, p) == a \in registered[p] \cup Staff \cup Assignees[NameOf[p]]

\* Variant: the maintainers of any project are let in.
AuthorizeAnyMaintainer(d) ==
  /\ At(d, "authorize")
  /\ \E p \in Projects : MayCommand(req[d].actor, p)
  /\ Continue(d, [req[d] EXCEPT !.pc = "cmdTeamMap"])
  /\ UNCHANGED <<tables, teams, account, labelled, cached>>

\* isAuthorizedForProjectAction; a failed look-up only falls through to the
\* next rule, so it can turn an answer into a denial, never the reverse.
Authorize(d) ==
  /\ At(d, "authorize")
  /\ \/ /\ MayCommand(req[d].actor, Project(d))
        /\ Continue(d, [req[d] EXCEPT !.pc = "cmdTeamMap"])
     \/ /\ req[d].actor \notin Assignees[NameOf[Project(d)]]
        /\ Continue(d, [req[d] EXCEPT !.pc = "comment", !.end = "denied",
                          !.failed = MayCommand(req[d].actor, Project(d))])
  /\ UNCHANGED <<tables, teams, account, labelled, cached>>

\* GetProjectServiceTeamMap; an error ends the handler without a comment.
CommandTeamMap(d) ==
  /\ At(d, "cmdTeamMap")
  /\ \/ \E i \in RowsOf(Project(d)) :
          IF rows[i].team = 0
          THEN Continue(d, [req[d] EXCEPT !.pc = "comment", !.end = "noteam"])
          ELSE Continue(d, [req[d] EXCEPT !.pc = "cmdMaintainers", !.team = rows[i].team])
     \/ /\ RowsOf(Project(d)) = {}
        /\ Continue(d, [req[d] EXCEPT !.pc = "comment", !.end = "noteam"])
     \/ Continue(d, Idle)
  /\ UNCHANGED <<tables, teams, account, labelled, cached>>

CommandMaintainers(d) ==
  /\ At(d, "cmdMaintainers")
  /\ \/ LET e == Eligible(registered[Project(d)])
        IN  Continue(d, [req[d] EXCEPT !.pc = IF e = {} THEN "comment" ELSE "teamEmails",
                                       !.seen = e, !.todo = e])
     \/ Fail(d)
  /\ UNCHANGED <<tables, teams, account, labelled, cached>>

\* FetchTeamUserEmails, once for the whole loop.
FetchTeamUserEmails(d) ==
  /\ At(d, "teamEmails")
  /\ \/ /\ req[d].team \in DOMAIN teams
        /\ Continue(d, [req[d] EXCEPT !.pc = "checkPending",
                                      !.existing = teams[req[d].team].members])
     \/ Fail(d)
  /\ UNCHANGED <<tables, teams, account, labelled, cached>>

\* Variant: any invitation counts.
HasAnyPendingInvitation(m) ==
  \E n \in Maintainers : account[n] = "pending"

\* Client.HasPendingInvitation looks the address up as a substring of the
\* whole list of invitations.
HasPendingInvitation(m) ==
  \E n \in Maintainers : account[n] = "pending" /\ (n = m \/ <<n, m>> \in Embeds)

\* One turn of the loop up to the call that adds: a failed look-up counts as
\* "not pending".
CheckPending(d, m) ==
  /\ At(d, "checkPending")
  /\ m \in req[d].todo
  /\ \E ok \in BOOLEAN :
       LET r == [req[d] EXCEPT !.failed = @ \/ ~ok]
       IN  IF ok /\ HasPendingInvitation(m)
           THEN Continue(d, Reported(r, m, "pending", "checkPending", "comment"))
           ELSE IF m \in req[d].existing
           THEN Continue(d, Reported(r, m, "already", "checkPending", "comment"))
           ELSE Continue(d, [r EXCEPT !.pc = "add", !.cur = m])
  /\ UNCHANGED <<tables, teams, account, labelled, cached>>

\* Variant: "already a member" is audited like an addition.
AddUserToTeamAgain(d) ==
  /\ At(d, "add")
  /\ account[req[d].cur] = "user"
  /\ Join(d)
  /\ Continue(d, [req[d] EXCEPT !.pc = "audit"])
  /\ UNCHANGED <<tables, account, labelled, cached>>

\* AddUserToTeamByEmail, whose "already a member" is no error here.
AddUserToTeam(d) ==
  /\ At(d, "add")
  /\ \/ /\ Addable(d)
        /\ Join(d)
        /\ Continue(d, [req[d] EXCEPT !.pc = "audit"])
     \/ /\ req[d].team \in DOMAIN teams
        /\ req[d].cur \in teams[req[d].team].members
        /\ Continue(d, Reported(req[d], req[d].cur, "already", "checkPending", "comment"))
        /\ UNCHANGED teams
     \/ /\ Continue(d, Reported(req[d], req[d].cur, "error", "checkPending", "comment"))
        /\ \/ UNCHANGED teams
           \/ Addable(d) /\ Join(d)
  /\ UNCHANGED <<tables, account, labelled, cached>>

\* LogAuditEvent (best effort), then existingEmails = append(...).
LogAddMember(d) ==
  /\ At(d, "audit")
  /\ \/ audit' = [audit EXCEPT ![<<"FOSSA_ADD_MEMBER", Project(d), req[d].cur>>] = @ + 1]
     \/ UNCHANGED audit
  /\ Continue(d, [Reported(req[d], req[d].cur, "added", "checkPending", "comment")
                    EXCEPT !.existing = @ \cup {req[d].cur}])
  /\ UNCHANGED <<projects, registered, rows, teams, account, labelled, cached>>
-----------------------------------------------------------------------------
(***************************************************************************)
(* The comment "/label fossa" or "/label snyk": handleLabelCommand.        *)
(***************************************************************************)
DeliverLabelCommand(d, n, a) ==
  /\ At(d, "idle")
  /\ \/ \E p \in Known(n) :
          Continue(d, [Idle EXCEPT !.kind = "label", !.project = p, !.actor = a,
                                   !.pc = "labelAuth"])
     \/ /\ Known(n) = {}
        /\ Continue(d, [Idle EXCEPT !.kind = "label", !.actor = a, !.pc = "comment"])
  /\ UNCHANGED <<tables, teams, account, labelled, cached>>

\* Only maintainers and staff: an assignee is refused here.
AuthorizeLabel(d) ==
  /\ At(d, "labelAuth")
  /\ \/ /\ req[d].actor \in registered[Project(d)] \cup Staff
        /\ Continue(d, [req[d] EXCEPT !.pc = "addLabel"])
     \/ Continue(d, [req[d] EXCEPT !.pc = "comment", !.end = "denied",
                       !.failed = req[d].actor \in registered[Project(d)] \cup Staff])
  /\ UNCHANGED <<tables, teams, account, labelled, cached>>

\* AddLabelsToIssue: "fossa", "snyk" (no issue gains the label "fossa") or an
\* error.
AddLabel(d) ==
  /\ At(d, "addLabel")
  /\ \/ labelled' = labelled \cup {NameOf[Project(d)]}
     \/ UNCHANGED labelled
  /\ Continue(d, [req[d] EXCEPT !.pc = "comment"])
  /\ UNCHANGED <<tables, teams, account, cached>>

\* updateIssue: the comment is posted or its error logged; the handler returns.
Comment(d) ==
  /\ At(d, "comment")
  /\ Continue(d, Idle)
  /\ UNCHANGED <<tables, teams, account, labelled, cached>>
-----------------------------------------------------------------------------
(***************************************************************************)
(* Everything else: the process, the registry's other writers (web-bff and *)
(* bootstrap), FOSSA's users and the people on GitHub.                     *)
(***************************************************************************)

\* Variant: the map is filled from somewhere else than the table.
RestartWithAllNames ==
  /\ cached' \in ProjectMaps(Projects)
  /\ req' = [d \in Deliveries |-> Idle]
  /\ UNCHANGED <<tables, teams, account, labelled>>

\* The process ends, its handlers with it, and Init reads the project map.
Restart ==
  /\ cached' \in ProjectMaps(projects)
  /\ req' = [d \in Deliveries |-> Idle]
  /\ UNCHANGED <<tables, teams, account, labelled>>

CreateProject(p) ==
  /\ p \notin projects
  /\ projects' = projects \cup {p}
  /\ UNCHANGED <<registered, rows, audit, teams, account, labelled, cached, req>>

RegisterMaintainer(p, m) ==
  /\ p \in projects
  /\ m \in Candidates[p] \ registered[p]
  /\ registered' = [registered EXCEPT ![p] = @ \cup {m}]
  /\ UNCHANGED <<projects, rows, audit, teams, account, labelled, cached, req>>

\* A team that staff made on FOSSA by hand.
CreateTeamByHand(n) ==
  /\ TeamsNamed(n) = {}
  /\ teams' = Append(teams, [name |-> n, members |-> {}])
  /\ UNCHANGED <<tables, account, labelled, cached, req>>

\* bootstrap (loadFOSSA, CreateServiceTeamsForUser) stores the FOSSA teams whose
\* name is the one of a registered project, for one of the projects of that
\* name.
ImportServiceTeam(t, p) ==
  /\ p \in projects
  /\ NameOf[p] = teams[t].name
  /\ RowsForTeam(t) = {}
  /\ rows' = Append(rows, [team |-> t, project |-> p])
  /\ UNCHANGED <<projects, registered, audit, teams, account, labelled, cached, req>>

AcceptInvitation(m) ==
  /\ account[m] = "pending"
  /\ account' = [account EXCEPT ![m] = "user"]
  /\ UNCHANGED <<tables, teams, labelled, cached, req>>

ExpireInvitation(m) ==
  /\ account[m] = "pending"
  /\ account' = [account EXCEPT ![m] = "none"]
  /\ UNCHANGED <<tables, teams, labelled, cached, req>>

LabelByHand(n) ==
  /\ n \notin labelled
  /\ labelled' = labelled \cup {n}
  /\ UNCHANGED <<tables, teams, account, cached, req>>
-----------------------------------------------------------------------------
LabelStep(d) ==
  \/ ReadMaintainers(d) \/ LookUpTeam(d) \/ CreateTeam(d)
  \/ FindServiceTeam(d) \/ InsertServiceTeam(d)
  \/ \E m \in Maintainers : Invite(d, m)
  \/ AddInvitedUser(d) \/ RereadTeamMap(d) \/ Recover(d)

CommandStep(d) ==
  \/ Authorize(d) \/ CommandTeamMap(d) \/ CommandMaintainers(d)
  \/ FetchTeamUserEmails(d)
  \/ \E m \in Maintainers : CheckPending(d, m)
  \/ AddUserToTeam(d) \/ LogAddMember(d)

Step(d) ==
  LabelStep(d) \/ CommandStep(d) \/ AuthorizeLabel(d) \/ AddLabel(d) \/ Comment(d)

Deliver(d, n) ==
  \/ DeliverLabeled(d, n)
  \/ \E a \in Actors : DeliverAccepted(d, n, a) \/ DeliverLabelCommand(d, n, a)

Environment ==
  \/ Restart
  \/ \E n \in Names : CreateTeamByHand(n) \/ LabelByHand(n)
  \/ \E p \in Projects : CreateProject(p)
  \/ \E p \in Projects, m \in Maintainers : RegisterMaintainer(p, m)
  \/ \E t \in DOMAIN teams, p \in Projects : ImportServiceTeam(t, p)
  \/ \E m \in Maintainers : AcceptInvitation(m) \/ ExpireInvitation(m)

Next ==
  \/ \E d \in Deliveries : Step(d) \/ \E n \in Names : Deliver(d, n)
  \/ Environment

Spec == Init /\ [][Next]_vars

\* The Go scheduler runs every runnable handler; that a call returns, with an
\* answer or an error, is an assumption on FOSSA, GitHub and the database.
FairSpec == Spec /\ \A d \in Deliveries : WF_vars(Step(d))
-----------------------------------------------------------------------------
\* The state of every component is well formed.
TypeOK ==
  /\ projects \subseteq Projects
  /\ registered \in [Projects -> SUBSET Maintainers]
  /\ rows \in Seq(Row)
  /\ audit \in [AuditEntry -> Nat]
  /\ teams \in Seq(Team)
  /\ account \in [Maintainers -> {"none", "pending", "user"}]
  /\ labelled \subseteq Names
  /\ cached \subseteq projects
  /\ req \in [Deliveries -> Request]

\* Every service_teams row of a project points at the one FOSSA team of that
\* project's name, although handlers race between CreateTeam and CreateServiceTeam,
\* answers of CreateTeam get lost and the process restarts in between: so it
\* does not matter which of several rows GetProjectServiceTeamMap leaves in
\* its map.
RowsPointAtTheirTeam ==
  \A i \in DOMAIN rows : TeamsOf(rows[i].project) = {rows[i].team}

\* CreateServiceTeam selects by service_team_id alone, signProjectUpForFOSSA
\* reads back by the project's id.
AnothersRow(r) ==
  \E i \in RowsForTeam(r.team) :
    rows[i].project # r.project /\ NameOf[rows[i].project] = NameOf[r.project]

\* signProjectUpForFOSSA dereferences the row it has just stored or found
\* (server.go:495).  There is none, and it panics with the invitations sent,
\* in two cases only: CreateServiceTeam reported an error that was logged and
\* ignored, or, although no call failed, the team's row belongs to another
\* project of the same name.
PanicNeedsErrorOrNamesake ==
  \A d \in Deliveries :
    At(d, "panicked") => req[d].unstored \/ AnothersRow(req[d])

\* Whoever the server has put into a team is a contactable registered
\* maintainer of its project, or of another of the same name, who has accepted
\* the invitation, even though a failed HasPendingInvitation counts as "not
\* pending".
MembersAreAcceptedMaintainers ==
  \A t \in DOMAIN teams : \A m \in teams[t].members :
    /\ m \in Users
    /\ \E p \in Projects : NameOf[p] = teams[t].name /\ m \in Eligible(registered[p])

\* However many commands run at once, a person's addition to a team is audited
\* at most once, be it for one project of the team's name or for another, and
\* only if the person is in the team.
Added(p, m) == audit[<<"FOSSA_ADD_MEMBER", p, m>>]
AuditedOnceAndTrue ==
  \A p \in Projects, m \in Maintainers :
    /\ Added(p, m) <= 1
    /\ Added(p, m) = 1 =>
         /\ \E t \in TeamsOf(p) : m \in teams[t].members
         /\ \A q \in Projects \ {p} : NameOf[q] = NameOf[p] => Added(q, m) = 0

\* When "/fossa-invite accepted" was processed without an error, every
\* eligible maintainer who had accepted before the comment was written is in
\* the project's team, unless the address of somebody who had not accepted by
\* then contains theirs: HasPendingInvitation takes the one for the other.
AcceptedAreAdded ==
  \A d \in Deliveries :
    /\ req[d].kind = "accepted"
    /\ At(d, "comment")
    /\ ~req[d].failed
    => \A m \in req[d].seen \cap req[d].users :
         \/ m \in teams[req[d].team].members
         \/ \E n \in Maintainers \ req[d].users : <<n, m>> \in Embeds

\* What the comment says of a maintainer is so: "added" and "already a member"
\* name members of the project's team, and a label run that ended well reports
\* every eligible maintainer as invited or added, having recorded the team.
ReportIsTrue ==
  \A d \in Deliveries : At(d, "comment") =>
    /\ \A m \in Maintainers :
         req[d].report[m] \in {"added", "already"} =>
           \E t \in TeamsOf(Project(d)) : m \in teams[t].members
    /\ req[d].kind = "labeled" /\ ~req[d].failed =>
         /\ RowsOf(Project(d)) # {}
         /\ \A m \in req[d].seen : req[d].report[m] \in {"invited", "added"}

\* A command does what its comment says it did.
CommandsAreHonoured == AcceptedAreAdded /\ ReportIsTrue

\* A team gains a member only by the step of a handler that works for the
\* project of that team, and a comment's handler only if its author may
\* command it.
MembersOnlyByAuthority ==
  [][\A t \in DOMAIN teams : teams'[t].members # teams[t].members =>
       \E d \in Deliveries :
         /\ req[d] # req'[d]
         /\ NameOf[Project(d)] = teams[t].name
         /\ req[d].kind = "accepted" => MayCommand(req[d].actor, Project(d))]_vars

\* Every delivery that is being handled ends: no loop over maintainers runs
\* forever, whatever fails.
EveryDeliveryEnds ==
  \A d \in Deliveries : ~At(d, "idle") ~> At(d, "idle")

-----------------------------------------------------------------------------
(***************************************************************************)
(* What the proofs need besides, of the handlers in flight.                *)
(***************************************************************************)
TeamPc == {"findRow", "insertRow", "invite", "addInvited", "reread",
           "cmdMaintainers", "teamEmails", "checkPending", "add", "audit"}
StoredPc == {"invite", "addInvited", "reread"}
AddingPc == {"addInvited", "add", "audit"}

\* FOSSA's answer 2003 and FetchTeam keep team names unique.
UniqueTeamNames ==
  \A t, u \in DOMAIN teams : teams[t].name = teams[u].name => t = u

\* What a handler record says is so: the people it works on are eligible
\* maintainers of its project, the team id it holds is the one of its project's
\* team, and once it is past CreateServiceTeam its row or a namesake's is there
\* or it saw the error.
HandlerOK(r) ==
  /\ r.pc \notin {"idle", "comment"} =>
       /\ r.project \in Projects
       /\ r.todo \subseteq r.seen
       /\ r.seen \subseteq Eligible(registered[r.project])
  /\ r.pc \in AddingPc => r.cur \in r.seen
  /\ r.pc \in TeamPc => r.team \in DOMAIN teams /\ teams[r.team].name = NameOf[r.project]
  /\ r.pc \in StoredPc => r.unstored \/ AnothersRow(r) \/ RowsOf(r.project) # {}
  /\ r.pc = "panicked" => r.unstored \/ AnothersRow(r)

HandlersOK == \A d \in Deliveries : HandlerOK(req[d])

\* No project of the name of p has an audit entry for m.
NotAudited(p, m) ==
  \A q \in Projects : NameOf[q] = NameOf[p] => Added(q, m) = 0

\* A handler about to audit an addition made it, and nobody else did.
HandlerAuditsItsOwn ==
  \A d \in Deliveries : At(d, "audit") =>
    /\ req[d].cur \in teams[req[d].team].members
    /\ NotAudited(Project(d), req[d].cur)
    /\ \A e \in Deliveries :
         /\ At(e, "audit") /\ req[e].cur = req[d].cur
         /\ NameOf[Project(e)] = NameOf[Project(d)]
         => e = d

\* The inductive invariant.
IndInv ==
  /\ TypeOK
  /\ UniqueTeamNames
  /\ RowsPointAtTheirTeam
  /\ HandlersOK
  /\ MembersAreAcceptedMaintainers
  /\ HandlerAuditsItsOwn
  /\ AuditedOnceAndTrue
=============================================================================
