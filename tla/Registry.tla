------------------------------- MODULE Registry -------------------------------
(***************************************************************************)
(* The edits of the registry by the web backend (src/cmd/web-bff/main.go)  *)
(* and the statements of the SQL store they issue (src/db/store_impl.go).  *)
(*                                                                         *)
(* Every request is served by a goroutine of its own and its statements    *)
(* interleave with those of the others: a step of this specification is a  *)
(* statement, or what a transaction shows to the others when it commits    *)
(* (Postgres, READ COMMITTED).  Nobody reads the audit log, so that its    *)
(* insertion is one step with the read before it.                          *)
(*                                                                         *)
(* Handles, emails and company names are atoms.  The lookups of handles    *)
(* and emails fold case, so these stand for their folded forms; company    *)
(* names are folded by one lookup and not by the other, so Lower is given. *)
(* A maintainer's name is left out: it is written like the handle.         *)
(***************************************************************************)
EXTENDS Integers, Sequences, FiniteSetsExt

CONSTANTS
  Requests,      \* the requests that are ever served
  Asks,          \* what a request may ask for
  Handles, Emails, Names, \* of maintainers, and of companies
  Lower,         \* [Names -> case-folded names]
  FirstRows,     \* the maintainers and the companies at the start
  FirstCompanies,
  MaxFaults      \* bound: database errors, and restarts

\* EMAIL_MISSING or GITHUB_MISSING in the table, the empty string in a request.
Missing == "missing"
\* The empty company name.
Blank == ""

ASSUME ConstantsAssumption ==
  /\ Missing \notin Handles \cup Emails /\ Blank \notin Names
  /\ MaxFaults \in Nat

VARIABLES
  rows,      \* table maintainers, by id
  companies, \* table companies, by id; a deleted one stays, and keeps its name
  members,   \* table maintainer_projects, of the one project there is
  project,   \* its maintainerRef and maturity
  audit,     \* fields mentioned in the audit log: <<request, table, id, field>>
  run,       \* where each request is
  faults,    \* how many are still to come
  changed,   \* history: <<request, table, id, field>> whose value it changed
  together,  \* history: {r, s} for requests that were served at the same time
  hit,       \* history: requests that a fault hit
  said       \* history: status that staff gave each maintainer last

tables == <<rows, companies, members, project>>
history == <<changed, together, hit, said>>
vars == <<tables, audit, run, faults, history>>
-----------------------------------------------------------------------------
Statuses == {"Active", "Emeritus", "Retired", "Archived"}
Fields == {"github", "email", "status", "company"}
Row == [github : Handles \cup {Missing}, email : Emails \cup {Missing},
        status : Statuses, company : Nat]      \* company 0: none
NoRow == [github |-> Missing, email |-> Missing, status |-> "none", company |-> 0]
Company == [name : Names \cup {Blank}, live : BOOLEAN]

\* A request that lacks what its kind needs (an addition, a handle; a new
\* company, a name) is refused before it gets to the tables.
ASSUME AsksAssumption ==
  \A a \in Asks :
    /\ a.kind \in {"edit", "self", "add", "bulk", "create", "merge", "project"}
    /\ a.kind \in {"edit", "self"} =>
         a.row \in Nat /\ a.email \in Emails \cup {Missing} /\ a.company \in Nat
    /\ a.kind = "edit" => a.github \in Handles \cup {Missing}
    /\ a.kind = "add" => /\ a.github \in Handles /\ a.email \in Emails \cup {Missing}
                         /\ a.company \in Names \cup {Blank}
    /\ a.kind = "create" => a.name \in Names
    /\ a.kind = "project" => a.field \in {"maintainerRef", "maturity"}

\* The tables at the start have no duplicates, and nobody on a deleted company.
ASSUME FirstAssumption ==
  /\ FirstRows \in Seq(Row) /\ FirstCompanies \in Seq(Company)
  /\ \A i \in DOMAIN FirstRows :
       FirstRows[i].company # 0 =>
         /\ FirstRows[i].company \in DOMAIN FirstCompanies
         /\ FirstCompanies[FirstRows[i].company].live
  /\ \A i, j \in DOMAIN FirstRows :
       i < j /\ FirstRows[i].github = FirstRows[j].github => FirstRows[i].github = Missing
  /\ \A c, d \in DOMAIN FirstCompanies :
       c < d /\ Blank \notin {FirstCompanies[c].name, FirstCompanies[d].name} =>
         Lower[FirstCompanies[c].name] # Lower[FirstCompanies[d].name]

\* A request in service.
Serving ==
  [pc : {"read", "find", "commit", "check", "write", "audit"}, ask : Asks,
   row : Nat,                  \* id of the maintainer it is about
   before : Row \cup {NoRow},  \* as first read, for the audit entry
   next : Row \cup {NoRow},    \* to be written
   company : Nat]              \* of the transaction; 0: none, or to be created

New == [pc |-> "new"]
Done(a, answer) == [pc |-> "done", kind |-> a.kind, answer |-> answer]
Ended == [pc : {"done"}, kind : {a.kind : a \in Asks}, answer : {"ok", "error", "none"}]

TypeOK ==
  /\ rows \in Seq(Row)
  /\ companies \in Seq(Company)
  /\ members \subseteq DOMAIN rows
  /\ \A f \in {"maintainerRef", "maturity"} : f \in DOMAIN project
  /\ \A e \in audit \cup changed :
       e[1] \in Requests /\ e[2] \in {"row", "member", "company", "project"}
  /\ run \in [Requests -> Serving \cup Ended \cup {New}]
  /\ faults \in 0..MaxFaults
  /\ together \subseteq SUBSET Requests /\ hit \subseteq Requests
  /\ said \in Seq(Statuses) /\ Len(said) = Len(rows)

Init ==
  /\ rows = FirstRows /\ companies = FirstCompanies
  /\ members = {}
  /\ project = [maintainerRef |-> "old", maturity |-> "old"]
  /\ audit = {}
  /\ run = [r \in Requests |-> New]
  /\ faults = MaxFaults
  /\ changed = {} /\ together = {} /\ hit = {}
  /\ said = [i \in DOMAIN rows |-> rows[i].status]
-----------------------------------------------------------------------------
\* The first row by primary key, 0 if there is none.
First(ids) == IF ids = {} THEN 0 ELSE Min(ids)
ByHandle(h) == First({i \in DOMAIN rows : rows[i].github = h})
ByEmail(e) == First({i \in DOMAIN rows : rows[i].email = e})

\* First ignores rows that are soft-deleted.
Live(c) == c \in DOMAIN companies /\ companies[c].live

Differ(a, b) == {f \in Fields : a[f] # b[f]}

Mark(r, table, id, fields) == {<<r, table, id, f>> : f \in fields}

InService(r) == run[r].pc \notin {"new", "done"}

\* A request comes in and issues its first statement.
Serve(r, state) ==
  /\ run' = [run EXCEPT ![r] = state]
  /\ together' = together \cup {{r, s} : s \in {s \in Requests : InService(s)}}

Step(r, state) ==
  /\ run' = [run EXCEPT ![r] = state]
  /\ UNCHANGED together

\* The last statement of most requests: an entry that cannot be written is
\* logged and the request is answered all the same.
Audit(r, mentions) ==
  /\ \/ audit' = audit \cup mentions /\ UNCHANGED <<faults, hit>>
     \/ /\ faults > 0 /\ faults' = faults - 1
        /\ hit' = hit \cup {r}
        /\ UNCHANGED audit
  /\ Step(r, Done(run[r].ask, "ok"))

Begin(a, pc) == [pc |-> pc, ask |-> a, row |-> 0, before |-> NoRow,
                 next |-> NoRow, company |-> 0]
-----------------------------------------------------------------------------
\* PATCH /api/maintainers/{id}

\* Staff edit any maintainer, a maintainer only the first row with the login.
EditAuthorize(r, a) ==
  /\ a.kind \in {"edit", "self"}
  /\ Serve(r, IF a.kind = "edit" \/ ByHandle(a.login) = a.row
              THEN [Begin(a, "read") EXCEPT !.row = a.row]
              ELSE Done(a, "error"))
  /\ UNCHANGED <<tables, audit, faults, changed, hit, said>>

\* Variant: maintainers set their own status.
OwnStatus(a, before) ==
  [github |-> IF a.kind = "self" THEN before.github ELSE a.github,
   email |-> a.email, status |-> a.status, company |-> a.company]

\* What is to be written: maintainers keep their handle and status, as read.
Requested(a, before) ==
  [github |-> IF a.kind = "self" THEN before.github ELSE a.github,
   email |-> a.email,
   status |-> IF a.kind = "self" THEN before.status ELSE a.status,
   company |-> a.company]

\* Variant: any status is taken.
AnyStatus(status) == TRUE

IsValid(status) == status \in Statuses

EditRead(r) ==
  /\ run[r].pc = "read" /\ run[r].ask.kind \in {"edit", "self"}
  /\ LET a == run[r].ask
     IN Step(r, IF a.row \in DOMAIN rows /\ IsValid(Requested(a, rows[a.row]).status)
                THEN [run[r] EXCEPT !.pc = "check", !.before = rows[a.row],
                                    !.next = Requested(a, rows[a.row])]
                ELSE Done(a, "error"))
  /\ UNCHANGED <<tables, audit, faults, changed, hit, said>>

\* Variant: having no company is not allowed for.
OnlyLive(c) == Live(c)

CompanyExists(c) == c = 0 \/ Live(c)

\* UpdateMaintainerDetails, for edits and additions: the company must exist, ...
\* (an error of this or of the next statements is a StatementFails)
DetailsCheck(r) ==
  /\ run[r].pc = "check"
  /\ Step(r, IF CompanyExists(run[r].next.company)
             THEN [run[r] EXCEPT !.pc = "write"]
             ELSE Done(run[r].ask, "error"))
  /\ UNCHANGED <<tables, audit, faults, changed, hit, said>>

\* ... and all fields are written, by an update of their own.
DetailsWrite(r) ==
  LET i == run[r].row
      next == run[r].next
  IN /\ run[r].pc = "write" /\ run[r].ask.kind \in {"edit", "self", "add"}
     /\ rows' = [rows EXCEPT ![i] = next]
     /\ changed' = changed \cup Mark(r, "row", i, Differ(rows[i], next))
     /\ said' = IF run[r].ask.kind = "edit" THEN [said EXCEPT ![i] = next.status]
                ELSE said
     /\ Step(r, [run[r] EXCEPT !.pc = "audit"])
     /\ UNCHANGED <<companies, members, project, audit, faults, hit>>

\* The row is read again, and its differences from the one first read audited.
EditAudit(r) ==
  LET i == run[r].row
  IN /\ run[r].pc = "audit" /\ run[r].ask.kind \in {"edit", "self"}
     /\ Audit(r, Mark(r, "row", i, Differ(run[r].before, rows[i])))
     /\ UNCHANGED <<tables, changed, said>>
-----------------------------------------------------------------------------
\* POST /api/maintainers/from-ref

\* Variant: the handle is not looked up when there is an email.
FoundByEmail(a) == IF a.email # Missing THEN ByEmail(a.email) ELSE ByHandle(a.github)

\* The maintainer with the handle, or else with the email.
Found(a) ==
  IF ByHandle(a.github) # 0 \/ a.email = Missing THEN ByHandle(a.github)
  ELSE ByEmail(a.email)

\* The handler looks for the maintainer, for the audit entry.
AddLook(r, a) ==
  /\ a.kind = "add"
  /\ Serve(r, [Begin(a, "find") EXCEPT
                 !.before = IF Found(a) = 0 THEN NoRow ELSE rows[Found(a)]])
  /\ UNCHANGED <<tables, audit, faults, changed, hit, said>>

\* UpsertMaintainer looks again, in its transaction, and for the company too.
AddFind(r) ==
  LET a == run[r].ask
      i == Found(a)
      c == First({k \in DOMAIN companies : /\ a.company # Blank /\ companies[k].live
                                           /\ companies[k].name = a.company})
  IN /\ run[r].pc = "find"
     /\ Step(r, [run[r] EXCEPT !.pc = "commit", !.row = i,
                               !.next = IF i = 0 THEN NoRow ELSE rows[i],
                               !.company = c])
     /\ UNCHANGED <<tables, audit, faults, changed, hit, said>>

\* Variant: FirstOrCreate is given the company as a struct, with its name.
NamedCompany(a) == [name |-> a.company, live |-> TRUE]

\* FirstOrCreate takes no values from a condition that is an SQL string: the
\* company it creates has no name.
CreatedCompany(a) == [name |-> Blank, live |-> TRUE]

\* What the first transaction wrote, or found, with its gaps filled.
Filled(had, a, c) ==
  [github |-> IF had.github = Missing THEN a.github ELSE had.github,
   email |-> IF had.email = Missing THEN a.email ELSE had.email,
   status |-> had.status,
   company |-> IF had.company = 0 THEN c ELSE had.company]

\* Its inserts appear: the company, the maintainer, the membership.  The
\* index on company names spans the deleted companies.
AddCommit(r) ==
  LET a == run[r].ask
      create == a.company # Blank /\ run[r].company = 0
      refused == create /\ \E c \in DOMAIN companies :
                             companies[c].name = CreatedCompany(a).name
      c == IF create THEN Len(companies) + 1 ELSE run[r].company
      i == IF run[r].row = 0 THEN Len(rows) + 1 ELSE run[r].row
      new == [github |-> a.github, email |-> a.email, status |-> "Active",
              company |-> c]
      had == IF run[r].row = 0 THEN new ELSE run[r].next
  IN /\ run[r].pc = "commit" /\ a.kind = "add"
     /\ IF refused
        THEN Step(r, Done(a, "error")) /\ UNCHANGED <<tables, changed, said>>
        ELSE /\ companies' = IF create THEN Append(companies, CreatedCompany(a))
                             ELSE companies
             /\ members' = members \cup {i}
             /\ rows' = IF run[r].row = 0 THEN Append(rows, new) ELSE rows
             /\ said' = IF run[r].row = 0 THEN Append(said, "Active") ELSE said
             /\ changed' = changed \cup Mark(r, "member", i, {"project"})
                  \cup IF run[r].row # 0 THEN {}
                       ELSE Mark(r, "row", i, Differ(NoRow, new) \ {"status"})
             /\ Step(r, [run[r] EXCEPT !.pc = "check", !.row = i,
                                       !.next = Filled(had, a, c)])
             /\ UNCHANGED project
     /\ UNCHANGED <<audit, faults, hit>>

\* The name that the audit entry gives to company c.
NameOf(c) == IF Live(c) THEN companies[c].name ELSE Blank

\* Variant: the name that was asked for is not used.
NamesOfIds(a, before, after) == NameOf(before.company) # NameOf(after.company)

\* Companies are compared by name, and the name asked for stands in for a blank.
CompanyDiffers(a, before, after) ==
  NameOf(before.company) # (IF NameOf(after.company) = Blank THEN a.company
                            ELSE NameOf(after.company))

\* Variant: the entry does not name the project.
EntryOfRow(r, i, fields) == Mark(r, "row", i, fields)

\* The entry names the project too; there is none without a field to mention.
Entry(r, i, fields) ==
  Mark(r, "row", i, fields)
    \cup (IF fields = {} THEN {} ELSE Mark(r, "member", i, {"project"}))

\* The row is read again and audited: as what was asked for if the handler
\* found nobody, otherwise by its differences.
AddAudit(r) ==
  LET a == run[r].ask
      i == run[r].row
      given == {f \in {"github", "email"} : a[f] # Missing}
                 \cup (IF a.company # Blank THEN {"company"} ELSE {})
      diff == (Differ(run[r].before, rows[i]) \cap {"github", "email"})
                \cup (IF CompanyDiffers(a, run[r].before, rows[i])
                      THEN {"company"} ELSE {})
  IN /\ run[r].pc = "audit" /\ a.kind = "add"
     /\ Audit(r, Entry(r, i, IF run[r].before = NoRow THEN given ELSE diff))
     /\ UNCHANGED <<tables, changed, said>>
-----------------------------------------------------------------------------
\* POST /api/maintainers/status: one statement, and no audit entry.
BulkStatus(r, a) ==
  LET ids == a.rows \cap DOMAIN rows
  IN /\ a.kind = "bulk" /\ IsValid(a.status)
     /\ rows' = [i \in DOMAIN rows |->
                   IF i \in ids THEN [rows[i] EXCEPT !.status = a.status] ELSE rows[i]]
     /\ said' = [i \in DOMAIN rows |-> IF i \in ids THEN a.status ELSE said[i]]
     /\ changed' = changed \cup UNION {Mark(r, "row", i, {"status"}) :
                     i \in {i \in ids : rows[i].status # a.status}}
     /\ Serve(r, Done(a, "ok"))
     /\ UNCHANGED <<companies, members, project, audit, faults, hit>>
-----------------------------------------------------------------------------
\* POST /api/companies

\* Variant: the lookup does not fold case.
ExactlyNamed(n) == {c \in DOMAIN companies : companies[c].live /\ companies[c].name = n}

\* Live companies with this name in any case.
SameName(n) ==
  {c \in DOMAIN companies : /\ companies[c].live /\ companies[c].name # Blank
                            /\ Lower[companies[c].name] = Lower[n]}

CreateLook(r, a) ==
  /\ a.kind = "create"
  /\ Serve(r, IF SameName(a.name) # {} THEN Done(a, "error") ELSE Begin(a, "write"))
  /\ UNCHANGED <<tables, audit, faults, changed, hit, said>>

\* The unique index may still refuse it.
CreateInsert(r) ==
  LET n == run[r].ask.name
      c == Len(companies) + 1
  IN /\ run[r].pc = "write" /\ run[r].ask.kind = "create"
     /\ IF \E k \in DOMAIN companies : companies[k].name = n
        THEN Step(r, Done(run[r].ask, "error")) /\ UNCHANGED <<companies, changed>>
        ELSE /\ companies' = Append(companies, [name |-> n, live |-> TRUE])
             /\ changed' = changed \cup Mark(r, "company", c, {"name"})
             /\ Step(r, [run[r] EXCEPT !.pc = "audit", !.company = c])
     /\ UNCHANGED <<rows, members, project, audit, faults, hit, said>>

CreateAudit(r) ==
  /\ run[r].pc = "audit" /\ run[r].ask.kind = "create"
  /\ Audit(r, Mark(r, "company", run[r].company, {"name"}))
  /\ UNCHANGED <<tables, changed, said>>
-----------------------------------------------------------------------------
\* POST /api/companies/merge: a transaction that checks both companies, ...
MergeCheck(r, a) ==
  /\ a.kind = "merge"
  /\ Serve(r, IF a.from # a.to /\ Live(a.to) /\ Live(a.from)
              THEN Begin(a, "commit") ELSE Done(a, "error"))
  /\ UNCHANGED <<tables, audit, faults, changed, hit, said>>

\* Variant: only active maintainers are moved.
ActiveMoved(from) == {i \in DOMAIN rows : rows[i].company = from /\ rows[i].status = "Active"}

Moved(from) == {i \in DOMAIN rows : rows[i].company = from}

\* ... moves the maintainers and deletes the source; no audit entry.
MergeCommit(r) ==
  LET a == run[r].ask
      ids == Moved(a.from)
  IN /\ run[r].pc = "commit" /\ a.kind = "merge"
     /\ rows' = [i \in DOMAIN rows |->
                   IF i \in ids THEN [rows[i] EXCEPT !.company = a.to] ELSE rows[i]]
     /\ companies' = [companies EXCEPT ![a.from].live = FALSE]
     /\ changed' = changed \cup Mark(r, "company", a.from, {"deleted"})
                     \cup UNION {Mark(r, "row", i, {"company"}) : i \in ids}
     /\ Step(r, Done(a, "ok"))
     /\ UNCHANGED <<members, project, audit, faults, hit, said>>
-----------------------------------------------------------------------------
\* PATCH /api/projects/{id} and its maturity: always audited.
ProjectRead(r, a) ==
  /\ a.kind = "project"
  /\ Serve(r, Begin(a, "write"))
  /\ UNCHANGED <<tables, audit, faults, changed, hit, said>>

ProjectWrite(r) ==
  LET a == run[r].ask
  IN /\ run[r].pc = "write" /\ a.kind = "project"
     /\ project' = [project EXCEPT ![a.field] = a.value]
     /\ changed' = changed \cup IF project[a.field] = a.value THEN {}
                                ELSE Mark(r, "project", 1, {a.field})
     /\ Step(r, [run[r] EXCEPT !.pc = "audit"])
     /\ UNCHANGED <<rows, companies, members, audit, faults, hit, said>>

ProjectAudit(r) ==
  /\ run[r].pc = "audit" /\ run[r].ask.kind = "project"
  /\ Audit(r, Mark(r, "project", 1, {run[r].ask.field}))
  /\ UNCHANGED <<tables, changed, said>>
-----------------------------------------------------------------------------
\* The database fails a statement of r, or its answer is lost: the request is
\* refused, and what it has committed stays.  Of an edit or an addition that
\* has written its fields, it is the second reading of the row that fails.
StatementFails(r) ==
  /\ InService(r)
  /\ faults > 0 /\ faults' = faults - 1
  /\ hit' = hit \cup {r}
  /\ Step(r, Done(run[r].ask, "error"))
  /\ UNCHANGED <<tables, audit, changed, said>>

\* The process dies: requests in service end, open transactions roll back.
Restart ==
  LET dead == {r \in Requests : InService(r)}
  IN /\ faults > 0 /\ faults' = faults - 1
     /\ dead # {}
     /\ run' = [r \in Requests |-> IF r \in dead THEN Done(run[r].ask, "none")
                                 ELSE run[r]]
     /\ hit' = hit \cup dead
     /\ UNCHANGED <<tables, audit, changed, together, said>>

Arrive(r) ==
  /\ run[r].pc = "new"
  /\ \E a \in Asks : \/ EditAuthorize(r, a) \/ AddLook(r, a) \/ BulkStatus(r, a)
                     \/ CreateLook(r, a) \/ MergeCheck(r, a) \/ ProjectRead(r, a)

Proceed(r) ==
  \/ EditRead(r) \/ DetailsCheck(r) \/ DetailsWrite(r) \/ EditAudit(r)
  \/ AddFind(r) \/ AddCommit(r) \/ AddAudit(r)
  \/ CreateInsert(r) \/ CreateAudit(r) \/ MergeCommit(r)
  \/ ProjectWrite(r) \/ ProjectAudit(r)
  \/ StatementFails(r)

Next == Restart \/ \E r \in Requests : Arrive(r) \/ Proceed(r)

Spec == Init /\ [][Next]_vars
-----------------------------------------------------------------------------
Overlapped(r, s) == r # s /\ {r, s} \in together
Kind(r) == IF run[r].pc = "done" THEN run[r].kind ELSE run[r].ask.kind
Lone(r) == \A s \in Requests : ~Overlapped(r, s)

\* Who changed a field of a row.
Changers(i, f) == {r \in Requests : <<r, "row", i, f>> \in changed}
\* Who merged company c away.
Mergers(c) == {r \in Requests : <<r, "company", c, "deleted">> \in changed}

\* MergeCompanies leaves nobody on the company it deletes, and an edit or an
\* addition checks that the company it assigns exists: a maintainer is on a
\* deleted company only if who put them there and the merge overlapped.
CompanyRefsAreLive ==
  \A i \in DOMAIN rows : rows[i].company # 0 /\ ~Live(rows[i].company) =>
    \E r \in Changers(i, "company"), s \in Mergers(rows[i].company) : Overlapped(r, s)

\* The status staff gave a maintainer last stands: a maintainer's own edit or
\* an addition that finds them writes back what it read, and undoes the
\* decision only if that came while it was served.
StaffStatusStands ==
  \A i \in DOMAIN rows : rows[i].status # said[i] =>
    \E r, s \in Changers(i, "status") : Overlapped(r, s)

\* Additions do not duplicate a maintainer: two rows have one handle only if
\* overlapping requests gave it to them, or staff typed it into an edit.
OneRowPerHandle ==
  \A i, j \in DOMAIN rows :
    i < j /\ rows[i].github = rows[j].github /\ rows[i].github # Missing =>
      \/ \E r \in Changers(i, "github"), s \in Changers(j, "github") : Overlapped(r, s)
      \/ \E r \in Changers(i, "github") \cup Changers(j, "github") : Kind(r) = "edit"

\* CreateCompany looks for the name in any case and inserts later: two live
\* companies have names that differ only in case only if they were created by
\* overlapping requests.
NoCaseTwins ==
  \A c, d \in DOMAIN companies :
    c < d /\ companies[c].live /\ companies[c].name # Blank
    /\ companies[d].live /\ companies[d].name # Blank
    /\ Lower[companies[c].name] = Lower[companies[d].name] =>
      \E r, s \in Requests : /\ <<r, "company", c, "name">> \in changed
                             /\ <<s, "company", d, "name">> \in changed
                             /\ Overlapped(r, s)

\* Duplicates of either kind are the work of requests that overlapped.
NoTwins == OneRowPerHandle /\ NoCaseTwins

\* UpsertMaintainer commits the membership before it updates the details:
\* an addition that has added a member is refused only if a statement of the
\* update failed, or if a merge that overlapped with it, or with who assigned
\* the maintainer's company, took the company away.
RefusedAfterCommit ==
  \A r \in Requests, i \in DOMAIN rows :
    <<r, "member", i, "project">> \in changed
    /\ run[r].pc = "done" /\ run[r].answer = "error" =>
      \/ r \in hit
      \/ \E c \in DOMAIN companies :
           \E s \in Mergers(c), t \in Changers(i, "company") \cup {r} : Overlapped(s, t)

\* r changed no field of row i.
LeftAsItWas(r, i) == \A f \in Fields : r \notin Changers(i, f)

\* What a request changed while it was served alone, and without a fault, its
\* audit entry mentions: the fields, and the project of who it added.  Three
\* changes are never audited: bulk status changes, merges, and the membership
\* of a maintainer who is there already and has no field changed by it.
LoneChangesAreAudited ==
  \A e \in changed :
    /\ run[e[1]].pc = "done" /\ Kind(e[1]) \notin {"bulk", "merge"}
    /\ Lone(e[1]) /\ e[1] \notin hit
    => e \in audit \/ (e[2] = "member" /\ LeftAsItWas(e[1], e[3]))
===============================================================================
