---------------------------- MODULE RegistryProofs ----------------------------
(***************************************************************************)
(* Theorems about Registry, for any number of requests of any kinds, any   *)
(* tables at the start and any number of faults.                           *)
(*                                                                         *)
(* A request relies on what it has read.  The invariant says of each       *)
(* request in service how far the tables may have moved away from that:    *)
(* only by the work of requests that overlap with it (RequestOK).          *)
(***************************************************************************)
EXTENDS Registry, TLAPS, NaturalsInduction, WellFoundedInduction, SequenceTheorems

Marks(r) == {e \in changed : e[1] = r}

\* Two requests in service are in it together.
Pairs ==
  \A r, s \in Requests : r # s /\ InService(r) /\ InService(s) => {r, s} \in together

\* The companies that maintainers are on exist, if only as deleted ones.
RefsKnown == \A i \in DOMAIN rows : rows[i].company # 0 => rows[i].company \in DOMAIN companies

\* Requests with one of these kinds that have got to one of these statements.
At(r, pcs, kinds) == run[r].pc \in pcs /\ run[r].ask.kind \in kinds

Editing == {"edit", "self"}
Writing == {"edit", "self", "add"}
Keeping == {"self", "add"}

ShapeOK(r) ==
  /\ InService(r) =>
       \/ At(r, {"read"}, Editing) \/ At(r, {"find", "commit"}, {"add"})
       \/ At(r, {"check", "write", "audit"}, Writing)
       \/ At(r, {"write", "audit"}, {"create", "project"}) \/ At(r, {"commit"}, {"merge"})
  /\ At(r, {"read"}, Editing) => run[r].row = run[r].ask.row
  /\ At(r, {"commit"}, {"add"}) /\ run[r].row # 0 =>
       run[r].row \in DOMAIN rows /\ run[r].next \in Row
  /\ At(r, {"check", "write", "audit"}, Writing) =>
       run[r].row \in DOMAIN rows /\ run[r].next \in Row

\* What a request has changed so far.
MarksOK(r) ==
  /\ \/ run[r].pc \in {"new", "read", "find", "commit"}
     \/ At(r, {"check", "write"}, Editing) \/ At(r, {"write"}, {"create", "project"})
     => Marks(r) = {}
  /\ At(r, {"check", "write", "audit"}, {"add"}) =>
       \A e \in Marks(r) :
         e[3] = run[r].row /\ (e[2] = "member" => e = <<r, "member", run[r].row, "project">>)
  /\ At(r, {"audit"}, {"create"}) =>
       Marks(r) \subseteq Mark(r, "company", run[r].company, {"name"})
  /\ At(r, {"audit"}, {"project"}) =>
       Marks(r) \subseteq Mark(r, "project", 1, {run[r].ask.field})

\* The company is there, or r overlaps with who merged it away.
Held(c, r) ==
  c # 0 => /\ c \in DOMAIN companies
           /\ companies[c].live \/ \E s \in Mergers(c) : Overlapped(r, s)

\* The same, or who put maintainer i on it does.
Excusable(c, i, r) ==
  c # 0 => /\ c \in DOMAIN companies
           /\ \/ companies[c].live
              \/ \E s \in Mergers(c), t \in Changers(i, "company") \cup {r} : Overlapped(s, t)

CompanyOK(r) ==
  /\ At(r, {"write"}, Writing) => Held(run[r].next.company, r)
  /\ At(r, {"commit"}, {"add"}) =>
       /\ Held(run[r].company, r)
       /\ run[r].company # 0 => run[r].ask.company # Blank
       /\ run[r].row # 0 => Excusable(run[r].next.company, run[r].row, r)
  /\ At(r, {"check"}, {"add"}) => Excusable(run[r].next.company, run[r].row, r)
  /\ At(r, {"commit"}, {"merge"}) =>
       /\ run[r].ask.from # run[r].ask.to
       /\ run[r].ask.from \in DOMAIN companies
       /\ run[r].ask.to \in DOMAIN companies /\ run[r].ask.to # 0
       /\ Held(run[r].ask.to, r)

StatusOK(r) ==
  At(r, {"check", "write"}, Keeping) \/ (At(r, {"commit"}, {"add"}) /\ run[r].row # 0) =>
    \/ run[r].next.status = rows[run[r].row].status
    \/ \E s \in Changers(run[r].row, "status") : Overlapped(r, s)

\* What OneRowPerHandle asks of two rows with one handle.
Excused(i, j) ==
  \/ \E r \in Changers(i, "github"), s \in Changers(j, "github") : Overlapped(r, s)
  \/ \E r \in Changers(i, "github") \cup Changers(j, "github") : Kind(r) = "edit"

\* If r gives handle h to its row, the other rows with it have an excuse.
Apart(r, h) ==
  \A j \in DOMAIN rows : j # run[r].row /\ rows[j].github = h /\ h # Missing =>
    \/ \E s \in Changers(j, "github") : Overlapped(r, s)
    \/ run[r].row # 0 /\ Excused(run[r].row, j)

\* The handle that an addition gives to its row.
Given(r) == IF run[r].row = 0 \/ run[r].next.github = Missing
            THEN run[r].ask.github ELSE run[r].next.github

HandleOK(r) ==
  /\ At(r, {"check", "write"}, Keeping) => Apart(r, run[r].next.github)
  /\ At(r, {"commit"}, {"add"}) => Apart(r, Given(r))

NameOK(r) ==
  At(r, {"write"}, {"create"}) =>
    \A c \in SameName(run[r].ask.name) : \E s \in Requests :
      <<s, "company", c, "name">> \in changed /\ Overlapped(r, s)

\* How an addition changes a row that it has found: gaps are filled.
Fills(r) ==
  LET before == run[r].before
      next == run[r].next
  IN /\ next.status = before.status
     /\ next.company # before.company => before.company = 0 /\ run[r].ask.company # Blank

\* The fields that the audit entry of a new maintainer mentions.
Asked(a) == {f \in {"github", "email"} : a[f] # Missing}
              \cup (IF a.company # Blank THEN {"company"} ELSE {})

RowMarks(r) == {e \in Marks(r) : e[2] # "member"}

\* A request that has overlapped with none: the tables are as it left them.
LoneOK(r) ==
  Lone(r) =>
    /\ At(r, {"check", "write"}, Editing) => run[r].before = rows[run[r].row]
    /\ At(r, {"audit"}, Editing) =>
         Marks(r) \subseteq Mark(r, "row", run[r].row, Differ(run[r].before, rows[run[r].row]))
    /\ At(r, {"find"}, {"add"}) =>
         run[r].before = IF Found(run[r].ask) = 0 THEN NoRow ELSE rows[Found(run[r].ask)]
    /\ At(r, {"commit"}, {"add"}) =>
         IF run[r].row = 0 THEN run[r].before = NoRow
         ELSE run[r].before = rows[run[r].row] /\ run[r].next = rows[run[r].row]
    /\ At(r, {"check", "write"}, {"add"}) =>
         IF run[r].before = NoRow
         THEN /\ run[r].next = rows[run[r].row]
              /\ CompanyExists(run[r].next.company)
              /\ RowMarks(r) \subseteq Mark(r, "row", run[r].row, Asked(run[r].ask))
         ELSE run[r].before = rows[run[r].row] /\ RowMarks(r) = {} /\ Fills(r)
    /\ At(r, {"audit"}, {"add"}) =>
         IF run[r].before = NoRow
         THEN RowMarks(r) \subseteq Mark(r, "row", run[r].row, Asked(run[r].ask))
         ELSE /\ run[r].next = rows[run[r].row] /\ Fills(r)
              /\ RowMarks(r) \subseteq
                   Mark(r, "row", run[r].row, Differ(run[r].before, rows[run[r].row]))

\* RefusedAfterCommit and LoneChangesAreAudited, of one request.
RefusedOK(r) ==
  run[r].pc = "done" /\ run[r].answer = "error" /\ r \notin hit =>
    \A e \in Marks(r) : e[2] = "member" =>
      \E c \in DOMAIN companies :
        \E s \in Mergers(c), t \in Changers(e[3], "company") \cup {r} : Overlapped(s, t)

AuditedOK(r) ==
  /\ run[r].pc = "done" /\ run[r].kind \notin {"bulk", "merge"}
  /\ Lone(r) /\ r \notin hit
  => RowMarks(r) = {} \/ Marks(r) \subseteq audit

RequestOK(r) ==
  /\ ShapeOK(r) /\ MarksOK(r) /\ CompanyOK(r) /\ StatusOK(r) /\ HandleOK(r)
  /\ NameOK(r) /\ LoneOK(r) /\ RefusedOK(r) /\ AuditedOK(r)

\* What the tables have to satisfy.
TablesOK == RefsKnown /\ CompanyRefsAreLive /\ StaffStatusStands /\ OneRowPerHandle /\ NoCaseTwins

\* The inductive invariant.
IndInv == TypeOK /\ Pairs /\ TablesOK /\ \A r \in Requests : RequestOK(r)

\* What a step of request s may do: it changes no other request, overlaps with
\* those in service, and leaves a mark on what it changes in the tables.
Advances(s) ==
  /\ run'[s].pc # "new" /\ \A r \in Requests : r # s => run'[r] = run[r]
  /\ run[s].pc # "new" => Kind(s)' = Kind(s)
  /\ together \subseteq together'
  /\ \A r \in Requests : r # s /\ InService(r) => {r, s} \in together'

Traced(s) ==
  /\ Advances(s)
  /\ changed \subseteq changed' /\ audit \subseteq audit' /\ hit \subseteq hit'
  /\ \A e \in changed' : e \in changed \/ e[1] = s
  /\ DOMAIN rows \subseteq DOMAIN rows'
  /\ \A i \in DOMAIN rows, f \in Fields :
       rows'[i][f] # rows[i][f] => <<s, "row", i, f>> \in changed'
  /\ \A i \in DOMAIN rows' \ DOMAIN rows : <<s, "row", i, "github">> \in changed'
  /\ DOMAIN companies \subseteq DOMAIN companies'
  /\ \A c \in DOMAIN companies :
       /\ companies'[c].name = companies[c].name
       /\ companies'[c].live => companies[c].live
       /\ companies[c].live => companies'[c].live \/ <<s, "company", c, "deleted">> \in changed'
  /\ \A c \in DOMAIN companies' \ DOMAIN companies :
       companies'[c].name # Blank => <<s, "company", c, "name">> \in changed'
-----------------------------------------------------------------------------
LEMMA LeastNatural ==
  ASSUME NEW T \in SUBSET Nat, T # {}
  PROVE  Min(T) \in T
<1>1. \E x \in T : \A y \in T : ~(<<y, x>> \in OpToRel(<, Nat))
  BY NatLessThanWellFounded, WFMin
<1>2. \A x, y \in Nat : x < y => <<x, y>> \in OpToRel(<, Nat)
  BY DEF OpToRel
<1>3. PICK x \in T : \A y \in T : ~(<<y, x>> \in OpToRel(<, Nat))
  BY <1>1
<1>4. \A y \in T : ~(y < x)
  BY <1>2, <1>3
<1>5. \A y \in T : x <= y
  BY <1>4
<1> QED BY <1>5 DEF Min

\* First, on ids of rows: none, or one of them.
LEMMA FirstOK ==
  ASSUME NEW T \in SUBSET (Nat \ {0})
  PROVE  /\ First(T) \in T \cup {0}
         /\ First(T) = 0 => T = {}
<1>1. CASE T = {}
  BY <1>1 DEF First
<1>2. CASE T # {}
  <2>1. Min(T) \in T
    BY <1>2, LeastNatural
  <2> QED BY <1>2, <2>1 DEF First
<1> QED BY <1>1, <1>2

LEMMA RowsTyped ==
  ASSUME TypeOK
  PROVE  /\ DOMAIN rows = 1..Len(rows) /\ Len(rows) \in Nat /\ \A i \in DOMAIN rows : rows[i] \in Row
         /\ DOMAIN companies = 1..Len(companies) /\ Len(companies) \in Nat
         /\ \A c \in DOMAIN companies : companies[c] \in Company
         /\ DOMAIN said = DOMAIN rows /\ \A i \in DOMAIN said : said[i] \in Statuses
<1>1. rows \in Seq(Row) /\ companies \in Seq(Company) /\ said \in Seq(Statuses) /\ Len(said) = Len(rows)
  BY DEF TypeOK
<1> QED BY <1>1

\* The maintainer that an addition is about.
LEMMA FoundOK ==
  ASSUME TypeOK, NEW a
  PROVE  /\ Found(a) # 0 => Found(a) \in DOMAIN rows
         /\ ByHandle(a.github) # 0 => rows[Found(a)].github = a.github
         /\ ByHandle(a.github) = 0 => \A i \in DOMAIN rows : rows[i].github # a.github
         /\ Found(a) = 0 => ByHandle(a.github) = 0
<1>1. DOMAIN rows \subseteq Nat \ {0}
  BY RowsTyped
<1> DEFINE S == {i \in DOMAIN rows : rows[i].github = a.github}
           T == {i \in DOMAIN rows : rows[i].email = a.email}
<1>2. S \subseteq Nat \ {0} /\ T \subseteq Nat \ {0}
  BY <1>1
<1>3. First(S) \in S \cup {0} /\ (First(S) = 0 => S = {}) /\ First(T) \in T \cup {0}
  BY <1>2, FirstOK
<1>4. ByHandle(a.github) = First(S) /\ ByEmail(a.email) = First(T)
  BY DEF ByHandle, ByEmail
<1>5. ByHandle(a.github) # 0 => Found(a) = ByHandle(a.github)
  BY DEF Found
<1>6. Found(a) \in {ByHandle(a.github), ByEmail(a.email)}
  BY DEF Found
<1> QED BY <1>3, <1>4, <1>5, <1>6

LEMMA Service ==
  ASSUME TypeOK, NEW r \in Requests
  PROVE  /\ InService(r) => run[r] \in Serving
         /\ run[r].pc = "done" => run[r] \in Ended
         /\ InService(r) => run[r].ask \in Asks
<1>1. run[r] \in Serving \cup Ended \cup {New}
  BY DEF TypeOK
<1>2. CASE run[r] \in Serving
  BY <1>2 DEF Serving, InService
<1>3. CASE run[r] \in Ended
  BY <1>3 DEF Ended, InService
<1>4. CASE run[r] = New
  BY <1>4 DEF New, InService
<1> QED BY <1>1, <1>2, <1>3, <1>4
-----------------------------------------------------------------------------
\* A request is given its next state, as it comes in or later.
Moves(s, st) ==
  \/ run[s].pc = "new" /\ Serve(s, st)
  \/ /\ InService(s) /\ Step(s, st)
     /\ (IF st.pc = "done" THEN st.kind ELSE st.ask.kind) = run[s].ask.kind

LEMMA MovesOK ==
  ASSUME TypeOK, Pairs, NEW s \in Requests, NEW st \in Serving \cup Ended, Moves(s, st)
  PROVE  /\ Advances(s) /\ run'[s] = st /\ run[s].pc # "done"
         /\ run' \in [Requests -> Serving \cup Ended \cup {New}]
         /\ together' \subseteq SUBSET Requests
<1>1. run' = [run EXCEPT ![s] = st]
  BY DEF Moves, Serve, Step
<1>2. run \in [Requests -> Serving \cup Ended \cup {New}] /\ together \subseteq SUBSET Requests
  BY DEF TypeOK
<1>3. run' \in [Requests -> Serving \cup Ended \cup {New}]
  BY <1>1, <1>2
<1>4. run'[s] = st /\ \A r \in Requests : r # s => run'[r] = run[r]
  BY <1>1, <1>2
<1>5. st.pc # "new"
  BY DEF Serving, Ended
<1>6. run[s].pc # "new" => InService(s) /\ Step(s, st)
        /\ (IF st.pc = "done" THEN st.kind ELSE st.ask.kind) = run[s].ask.kind
  BY DEF Moves
<1>7. run[s].pc # "new" => Kind(s)' = Kind(s)
  BY <1>4, <1>6 DEF Kind, InService
<1>8. CASE run[s].pc = "new" /\ Serve(s, st)
  <2>1. together' = together \cup {{s, r} : r \in {r \in Requests : InService(r)}}
    BY <1>8 DEF Serve
  <2>2. together \subseteq together' /\ together' \subseteq SUBSET Requests
    BY <1>2, <2>1
  <2>3. ASSUME NEW r \in Requests, InService(r) PROVE {r, s} \in together'
    <3>1. {s, r} \in together'
      BY <2>1, <2>3
    <3>2. {s, r} = {r, s}
      OBVIOUS
    <3> QED BY <3>1, <3>2
  <2> QED BY <1>3, <1>4, <1>5, <1>7, <1>8, <2>2, <2>3 DEF Advances
<1>9. CASE InService(s) /\ Step(s, st)
  <2>1. together' = together
    BY <1>9 DEF Step
  <2>2. run[s].pc # "done"
    BY <1>9 DEF InService
  <2>3. \A r \in Requests : r # s /\ InService(r) => {r, s} \in together'
    BY <1>9, <2>1 DEF Pairs
  <2> QED BY <1>2, <1>3, <1>4, <1>5, <1>7, <2>1, <2>2, <2>3 DEF Advances
<1> QED BY <1>8, <1>9 DEF Moves

\* History only grows.
LEMMA Grows ==
  ASSUME TypeOK, NEW s \in Requests, Traced(s), RequestOK(s)
  PROVE  /\ \A i, f : Changers(i, f) \subseteq Changers(i, f)'
         /\ \A c : Mergers(c) \subseteq Mergers(c)'
         /\ \A r, t : Overlapped(r, t) => Overlapped(r, t)'
         /\ \A r : Lone(r)' => Lone(r)
         /\ \A i, j : Excused(i, j) => Excused(i, j)'
<1>1. changed \subseteq changed' /\ together \subseteq together'
  BY DEF Traced, Advances
<1>2. \A i, f : Changers(i, f) \subseteq Changers(i, f)'
  BY <1>1 DEF Changers
<1>3. \A c : Mergers(c) \subseteq Mergers(c)'
  BY <1>1 DEF Mergers
<1>4. \A r, t : Overlapped(r, t) => Overlapped(r, t)'
  BY <1>1 DEF Overlapped
<1>5. \A r : Lone(r)' => Lone(r)
  BY <1>4 DEF Lone
<1>6. \A r \in Requests : r # s => Kind(r)' = Kind(r)
  BY DEF Traced, Advances, Kind
<1>7. ASSUME NEW i, NEW f, NEW r \in Changers(i, f) PROVE Kind(r)' = Kind(r)
  <2>1. CASE r = s
    <3>1. <<s, "row", i, f>> \in changed
      BY <1>7, <2>1 DEF Changers
    <3>2. <<s, "row", i, f>>[1] = s
      OBVIOUS
    <3>3. Marks(s) # {}
      BY <3>1, <3>2 DEF Marks
    <3>4. run[s].pc # "new"
      BY <3>3 DEF RequestOK, MarksOK
    <3> QED BY <2>1, <3>4 DEF Traced, Advances
  <2>2. CASE r # s
    BY <1>6, <2>2 DEF Changers
  <2> QED BY <2>1, <2>2
<1>8. ASSUME NEW i, NEW j, Excused(i, j) PROVE Excused(i, j)'
  <2>1. CASE \E r \in Changers(i, "github"), t \in Changers(j, "github") : Overlapped(r, t)
    <3>1. \E r \in Changers(i, "github")', t \in Changers(j, "github")' : Overlapped(r, t)'
      BY <1>2, <1>4, <2>1
    <3> QED BY <3>1 DEF Excused
  <2>2. CASE \E r \in Changers(i, "github") \cup Changers(j, "github") : Kind(r) = "edit"
    <3>1. \E r \in Changers(i, "github")' \cup Changers(j, "github")' : Kind(r)' = "edit"
      BY <1>2, <1>7, <2>2
    <3> QED BY <3>1 DEF Excused
  <2> QED BY <1>8, <2>1, <2>2 DEF Excused
<1> QED BY <1>2, <1>3, <1>4, <1>5, <1>8

\* What another request relies on stays as it is, or the two overlap.
LEMMA OthersOK ==
  ASSUME TypeOK, TypeOK', NEW s \in Requests, Traced(s), RequestOK(s),
         NEW r \in Requests, r # s, RequestOK(r)
  PROVE  RequestOK(r)'
<1>1. run'[r] = run[r] /\ (InService(r) => {r, s} \in together')
  BY DEF Traced, Advances
<1>2. \A pcs, kinds : At(r, pcs, kinds)' <=> At(r, pcs, kinds)
  BY <1>1 DEF At
<1>3. InService(r)' <=> InService(r)
  BY <1>1 DEF InService
<1>4. Marks(r)' = Marks(r)
  BY DEF Traced, Marks
<1>5. /\ \A i, f : Changers(i, f) \subseteq Changers(i, f)'
      /\ \A c : Mergers(c) \subseteq Mergers(c)'
      /\ \A x, t : Overlapped(x, t) => Overlapped(x, t)'
      /\ Lone(r)' => Lone(r)
      /\ \A i, j : Excused(i, j) => Excused(i, j)'
  BY Grows
<1>6. /\ DOMAIN rows \subseteq DOMAIN rows' /\ DOMAIN companies \subseteq DOMAIN companies'
      /\ 0 \notin DOMAIN rows
  BY RowsTyped DEF Traced
<1>7. RefusedOK(r)'
  <2> SUFFICES ASSUME run[r].pc = "done", run[r].answer = "error", r \notin hit,
                      NEW e \in Marks(r), e[2] = "member"
               PROVE  (\E c \in DOMAIN companies :
                        \E x \in Mergers(c), t \in Changers(e[3], "company") \cup {r} : Overlapped(x, t))'
    BY <1>1, <1>4 DEF RefusedOK, Traced
  <2>1. \E c \in DOMAIN companies :
           \E x \in Mergers(c), t \in Changers(e[3], "company") \cup {r} : Overlapped(x, t)
    BY DEF RequestOK, RefusedOK
  <2> QED BY <1>5, <1>6, <2>1
<1>8. AuditedOK(r)'
  <2>1. hit \subseteq hit' /\ audit \subseteq audit'
    BY DEF Traced
  <2>2. RowMarks(r)' = RowMarks(r)
    BY <1>4 DEF RowMarks
  <2> QED BY <1>1, <1>4, <1>5, <2>1, <2>2 DEF RequestOK, AuditedOK
<1>9. MarksOK(r)'
  BY <1>1, <1>2, <1>4 DEF RequestOK, MarksOK
<1>10. CASE ~InService(r)
  <2>1. run'[r].pc \in {"new", "done"}
    BY <1>1, <1>10 DEF InService
  <2>2. ShapeOK(r)' /\ CompanyOK(r)' /\ StatusOK(r)' /\ HandleOK(r)' /\ NameOK(r)' /\ LoneOK(r)'
    BY <1>3, <1>10, <2>1 DEF At, ShapeOK, CompanyOK, StatusOK, HandleOK, NameOK, LoneOK
  <2> QED BY <1>7, <1>8, <1>9, <2>2 DEF RequestOK
<1>11. CASE InService(r)
  <2>1. Overlapped(r, s)' /\ Overlapped(s, r)' /\ ~Lone(r)'
    <3>1. {r, s} \in together' /\ {r, s} = {s, r}
      BY <1>1, <1>11
    <3> QED BY <3>1 DEF Overlapped, Lone
  <2>2. ShapeOK(r)'
    BY <1>1, <1>2, <1>3, <1>6 DEF RequestOK, ShapeOK
  <2>3. \A c : Held(c, r) => Held(c, r)'
    <3> SUFFICES ASSUME NEW c, Held(c, r), c # 0 PROVE Held(c, r)'
      BY DEF Held
    <3>1. c \in DOMAIN companies /\ (companies[c].live \/ \E x \in Mergers(c) : Overlapped(r, x))
      BY DEF Held
    <3>2. CASE companies[c].live /\ ~companies'[c].live
      <4>1. s \in Mergers(c)'
        BY <3>1, <3>2 DEF Traced, Mergers
      <4> QED BY <1>6, <2>1, <3>1, <4>1 DEF Held
    <3>3. CASE \E x \in Mergers(c) : Overlapped(r, x)
      BY <1>5, <1>6, <3>1, <3>3 DEF Held
    <3> QED BY <1>6, <3>1, <3>2, <3>3 DEF Held
  <2>4. \A c, i : Excusable(c, i, r) => Excusable(c, i, r)'
    <3> SUFFICES ASSUME NEW c, NEW i, Excusable(c, i, r), c # 0 PROVE Excusable(c, i, r)'
      BY DEF Excusable
    <3>1. c \in DOMAIN companies
      BY DEF Excusable
    <3>2. CASE companies[c].live /\ ~companies'[c].live
      <4>1. s \in Mergers(c)'
        BY <3>1, <3>2 DEF Traced, Mergers
      <4> QED BY <1>6, <2>1, <3>1, <4>1 DEF Excusable
    <3>3. CASE \E x \in Mergers(c), t \in Changers(i, "company") \cup {r} : Overlapped(x, t)
      <4>1. \E x \in Mergers(c)', t \in Changers(i, "company")' \cup {r} : Overlapped(x, t)'
        BY <1>5, <3>3
      <4> QED BY <1>6, <3>1, <4>1 DEF Excusable
    <3> QED BY <1>6, <3>1, <3>2, <3>3 DEF Excusable
  <2>5. CompanyOK(r)'
    <3> USE <1>1, <1>2 DEF RequestOK, CompanyOK
    <3>1. At(r, {"write"}, Writing)' => Held(run[r].next.company, r)'
      BY <2>3
    <3>2. At(r, {"commit"}, {"add"})' =>
           /\ Held(run[r].company, r)'
           /\ run[r].company # 0 => run[r].ask.company # Blank
           /\ run[r].row # 0 => Excusable(run[r].next.company, run[r].row, r)'
      BY <2>3, <2>4
    <3>3. At(r, {"check"}, {"add"})' => Excusable(run[r].next.company, run[r].row, r)'
      BY <2>4
    <3>4. At(r, {"commit"}, {"merge"})' =>
           /\ run[r].ask.from # run[r].ask.to
           /\ run[r].ask.from \in DOMAIN companies'
           /\ run[r].ask.to \in DOMAIN companies' /\ run[r].ask.to # 0
           /\ Held(run[r].ask.to, r)'
      BY <1>6, <2>3
    <3> QED BY <3>1, <3>2, <3>3, <3>4
  <2>6. StatusOK(r)'
    <3> SUFFICES ASSUME At(r, {"check", "write"}, Keeping) \/ (At(r, {"commit"}, {"add"}) /\ run[r].row # 0)
                 PROVE  \/ run[r].next.status = rows'[run[r].row].status
                        \/ \E x \in Changers(run[r].row, "status")' : Overlapped(r, x)'
      BY <1>1, <1>2 DEF StatusOK
    <3>1. run[r].row \in DOMAIN rows
      BY DEF RequestOK, ShapeOK, At, Keeping, Writing
    <3>2. \/ run[r].next.status = rows[run[r].row].status
          \/ \E x \in Changers(run[r].row, "status") : Overlapped(r, x)
      BY DEF RequestOK, StatusOK
    <3>3. CASE rows'[run[r].row].status # rows[run[r].row].status
      <4>1. <<s, "row", run[r].row, "status">> \in changed'
        BY <3>1, <3>3 DEF Traced, Fields
      <4> QED BY <1>1, <2>1, <4>1 DEF Changers
    <3> QED BY <1>1, <1>5, <3>2, <3>3
  <2>7. \A h : Apart(r, h) => Apart(r, h)'
    <3> SUFFICES ASSUME NEW h, Apart(r, h), NEW j \in DOMAIN rows', j # run[r].row,
                        rows'[j].github = h, h # Missing
                 PROVE  \/ \E x \in Changers(j, "github")' : Overlapped(r, x)'
                        \/ run[r].row # 0 /\ Excused(run[r].row, j)'
      BY <1>1 DEF Apart
    <3>1. CASE j \in DOMAIN rows /\ rows[j].github = h
      BY <1>1, <1>5, <3>1 DEF Apart
    <3>2. CASE j \notin DOMAIN rows \/ rows[j].github # h
      <4>1. <<s, "row", j, "github">> \in changed'
        BY <3>2 DEF Traced, Fields
      <4> QED BY <2>1, <4>1 DEF Changers
    <3> QED BY <3>1, <3>2
  <2>8. HandleOK(r)'
    <3>1. At(r, {"check", "write"}, Keeping)' => Apart(r, run[r].next.github)'
      BY <1>1, <1>2, <2>7 DEF RequestOK, HandleOK
    <3>2. PICK h : h = Given(r)
      OBVIOUS
    <3>3. Given(r)' = h
      BY <1>1, <3>2 DEF Given
    <3>4. At(r, {"commit"}, {"add"})' => Apart(r, h)'
      BY <1>2, <2>7, <3>2 DEF RequestOK, HandleOK
    <3> QED BY <3>1, <3>3, <3>4 DEF HandleOK, Apart
  <2>9. NameOK(r)'
    <3> SUFFICES ASSUME At(r, {"write"}, {"create"}), NEW c \in SameName(run[r].ask.name)'
                 PROVE  \E x \in Requests : <<x, "company", c, "name">> \in changed' /\ Overlapped(r, x)'
      BY <1>1, <1>2 DEF NameOK
    <3>1. c \in DOMAIN companies' /\ companies'[c].name # Blank
      BY DEF SameName
    <3>2. CASE c \in DOMAIN companies
      <4>1. c \in SameName(run[r].ask.name)
        BY <1>1, <3>2 DEF SameName, Traced
      <4>2. PICK x \in Requests : <<x, "company", c, "name">> \in changed /\ Overlapped(r, x)
        BY <4>1 DEF RequestOK, NameOK
      <4> QED BY <1>5, <4>2 DEF Traced
    <3>3. CASE c \notin DOMAIN companies
      BY <2>1, <3>1, <3>3 DEF Traced
    <3> QED BY <3>2, <3>3
  <2>10. LoneOK(r)'
    BY <2>1 DEF LoneOK
  <2> QED BY <1>7, <1>8, <1>9, <2>2, <2>5, <2>6, <2>8, <2>9, <2>10 DEF RequestOK
<1> QED BY <1>10, <1>11

\* So a step preserves the invariant if it keeps the tables and its own request right.
LEMMA StepOK ==
  ASSUME IndInv, TypeOK', NEW s \in Requests, Traced(s), TablesOK', RequestOK(s)'
  PROVE  IndInv'
<1>1. \A r \in Requests : RequestOK(r)'
  BY OthersOK DEF IndInv
<1>2. Pairs'
  <2> SUFFICES ASSUME NEW r \in Requests, NEW t \in Requests, r # t, InService(r)', InService(t)'
               PROVE  {r, t} \in together'
    BY DEF Pairs
  <2>1. CASE r # s /\ t # s
    BY <2>1 DEF IndInv, Pairs, Traced, Advances, InService
  <2>2. CASE r = s
    <3>1. {t, s} \in together' /\ {t, s} = {r, t}
      BY <2>2 DEF Traced, Advances, InService
    <3> QED BY <3>1
  <2>3. CASE t = s
    BY <2>3 DEF Traced, Advances, InService
  <2> QED BY <2>1, <2>2, <2>3
<1> QED BY <1>1, <1>2 DEF IndInv

\* Each table property, for a step that leaves alone what it is about.
LEMMA CompaniesKept ==
  ASSUME IndInv, NEW s \in Requests, Traced(s), DOMAIN rows' = DOMAIN rows,
         \A i \in DOMAIN rows : rows'[i].company = rows[i].company,
         \A c \in DOMAIN companies : companies'[c].live = companies[c].live
  PROVE  RefsKnown' /\ CompanyRefsAreLive'
<1>0. TypeOK /\ TablesOK /\ RequestOK(s)
  BY DEF IndInv
<1>1. RefsKnown'
  BY <1>0 DEF TablesOK, RefsKnown, Traced
<1>2. CompanyRefsAreLive'
  <2> SUFFICES ASSUME NEW i \in DOMAIN rows, NEW c, c = rows[i].company, c # 0, ~Live(c)'
               PROVE  \E r \in Changers(i, "company")', t \in Mergers(c)' : Overlapped(r, t)'
    BY DEF CompanyRefsAreLive
  <2>1. ~Live(c)
    BY DEF Live, Traced
  <2> QED BY <1>0, <2>1, Grows DEF TablesOK, CompanyRefsAreLive
<1> QED BY <1>1, <1>2

LEMMA StatusesKept ==
  ASSUME IndInv, NEW s \in Requests, Traced(s), DOMAIN rows' = DOMAIN rows, UNCHANGED said,
         \A i \in DOMAIN rows : rows'[i].status = rows[i].status
  PROVE  StaffStatusStands'
BY Grows DEF IndInv, TablesOK, StaffStatusStands

LEMMA HandlesKept ==
  ASSUME IndInv, NEW s \in Requests, Traced(s), DOMAIN rows' = DOMAIN rows,
         \A i \in DOMAIN rows : rows'[i].github = rows[i].github
  PROVE  OneRowPerHandle'
<1> SUFFICES ASSUME NEW i \in DOMAIN rows, NEW j \in DOMAIN rows, i < j,
                    rows[i].github = rows[j].github, rows[i].github # Missing
             PROVE  Excused(i, j)'
  BY DEF OneRowPerHandle, Excused
<1>1. Excused(i, j)
  BY DEF IndInv, TablesOK, OneRowPerHandle, Excused
<1> QED BY <1>1, Grows DEF IndInv

LEMMA NamesKept ==
  ASSUME IndInv, NEW s \in Requests, Traced(s),
         \A c \in DOMAIN companies' \ DOMAIN companies : companies'[c].name = Blank
  PROVE  NoCaseTwins'
<1> SUFFICES ASSUME NEW c \in DOMAIN companies', NEW d \in DOMAIN companies', c < d,
                    companies'[c].live, companies'[c].name # Blank,
                    companies'[d].live, companies'[d].name # Blank,
                    Lower[companies'[c].name] = Lower[companies'[d].name]
             PROVE  \E r, t \in Requests : /\ <<r, "company", c, "name">> \in changed'
                                           /\ <<t, "company", d, "name">> \in changed'
                                           /\ Overlapped(r, t)'
  BY DEF NoCaseTwins
<1>1. c \in DOMAIN companies /\ d \in DOMAIN companies
  OBVIOUS
<1>2. PICK r \in Requests, t \in Requests : /\ <<r, "company", c, "name">> \in changed
                                            /\ <<t, "company", d, "name">> \in changed
                                            /\ Overlapped(r, t)
  BY <1>1 DEF IndInv, TablesOK, NoCaseTwins, Traced
<1> QED BY <1>2, Grows DEF IndInv, Traced

LEMMA QuietTables ==
  ASSUME IndInv, NEW s \in Requests, Traced(s), UNCHANGED <<rows, companies, said>>
  PROVE  TablesOK'
BY CompaniesKept, StatusesKept, HandlesKept, NamesKept DEF TablesOK

\* A step that changes neither the maintainers nor the companies.
LEMMA QuietOK ==
  ASSUME IndInv, NEW s \in Requests, NEW st \in Serving \cup Ended, Moves(s, st),
         UNCHANGED <<rows, companies, said, members>>,
         project' = project \/ \A f \in {"maintainerRef", "maturity"} : f \in DOMAIN project',
         changed \subseteq changed', audit \subseteq audit', hit \subseteq hit',
         \A e \in changed' \ changed : e[1] = s /\ e[2] = "project",
         \A e \in audit' \ audit : e[1] = s /\ e[2] \in {"row", "member", "company", "project"},
         hit' \subseteq hit \cup {s}, faults' \in 0..MaxFaults,
         run'[s] = st => RequestOK(s)'
  PROVE  IndInv'
<1>0. TypeOK /\ Pairs
  BY DEF IndInv
<1>1. /\ Advances(s) /\ run'[s] = st
      /\ run' \in [Requests -> Serving \cup Ended \cup {New}]
      /\ together' \subseteq SUBSET Requests
  BY <1>0, MovesOK
<1>2. TypeOK'
  <2>1. \A f \in {"maintainerRef", "maturity"} : f \in DOMAIN project'
    BY <1>0 DEF TypeOK
  <2>2. \A e \in audit' \cup changed' :
          e[1] \in Requests /\ e[2] \in {"row", "member", "company", "project"}
    <3> SUFFICES ASSUME NEW e \in audit' \cup changed'
                 PROVE  e[1] \in Requests /\ e[2] \in {"row", "member", "company", "project"}
      OBVIOUS
    <3>1. CASE e \in audit \cup changed
      BY <1>0, <3>1 DEF TypeOK
    <3>2. CASE e \notin audit \cup changed
      BY <3>2
    <3> QED BY <3>1, <3>2
  <2>3. hit' \subseteq Requests
    BY <1>0 DEF TypeOK
  <2> QED BY <1>0, <1>1, <2>1, <2>2, <2>3 DEF TypeOK
<1>3. Traced(s)
  BY <1>1 DEF Traced
<1>4. TablesOK'
  BY <1>3, QuietTables
<1> QED BY <1>1, <1>2, <1>3, <1>4, StepOK

\* A request that is answered.
LEMMA DoneOK ==
  ASSUME NEW s \in Requests, run'[s].pc = "done", RefusedOK(s)', AuditedOK(s)'
  PROVE  RequestOK(s)'
<1>1. ~InService(s)'
  BY DEF InService
<1> QED BY <1>1 DEF RequestOK, At, ShapeOK, MarksOK, CompanyOK, StatusOK, HandleOK, NameOK, LoneOK
-----------------------------------------------------------------------------
\* The first statements of requests.

\* One that only reads and has nothing to rely on yet, or is refused.
LEMMA ArrivesOK ==
  ASSUME IndInv, NEW s \in Requests, run[s].pc = "new", NEW st \in Serving \cup Ended, Serve(s, st),
         UNCHANGED <<tables, audit, faults, changed, hit, said>>,
         run'[s] = st => ShapeOK(s)' /\ CompanyOK(s)' /\ StatusOK(s)' /\ HandleOK(s)'
                           /\ NameOK(s)' /\ LoneOK(s)',
         st \in Serving => \/ st.pc \in {"read", "find", "commit"}
                           \/ st.pc = "write" /\ st.ask.kind \in {"create", "project"}
  PROVE  IndInv'
<1>1. TypeOK /\ RequestOK(s)
  BY DEF IndInv
<1>2. Marks(s) = {}
  BY <1>1 DEF RequestOK, MarksOK
<1>3. Marks(s)' = {} /\ RowMarks(s)' = {}
  BY <1>2 DEF Marks, RowMarks
<1>4. ASSUME run'[s] = st PROVE RequestOK(s)'
  <2>1. RefusedOK(s)' /\ AuditedOK(s)'
    BY <1>3 DEF RefusedOK, AuditedOK
  <2>2. MarksOK(s)'
    <3>1. CASE st \in Serving
      BY <1>3, <1>4, <3>1 DEF MarksOK, At
    <3>2. CASE st \in Ended
      BY <1>4, <3>2 DEF MarksOK, At, Ended
    <3> QED BY <3>1, <3>2
  <2> QED BY <1>4, <2>1, <2>2 DEF RequestOK
<1>5. Moves(s, st) /\ faults' \in 0..MaxFaults
  BY <1>1 DEF Moves, TypeOK
<1> QED BY <1>4, <1>5, QuietOK DEF tables

\* A request that has just begun is well-formed.
LEMMA BeginTyped ==
  ASSUME NEW a \in Asks, NEW pc \in {"read", "find", "commit", "write"}
  PROVE  Begin(a, pc) \in Serving
BY DEF Begin, Serving

LEMMA TurnedAway ==
  ASSUME IndInv, NEW s \in Requests, NEW a \in Asks, run[s].pc = "new", NEW st,
         st = Done(a, "error"), Serve(s, st), UNCHANGED <<tables, audit, faults, changed, hit, said>>
  PROVE  IndInv'
<1>1. st \in Ended /\ st.pc = "done" /\ st \notin Serving
  BY DEF Done, Ended, Serving
<1>2. ASSUME run'[s] = st
      PROVE  ShapeOK(s)' /\ CompanyOK(s)' /\ StatusOK(s)' /\ HandleOK(s)' /\ NameOK(s)' /\ LoneOK(s)'
  BY <1>1, <1>2 DEF ShapeOK, CompanyOK, StatusOK, HandleOK, NameOK, LoneOK, At, InService
<1> QED BY <1>1, <1>2, ArrivesOK

LEMMA EditAuthorizeOK ==
  ASSUME IndInv, NEW s \in Requests, NEW a \in Asks, run[s].pc = "new", EditAuthorize(s, a)
  PROVE  IndInv'
<1>1. PICK st : st = (IF a.kind = "edit" \/ ByHandle(a.login) = a.row
                      THEN [Begin(a, "read") EXCEPT !.row = a.row] ELSE Done(a, "error"))
  OBVIOUS
<1>2. Serve(s, st) /\ UNCHANGED <<tables, audit, faults, changed, hit, said>> /\ a.kind \in Editing
  BY <1>1 DEF EditAuthorize, Editing
<1>3. CASE st = [Begin(a, "read") EXCEPT !.row = a.row]
  <2>1. a.row \in Nat
    BY <1>2, AsksAssumption DEF Editing
  <2>2. st \in Serving /\ st.pc = "read" /\ st.row = a.row /\ st.ask = a
    BY <1>3, <2>1 DEF Begin, Serving
  <2>3. ASSUME run'[s] = st
        PROVE  ShapeOK(s)' /\ CompanyOK(s)' /\ StatusOK(s)' /\ HandleOK(s)' /\ NameOK(s)' /\ LoneOK(s)'
    BY <1>2, <2>2, <2>3 DEF ShapeOK, CompanyOK, StatusOK, HandleOK, NameOK, LoneOK, At, InService, Editing
  <2> QED BY <1>2, <2>2, <2>3, ArrivesOK
<1>4. CASE st = Done(a, "error")
  BY <1>2, <1>4, TurnedAway
<1> QED BY <1>1, <1>3, <1>4

LEMMA AddLookOK ==
  ASSUME IndInv, NEW s \in Requests, NEW a \in Asks, run[s].pc = "new", AddLook(s, a)
  PROVE  IndInv'
<1>0. TypeOK
  BY DEF IndInv
<1>1. PICK b : b = (IF Found(a) = 0 THEN NoRow ELSE rows[Found(a)])
  OBVIOUS
<1>2. PICK st : st = [Begin(a, "find") EXCEPT !.before = b]
  OBVIOUS
<1>3. Serve(s, st) /\ UNCHANGED <<tables, audit, faults, changed, hit, said>> /\ a.kind = "add"
  BY <1>1, <1>2 DEF AddLook
<1>4. b \in Row \cup {NoRow}
  BY <1>0, <1>1, FoundOK, RowsTyped
<1>5. st \in Serving /\ st.pc = "find" /\ st.before = b /\ st.ask = a
  BY <1>2, <1>4 DEF Begin, Serving
<1>6. Found(a)' = Found(a)
  BY <1>3 DEF Found, ByHandle, ByEmail, tables
<1>7. ASSUME run'[s] = st
      PROVE  ShapeOK(s)' /\ CompanyOK(s)' /\ StatusOK(s)' /\ HandleOK(s)' /\ NameOK(s)' /\ LoneOK(s)'
  <2>1. ShapeOK(s)' /\ CompanyOK(s)' /\ StatusOK(s)' /\ HandleOK(s)' /\ NameOK(s)'
    BY <1>3, <1>5, <1>7 DEF ShapeOK, CompanyOK, StatusOK, HandleOK, NameOK, At, InService
  <2>2. run'[s].before = IF Found(a)' = 0 THEN NoRow ELSE rows'[Found(a)']
    BY <1>1, <1>3, <1>5, <1>6, <1>7 DEF tables
  <2>3. LoneOK(s)'
    <3>1. Found(run[s].ask)' = Found(a)'
      BY <1>5, <1>7 DEF Found, ByHandle, ByEmail
    <3> QED BY <1>5, <1>7, <2>2, <3>1 DEF LoneOK, At
  <2> QED BY <2>1, <2>3
<1> QED BY <1>3, <1>5, <1>7, ArrivesOK

LEMMA CreateLookOK ==
  ASSUME IndInv, NEW s \in Requests, NEW a \in Asks, run[s].pc = "new", CreateLook(s, a)
  PROVE  IndInv'
<1>1. PICK st : st = (IF SameName(a.name) # {} THEN Done(a, "error") ELSE Begin(a, "write"))
  OBVIOUS
<1>2. Serve(s, st) /\ UNCHANGED <<tables, audit, faults, changed, hit, said>> /\ a.kind = "create"
  BY <1>1 DEF CreateLook
<1>3. CASE SameName(a.name) = {}
  <2>1. st \in Serving /\ st.pc = "write" /\ st.ask = a
    BY <1>1, <1>3, BeginTyped DEF Begin
  <2>2. ASSUME run'[s] = st
        PROVE  ShapeOK(s)' /\ CompanyOK(s)' /\ StatusOK(s)' /\ HandleOK(s)' /\ NameOK(s)' /\ LoneOK(s)'
    <3>1. SameName(run[s].ask.name)' = {}
      BY <1>2, <1>3, <2>1, <2>2 DEF SameName, tables
    <3>2. ShapeOK(s)' /\ CompanyOK(s)' /\ StatusOK(s)' /\ HandleOK(s)' /\ LoneOK(s)'
      BY <1>2, <2>1, <2>2
      DEF ShapeOK, CompanyOK, StatusOK, HandleOK, LoneOK, At, InService, Editing, Writing, Keeping
    <3> QED BY <3>1, <3>2 DEF NameOK
  <2> QED BY <1>2, <2>1, <2>2, ArrivesOK
<1>4. CASE SameName(a.name) # {}
  BY <1>1, <1>2, <1>4, TurnedAway
<1> QED BY <1>3, <1>4

LEMMA MergeCheckOK ==
  ASSUME IndInv, NEW s \in Requests, NEW a \in Asks, run[s].pc = "new", MergeCheck(s, a)
  PROVE  IndInv'
<1>1. PICK st : st = (IF a.from # a.to /\ Live(a.to) /\ Live(a.from)
                      THEN Begin(a, "commit") ELSE Done(a, "error"))
  OBVIOUS
<1>2. Serve(s, st) /\ UNCHANGED <<tables, audit, faults, changed, hit, said>> /\ a.kind = "merge"
  BY <1>1 DEF MergeCheck
<1>3. CASE a.from # a.to /\ Live(a.to) /\ Live(a.from)
  <2>1. st \in Serving /\ st.pc = "commit" /\ st.ask = a
    BY <1>1, <1>3, BeginTyped DEF Begin
  <2>2. a.to # 0
    BY <1>3, RowsTyped DEF IndInv, Live
  <2>3. ASSUME run'[s] = st
        PROVE  ShapeOK(s)' /\ CompanyOK(s)' /\ StatusOK(s)' /\ HandleOK(s)' /\ NameOK(s)' /\ LoneOK(s)'
    <3>1. CompanyOK(s)'
      BY <1>2, <1>3, <2>1, <2>2, <2>3 DEF CompanyOK, At, Held, Live, tables
    <3>2. ShapeOK(s)' /\ StatusOK(s)' /\ HandleOK(s)' /\ NameOK(s)' /\ LoneOK(s)'
      BY <1>2, <2>1, <2>3 DEF ShapeOK, StatusOK, HandleOK, NameOK, LoneOK, At, InService
    <3> QED BY <3>1, <3>2
  <2> QED BY <1>2, <2>1, <2>3, ArrivesOK
<1>4. CASE ~(a.from # a.to /\ Live(a.to) /\ Live(a.from))
  BY <1>1, <1>2, <1>4, TurnedAway
<1> QED BY <1>3, <1>4

LEMMA ProjectReadOK ==
  ASSUME IndInv, NEW s \in Requests, NEW a \in Asks, run[s].pc = "new", ProjectRead(s, a)
  PROVE  IndInv'
<1>1. PICK st : st = Begin(a, "write")
  OBVIOUS
<1>2. Serve(s, st) /\ UNCHANGED <<tables, audit, faults, changed, hit, said>> /\ a.kind = "project"
  BY <1>1 DEF ProjectRead
<1>3. st \in Serving /\ st.pc = "write" /\ st.ask = a
  BY <1>1, BeginTyped DEF Begin
<1>4. ASSUME run'[s] = st
      PROVE  ShapeOK(s)' /\ CompanyOK(s)' /\ StatusOK(s)' /\ HandleOK(s)' /\ NameOK(s)' /\ LoneOK(s)'
  BY <1>2, <1>3, <1>4
  DEF ShapeOK, CompanyOK, StatusOK, HandleOK, NameOK, LoneOK, At, InService, Editing, Writing, Keeping
<1> QED BY <1>2, <1>3, <1>4, ArrivesOK
-----------------------------------------------------------------------------
\* Statements that read.
LEMMA ReadsOK ==
  ASSUME IndInv, NEW s \in Requests, NEW st \in Serving \cup Ended, Moves(s, st),
         UNCHANGED <<tables, audit, faults, changed, hit, said>>
  PROVE  /\ run'[s] = st
         /\ \A i, j : Excused(i, j) => Excused(i, j)'
         /\ \A r, t : Overlapped(r, t)' => (Overlapped(r, t) \/ run[s].pc = "new")
         /\ Marks(s)' = Marks(s) /\ RowMarks(s)' = RowMarks(s)
         /\ RequestOK(s)' => IndInv'
<1>0. TypeOK /\ Pairs /\ RequestOK(s) /\ faults' \in 0..MaxFaults
  BY DEF IndInv, TypeOK
<1>1. Advances(s) /\ run'[s] = st
  BY <1>0, MovesOK
<1>2. Traced(s)
  BY <1>1 DEF Traced, tables
<1>3. \A i, j : Excused(i, j) => Excused(i, j)'
  BY <1>0, <1>2, Grows
<1>4. \A r, t : Overlapped(r, t)' => (Overlapped(r, t) \/ run[s].pc = "new")
  BY DEF Moves, Step, Overlapped
<1>5. Marks(s)' = Marks(s) /\ RowMarks(s)' = RowMarks(s)
  BY DEF Marks, RowMarks
<1>6. RequestOK(s)' => IndInv'
  BY <1>0, QuietOK DEF tables
<1> QED BY <1>1, <1>3, <1>4, <1>5, <1>6

LEMMA TwinsExcused ==
  ASSUME IndInv, NEW i \in DOMAIN rows, NEW j \in DOMAIN rows, i # j,
         rows[i].github = rows[j].github, rows[i].github # Missing
  PROVE  Excused(i, j)
<1>1. \A x, y : Overlapped(x, y) => Overlapped(y, x)
  <2>1. \A x, y : {x, y} = {y, x}
    OBVIOUS
  <2> QED BY <2>1 DEF Overlapped
<1>2. Excused(i, j) \/ Excused(j, i)
  <2>1. i \in Nat /\ j \in Nat
    BY RowsTyped DEF IndInv
  <2>2. i < j \/ j < i
    BY <2>1
  <2> QED BY <2>2 DEF IndInv, TablesOK, OneRowPerHandle, Excused
<1> QED BY <1>1, <1>2 DEF Excused

LEMMA RefusalOK ==
  ASSUME IndInv, NEW s \in Requests, InService(s), NEW st, st = Done(run[s].ask, "error"), Step(s, st),
         UNCHANGED <<tables, audit, faults, changed, hit, said>>,
         Marks(s) = {}
  PROVE  IndInv'
<1>1. run[s].ask \in Asks
  BY Service DEF IndInv
<1>2. st \in Ended /\ st.pc = "done" /\ st.kind = run[s].ask.kind
  BY <1>1 DEF Done, Ended
<1>3. Moves(s, st)
  BY <1>2 DEF Moves
<1>4. run'[s] = st /\ Marks(s)' = {} /\ (RequestOK(s)' => IndInv')
  BY <1>2, <1>3, ReadsOK
<1>5. RefusedOK(s)' /\ AuditedOK(s)'
  BY <1>4 DEF RefusedOK, AuditedOK, RowMarks
<1> QED BY <1>2, <1>4, <1>5, DoneOK

LEMMA EditReadOK ==
  ASSUME IndInv, NEW s \in Requests, EditRead(s)
  PROVE  IndInv'
<1>0. TypeOK /\ RequestOK(s)
  BY DEF IndInv
<1>1. At(s, {"read"}, Editing) /\ InService(s)
  BY DEF EditRead, At, InService, Editing
<1>2. PICK a \in Asks : a = run[s].ask
  BY <1>0, <1>1, Service
<1>3. run[s] \in Serving /\ run[s].row = a.row /\ Marks(s) = {} /\ a.kind \in Editing
  BY <1>0, <1>1, <1>2, Service DEF RequestOK, ShapeOK, MarksOK, At
<1>4. UNCHANGED <<tables, audit, faults, changed, hit, said>>
  BY DEF EditRead
<1>5. PICK x : x = Requested(a, rows[a.row])
  OBVIOUS
<1>6. PICK st : st = (IF a.row \in DOMAIN rows /\ IsValid(x.status)
                      THEN [run[s] EXCEPT !.pc = "check", !.before = rows[a.row], !.next = x]
                      ELSE Done(a, "error"))
  OBVIOUS
<1>7. Step(s, st)
  BY <1>2, <1>5, <1>6 DEF EditRead
<1>8. CASE a.row \in DOMAIN rows /\ IsValid(x.status)
  <2>1. PICK b \in Row : b = rows[a.row]
    BY <1>0, <1>8, RowsTyped
  <2>2. x \in Row
    <3>1. b.github \in Handles \cup {Missing} /\ b.status \in Statuses
      BY DEF Row
    <3>2. a.email \in Emails \cup {Missing} /\ a.company \in Nat
            /\ (a.kind # "self" => a.github \in Handles \cup {Missing})
      BY <1>3, AsksAssumption DEF Editing
    <3>3. x = [github |-> IF a.kind = "self" THEN b.github ELSE a.github, email |-> a.email,
               status |-> IF a.kind = "self" THEN b.status ELSE a.status, company |-> a.company]
      BY <1>5, <2>1 DEF Requested
    <3>4. x.status \in Statuses
      BY <1>8 DEF IsValid
    <3> QED BY <3>1, <3>2, <3>3, <3>4 DEF Row
  <2>3. a.kind = "self" => x.github = b.github /\ x.status = b.status
    BY <1>5, <2>1 DEF Requested
  <2>4. st = [pc |-> "check", ask |-> a, row |-> a.row, before |-> b, next |-> x,
              company |-> run[s].company]
    BY <1>2, <1>3, <1>6, <1>8, <2>1 DEF Serving
  <2>5. st \in Serving
    BY <1>3, <2>2, <2>4 DEF Serving
  <2>6. Moves(s, st)
    BY <1>1, <1>2, <1>7, <2>4 DEF Moves
  <2>7. /\ run'[s] = st /\ (\A i, j : Excused(i, j) => Excused(i, j)')
        /\ Marks(s)' = {} /\ (RequestOK(s)' => IndInv')
    BY <1>3, <1>4, <2>5, <2>6, ReadsOK
  <2>8. rows' = rows
    BY <1>4 DEF tables
  <2>9. ShapeOK(s)'
    BY <1>3, <1>8, <2>2, <2>4, <2>7, <2>8 DEF ShapeOK, At, Writing, Editing, InService
  <2>10. MarksOK(s)' /\ CompanyOK(s)' /\ NameOK(s)' /\ RefusedOK(s)' /\ AuditedOK(s)'
    BY <1>3, <2>4, <2>7 DEF MarksOK, CompanyOK, NameOK, RefusedOK, AuditedOK, At, Editing
  <2>11. StatusOK(s)'
    BY <1>3, <2>1, <2>3, <2>4, <2>7, <2>8 DEF StatusOK, At, Keeping, Editing
  <2>12. HandleOK(s)'
    <3> SUFFICES ASSUME a.kind = "self", NEW j \in DOMAIN rows, j # a.row,
                        rows[j].github = x.github, x.github # Missing
                 PROVE  a.row # 0 /\ Excused(a.row, j)'
      BY <1>3, <2>4, <2>7, <2>8 DEF HandleOK, Apart, At, Keeping, Editing
    <3>1. Excused(a.row, j)
      BY <1>8, <2>1, <2>3, TwinsExcused
    <3>2. a.row # 0
      BY <1>0, <1>8, RowsTyped
    <3> QED BY <2>7, <3>1, <3>2
  <2>13. LoneOK(s)'
    BY <1>3, <2>1, <2>4, <2>7, <2>8 DEF LoneOK, At, Editing
  <2> QED BY <2>7, <2>9, <2>10, <2>11, <2>12, <2>13 DEF RequestOK
<1>9. CASE ~(a.row \in DOMAIN rows /\ IsValid(x.status))
  BY <1>1, <1>2, <1>3, <1>4, <1>6, <1>7, <1>9, RefusalOK
<1> QED BY <1>8, <1>9

LEMMA DetailsCheckOK ==
  ASSUME IndInv, NEW s \in Requests, DetailsCheck(s)
  PROVE  IndInv'
<1>0. TypeOK /\ RequestOK(s)
  BY DEF IndInv
<1>1. InService(s) /\ run[s].pc = "check"
  BY DEF DetailsCheck, InService
<1>2. PICK a \in Asks : a = run[s].ask
  BY <1>0, <1>1, Service
<1>3. run[s] \in Serving /\ a.kind \in Writing /\ run[s].row \in DOMAIN rows /\ run[s].next \in Row
  BY <1>0, <1>1, <1>2, Service DEF RequestOK, ShapeOK, At
<1>4. UNCHANGED <<tables, audit, faults, changed, hit, said>>
  BY DEF DetailsCheck
<1>5. PICK q \in Serving : q = run[s]
  BY <1>3
<1>6. UNCHANGED <<rows, companies>>
  BY <1>4 DEF tables
<1>7. /\ \A i, f : Changers(i, f)' = Changers(i, f)
      /\ \A c : Mergers(c)' = Mergers(c)
  BY <1>4 DEF Changers, Mergers
<1>8. (\A x, y : Overlapped(x, y)' <=> Overlapped(x, y)) /\ (Lone(s)' <=> Lone(s))
  <2>1. together' = together
    BY DEF DetailsCheck, Step
  <2> QED BY <2>1 DEF Overlapped, Lone
<1>9. CASE CompanyExists(q.next.company)
  <2>1. PICK st : st = [q EXCEPT !.pc = "write"]
    OBVIOUS
  <2>2. st = [pc |-> "write", ask |-> a, row |-> q.row, before |-> q.before, next |-> q.next,
              company |-> q.company]
    BY <1>2, <1>5, <2>1 DEF Serving
  <2>3. st \in Serving
    BY <2>2 DEF Serving
  <2>4. Step(s, st) /\ Moves(s, st)
    BY <1>1, <1>2, <1>5, <1>9, <2>1, <2>2 DEF DetailsCheck, Moves
  <2>5. /\ run'[s] = st /\ (\A i, j : Excused(i, j) => Excused(i, j)')
        /\ Marks(s)' = Marks(s) /\ RowMarks(s)' = RowMarks(s) /\ (RequestOK(s)' => IndInv')
    BY <1>4, <2>3, <2>4, ReadsOK
  <2>6. ShapeOK(s)'
    BY <1>3, <1>5, <1>6, <2>2, <2>5 DEF ShapeOK, At, Writing, Editing, InService
  <2>7. MarksOK(s)'
    BY <1>0, <1>1, <1>2, <1>3, <1>5, <2>2, <2>5 DEF RequestOK, MarksOK, At, Writing, Editing
  <2>8. CompanyOK(s)'
    BY <1>3, <1>6, <1>9, <2>2, <2>5 DEF CompanyOK, CompanyExists, Live, Held, At, Writing
  <2>9. NameOK(s)' /\ RefusedOK(s)' /\ AuditedOK(s)'
    BY <1>3, <2>2, <2>5 DEF NameOK, RefusedOK, AuditedOK, At, Writing
  <2>10. StatusOK(s)'
    BY <1>0, <1>1, <1>2, <1>3, <1>5, <1>6, <1>7, <1>8, <2>2, <2>5 DEF RequestOK, StatusOK, At, Keeping
  <2>11. HandleOK(s)'
    <3> SUFFICES ASSUME a.kind \in Keeping, NEW j \in DOMAIN rows, j # q.row,
                        rows[j].github = q.next.github, q.next.github # Missing
                 PROVE  \/ \E x \in Changers(j, "github")' : Overlapped(s, x)'
                        \/ q.row # 0 /\ Excused(q.row, j)'
      BY <1>3, <1>6, <2>2, <2>5 DEF HandleOK, Apart, At
    <3>1. Apart(s, q.next.github)
      BY <1>0, <1>1, <1>2, <1>5 DEF RequestOK, HandleOK, At
    <3> QED BY <1>5, <1>7, <1>8, <2>5, <3>1 DEF Apart
  <2>12. LoneOK(s)'
    <3> SUFFICES ASSUME Lone(s) PROVE LoneOK(s)'
      BY <1>8 DEF LoneOK
    <3>1. CASE a.kind \in Editing
      <4>1. q.before = rows[q.row]
        BY <1>0, <1>1, <1>2, <1>5, <3>1 DEF RequestOK, LoneOK, At
      <4> QED BY <1>6, <2>2, <2>5, <3>1, <4>1 DEF LoneOK, At, Editing
    <3>2. CASE a.kind = "add"
      <4>1. IF q.before = NoRow
            THEN /\ q.next = rows[q.row] /\ CompanyExists(q.next.company)
                 /\ RowMarks(s) \subseteq Mark(s, "row", q.row, Asked(a))
            ELSE q.before = rows[q.row] /\ RowMarks(s) = {} /\ Fills(s)
        BY <1>0, <1>1, <1>2, <1>5, <3>2 DEF RequestOK, LoneOK, At
      <4>2. Fills(s) => Fills(s)'
        BY <1>2, <1>5, <2>2, <2>5 DEF Fills
      <4>3. CompanyExists(run[s].next.company)'
        BY <1>6, <1>9, <2>2, <2>5 DEF CompanyExists, Live
      <4> QED BY <1>6, <2>2, <2>5, <3>2, <4>1, <4>2, <4>3 DEF LoneOK, At, Editing, Mark
    <3> QED BY <1>3, <3>1, <3>2 DEF Writing, Editing
  <2> QED BY <2>5, <2>6, <2>7, <2>8, <2>9, <2>10, <2>11, <2>12 DEF RequestOK
<1>10. CASE ~CompanyExists(q.next.company) /\ a.kind \in Editing
  <2>1. Marks(s) = {}
    BY <1>0, <1>1, <1>2, <1>10 DEF RequestOK, MarksOK, At
  <2> QED BY <1>1, <1>4, <1>5, <1>10, <2>1, RefusalOK DEF DetailsCheck
<1>11. CASE ~CompanyExists(q.next.company) /\ a.kind = "add"
  <2>1. PICK st : st = Done(a, "error")
    OBVIOUS
  <2>2. st \in Ended /\ st.pc = "done" /\ st.kind = a.kind
    BY <2>1 DEF Done, Ended
  <2>3. Moves(s, st)
    BY <1>1, <1>2, <1>5, <1>11, <2>1, <2>2 DEF DetailsCheck, Moves
  <2>4. /\ run'[s] = st /\ Marks(s)' = Marks(s) /\ RowMarks(s)' = RowMarks(s)
        /\ (RequestOK(s)' => IndInv')
    BY <1>4, <2>2, <2>3, ReadsOK
  <2>5. RefusedOK(s)'
    <3> SUFFICES ASSUME NEW e \in Marks(s), e[2] = "member"
                 PROVE  \E c \in DOMAIN companies : \E x \in Mergers(c)',
                          t \in Changers(e[3], "company")' \cup {s} : Overlapped(x, t)'
      BY <1>6, <2>4 DEF RefusedOK
    <3>1. e[3] = q.row
      BY <1>0, <1>1, <1>2, <1>5, <1>11 DEF RequestOK, MarksOK, At
    <3>2. Excusable(q.next.company, q.row, s)
      BY <1>0, <1>1, <1>2, <1>5, <1>11 DEF RequestOK, CompanyOK, At
    <3> QED BY <1>7, <1>8, <1>11, <3>1, <3>2 DEF Excusable, CompanyExists, Live
  <2>6. AuditedOK(s)'
    <3>1. Lone(s) => RowMarks(s) = {}
      BY <1>0, <1>1, <1>2, <1>5, <1>11 DEF RequestOK, LoneOK, At
    <3> QED BY <1>8, <2>4, <3>1 DEF AuditedOK
  <2> QED BY <2>2, <2>4, <2>5, <2>6, DoneOK
<1> QED BY <1>3, <1>9, <1>10, <1>11 DEF Writing, Editing

LEMMA AddFindOK ==
  ASSUME IndInv, NEW s \in Requests, AddFind(s)
  PROVE  IndInv'
<1>0. TypeOK /\ TablesOK /\ RequestOK(s)
  BY DEF IndInv
<1>1. InService(s) /\ run[s].pc = "find"
  BY DEF AddFind, InService
<1>2. PICK a \in Asks : a = run[s].ask
  BY <1>0, <1>1, Service
<1>3. PICK q \in Serving : q = run[s]
  BY <1>0, <1>1, Service
<1>4. a.kind = "add" /\ Marks(s) = {}
  BY <1>0, <1>1, <1>2 DEF RequestOK, ShapeOK, MarksOK, At
<1>5. a.github \in Handles /\ a.github # Missing
  BY <1>4, AsksAssumption, ConstantsAssumption
<1>6. UNCHANGED <<tables, audit, faults, changed, hit, said>> /\ UNCHANGED <<rows, companies>>
  BY DEF AddFind, tables
<1> DEFINE ids == {k \in DOMAIN companies : /\ a.company # Blank /\ companies[k].live
                                            /\ companies[k].name = a.company}
<1>7. PICK c : c = First(ids)
  OBVIOUS
<1>8. PICK i : i = Found(a)
  OBVIOUS
<1>9. PICK x : x = IF i = 0 THEN NoRow ELSE rows[i]
  OBVIOUS
<1>10. Step(s, [q EXCEPT !.pc = "commit", !.row = i, !.next = x, !.company = c])
  BY <1>2, <1>3, <1>7, <1>8, <1>9 DEF AddFind
<1>11. c \in ids \cup {0}
  <2>1. ids \subseteq Nat \ {0}
    BY <1>0, RowsTyped
  <2> QED BY <1>7, <2>1, FirstOK
<1>12. c \in Nat /\ (c # 0 => a.company # Blank /\ c \in DOMAIN companies /\ companies[c].live)
  BY <1>0, <1>11, RowsTyped
<1>13. /\ i # 0 => i \in DOMAIN rows /\ x = rows[i] /\ x \in Row
       /\ i \in Nat /\ x \in Row \cup {NoRow}
  BY <1>0, <1>8, <1>9, FoundOK, RowsTyped
<1>14. PICK st : st = [pc |-> "commit", ask |-> a, row |-> i, before |-> q.before, next |-> x,
                       company |-> c]
  OBVIOUS
<1>15. st \in Serving
  BY <1>12, <1>13, <1>14 DEF Serving
<1>16. Step(s, st)
  <2>1. PICK y : y = [q EXCEPT !.pc = "commit", !.row = i]
    OBVIOUS
  <2>2. y = [pc |-> "commit", ask |-> a, row |-> i, before |-> q.before, next |-> q.next,
             company |-> q.company]
    BY <1>2, <1>3, <2>1 DEF Serving
  <2>3. PICK z : z = [y EXCEPT !.next = x, !.company = c]
    OBVIOUS
  <2>4. z = st
    <3>1. y \in Serving
      BY <1>13, <2>2 DEF Serving
    <3>2. z = [pc |-> y.pc, ask |-> y.ask, row |-> y.row, before |-> y.before, next |-> x,
               company |-> c]
      BY <2>3, <3>1 DEF Serving
    <3> QED BY <1>14, <2>2, <3>2
  <2>5. Step(s, z)
    BY <1>10, <2>1, <2>3
  <2> QED BY <2>4, <2>5
<1>17. Moves(s, st)
  BY <1>1, <1>2, <1>14, <1>16 DEF Moves
<1>18. /\ run'[s] = st /\ (\A k, j : Excused(k, j) => Excused(k, j)')
       /\ Marks(s)' = {} /\ (RequestOK(s)' => IndInv')
  BY <1>4, <1>6, <1>15, <1>17, ReadsOK
<1>19. /\ \A k, f : Changers(k, f)' = Changers(k, f)
       /\ \A k : Mergers(k)' = Mergers(k)
  BY <1>6 DEF Changers, Mergers
<1>20. (\A z, y : Overlapped(z, y)' <=> Overlapped(z, y)) /\ (Lone(s)' <=> Lone(s))
  <2>1. together' = together
    BY <1>10 DEF Step
  <2> QED BY <2>1 DEF Overlapped, Lone
<1>21. ShapeOK(s)'
  BY <1>4, <1>6, <1>13, <1>14, <1>18 DEF ShapeOK, At, InService
<1>22. MarksOK(s)' /\ NameOK(s)' /\ RefusedOK(s)' /\ AuditedOK(s)'
  BY <1>14, <1>18 DEF MarksOK, NameOK, RefusedOK, AuditedOK, At
<1>23. CompanyOK(s)'
  <2>1. Held(c, s)'
    BY <1>6, <1>12 DEF Held
  <2>2. i # 0 => Excusable(x.company, i, s)'
    <3> SUFFICES ASSUME i # 0, x.company # 0 PROVE Excusable(x.company, i, s)'
      BY DEF Excusable
    <3>1. x.company \in DOMAIN companies
      BY <1>0, <1>13 DEF TablesOK, RefsKnown
    <3>2. CASE ~companies[x.company].live
      <4>1. PICK r \in Changers(i, "company"), t \in Mergers(x.company) : Overlapped(r, t)
        BY <1>0, <1>13, <3>2 DEF TablesOK, CompanyRefsAreLive, Live
      <4>2. Overlapped(t, r)'
        <5>1. {r, t} = {t, r}
          OBVIOUS
        <5>2. Overlapped(t, r)
          BY <4>1, <5>1 DEF Overlapped
        <5> QED BY <1>20, <5>2
      <4> QED BY <1>6, <1>19, <3>1, <4>1, <4>2 DEF Excusable
    <3> QED BY <1>6, <3>1, <3>2 DEF Excusable
  <2>3. Held(run[s].company, s)' /\ (i # 0 => Excusable(run[s].next.company, run[s].row, s)')
    BY <1>14, <1>18, <2>1, <2>2 DEF Held, Excusable
  <2> QED BY <1>4, <1>12, <1>14, <1>18, <2>3 DEF CompanyOK, At
<1>24. StatusOK(s)'
  BY <1>6, <1>13, <1>14, <1>18 DEF StatusOK, At
<1>25. HandleOK(s)'
  <2>1. PICK h : h = IF i = 0 \/ x.github = Missing THEN a.github ELSE x.github
    OBVIOUS
  <2>2. Given(s)' = h
    BY <1>14, <1>18, <2>1 DEF Given
  <2>3. ASSUME NEW j \in DOMAIN rows, j # i, rows[j].github = h
        PROVE  i # 0 /\ Excused(i, j)
    <3>1. CASE i = 0
      BY <1>0, <1>8, <2>1, <2>3, <3>1, FoundOK
    <3>2. CASE i # 0 /\ ByHandle(a.github) # 0
      <4>1. rows[i].github = a.github
        BY <1>0, <1>8, <3>2, FoundOK
      <4> QED BY <1>5, <1>13, <2>1, <2>3, <3>2, <4>1, TwinsExcused
    <3>3. CASE i # 0 /\ ByHandle(a.github) = 0
      <4>1. h # a.github
        BY <1>0, <2>3, <3>3, FoundOK
      <4>2. h = x.github /\ x.github # Missing
        BY <2>1, <3>3, <4>1
      <4> QED BY <1>13, <2>3, <3>3, <4>2, TwinsExcused
    <3> QED BY <3>1, <3>2, <3>3
  <2>4. Apart(s, h)'
    BY <1>6, <1>14, <1>18, <2>3 DEF Apart
  <2> QED BY <1>14, <1>18, <2>2, <2>4 DEF HandleOK, At, Apart
<1>26. LoneOK(s)'
  <2> SUFFICES ASSUME Lone(s)
               PROVE  IF i = 0 THEN q.before = NoRow ELSE q.before = rows[i] /\ x = rows[i]
    BY <1>6, <1>14, <1>18, <1>20 DEF LoneOK, At
  <2>1. q.before = IF Found(a) = 0 THEN NoRow ELSE rows[Found(a)]
    BY <1>0, <1>1, <1>2, <1>3, <1>4 DEF RequestOK, LoneOK, At
  <2> QED BY <1>8, <1>13, <2>1
<1> QED BY <1>18, <1>21, <1>22, <1>23, <1>24, <1>25, <1>26 DEF RequestOK
-----------------------------------------------------------------------------
\* The audit entries: written, or lost to a fault.
LEMMA AuditOK ==
  ASSUME IndInv, NEW s \in Requests, InService(s), NEW mentions, Audit(s, mentions),
         \A e \in mentions : e[1] = s /\ e[2] \in {"row", "member", "company", "project"},
         UNCHANGED <<tables, changed, said>>,
         Lone(s) => RowMarks(s) = {} \/ Marks(s) \subseteq mentions
  PROVE  IndInv'
<1>0. TypeOK
  BY DEF IndInv
<1>1. PICK a \in Asks : a = run[s].ask
  BY <1>0, Service
<1>2. PICK st : st = Done(a, "ok")
  OBVIOUS
<1>3. st \in Ended /\ st.pc = "done" /\ st.answer = "ok" /\ st.kind = a.kind
  BY <1>2 DEF Done, Ended
<1>4. Step(s, st)
  BY <1>1, <1>2 DEF Audit
<1>5. Moves(s, st)
  BY <1>1, <1>3, <1>4 DEF Moves
<1>6. /\ audit \subseteq audit' /\ hit \subseteq hit' /\ hit' \subseteq hit \cup {s}
      /\ \A e \in audit' \ audit : e \in mentions
      /\ faults' \in 0..MaxFaults
      /\ mentions \subseteq audit' \/ s \in hit'
  <2>1. faults \in 0..MaxFaults /\ MaxFaults \in Nat
    BY <1>0, ConstantsAssumption DEF TypeOK
  <2>2. CASE audit' = audit \cup mentions /\ UNCHANGED <<faults, hit>>
    BY <2>1, <2>2
  <2>3. CASE /\ faults > 0 /\ faults' = faults - 1
             /\ hit' = hit \cup {s} /\ UNCHANGED audit
    <3>1. faults' \in 0..MaxFaults
      BY <2>1, <2>3
    <3> QED BY <2>3, <3>1
  <2> QED BY <2>2, <2>3 DEF Audit
<1>7. ASSUME run'[s] = st PROVE RequestOK(s)'
  <2>1. RowMarks(s)' = RowMarks(s) /\ Marks(s)' = Marks(s)
    BY DEF RowMarks, Marks
  <2>2. Lone(s)' => Lone(s)
    BY <1>4 DEF Step, Lone, Overlapped
  <2>3. RefusedOK(s)' /\ AuditedOK(s)'
    BY <1>3, <1>6, <1>7, <2>1, <2>2 DEF RefusedOK, AuditedOK
  <2> QED BY <1>3, <1>7, <2>3, DoneOK
<1> QED BY <1>3, <1>5, <1>6, <1>7, QuietOK DEF tables

LEMMA MarkFields ==
  ASSUME NEW r, NEW table, NEW i, NEW fields, NEW e \in Mark(r, table, i, fields)
  PROVE  e[1] = r /\ e[2] = table /\ e[3] = i
BY DEF Mark

LEMMA EditAuditOK ==
  ASSUME IndInv, NEW s \in Requests, EditAudit(s)
  PROVE  IndInv'
<1>0. RequestOK(s)
  BY DEF IndInv
<1>1. At(s, {"audit"}, Editing) /\ InService(s) /\ UNCHANGED <<tables, changed, said>>
  BY DEF EditAudit, At, Editing, InService
<1>2. PICK m : m = Mark(s, "row", run[s].row, Differ(run[s].before, rows[run[s].row]))
  OBVIOUS
<1>3. Audit(s, m)
  BY <1>2 DEF EditAudit
<1>4. Lone(s) => Marks(s) \subseteq m
  BY <1>0, <1>1, <1>2 DEF RequestOK, LoneOK
<1>5. \A e \in m : e[1] = s /\ e[2] = "row"
  BY <1>2, MarkFields
<1> QED BY <1>1, <1>3, <1>4, <1>5, AuditOK

LEMMA CreateAuditOK ==
  ASSUME IndInv, NEW s \in Requests, CreateAudit(s)
  PROVE  IndInv'
<1>0. RequestOK(s)
  BY DEF IndInv
<1>1. At(s, {"audit"}, {"create"}) /\ InService(s) /\ UNCHANGED <<tables, changed, said>>
  BY DEF CreateAudit, At, InService
<1>2. PICK m : m = Mark(s, "company", run[s].company, {"name"})
  OBVIOUS
<1>3. Audit(s, m)
  BY <1>2 DEF CreateAudit
<1>4. Marks(s) \subseteq m
  BY <1>0, <1>1, <1>2 DEF RequestOK, MarksOK
<1>5. \A e \in m : e[1] = s /\ e[2] = "company"
  BY <1>2, MarkFields
<1> QED BY <1>1, <1>3, <1>4, <1>5, AuditOK

LEMMA ProjectAuditOK ==
  ASSUME IndInv, NEW s \in Requests, ProjectAudit(s)
  PROVE  IndInv'
<1>0. RequestOK(s)
  BY DEF IndInv
<1>1. At(s, {"audit"}, {"project"}) /\ InService(s) /\ UNCHANGED <<tables, changed, said>>
  BY DEF ProjectAudit, At, InService
<1>2. PICK m : m = Mark(s, "project", 1, {run[s].ask.field})
  OBVIOUS
<1>3. Audit(s, m)
  BY <1>2 DEF ProjectAudit
<1>4. Marks(s) \subseteq m
  BY <1>0, <1>1, <1>2 DEF RequestOK, MarksOK
<1>5. \A e \in m : e[1] = s /\ e[2] = "project"
  BY <1>2, MarkFields
<1> QED BY <1>1, <1>3, <1>4, <1>5, AuditOK

\* An addition's entry compares companies by name, and still names a changed one.
LEMMA AddAuditOK ==
  ASSUME IndInv, NEW s \in Requests, AddAudit(s)
  PROVE  IndInv'
<1>0. TypeOK /\ RequestOK(s)
  BY DEF IndInv
<1>1. At(s, {"audit"}, {"add"}) /\ InService(s) /\ UNCHANGED <<tables, changed, said>>
  BY DEF AddAudit, At, InService
<1>2. PICK a \in Asks : a = run[s].ask
  BY <1>0, <1>1, Service
<1>3. PICK i, b, x : i = run[s].row /\ b = run[s].before /\ x = rows[i]
  OBVIOUS
<1>4. PICK diff : diff = (Differ(b, x) \cap {"github", "email"})
                           \cup (IF CompanyDiffers(a, b, x) THEN {"company"} ELSE {})
  OBVIOUS
<1>5. PICK F, m : F = (IF b = NoRow THEN Asked(a) ELSE diff) /\ m = Entry(s, i, F)
  OBVIOUS
<1>6. Audit(s, m)
  BY <1>2, <1>3, <1>4, <1>5 DEF AddAudit, Asked
<1>7. \A e \in m : e[1] = s /\ e[2] \in {"row", "member"}
  BY <1>5, MarkFields DEF Entry
<1>8. ASSUME Lone(s) PROVE RowMarks(s) \subseteq Mark(s, "row", i, F)
  <2>1. IF b = NoRow THEN RowMarks(s) \subseteq Mark(s, "row", i, Asked(a))
        ELSE /\ run[s].next = x /\ Fills(s)
             /\ RowMarks(s) \subseteq Mark(s, "row", i, Differ(b, x))
    BY <1>0, <1>1, <1>2, <1>3, <1>8 DEF RequestOK, LoneOK
  <2>2. CASE b = NoRow
    BY <1>5, <2>1, <2>2
  <2>3. CASE b # NoRow
    <3>1. x.status = b.status /\ (x.company # b.company => b.company = 0 /\ a.company # Blank)
      BY <1>2, <1>3, <2>1, <2>3 DEF Fills
    <3>2. x.company # b.company => CompanyDiffers(a, b, x)
      <4> SUFFICES ASSUME b.company = 0, a.company # Blank PROVE CompanyDiffers(a, b, x)
        BY <3>1
      <4>1. ~Live(b.company)
        BY <1>0, RowsTyped DEF Live
      <4>2. NameOf(b.company) = Blank
        BY <4>1 DEF NameOf
      <4> QED BY <4>2 DEF CompanyDiffers
    <3>3. Differ(b, x) \subseteq diff
      BY <1>4, <3>1, <3>2 DEF Differ, Fields
    <3>4. Mark(s, "row", i, Differ(b, x)) \subseteq Mark(s, "row", i, diff)
      BY <3>3 DEF Mark
    <3> QED BY <1>5, <2>1, <2>3, <3>4
  <2> QED BY <2>2, <2>3
<1>9. ASSUME Lone(s), RowMarks(s) # {} PROVE Marks(s) \subseteq m
  <2>1. F # {}
    BY <1>8, <1>9 DEF Mark
  <2>2. \A e \in Marks(s) : e[2] = "member" => e = <<s, "member", i, "project">>
    BY <1>0, <1>1, <1>3 DEF RequestOK, MarksOK, At
  <2>3. <<s, "member", i, "project">> \in Mark(s, "member", i, {"project"})
    BY DEF Mark
  <2> QED BY <1>5, <1>8, <1>9, <2>1, <2>2, <2>3 DEF Entry, RowMarks
<1> QED BY <1>1, <1>6, <1>7, <1>9, AuditOK
-----------------------------------------------------------------------------
\* Statements that write.
LEMMA ProjectWriteOK ==
  ASSUME IndInv, NEW s \in Requests, ProjectWrite(s)
  PROVE  IndInv'
<1>0. TypeOK /\ RequestOK(s)
  BY DEF IndInv
<1>1. At(s, {"write"}, {"project"}) /\ InService(s)
  BY DEF ProjectWrite, At, InService
<1>2. PICK a \in Asks : a = run[s].ask
  BY <1>0, <1>1, Service
<1>3. PICK q \in Serving : q = run[s]
  BY <1>0, <1>1, Service
<1>4. a.kind = "project" /\ Marks(s) = {}
  BY <1>0, <1>1, <1>2 DEF RequestOK, MarksOK, At
<1>5. PICK st : st = [q EXCEPT !.pc = "audit"]
  OBVIOUS
<1>6. st = [pc |-> "audit", ask |-> a, row |-> q.row, before |-> q.before, next |-> q.next,
            company |-> q.company]
  BY <1>2, <1>3, <1>5 DEF Serving
<1>7. st \in Serving
  BY <1>6 DEF Serving
<1>8. Moves(s, st) /\ UNCHANGED <<rows, companies, members, audit, faults, hit, said>>
  BY <1>1, <1>2, <1>3, <1>5, <1>6 DEF ProjectWrite, Moves
<1>9. changed \subseteq changed' /\ changed' \subseteq changed \cup Mark(s, "project", 1, {a.field})
  BY <1>2 DEF ProjectWrite
<1>10. \A e \in changed' \ changed : e[1] = s /\ e[2] = "project"
  BY <1>9, MarkFields
<1>11. \A f \in {"maintainerRef", "maturity"} : f \in DOMAIN project'
  <2>1. project' = [project EXCEPT ![a.field] = a.value]
    BY <1>2 DEF ProjectWrite
  <2> QED BY <1>0, <2>1 DEF TypeOK
<1>12. ASSUME run'[s] = st PROVE RequestOK(s)'
  <2>1. Marks(s)' \subseteq Mark(s, "project", 1, {a.field})
    BY <1>4, <1>9 DEF Marks
  <2>2. MarksOK(s)'
    <3>1. Mark(s, "project", 1, {run[s].ask.field})' = Mark(s, "project", 1, {a.field})
      BY <1>6, <1>12 DEF Mark
    <3> QED BY <1>4, <1>6, <1>12, <2>1, <3>1 DEF MarksOK, At
  <2>3. ShapeOK(s)' /\ CompanyOK(s)' /\ StatusOK(s)' /\ HandleOK(s)' /\ NameOK(s)' /\ LoneOK(s)'
    BY <1>4, <1>6, <1>12
    DEF ShapeOK, CompanyOK, StatusOK, HandleOK, NameOK, LoneOK, At, InService, Writing, Editing
  <2>4. RefusedOK(s)' /\ AuditedOK(s)'
    BY <1>6, <1>12 DEF RefusedOK, AuditedOK
  <2> QED BY <2>2, <2>3, <2>4 DEF RequestOK
<1>13. faults' \in 0..MaxFaults
  BY <1>0, <1>8 DEF TypeOK
<1> QED BY <1>7, <1>8, <1>9, <1>10, <1>11, <1>12, <1>13, QuietOK

\* What a writing step leaves to be shown, once its marks are known.
LEMMA WritesOK ==
  ASSUME IndInv, NEW s \in Requests, NEW st \in Serving \cup Ended, Moves(s, st), NEW new,
         rows' \in Seq(Row), companies' \in Seq(Company), members' \subseteq DOMAIN rows',
         said' \in Seq(Statuses), Len(said') = Len(rows'),
         changed' = changed \cup new, UNCHANGED <<project, audit, faults, hit>>,
         \A e \in new : e[1] = s /\ e[2] \in {"row", "member", "company"}
  PROVE  /\ TypeOK' /\ Advances(s) /\ run'[s] = st
         /\ Traced(s) /\ TablesOK' /\ RequestOK(s)' => IndInv'
<1>0. TypeOK /\ Pairs
  BY DEF IndInv
<1>1. /\ Advances(s) /\ run'[s] = st
      /\ run' \in [Requests -> Serving \cup Ended \cup {New}]
      /\ together' \subseteq SUBSET Requests
  BY <1>0, MovesOK
<1>2. \A e \in audit' \cup changed' :
        e[1] \in Requests /\ e[2] \in {"row", "member", "company", "project"}
  <2> SUFFICES ASSUME NEW e \in audit' \cup changed'
               PROVE  e[1] \in Requests /\ e[2] \in {"row", "member", "company", "project"}
    OBVIOUS
  <2>1. CASE e \in audit \cup changed
    BY <1>0, <2>1 DEF TypeOK
  <2>2. CASE e \in new
    BY <2>2
  <2> QED BY <2>1, <2>2
<1>3. TypeOK'
  BY <1>0, <1>1, <1>2 DEF TypeOK
<1> QED BY <1>1, <1>3, StepOK

LEMMA AppendFacts ==
  ASSUME NEW T, NEW q \in Seq(T), NEW x \in T, NEW q1, q1 = Append(q, x)
  PROVE  /\ q1 \in Seq(T) /\ Len(q1) = Len(q) + 1 /\ Len(q) \in Nat
         /\ DOMAIN q = 1..Len(q)
         /\ DOMAIN q1 = DOMAIN q \cup {Len(q) + 1} /\ Len(q) + 1 \notin DOMAIN q
         /\ (\A i \in DOMAIN q : q1[i] = q[i]) /\ q1[Len(q) + 1] = x
<1>1. /\ q1 \in Seq(T) /\ Len(q1) = Len(q) + 1 /\ Len(q) \in Nat
      /\ DOMAIN q = 1..Len(q) /\ DOMAIN q1 = 1..(Len(q) + 1)
      /\ (\A i \in DOMAIN q : q1[i] = q[i]) /\ q1[Len(q) + 1] = x
  OBVIOUS
<1>2. DOMAIN q1 = DOMAIN q \cup {Len(q) + 1} /\ Len(q) + 1 \notin DOMAIN q
  BY <1>1
<1> QED BY <1>1, <1>2

LEMMA CreateInsertOK ==
  ASSUME IndInv, NEW s \in Requests, CreateInsert(s)
  PROVE  IndInv'
<1>0. TypeOK /\ TablesOK /\ RequestOK(s)
  BY DEF IndInv
<1>1. At(s, {"write"}, {"create"}) /\ InService(s)
  BY DEF CreateInsert, At, InService
<1>2. PICK a \in Asks : a = run[s].ask
  BY <1>0, <1>1, Service
<1>3. PICK q \in Serving : q = run[s]
  BY <1>0, <1>1, Service
<1>4. a.kind = "create" /\ a.name \in Names /\ Marks(s) = {}
  BY <1>0, <1>1, <1>2, AsksAssumption DEF RequestOK, MarksOK, At
<1>5. UNCHANGED <<rows, members, project, audit, faults, hit, said>>
  BY DEF CreateInsert
<1>6. CASE \E k \in DOMAIN companies : companies[k].name = a.name
  <2>1. Step(s, Done(a, "error")) /\ UNCHANGED <<companies, changed>>
    BY <1>2, <1>6 DEF CreateInsert
  <2> QED BY <1>1, <1>2, <1>4, <1>5, <2>1, RefusalOK DEF tables
<1>7. CASE ~\E k \in DOMAIN companies : companies[k].name = a.name
  <2>1. PICK c \in Nat : c = Len(companies) + 1
    BY <1>0, RowsTyped
  <2>2. PICK new : new = Mark(s, "company", c, {"name"})
    OBVIOUS
  <2>3. /\ companies' = Append(companies, [name |-> a.name, live |-> TRUE])
        /\ changed' = changed \cup new
        /\ Step(s, [q EXCEPT !.pc = "audit", !.company = c])
    BY <1>2, <1>3, <1>7, <2>1, <2>2 DEF CreateInsert
  <2>4. PICK st : st = [q EXCEPT !.pc = "audit", !.company = c]
    OBVIOUS
  <2>5. st = [pc |-> "audit", ask |-> a, row |-> q.row, before |-> q.before, next |-> q.next,
              company |-> c]
    BY <1>2, <1>3, <2>4 DEF Serving
  <2>6. st \in Serving
    BY <2>5 DEF Serving
  <2>7. Moves(s, st)
    <3>1. Step(s, st)
      BY <2>3, <2>4
    <3> QED BY <1>1, <1>2, <2>5, <3>1 DEF Moves
  <2>8. new = {<<s, "company", c, "name">>}
    BY <2>2 DEF Mark
  <2>9. PICK x \in Company : x = [name |-> a.name, live |-> TRUE]
    BY <1>4 DEF Company
  <2>10. /\ companies' \in Seq(Company) /\ DOMAIN companies' = DOMAIN companies \cup {c}
         /\ c \notin DOMAIN companies /\ companies'[c] = x
         /\ \A k \in DOMAIN companies : companies'[k] = companies[k]
    <3>1. companies \in Seq(Company)
      BY <1>0 DEF TypeOK
    <3> QED BY <2>1, <2>3, <2>9, <3>1, AppendFacts
  <2>11. /\ Advances(s) /\ run'[s] = st
         /\ Traced(s) /\ TablesOK' /\ RequestOK(s)' => IndInv'
    <3>1. /\ rows' \in Seq(Row) /\ members' \subseteq DOMAIN rows'
          /\ said' \in Seq(Statuses) /\ Len(said') = Len(rows')
      BY <1>0, <1>5 DEF TypeOK
    <3>2. \A e \in new : e[1] = s /\ e[2] \in {"row", "member", "company"}
      BY <2>2, MarkFields
    <3>3. st \in Serving \cup Ended /\ changed' = changed \cup new
            /\ companies' \in Seq(Company) /\ UNCHANGED <<project, audit, faults, hit>>
      BY <1>5, <2>3, <2>6, <2>10
    <3> QED BY <2>7, <3>1, <3>2, <3>3, WritesOK
  <2>12. Traced(s)
    BY <1>5, <2>3, <2>8, <2>10, <2>11 DEF Traced
  <2>13. TablesOK'
    <3>1. RefsKnown' /\ CompanyRefsAreLive' /\ StaffStatusStands' /\ OneRowPerHandle'
      BY <1>5, <2>10, <2>12, CompaniesKept, StatusesKept, HandlesKept
    <3>2. NoCaseTwins'
      <4> SUFFICES ASSUME NEW k \in DOMAIN companies', NEW d \in DOMAIN companies', k < d,
                          companies'[k].live, companies'[k].name # Blank,
                          companies'[d].live, companies'[d].name # Blank,
                          Lower[companies'[k].name] = Lower[companies'[d].name]
                   PROVE  \E r, t \in Requests : /\ <<r, "company", k, "name">> \in changed'
                                                 /\ <<t, "company", d, "name">> \in changed'
                                                 /\ Overlapped(r, t)'
        BY DEF NoCaseTwins
      <4>1. \A y, z : Overlapped(y, z) => Overlapped(y, z)'
        BY <1>0, <2>12, Grows
      <4>2. k \in DOMAIN companies
        BY <1>0, <2>1, <2>10, RowsTyped
      <4>3. CASE d \in DOMAIN companies
        <5>1. PICK r \in Requests, t \in Requests : /\ <<r, "company", k, "name">> \in changed
                                                    /\ <<t, "company", d, "name">> \in changed
                                                    /\ Overlapped(r, t)
          BY <1>0, <2>10, <4>2, <4>3 DEF TablesOK, NoCaseTwins
        <5> QED BY <2>3, <4>1, <5>1
      <4>4. CASE d = c
        <5>1. k \in SameName(a.name)
          BY <2>9, <2>10, <4>2, <4>4 DEF SameName
        <5>2. PICK r \in Requests : <<r, "company", k, "name">> \in changed /\ Overlapped(s, r)
          BY <1>0, <1>1, <1>2, <5>1 DEF RequestOK, NameOK
        <5>3. Overlapped(r, s)
          <6>1. {r, s} = {s, r}
            OBVIOUS
          <6> QED BY <5>2, <6>1 DEF Overlapped
        <5> QED BY <2>3, <2>8, <4>1, <4>4, <5>2, <5>3
      <4> QED BY <2>10, <4>3, <4>4
    <3> QED BY <3>1, <3>2 DEF TablesOK
  <2>14. RequestOK(s)'
    <3>1. Marks(s)' \subseteq Mark(s, "company", c, {"name"})
      BY <1>4, <2>2, <2>3 DEF Marks
    <3>2. MarksOK(s)'
      <4>1. Mark(s, "company", run[s].company, {"name"})' = Mark(s, "company", c, {"name"})
        BY <2>5, <2>11 DEF Mark
      <4> QED BY <1>4, <2>5, <2>11, <3>1, <4>1 DEF MarksOK, At
    <3>3. ShapeOK(s)' /\ CompanyOK(s)' /\ StatusOK(s)' /\ HandleOK(s)' /\ NameOK(s)' /\ LoneOK(s)'
      BY <1>4, <2>5, <2>11
      DEF ShapeOK, CompanyOK, StatusOK, HandleOK, NameOK, LoneOK, At, InService, Writing, Editing
    <3>4. RefusedOK(s)' /\ AuditedOK(s)'
      BY <2>5, <2>11 DEF RefusedOK, AuditedOK
    <3> QED BY <3>2, <3>3, <3>4 DEF RequestOK
  <2> QED BY <2>11, <2>12, <2>13, <2>14
<1> QED BY <1>6, <1>7

LEMMA MapFacts ==
  ASSUME NEW T, NEW q \in Seq(T), NEW q1 \in [DOMAIN q -> T]
  PROVE  q1 \in Seq(T) /\ Len(q1) = Len(q) /\ DOMAIN q1 = DOMAIN q
<1>1. Len(q) \in Nat /\ DOMAIN q = 1..Len(q)
  OBVIOUS
<1>2. q1 \in [1..Len(q) -> T]
  BY <1>1
<1>3. q1 \in Seq(T)
  BY <1>1, <1>2, SeqDef
<1>4. DOMAIN q1 = 1..Len(q1) /\ Len(q1) \in Nat /\ DOMAIN q1 = 1..Len(q)
  BY <1>2, <1>3
<1>5. Len(q1) = Len(q)
  BY <1>1, <1>4
<1> QED BY <1>1, <1>3, <1>4, <1>5

LEMMA BulkStatusOK ==
  ASSUME IndInv, NEW s \in Requests, NEW a \in Asks, run[s].pc = "new", BulkStatus(s, a)
  PROVE  IndInv'
<1>0. TypeOK /\ TablesOK /\ RequestOK(s)
  BY DEF IndInv
<1> DEFINE ids == a.rows \cap DOMAIN rows
<1>1. /\ a.kind = "bulk" /\ a.status \in Statuses
      /\ UNCHANGED <<companies, members, project, audit, faults, hit>>
  BY DEF BulkStatus, IsValid
<1>2. rows' = [i \in DOMAIN rows |->
                 IF i \in ids THEN [rows[i] EXCEPT !.status = a.status] ELSE rows[i]]
  BY DEF BulkStatus
<1>3. said' = [i \in DOMAIN rows |-> IF i \in ids THEN a.status ELSE said[i]]
  BY DEF BulkStatus
<1>4. PICK new : new = UNION {Mark(s, "row", i, {"status"}) : i \in {i \in ids : rows[i].status # a.status}}
  OBVIOUS
<1>5. changed' = changed \cup new
  BY <1>4 DEF BulkStatus
<1>6. PICK st : st = Done(a, "ok")
  OBVIOUS
<1>7. st \in Ended /\ st.pc = "done" /\ st.answer = "ok" /\ st.kind = "bulk"
  BY <1>1, <1>6 DEF Done, Ended
<1>8. Moves(s, st)
  BY <1>6 DEF BulkStatus, Moves
<1>9. \A i \in DOMAIN rows : /\ rows'[i] \in Row
                             /\ rows'[i].github = rows[i].github /\ rows'[i].email = rows[i].email
                             /\ rows'[i].company = rows[i].company
                             /\ rows'[i].status = IF i \in ids THEN a.status ELSE rows[i].status
  <2> SUFFICES ASSUME NEW i \in DOMAIN rows
               PROVE  /\ rows'[i] \in Row
                      /\ rows'[i].github = rows[i].github /\ rows'[i].email = rows[i].email
                      /\ rows'[i].company = rows[i].company
                      /\ rows'[i].status = IF i \in ids THEN a.status ELSE rows[i].status
    OBVIOUS
  <2>1. PICK x \in Row : x = rows[i]
    BY <1>0, RowsTyped
  <2>2. PICK y : y = [x EXCEPT !.status = a.status]
    OBVIOUS
  <2>3. /\ y \in Row /\ y.github = x.github /\ y.email = x.email /\ y.company = x.company
        /\ y.status = a.status
    BY <1>1, <2>2 DEF Row
  <2>4. rows'[i] = IF i \in ids THEN y ELSE x
    BY <1>2, <2>1, <2>2
  <2> QED BY <2>1, <2>3, <2>4
<1>10. DOMAIN rows' = DOMAIN rows /\ rows' \in Seq(Row) /\ Len(rows') = Len(rows)
  <2>1. rows' \in [DOMAIN rows -> Row] /\ rows \in Seq(Row)
    BY <1>0, <1>2, <1>9 DEF TypeOK
  <2> QED BY <2>1, MapFacts
<1>11. said' \in Seq(Statuses) /\ Len(said') = Len(rows)
  <2>1. DOMAIN said = DOMAIN rows /\ said \in Seq(Statuses) /\ Len(said) = Len(rows)
    BY <1>0, RowsTyped DEF TypeOK
  <2>2. said' \in [DOMAIN said -> Statuses]
    BY <1>0, <1>1, <1>3, <2>1, RowsTyped
  <2> QED BY <2>1, <2>2, MapFacts
<1>12. \A e \in new : e[1] = s /\ e[2] = "row"
  BY <1>4 DEF Mark
<1>13. /\ TypeOK' /\ Advances(s) /\ run'[s] = st
       /\ Traced(s) /\ TablesOK' /\ RequestOK(s)' => IndInv'
  <2>1. companies' \in Seq(Company) /\ members' \subseteq DOMAIN rows'
    BY <1>0, <1>1, <1>10 DEF TypeOK
  <2>2. \A e \in new : e[1] = s /\ e[2] \in {"row", "member", "company"}
    BY <1>12
  <2>3. st \in Serving \cup Ended /\ UNCHANGED <<project, audit, faults, hit>> /\ Len(said') = Len(rows')
    BY <1>1, <1>7, <1>10, <1>11
  <2> QED BY <1>5, <1>8, <1>10, <1>11, <2>1, <2>2, <2>3, WritesOK
<1>14. \A i \in DOMAIN rows : rows'[i].status # rows[i].status => <<s, "row", i, "status">> \in changed'
  <2> SUFFICES ASSUME NEW i \in ids, rows[i].status # a.status
               PROVE  <<s, "row", i, "status">> \in new
    BY <1>5, <1>9
  <2>1. <<s, "row", i, "status">> \in Mark(s, "row", i, {"status"})
    BY DEF Mark
  <2> QED BY <1>4, <2>1
<1>15. Traced(s)
  <2>1. \A i \in DOMAIN rows, f \in Fields :
          rows'[i][f] # rows[i][f] => <<s, "row", i, f>> \in changed'
    BY <1>9, <1>14 DEF Fields
  <2> QED BY <1>1, <1>5, <1>10, <1>12, <1>13, <2>1 DEF Traced
<1>16. TablesOK'
  <2>1. RefsKnown' /\ CompanyRefsAreLive' /\ OneRowPerHandle' /\ NoCaseTwins'
    BY <1>1, <1>9, <1>10, <1>15, CompaniesKept, HandlesKept, NamesKept
  <2>2. StaffStatusStands'
    <3> SUFFICES ASSUME NEW i \in DOMAIN rows, rows'[i].status # said'[i]
                 PROVE  \E r, t \in Changers(i, "status")' : Overlapped(r, t)'
      BY <1>10 DEF StaffStatusStands
    <3>1. i \notin ids /\ rows[i].status # said[i]
      BY <1>3, <1>9
    <3> QED BY <1>0, <1>15, <3>1, Grows DEF TablesOK, StaffStatusStands
  <2> QED BY <2>1, <2>2 DEF TablesOK
<1>17. RequestOK(s)'
  <2>1. RefusedOK(s)' /\ AuditedOK(s)'
    BY <1>7, <1>13 DEF RefusedOK, AuditedOK
  <2> QED BY <1>7, <1>13, <2>1, DoneOK
<1> QED BY <1>13, <1>15, <1>16, <1>17

LEMMA MergeCommitOK ==
  ASSUME IndInv, NEW s \in Requests, MergeCommit(s)
  PROVE  IndInv'
<1>0. TypeOK /\ TablesOK /\ RequestOK(s)
  BY DEF IndInv
<1>1. At(s, {"commit"}, {"merge"}) /\ InService(s)
  BY DEF MergeCommit, At, InService
<1>2. PICK a \in Asks : a = run[s].ask
  BY <1>0, <1>1, Service
<1>3. /\ a.kind = "merge" /\ Marks(s) = {} /\ a.from # a.to /\ a.from \in DOMAIN companies
      /\ a.to \in DOMAIN companies /\ a.to # 0 /\ Held(a.to, s)
  BY <1>0, <1>1, <1>2 DEF RequestOK, MarksOK, CompanyOK, At
<1> DEFINE ids == Moved(a.from)
<1>4. UNCHANGED <<members, project, audit, faults, hit, said>>
  BY DEF MergeCommit
<1>5. rows' = [i \in DOMAIN rows |->
                 IF i \in ids THEN [rows[i] EXCEPT !.company = a.to] ELSE rows[i]]
  BY <1>2 DEF MergeCommit
<1>6. companies' = [companies EXCEPT ![a.from].live = FALSE]
  BY <1>2 DEF MergeCommit
<1>7. PICK moves : moves = UNION {Mark(s, "row", i, {"company"}) : i \in ids}
  OBVIOUS
<1>8. PICK new : new = Mark(s, "company", a.from, {"deleted"}) \cup moves
  OBVIOUS
<1>9. changed' = changed \cup new
  BY <1>2, <1>7, <1>8 DEF MergeCommit
<1>10. PICK st : st = Done(a, "ok")
  OBVIOUS
<1>11. st \in Ended /\ st.pc = "done" /\ st.answer = "ok" /\ st.kind = "merge"
  BY <1>3, <1>10 DEF Done, Ended
<1>12. Moves(s, st)
  <2>1. Step(s, st)
    BY <1>2, <1>10 DEF MergeCommit
  <2> QED BY <1>1, <1>2, <1>3, <1>11, <2>1 DEF Moves
<1>13. \A i \in DOMAIN rows : /\ rows'[i] \in Row
                              /\ rows'[i].github = rows[i].github /\ rows'[i].email = rows[i].email
                              /\ rows'[i].status = rows[i].status
                              /\ rows'[i].company = IF i \in ids THEN a.to ELSE rows[i].company
  <2> SUFFICES ASSUME NEW i \in DOMAIN rows
               PROVE  /\ rows'[i] \in Row
                      /\ rows'[i].github = rows[i].github /\ rows'[i].email = rows[i].email
                      /\ rows'[i].status = rows[i].status
                      /\ rows'[i].company = IF i \in ids THEN a.to ELSE rows[i].company
    OBVIOUS
  <2>1. PICK x \in Row : x = rows[i]
    BY <1>0, RowsTyped
  <2>2. PICK y : y = [x EXCEPT !.company = a.to]
    OBVIOUS
  <2>3. a.to \in Nat
    BY <1>0, <1>3, RowsTyped
  <2>4. /\ y \in Row /\ y.github = x.github /\ y.email = x.email /\ y.status = x.status
        /\ y.company = a.to
    BY <2>2, <2>3 DEF Row
  <2>5. rows'[i] = IF i \in ids THEN y ELSE x
    BY <1>5, <2>1, <2>2
  <2> QED BY <2>1, <2>4, <2>5
<1>14. DOMAIN rows' = DOMAIN rows /\ rows' \in Seq(Row) /\ Len(rows') = Len(rows)
  <2>1. rows' \in [DOMAIN rows -> Row] /\ rows \in Seq(Row)
    BY <1>0, <1>5, <1>13 DEF TypeOK
  <2> QED BY <2>1, MapFacts
<1>15. /\ DOMAIN companies' = DOMAIN companies /\ companies' \in Seq(Company)
       /\ \A c \in DOMAIN companies : /\ companies'[c].name = companies[c].name
                                      /\ c # a.from => companies'[c] = companies[c]
       /\ ~companies'[a.from].live
  <2>1. PICK x \in Company : x = companies[a.from]
    BY <1>0, <1>3, RowsTyped
  <2>2. PICK y : y = [x EXCEPT !.live = FALSE]
    OBVIOUS
  <2>3. y \in Company /\ y.name = x.name /\ ~y.live
    BY <2>2 DEF Company
  <2>4. companies' = [companies EXCEPT ![a.from] = y]
    BY <1>6, <2>1, <2>2
  <2>5. companies \in Seq(Company)
    BY <1>0 DEF TypeOK
  <2>6. companies' \in Seq(Company) /\ DOMAIN companies' = DOMAIN companies
    <3>1. companies' \in [DOMAIN companies -> Company]
      BY <1>0, <2>3, <2>4, RowsTyped
    <3> QED BY <2>5, <3>1, MapFacts
  <2> QED BY <1>3, <2>1, <2>3, <2>4, <2>5, <2>6
<1>16. \A e \in new : e[1] = s /\ e[2] \in {"row", "company"}
  BY <1>7, <1>8 DEF Mark
<1>17. /\ TypeOK' /\ Advances(s) /\ run'[s] = st
       /\ Traced(s) /\ TablesOK' /\ RequestOK(s)' => IndInv'
  <2>1. members' \subseteq DOMAIN rows' /\ said' \in Seq(Statuses) /\ Len(said') = Len(rows')
    BY <1>0, <1>4, <1>14 DEF TypeOK
  <2>2. \A e \in new : e[1] = s /\ e[2] \in {"row", "member", "company"}
    BY <1>16
  <2>3. st \in Serving \cup Ended /\ UNCHANGED <<project, audit, faults, hit>>
    BY <1>4, <1>11
  <2> QED BY <1>9, <1>12, <1>14, <1>15, <2>1, <2>2, <2>3, WritesOK
<1>18. /\ \A i \in ids : <<s, "row", i, "company">> \in changed'
       /\ <<s, "company", a.from, "deleted">> \in changed'
  <2>1. \A i \in ids : <<s, "row", i, "company">> \in Mark(s, "row", i, {"company"})
    BY DEF Mark
  <2>2. <<s, "company", a.from, "deleted">> \in Mark(s, "company", a.from, {"deleted"})
    BY DEF Mark
  <2> QED BY <1>7, <1>8, <1>9, <2>1, <2>2
<1>19. Traced(s)
  <2>1. \A i \in DOMAIN rows, f \in Fields :
          rows'[i][f] # rows[i][f] => <<s, "row", i, f>> \in changed'
    BY <1>13, <1>18 DEF Fields
  <2>2. \A c \in DOMAIN companies :
       /\ companies'[c].name = companies[c].name
       /\ companies'[c].live => companies[c].live
       /\ companies[c].live => companies'[c].live \/ <<s, "company", c, "deleted">> \in changed'
    BY <1>15, <1>18
  <2> QED BY <1>4, <1>9, <1>14, <1>15, <1>16, <1>17, <2>1, <2>2 DEF Traced
<1>20. TablesOK'
  <2>1. StaffStatusStands' /\ OneRowPerHandle' /\ NoCaseTwins'
    BY <1>4, <1>13, <1>14, <1>15, <1>19, StatusesKept, HandlesKept, NamesKept
  <2>2. RefsKnown'
    BY <1>0, <1>3, <1>13, <1>14, <1>15 DEF TablesOK, RefsKnown
  <2>3. CompanyRefsAreLive'
    <3> SUFFICES ASSUME NEW i \in DOMAIN rows, NEW c, c = rows'[i].company, c # 0, ~Live(c)'
                 PROVE  \E r \in Changers(i, "company")', t \in Mergers(c)' : Overlapped(r, t)'
      BY <1>14 DEF CompanyRefsAreLive
    <3>1. /\ \A k, f : Changers(k, f) \subseteq Changers(k, f)'
          /\ \A k : Mergers(k) \subseteq Mergers(k)'
          /\ \A x, t : Overlapped(x, t) => Overlapped(x, t)'
      BY <1>0, <1>19, Grows
    <3>2. CASE i \in ids
      <4>1. c = a.to /\ ~companies[c].live
        BY <1>3, <1>13, <1>15, <3>2 DEF Live
      <4>2. \E t \in Mergers(c) : Overlapped(s, t)
        BY <1>3, <4>1 DEF Held
      <4>3. s \in Changers(i, "company")'
        BY <1>18, <3>2 DEF Changers
      <4> QED BY <3>1, <4>2, <4>3
    <3>3. CASE i \notin ids
      <4>1. c = rows[i].company /\ c # a.from
        BY <1>13, <3>3 DEF Moved
      <4>2. ~Live(c)
        BY <1>15, <4>1 DEF Live
      <4> QED BY <1>0, <3>1, <4>1, <4>2 DEF TablesOK, CompanyRefsAreLive
    <3> QED BY <3>2, <3>3
  <2> QED BY <2>1, <2>2, <2>3 DEF TablesOK
<1>21. RequestOK(s)'
  <2>1. RefusedOK(s)' /\ AuditedOK(s)'
    BY <1>11, <1>17 DEF RefusedOK, AuditedOK
  <2> QED BY <1>11, <1>17, <2>1, DoneOK
<1> QED BY <1>17, <1>19, <1>20, <1>21

LEMMA DetailsWriteOK ==
  ASSUME IndInv, NEW s \in Requests, DetailsWrite(s)
  PROVE  IndInv'
<1>0. TypeOK /\ TablesOK /\ RequestOK(s)
  BY DEF IndInv
<1>1. At(s, {"write"}, Writing) /\ InService(s)
  BY DEF DetailsWrite, At, InService, Writing
<1>2. PICK a \in Asks : a = run[s].ask
  BY <1>0, <1>1, Service
<1>3. PICK q \in Serving : q = run[s]
  BY <1>0, <1>1, Service
<1>4. PICK i, next : i = q.row /\ next = q.next
  OBVIOUS
<1>5. /\ a.kind \in Writing /\ q.pc = "write" /\ i \in DOMAIN rows /\ next \in Row /\ i # 0
      /\ Held(next.company, s)
  BY <1>0, <1>1, <1>2, <1>3, <1>4, RowsTyped DEF RequestOK, ShapeOK, CompanyOK, At
<1>6. UNCHANGED <<companies, members, project, audit, faults, hit>>
  BY DEF DetailsWrite
<1>7. PICK new : new = Mark(s, "row", i, Differ(rows[i], next))
  OBVIOUS
<1>8. /\ rows' = [rows EXCEPT ![i] = next] /\ changed' = changed \cup new
      /\ said' = IF a.kind = "edit" THEN [said EXCEPT ![i] = next.status] ELSE said
  BY <1>2, <1>3, <1>4, <1>7 DEF DetailsWrite
<1>9. PICK st : st = [q EXCEPT !.pc = "audit"]
  OBVIOUS
<1>10. st = [pc |-> "audit", ask |-> a, row |-> i, before |-> q.before, next |-> next,
             company |-> q.company]
  BY <1>2, <1>3, <1>4, <1>9 DEF Serving
<1>11. st \in Serving
  BY <1>4, <1>10 DEF Serving
<1>12. Moves(s, st)
  <2>1. Step(s, st)
    BY <1>3, <1>9 DEF DetailsWrite
  <2> QED BY <1>1, <1>2, <1>10, <2>1 DEF Moves
<1>13. /\ DOMAIN rows' = DOMAIN rows /\ rows' \in Seq(Row) /\ Len(rows') = Len(rows)
       /\ rows'[i] = next /\ \A j \in DOMAIN rows : j # i => rows'[j] = rows[j]
  <2>1. rows' \in [DOMAIN rows -> Row] /\ rows \in Seq(Row)
    BY <1>0, <1>5, <1>8, RowsTyped DEF TypeOK
  <2>2. rows'[i] = next /\ \A j \in DOMAIN rows : j # i => rows'[j] = rows[j]
    BY <1>5, <1>8
  <2> QED BY <2>1, <2>2, MapFacts
<1>14. /\ said' \in Seq(Statuses) /\ Len(said') = Len(rows)
       /\ \A j \in DOMAIN rows : said'[j] = IF j = i /\ a.kind = "edit" THEN next.status ELSE said[j]
  <2>1. said \in Seq(Statuses) /\ Len(said) = Len(rows) /\ DOMAIN said = DOMAIN rows
    BY <1>0, RowsTyped DEF TypeOK
  <2>2. CASE a.kind = "edit"
    <3>1. next.status \in Statuses
      BY <1>5 DEF Row
    <3>2. said' \in [DOMAIN said -> Statuses]
      BY <1>0, <1>8, <2>2, <3>1, RowsTyped
    <3>3. \A j \in DOMAIN rows : said'[j] = IF j = i THEN next.status ELSE said[j]
      BY <1>8, <2>1, <2>2
    <3> QED BY <2>1, <2>2, <3>2, <3>3, MapFacts
  <2>3. CASE a.kind # "edit"
    BY <1>8, <2>1, <2>3
  <2> QED BY <2>2, <2>3
<1>15. \A e \in new : e[1] = s /\ e[2] = "row" /\ e[3] = i
  BY <1>7, MarkFields
<1>16. /\ TypeOK' /\ Advances(s) /\ run'[s] = st
       /\ Traced(s) /\ TablesOK' /\ RequestOK(s)' => IndInv'
  <2>1. members' \subseteq DOMAIN rows' /\ companies' \in Seq(Company) /\ Len(said') = Len(rows')
    BY <1>0, <1>6, <1>13, <1>14 DEF TypeOK
  <2>2. \A e \in new : e[1] = s /\ e[2] \in {"row", "member", "company"}
    BY <1>15
  <2>3. st \in Serving \cup Ended /\ UNCHANGED <<project, audit, faults, hit>>
    BY <1>6, <1>11
  <2> QED BY <1>8, <1>12, <1>13, <1>14, <2>1, <2>2, <2>3, WritesOK
<1>17. \A f \in Fields : next[f] # rows[i][f] => <<s, "row", i, f>> \in changed'
  BY <1>7, <1>8 DEF Mark, Differ
<1>18. Traced(s)
  <2>1. \A j \in DOMAIN rows, f \in Fields :
          rows'[j][f] # rows[j][f] => <<s, "row", j, f>> \in changed'
    BY <1>13, <1>17
  <2> QED BY <1>6, <1>8, <1>13, <1>15, <1>16, <2>1 DEF Traced
<1>19. /\ \A k, f : Changers(k, f) \subseteq Changers(k, f)'
       /\ \A k : Mergers(k) \subseteq Mergers(k)'
       /\ \A x, t : Overlapped(x, t) => Overlapped(x, t)'
       /\ \A k, j : Excused(k, j) => Excused(k, j)'
       /\ \A f \in Fields : next[f] # rows[i][f] => s \in Changers(i, f)'
  <2>1. \A f \in Fields : next[f] # rows[i][f] => s \in Changers(i, f)'
    BY <1>17 DEF Changers
  <2> QED BY <1>0, <1>18, <2>1, Grows
<1>20. TablesOK'
  <2>1. NoCaseTwins'
    BY <1>6, <1>18, NamesKept
  <2>2. RefsKnown'
    BY <1>0, <1>5, <1>6, <1>13 DEF TablesOK, RefsKnown, Held
  <2>3. CompanyRefsAreLive'
    <3> SUFFICES ASSUME NEW j \in DOMAIN rows, NEW c, c = rows'[j].company, c # 0, ~Live(c)
                 PROVE  \E r \in Changers(j, "company")', t \in Mergers(c)' : Overlapped(r, t)'
      BY <1>6, <1>13 DEF CompanyRefsAreLive, Live
    <3>1. CASE c = rows[j].company
      BY <1>0, <1>19, <3>1 DEF TablesOK, CompanyRefsAreLive
    <3>2. CASE c # rows[j].company
      <4>1. j = i /\ c = next.company
        BY <1>13, <3>2
      <4>2. s \in Changers(i, "company")'
        BY <1>19, <3>2, <4>1 DEF Fields
      <4>3. \E t \in Mergers(c) : Overlapped(s, t)
        BY <1>5, <4>1 DEF Held, Live
      <4> QED BY <1>19, <4>1, <4>2, <4>3
    <3> QED BY <3>1, <3>2
  <2>4. StaffStatusStands'
    <3> SUFFICES ASSUME NEW j \in DOMAIN rows, rows'[j].status # said'[j]
                 PROVE  \E r, t \in Changers(j, "status")' : Overlapped(r, t)'
      BY <1>13 DEF StaffStatusStands
    <3>1. ~(j = i /\ a.kind = "edit") /\ said'[j] = said[j]
      BY <1>13, <1>14
    <3>2. CASE rows'[j].status = rows[j].status
      BY <1>0, <1>19, <3>1, <3>2 DEF TablesOK, StaffStatusStands
    <3>3. CASE rows'[j].status # rows[j].status
      <4>1. j = i /\ a.kind \in Keeping
        BY <1>5, <1>13, <3>1, <3>3 DEF Writing, Keeping
      <4>2. s \in Changers(i, "status")'
        BY <1>13, <1>19, <3>3, <4>1 DEF Fields
      <4>3. \E t \in Changers(i, "status") : Overlapped(s, t)
        BY <1>0, <1>1, <1>2, <1>3, <1>4, <1>13, <3>3, <4>1 DEF RequestOK, StatusOK, At
      <4> QED BY <1>19, <4>1, <4>2, <4>3
    <3> QED BY <3>2, <3>3
  <2>5. OneRowPerHandle'
    <3>1. ASSUME NEW j \in DOMAIN rows, j # i, rows[j].github = next.github, next.github # Missing
          PROVE  Excused(i, j)' /\ Excused(j, i)'
      <4>1. Excused(i, j)' \/ Excused(j, i)'
        <5>1. CASE rows[i].github = next.github
          BY <1>5, <1>19, <3>1, <5>1, TwinsExcused
        <5>2. CASE rows[i].github # next.github
          <6>1. s \in Changers(i, "github")'
            BY <1>19, <5>2 DEF Fields
          <6>2. CASE a.kind = "edit"
            <7>1. Kind(s)' = "edit"
              BY <1>10, <1>16, <6>2 DEF Kind
            <7> QED BY <6>1, <7>1 DEF Excused
          <6>3. CASE a.kind \in Keeping
            <7>1. Apart(s, next.github)
              BY <1>0, <1>1, <1>2, <1>3, <1>4, <6>3 DEF RequestOK, HandleOK, At
            <7>2. (\E t \in Changers(j, "github") : Overlapped(s, t)) \/ Excused(i, j)
              BY <1>3, <1>4, <3>1, <7>1 DEF Apart
            <7> QED BY <1>19, <6>1, <7>2 DEF Excused
          <6> QED BY <1>5, <6>2, <6>3 DEF Writing, Keeping
        <5> QED BY <5>1, <5>2
      <4>2. \A x, y : Overlapped(x, y)' => Overlapped(y, x)'
        <5>1. \A x, y : {x, y} = {y, x}
          OBVIOUS
        <5> QED BY <5>1 DEF Overlapped
      <4> QED BY <4>1, <4>2 DEF Excused
    <3> SUFFICES ASSUME NEW k \in DOMAIN rows, NEW j \in DOMAIN rows, k < j,
                        rows'[k].github = rows'[j].github, rows'[k].github # Missing
                 PROVE  Excused(k, j)'
      BY <1>13 DEF OneRowPerHandle, Excused
    <3>2. k # j
      BY <1>0, RowsTyped
    <3>3. CASE k = i
      BY <1>13, <3>1, <3>2, <3>3
    <3>4. CASE j = i
      BY <1>13, <3>1, <3>2, <3>4
    <3>5. CASE k # i /\ j # i
      BY <1>13, <1>19, <3>2, <3>5, TwinsExcused
    <3> QED BY <3>3, <3>4, <3>5
  <2> QED BY <2>1, <2>2, <2>3, <2>4, <2>5 DEF TablesOK
<1>21. LoneOK(s)'
  <2> SUFFICES ASSUME Lone(s)' PROVE LoneOK(s)'
    BY DEF LoneOK
  <2>0. Lone(s)
    BY <1>0, <1>18, Grows
  <2>1. PICK b : b = q.before
    OBVIOUS
  <2>2. PICK m : m = Mark(s, "row", i, Differ(b, next))
    OBVIOUS
  <2>3. Mark(s, "row", run[s].row, Differ(run[s].before, rows[run[s].row]))' = m
    BY <1>10, <1>13, <1>16, <2>1, <2>2 DEF Mark, Differ
  <2>4. CASE a.kind \in Editing
    <3>1. b = rows[i] /\ Marks(s) = {}
      BY <1>0, <1>1, <1>2, <1>3, <1>4, <2>0, <2>1, <2>4 DEF RequestOK, LoneOK, MarksOK, At
    <3>2. Marks(s)' \subseteq m
      BY <1>7, <1>8, <2>2, <3>1 DEF Marks
    <3> QED BY <1>10, <1>16, <2>3, <2>4, <3>2 DEF LoneOK, At, Editing
  <2>5. CASE a.kind = "add"
    <3>1. IF b = NoRow
          THEN next = rows[i] /\ RowMarks(s) \subseteq Mark(s, "row", i, Asked(a))
          ELSE b = rows[i] /\ RowMarks(s) = {} /\ Fills(s)
      BY <1>0, <1>1, <1>2, <1>3, <1>4, <2>0, <2>1, <2>5 DEF RequestOK, LoneOK, At
    <3>2. Fills(s) => Fills(s)'
      BY <1>2, <1>3, <1>4, <1>10, <1>16 DEF Fills
    <3>3. Mark(s, "row", run[s].row, Asked(run[s].ask))' = Mark(s, "row", i, Asked(a))
      BY <1>10, <1>16 DEF Mark, Asked
    <3>4. RowMarks(s)' \subseteq RowMarks(s) \cup new
      BY <1>8 DEF RowMarks, Marks
    <3>5. CASE b = NoRow
      <4>1. new = {}
        BY <1>7, <3>1, <3>5 DEF Mark, Differ
      <4> QED BY <1>10, <1>16, <2>1, <2>5, <3>1, <3>3, <3>4, <3>5, <4>1 DEF LoneOK, At, Editing
    <3>6. CASE b # NoRow
      <4>1. RowMarks(s)' \subseteq m
        BY <1>7, <2>2, <3>1, <3>4, <3>6
      <4> QED BY <1>10, <1>13, <1>16, <2>1, <2>3, <2>5, <3>1, <3>2, <3>6, <4>1 DEF LoneOK, At, Editing
    <3> QED BY <3>5, <3>6
  <2> QED BY <1>5, <2>4, <2>5 DEF Writing, Editing
<1>22. RequestOK(s)'
  <2>1. ShapeOK(s)'
    BY <1>5, <1>10, <1>13, <1>16 DEF ShapeOK, At, InService
  <2>2. MarksOK(s)'
    <3>1. a.kind = "add" => \A e \in Marks(s)' :
            e[3] = i /\ (e[2] = "member" => e = <<s, "member", i, "project">>)
      <4>1. a.kind = "add" => \A e \in Marks(s) :
              e[3] = i /\ (e[2] = "member" => e = <<s, "member", i, "project">>)
        BY <1>0, <1>1, <1>2, <1>3, <1>4 DEF RequestOK, MarksOK, At
      <4> QED BY <1>8, <1>15, <4>1 DEF Marks
    <3> QED BY <1>5, <1>10, <1>16, <3>1 DEF MarksOK, At, Writing
  <2>3. CompanyOK(s)' /\ StatusOK(s)' /\ HandleOK(s)' /\ NameOK(s)' /\ RefusedOK(s)' /\ AuditedOK(s)'
    BY <1>10, <1>16 DEF CompanyOK, StatusOK, HandleOK, NameOK, RefusedOK, AuditedOK, At
  <2> QED BY <1>21, <2>1, <2>2, <2>3 DEF RequestOK
<1> QED BY <1>16, <1>18, <1>20, <1>22

\* An addition that is not refused by the index on company names.
LEMMA AddCommitOK ==
  ASSUME IndInv, NEW s \in Requests, AddCommit(s)
  PROVE  IndInv'
<1>0. TypeOK /\ TablesOK /\ RequestOK(s)
  BY DEF IndInv
<1>1. At(s, {"commit"}, {"add"}) /\ InService(s)
  BY DEF AddCommit, At, InService
<1>2. PICK a \in Asks : a = run[s].ask
  BY <1>0, <1>1, Service
<1>3. PICK q \in Serving : q = run[s]
  BY <1>0, <1>1, Service
<1>4. /\ a.kind = "add" /\ Marks(s) = {} /\ Held(q.company, s) /\ (q.company # 0 => a.company # Blank)
      /\ q.row # 0 => q.row \in DOMAIN rows /\ q.next \in Row /\ Excusable(q.next.company, q.row, s)
  BY <1>0, <1>1, <1>2, <1>3 DEF RequestOK, MarksOK, ShapeOK, CompanyOK, At
<1>5. a.github \in Handles /\ a.github # Missing /\ a.email \in Emails \cup {Missing}
  BY <1>4, AsksAssumption, ConstantsAssumption
<1>6. Len(companies) + 1 \in Nat /\ Len(rows) + 1 \in Nat /\ q.company \in Nat /\ q.row \in Nat
  BY <1>0, RowsTyped DEF Serving
<1>7. PICK create \in BOOLEAN : create <=> a.company # Blank /\ q.company = 0
  OBVIOUS
<1>8. PICK c \in Nat : c = IF create THEN Len(companies) + 1 ELSE q.company
  BY <1>6
<1>9. PICK i \in Nat : i = IF q.row = 0 THEN Len(rows) + 1 ELSE q.row
  BY <1>6
<1>10. PICK w : w = [github |-> a.github, email |-> a.email, status |-> "Active", company |-> c]
  OBVIOUS
<1>11. PICK had : had = IF q.row = 0 THEN w ELSE q.next
  OBVIOUS
<1>12. PICK x : x = Filled(had, a, c)
  OBVIOUS
<1>13. PICK k : k = CreatedCompany(a)
  OBVIOUS
<1>14. PICK given : given = IF q.row # 0 THEN {} ELSE Mark(s, "row", i, Differ(NoRow, w) \ {"status"})
  OBVIOUS
<1>15. PICK new : new = Mark(s, "member", i, {"project"}) \cup given
  OBVIOUS
<1>16. UNCHANGED <<audit, faults, hit>>
  BY DEF AddCommit
<1>17. CASE create /\ \E d \in DOMAIN companies : companies[d].name = k.name
  <2>1. Step(s, Done(a, "error")) /\ UNCHANGED <<tables, changed, said>>
    BY <1>2, <1>3, <1>7, <1>13, <1>17 DEF AddCommit
  <2> QED BY <1>1, <1>2, <1>4, <1>16, <2>1, RefusalOK
<1>18. CASE ~(create /\ \E d \in DOMAIN companies : companies[d].name = k.name)
  <2>1. /\ companies' = IF create THEN Append(companies, k) ELSE companies
        /\ members' = members \cup {i}
        /\ rows' = IF q.row = 0 THEN Append(rows, w) ELSE rows
        /\ said' = IF q.row = 0 THEN Append(said, "Active") ELSE said
        /\ UNCHANGED project
    BY <1>2, <1>3, <1>7, <1>8, <1>9, <1>10, <1>13, <1>18 DEF AddCommit
  <2>2. changed' = changed \cup new
    BY <1>2, <1>3, <1>7, <1>8, <1>9, <1>10, <1>13, <1>14, <1>15, <1>18 DEF AddCommit
  <2>3. Step(s, [q EXCEPT !.pc = "check", !.row = i, !.next = x])
    BY <1>2, <1>3, <1>7, <1>8, <1>9, <1>10, <1>11, <1>12, <1>13, <1>18 DEF AddCommit
  <2>4. w \in Row /\ had \in Row /\ (q.row = 0 => had = w)
    <3>1. w \in Row
      BY <1>5, <1>10 DEF Row, Statuses
    <3> QED BY <1>4, <1>11, <3>1
  <2>5. /\ x \in Row /\ x.status = had.status
        /\ x.github = (IF had.github = Missing THEN a.github ELSE had.github)
        /\ x.company = (IF had.company = 0 THEN c ELSE had.company)
    <3>1. had.github \in Handles \cup {Missing} /\ had.email \in Emails \cup {Missing}
            /\ had.status \in Statuses /\ had.company \in Nat
      BY <2>4 DEF Row
    <3>2. x = [github |-> IF had.github = Missing THEN a.github ELSE had.github,
               email |-> IF had.email = Missing THEN a.email ELSE had.email,
               status |-> had.status, company |-> IF had.company = 0 THEN c ELSE had.company]
      BY <1>12 DEF Filled
    <3> QED BY <1>5, <3>1, <3>2 DEF Row
  <2>6. q.row = 0 => x = w
    BY <1>5, <1>10, <1>12, <2>4 DEF Filled
  <2>7. PICK st : st = [q EXCEPT !.pc = "check", !.row = i, !.next = x]
    OBVIOUS
  <2>8. st = [pc |-> "check", ask |-> a, row |-> i, before |-> q.before, next |-> x,
              company |-> q.company]
    BY <1>2, <1>3, <2>7 DEF Serving
  <2>9. st \in Serving
    BY <2>5, <2>8 DEF Serving
  <2>10. Moves(s, st)
    <3>1. Step(s, st)
      BY <2>3, <2>7
    <3> QED BY <1>1, <1>2, <2>8, <3>1 DEF Moves
  <2>11. /\ companies' \in Seq(Company) /\ DOMAIN companies \subseteq DOMAIN companies'
         /\ \A d \in DOMAIN companies : companies'[d] = companies[d]
         /\ \A d \in DOMAIN companies' \ DOMAIN companies : companies'[d].name = Blank
         /\ create => c \in DOMAIN companies' /\ companies'[c].live
    <3>1. companies \in Seq(Company) /\ k \in Company /\ k.name = Blank /\ k.live
      BY <1>0, <1>13 DEF TypeOK, CreatedCompany, Company
    <3>2. CASE create
      <4>1. companies' = Append(companies, k) /\ c = Len(companies) + 1
        BY <1>8, <2>1, <3>2
      <4>2. /\ companies' \in Seq(Company) /\ DOMAIN companies' = DOMAIN companies \cup {c}
            /\ (\A d \in DOMAIN companies : companies'[d] = companies[d]) /\ companies'[c] = k
        BY <3>1, <4>1, AppendFacts
      <4> QED BY <3>1, <4>2
    <3>3. CASE ~create
      BY <2>1, <3>1, <3>3
    <3> QED BY <3>2, <3>3
  <2>12. /\ rows' \in Seq(Row) /\ said' \in Seq(Statuses) /\ Len(said') = Len(rows')
         /\ DOMAIN rows' = DOMAIN rows \cup {i} /\ i # 0
         /\ \A j \in DOMAIN rows : rows'[j] = rows[j] /\ said'[j] = said[j]
         /\ q.row = 0 => /\ i \notin DOMAIN rows /\ rows'[i] = w /\ said'[i] = "Active"
                         /\ \A j \in DOMAIN rows : j < i
         /\ q.row # 0 => i = q.row /\ i \in DOMAIN rows /\ rows' = rows
    <3>1. rows \in Seq(Row) /\ said \in Seq(Statuses) /\ Len(said) = Len(rows) /\ "Active" \in Statuses
            /\ DOMAIN said = DOMAIN rows /\ 0 \notin DOMAIN rows /\ DOMAIN rows = 1..Len(rows)
      BY <1>0, RowsTyped DEF TypeOK, Statuses
    <3>2. CASE q.row = 0
      <4>1. rows' = Append(rows, w) /\ said' = Append(said, "Active") /\ i = Len(rows) + 1
        BY <1>9, <2>1, <3>2
      <4>2. /\ rows' \in Seq(Row) /\ DOMAIN rows' = DOMAIN rows \cup {i} /\ i \notin DOMAIN rows
            /\ (\A j \in DOMAIN rows : rows'[j] = rows[j]) /\ rows'[i] = w
            /\ Len(rows') = Len(rows) + 1 /\ Len(rows) \in Nat
        BY <2>4, <3>1, <4>1, AppendFacts
      <4>3. /\ said' \in Seq(Statuses) /\ Len(said') = Len(said) + 1 /\ said'[i] = "Active"
            /\ \A j \in DOMAIN said : said'[j] = said[j]
        BY <3>1, <4>1, AppendFacts
      <4>4. i # 0 /\ \A j \in DOMAIN rows : j < i
        BY <3>1, <4>1, <4>2
      <4> QED BY <3>1, <3>2, <4>2, <4>3, <4>4
    <3>3. CASE q.row # 0
      <4>1. i = q.row /\ i \in DOMAIN rows /\ rows' = rows /\ said' = said
        BY <1>4, <1>9, <2>1, <3>3
      <4> QED BY <3>1, <3>3, <4>1
    <3> QED BY <3>2, <3>3
  <2>13. /\ \A e \in new : e[1] = s /\ e[3] = i /\ e[2] \in {"row", "member"}
         /\ \A e \in given : e[2] = "row"
         /\ \A e \in new \ given : e = <<s, "member", i, "project">>
    BY <1>14, <1>15 DEF Mark
  <2>14. /\ TypeOK' /\ Advances(s) /\ run'[s] = st
         /\ Traced(s) /\ TablesOK' /\ RequestOK(s)' => IndInv'
    <3>1. members' \subseteq DOMAIN rows'
      BY <1>0, <2>1, <2>12 DEF TypeOK
    <3>2. \A e \in new : e[1] = s /\ e[2] \in {"row", "member", "company"}
      BY <2>13
    <3>3. st \in Serving \cup Ended /\ UNCHANGED <<project, audit, faults, hit>>
      BY <1>16, <2>1, <2>9
    <3> QED BY <2>2, <2>10, <2>11, <2>12, <3>1, <3>2, <3>3, WritesOK
  <2>15. q.row = 0 => /\ <<s, "row", i, "github">> \in changed'
                      /\ c # 0 => <<s, "row", i, "company">> \in changed'
    <3> SUFFICES ASSUME q.row = 0
                 PROVE  <<s, "row", i, "github">> \in given /\ (c # 0 => <<s, "row", i, "company">> \in given)
      BY <1>15, <2>2
    <3>1. "github" \in Differ(NoRow, w) \ {"status"} /\ (c # 0 => "company" \in Differ(NoRow, w) \ {"status"})
      BY <1>5, <1>10 DEF Differ, NoRow, Fields
    <3> QED BY <1>14, <3>1 DEF Mark
  <2>16. Traced(s)
    <3>1. \A j \in DOMAIN rows, f \in Fields : rows'[j][f] = rows[j][f]
      BY <2>12
    <3>2. \A j \in DOMAIN rows' \ DOMAIN rows : <<s, "row", j, "github">> \in changed'
      BY <2>12, <2>15
    <3>3. \A e \in changed' : e \in changed \/ e[1] = s
      BY <2>2, <2>13
    <3> QED BY <1>16, <2>2, <2>11, <2>12, <2>14, <3>1, <3>2, <3>3 DEF Traced
  <2>17. /\ \A j, f : Changers(j, f) \subseteq Changers(j, f)'
         /\ \A d : Mergers(d) \subseteq Mergers(d)'
         /\ \A y, t : Overlapped(y, t) => Overlapped(y, t)'
         /\ \A j, l : Excused(j, l) => Excused(j, l)'
         /\ Lone(s)' => Lone(s)
    BY <1>0, <2>16, Grows
  <2>18. \A y, z : Overlapped(y, z)' => Overlapped(z, y)'
    <3>1. \A y, z : {y, z} = {z, y}
      OBVIOUS
    <3> QED BY <3>1 DEF Overlapped
  <2>19. /\ c # 0 => /\ c \in DOMAIN companies' /\ a.company # Blank
                     /\ companies'[c].live \/ \E t \in Mergers(c)' : Overlapped(s, t)'
    <3>1. CASE create
      BY <1>7, <2>11, <3>1
    <3>2. CASE ~create
      BY <1>4, <1>8, <2>11, <2>17, <3>2 DEF Held
    <3> QED BY <3>1, <3>2
  <2>20. TablesOK'
    <3>1. NoCaseTwins'
      BY <2>11, <2>16, NamesKept
    <3>2. RefsKnown'
      <4> SUFFICES ASSUME NEW j \in DOMAIN rows', rows'[j].company # 0
                   PROVE  rows'[j].company \in DOMAIN companies'
        BY DEF RefsKnown
      <4>1. CASE j \in DOMAIN rows
        BY <1>0, <2>11, <2>12, <4>1 DEF TablesOK, RefsKnown
      <4>2. CASE j \notin DOMAIN rows
        <5>1. rows'[j] = w
          BY <2>12, <4>2
        <5> QED BY <1>10, <2>19, <5>1
      <4> QED BY <4>1, <4>2
    <3>3. CompanyRefsAreLive'
      <4> SUFFICES ASSUME NEW j \in DOMAIN rows', NEW d, d = rows'[j].company, d # 0, ~Live(d)'
                   PROVE  \E r \in Changers(j, "company")', t \in Mergers(d)' : Overlapped(r, t)'
        BY DEF CompanyRefsAreLive
      <4>1. CASE j \in DOMAIN rows
        <5>1. d = rows[j].company /\ d \in DOMAIN companies
          BY <1>0, <2>12, <4>1 DEF TablesOK, RefsKnown
        <5>2. ~Live(d)
          BY <2>11, <5>1 DEF Live
        <5> QED BY <1>0, <2>17, <4>1, <5>1, <5>2 DEF TablesOK, CompanyRefsAreLive
      <4>2. CASE j \notin DOMAIN rows
        <5>1. j = i /\ q.row = 0 /\ d = c
          BY <1>10, <2>12, <4>2
        <5>2. s \in Changers(i, "company")'
          BY <2>15, <5>1 DEF Changers
        <5>3. \E t \in Mergers(c)' : Overlapped(s, t)'
          BY <2>19, <5>1 DEF Live
        <5> QED BY <5>1, <5>2, <5>3
      <4> QED BY <4>1, <4>2
    <3>4. StaffStatusStands'
      <4> SUFFICES ASSUME NEW j \in DOMAIN rows', rows'[j].status # said'[j]
                   PROVE  \E r, t \in Changers(j, "status")' : Overlapped(r, t)'
        BY DEF StaffStatusStands
      <4>1. j \in DOMAIN rows
        BY <1>10, <2>12
      <4> QED BY <1>0, <2>12, <2>17, <4>1 DEF TablesOK, StaffStatusStands
    <3>5. OneRowPerHandle'
      <4> SUFFICES ASSUME NEW j \in DOMAIN rows', NEW l \in DOMAIN rows', j < l,
                          rows'[j].github = rows'[l].github, rows'[j].github # Missing
                   PROVE  Excused(j, l)'
        BY DEF OneRowPerHandle, Excused
      <4>0. \A m \in DOMAIN rows' : m \in Nat
        BY <1>0, <2>12, RowsTyped
      <4>1. CASE j \in DOMAIN rows /\ l \in DOMAIN rows
        BY <2>12, <2>17, <4>0, <4>1, TwinsExcused
      <4>2. CASE l \notin DOMAIN rows
        <5>1. l = i /\ q.row = 0 /\ j \in DOMAIN rows /\ rows[j].github = a.github
          BY <1>10, <2>12, <4>0, <4>2
        <5>2. Apart(s, a.github)
          BY <1>0, <1>1, <1>2, <1>3, <5>1 DEF RequestOK, HandleOK, Given
        <5>3. \E t \in Changers(j, "github") : Overlapped(s, t)
          BY <1>3, <1>5, <2>12, <5>1, <5>2 DEF Apart
        <5>4. s \in Changers(i, "github")'
          BY <2>15, <5>1 DEF Changers
        <5> QED BY <2>17, <2>18, <5>1, <5>3, <5>4 DEF Excused
      <4>3. CASE l \in DOMAIN rows /\ j \notin DOMAIN rows
        BY <2>12, <4>0, <4>3
      <4> QED BY <4>1, <4>2, <4>3
    <3> QED BY <3>1, <3>2, <3>3, <3>4, <3>5 DEF TablesOK
  <2>21. CompanyOK(s)'
    <3>1. Excusable(x.company, i, s)'
      <4>1. CASE x.company = c
        BY <2>18, <2>19, <4>1 DEF Excusable
      <4>2. CASE x.company # c
        <5>1. q.row # 0 /\ x.company = q.next.company /\ i = q.row
          BY <1>10, <1>11, <2>5, <2>12, <4>2
        <5>2. Excusable(x.company, i, s)
          BY <1>4, <5>1
        <5>3. x.company # 0 => /\ x.company \in DOMAIN companies
                /\ \/ companies[x.company].live
                   \/ \E y \in Mergers(x.company)', t \in Changers(i, "company")' \cup {s} : Overlapped(y, t)'
          BY <2>17, <5>2 DEF Excusable
        <5> QED BY <2>11, <5>3 DEF Excusable
      <4> QED BY <4>1, <4>2
    <3>2. Excusable(run[s].next.company, run[s].row, s)'
      BY <2>8, <2>14, <3>1 DEF Excusable
    <3> QED BY <2>8, <2>14, <3>2 DEF CompanyOK, At
  <2>22. StatusOK(s)'
    <3>1. x.status = rows'[i].status \/ \E t \in Changers(i, "status")' : Overlapped(s, t)'
      <4>1. CASE q.row = 0
        BY <2>4, <2>5, <2>12, <4>1
      <4>2. CASE q.row # 0
        <5>1. x.status = q.next.status /\ i = q.row /\ rows' = rows
          BY <1>11, <2>5, <2>12, <4>2
        <5>2. q.next.status = rows[i].status \/ \E t \in Changers(i, "status") : Overlapped(s, t)
          BY <1>0, <1>1, <1>3, <4>2, <5>1 DEF RequestOK, StatusOK
        <5> QED BY <2>17, <5>1, <5>2
      <4> QED BY <4>1, <4>2
    <3> QED BY <2>8, <2>14, <3>1 DEF StatusOK, At
  <2>23. HandleOK(s)'
    <3>1. x.github = Given(s)
      BY <1>2, <1>3, <1>5, <1>10, <1>11, <2>5 DEF Given
    <3>2. Apart(s, x.github)
      BY <1>0, <1>1, <3>1 DEF RequestOK, HandleOK
    <3>3. ASSUME NEW j \in DOMAIN rows', j # i, rows'[j].github = x.github, x.github # Missing
          PROVE  \/ \E t \in Changers(j, "github")' : Overlapped(s, t)'
                 \/ i # 0 /\ Excused(i, j)'
      <4>1. j \in DOMAIN rows /\ rows[j].github = x.github /\ j # q.row
        BY <1>0, <2>12, <3>3, RowsTyped
      <4>2. \/ \E t \in Changers(j, "github") : Overlapped(s, t)
            \/ q.row # 0 /\ Excused(q.row, j)
        BY <1>3, <3>2, <3>3, <4>1 DEF Apart
      <4> QED BY <2>12, <2>17, <4>2
    <3> QED BY <2>8, <2>14, <3>3 DEF HandleOK, Apart, At
  <2>24. LoneOK(s)'
    <3> SUFFICES ASSUME Lone(s)' PROVE LoneOK(s)'
      BY DEF LoneOK
    <3>1. IF q.row = 0 THEN q.before = NoRow ELSE q.before = rows[q.row] /\ q.next = rows[q.row]
      BY <1>0, <1>1, <1>3, <2>17 DEF RequestOK, LoneOK
    <3>2. RowMarks(s)' \subseteq given
      BY <1>4, <2>2, <2>13 DEF RowMarks, Marks
    <3>3. CASE q.row = 0
      <4>1. x = rows'[i] /\ q.before = NoRow
        BY <2>6, <2>12, <3>1, <3>3
      <4>2. x.company # 0 => x.company \in DOMAIN companies' /\ companies'[x.company].live
        <5>1. \A t \in Mergers(c)' : ~Overlapped(s, t)'
          BY DEF Lone, Mergers
        <5>2. x.company = c
          BY <1>10, <2>6, <3>3
        <5> QED BY <2>19, <5>1, <5>2
      <4>3. CompanyExists(run[s].next.company)'
        BY <2>8, <2>14, <4>2 DEF CompanyExists, Live
      <4>4. Differ(NoRow, w) \ {"status"} \subseteq Asked(a)
        BY <1>10, <2>19 DEF Differ, NoRow, Asked, Fields
      <4>5. given \subseteq Mark(s, "row", i, Asked(a))
        BY <1>14, <3>3, <4>4 DEF Mark
      <4>6. Mark(s, "row", run[s].row, Asked(run[s].ask))' = Mark(s, "row", i, Asked(a))
        BY <2>8, <2>14 DEF Mark, Asked
      <4> QED BY <1>4, <2>8, <2>14, <3>2, <4>1, <4>3, <4>5, <4>6 DEF LoneOK, At, Editing
    <3>4. CASE q.row # 0
      <4>1. i = q.row /\ q.before = rows'[i] /\ q.before = had /\ q.before # NoRow
        <5>1. q.before = rows[q.row] /\ q.row \in DOMAIN rows /\ q.next = rows[q.row]
          BY <1>4, <3>1, <3>4
        <5>2. q.before \in Row
          BY <1>0, <5>1, RowsTyped
        <5>3. q.before # NoRow
          BY <5>2 DEF Row, NoRow, Statuses
        <5> QED BY <1>11, <2>12, <3>4, <5>1, <5>3
      <4>2. RowMarks(s)' = {}
        BY <1>14, <3>2, <3>4
      <4>3. Fills(s)'
        BY <2>5, <2>8, <2>14, <2>19, <4>1 DEF Fills
      <4>4. run'[s].before # NoRow /\ run'[s].before = rows'[run'[s].row]
        <5>1. run'[s].before = q.before /\ run'[s].row = i
          BY <2>8, <2>14
        <5> QED BY <4>1, <5>1
      <4> QED BY <1>4, <2>8, <2>14, <4>2, <4>3, <4>4 DEF LoneOK, At, Editing
    <3> QED BY <3>3, <3>4
  <2>25. RequestOK(s)'
    <3>1. ShapeOK(s)'
      BY <1>4, <2>5, <2>8, <2>12, <2>14 DEF ShapeOK, At, InService, Writing
    <3>2. MarksOK(s)'
      <4>1. \A e \in Marks(s)' :
              e[3] = i /\ (e[2] = "member" => e = <<s, "member", i, "project">>)
        BY <1>4, <2>2, <2>13 DEF Marks
      <4> QED BY <1>4, <2>8, <2>14, <4>1 DEF MarksOK, At, Editing
    <3>3. NameOK(s)' /\ RefusedOK(s)' /\ AuditedOK(s)'
      BY <2>8, <2>14 DEF NameOK, RefusedOK, AuditedOK, At
    <3> QED BY <2>21, <2>22, <2>23, <2>24, <3>1, <3>2, <3>3 DEF RequestOK
  <2> QED BY <2>14, <2>16, <2>20, <2>25
<1> QED BY <1>17, <1>18
-----------------------------------------------------------------------------
LEMMA RestartOK ==
  ASSUME IndInv, Restart
  PROVE  IndInv'
<1>0. TypeOK /\ TablesOK
  BY DEF IndInv
<1> DEFINE dead == {r \in Requests : InService(r)}
<1>1. /\ UNCHANGED <<rows, companies, members, project, audit, changed, together, said>>
      /\ faults > 0 /\ faults' = faults - 1 /\ hit' = hit \cup dead
  BY DEF Restart, tables
<1>2. run' = [r \in Requests |-> IF r \in dead THEN Done(run[r].ask, "none") ELSE run[r]]
  BY DEF Restart
<1>3. ASSUME NEW r \in Requests, InService(r)
      PROVE  /\ run'[r] \in Ended /\ run'[r].pc = "done" /\ run'[r].answer = "none"
             /\ run'[r].kind = run[r].ask.kind /\ r \in hit'
  <2>1. run[r].ask \in Asks
    BY <1>0, <1>3, Service
  <2>2. run'[r] = Done(run[r].ask, "none")
    BY <1>2, <1>3
  <2> QED BY <1>1, <1>3, <2>1, <2>2 DEF Done, Ended
<1>4. \A r \in Requests : ~InService(r) => run'[r] = run[r]
  BY <1>2
<1>5. TypeOK'
  <2>1. run' \in [Requests -> Serving \cup Ended \cup {New}]
    <3>1. \A r \in Requests : run'[r] \in Serving \cup Ended \cup {New}
      BY <1>0, <1>3, <1>4 DEF TypeOK
    <3>2. run' = [r \in Requests |-> run'[r]]
      BY <1>2
    <3> QED BY <3>1, <3>2
  <2>2. faults' \in 0..MaxFaults
    BY <1>0, <1>1, ConstantsAssumption DEF TypeOK
  <2>3. hit' \subseteq Requests
    BY <1>0, <1>1 DEF TypeOK
  <2> QED BY <1>0, <1>1, <2>1, <2>2, <2>3 DEF TypeOK
<1>6. Pairs'
  BY <1>3, <1>4 DEF Pairs, InService
<1>7. \A r \in Requests : Kind(r)' = Kind(r)
  <2> SUFFICES ASSUME NEW r \in Requests PROVE Kind(r)' = Kind(r)
    OBVIOUS
  <2>1. CASE InService(r)
    BY <1>3, <2>1 DEF Kind, InService
  <2>2. CASE ~InService(r)
    BY <1>4, <2>2 DEF Kind
  <2> QED BY <2>1, <2>2
<1>8. /\ \A i, f : Changers(i, f)' = Changers(i, f) /\ Changers(i, f) \subseteq Requests
      /\ \A c : Mergers(c)' = Mergers(c) /\ (Live(c)' <=> Live(c))
      /\ \A r, t : Overlapped(r, t)' <=> Overlapped(r, t)
  BY <1>1 DEF Changers, Mergers, Live, Overlapped
<1>9. TablesOK'
  <2>1. RefsKnown'
    BY <1>0, <1>1 DEF TablesOK, RefsKnown
  <2>2. CompanyRefsAreLive'
    <3> SUFFICES ASSUME NEW i \in DOMAIN rows, NEW c, c = rows[i].company, c # 0, ~Live(c)
                 PROVE  \E r \in Changers(i, "company"), t \in Mergers(c) : Overlapped(r, t)
      BY <1>1, <1>8 DEF CompanyRefsAreLive
    <3> QED BY <1>0 DEF TablesOK, CompanyRefsAreLive
  <2>3. StaffStatusStands'
    BY <1>0, <1>1, <1>8 DEF TablesOK, StaffStatusStands
  <2>4. OneRowPerHandle'
    <3> SUFFICES ASSUME NEW i \in DOMAIN rows, NEW j \in DOMAIN rows, i < j,
                        rows[i].github = rows[j].github, rows[i].github # Missing
                 PROVE  Excused(i, j)'
      BY <1>1 DEF OneRowPerHandle, Excused
    <3>1. Excused(i, j)
      BY <1>0 DEF TablesOK, OneRowPerHandle, Excused
    <3> QED BY <1>7, <1>8, <3>1 DEF Excused
  <2>5. NoCaseTwins'
    BY <1>0, <1>1, <1>8 DEF TablesOK, NoCaseTwins
  <2> QED BY <2>1, <2>2, <2>3, <2>4, <2>5 DEF TablesOK
<1>10. ASSUME NEW r \in Requests PROVE RequestOK(r)'
  <2>1. CASE InService(r)
    <3>1. RefusedOK(r)' /\ AuditedOK(r)'
      BY <1>3, <2>1 DEF RefusedOK, AuditedOK
    <3> QED BY <1>3, <2>1, <3>1, DoneOK
  <2>2. CASE ~InService(r)
    <3>1. run'[r] = run[r] /\ run'[r].pc \in {"new", "done"} /\ ~InService(r)'
      BY <1>4, <2>2 DEF InService
    <3>2. Marks(r)' = Marks(r) /\ RowMarks(r)' = RowMarks(r) /\ (Lone(r)' <=> Lone(r))
      BY <1>1, <1>8 DEF Marks, RowMarks, Lone
    <3>3. RequestOK(r)
      BY DEF IndInv
    <3>4. MarksOK(r)'
      BY <3>1, <3>2, <3>3 DEF RequestOK, MarksOK, At
    <3>5. AuditedOK(r)'
      BY <1>1, <3>1, <3>2, <3>3 DEF RequestOK, AuditedOK
    <3>6. RefusedOK(r)'
      BY <1>1, <1>8, <3>1, <3>2, <3>3 DEF RequestOK, RefusedOK
    <3>7. ShapeOK(r)' /\ CompanyOK(r)' /\ StatusOK(r)' /\ HandleOK(r)' /\ NameOK(r)' /\ LoneOK(r)'
      BY <3>1 DEF At, ShapeOK, CompanyOK, StatusOK, HandleOK, NameOK, LoneOK
    <3> QED BY <3>4, <3>5, <3>6, <3>7 DEF RequestOK
  <2> QED BY <2>1, <2>2
<1> QED BY <1>5, <1>6, <1>9, <1>10 DEF IndInv

\* A request that a database error refuses has no more to answer for than one
\* that a restart ends.
LEMMA StatementFailsOK ==
  ASSUME IndInv, NEW s \in Requests, StatementFails(s)
  PROVE  IndInv'
<1>0. TypeOK
  BY DEF IndInv
<1>1. InService(s) /\ faults > 0 /\ faults' = faults - 1 /\ hit' = hit \cup {s}
      /\ UNCHANGED <<tables, audit, changed, said>>
  BY DEF StatementFails
<1>2. PICK a \in Asks : a = run[s].ask
  BY <1>0, <1>1, Service
<1>3. PICK st : st = Done(a, "error")
  OBVIOUS
<1>4. st \in Ended /\ st.pc = "done" /\ st.kind = a.kind
  BY <1>3 DEF Done, Ended
<1>5. Step(s, st)
  BY <1>2, <1>3 DEF StatementFails
<1>6. Moves(s, st)
  BY <1>1, <1>2, <1>4, <1>5 DEF Moves
<1>7. faults' \in 0..MaxFaults
  BY <1>0, <1>1, ConstantsAssumption DEF TypeOK
<1>8. ASSUME run'[s] = st PROVE RequestOK(s)'
  <2>1. RefusedOK(s)' /\ AuditedOK(s)'
    BY <1>1 DEF RefusedOK, AuditedOK
  <2> QED BY <1>4, <1>8, <2>1, DoneOK
<1> QED BY <1>1, <1>4, <1>6, <1>7, <1>8, QuietOK DEF tables

LEMMA InitOK ==
  ASSUME Init
  PROVE  IndInv
<1>1. /\ rows = FirstRows /\ companies = FirstCompanies /\ members = {} /\ audit = {}
      /\ run = [r \in Requests |-> New] /\ faults = MaxFaults /\ changed = {} /\ together = {} /\ hit = {}
      /\ project = [maintainerRef |-> "old", maturity |-> "old"]
      /\ said = [i \in DOMAIN rows |-> rows[i].status]
  BY DEF Init
<1>2. rows \in Seq(Row) /\ companies \in Seq(Company)
  BY <1>1, FirstAssumption
<1>3. said \in Seq(Statuses) /\ Len(said) = Len(rows) /\ \A i \in DOMAIN rows : said[i] = rows[i].status
  <2>1. DOMAIN rows = 1..Len(rows) /\ Len(rows) \in Nat /\ \A i \in DOMAIN rows : rows[i] \in Row
    BY <1>2
  <2>2. said \in [1..Len(rows) -> Statuses]
    BY <1>1, <2>1 DEF Row
  <2>3. said \in Seq(Statuses)
    BY <2>1, <2>2, SeqDef
  <2>4. DOMAIN said = 1..Len(said) /\ Len(said) \in Nat /\ DOMAIN said = 1..Len(rows)
    BY <2>2, <2>3
  <2>5. Len(said) = Len(rows)
    <3>1. \A m, n \in Nat : 1..m = 1..n => m = n
      OBVIOUS
    <3>2. 1..Len(said) = 1..Len(rows) /\ Len(said) \in Nat /\ Len(rows) \in Nat
      BY <2>1, <2>4
    <3> QED BY <3>1, <3>2
  <2> QED BY <1>1, <2>3, <2>5
<1>4. \A r \in Requests : run[r].pc = "new" /\ ~InService(r)
  BY <1>1 DEF New, InService
<1>5. TypeOK
  <2>1. run \in [Requests -> Serving \cup Ended \cup {New}]
    BY <1>1
  <2>2. faults \in 0..MaxFaults
    BY <1>1, ConstantsAssumption
  <2>3. \A f \in {"maintainerRef", "maturity"} : f \in DOMAIN project
    BY <1>1
  <2> QED BY <1>1, <1>2, <1>3, <2>1, <2>2, <2>3 DEF TypeOK
<1>6. Pairs
  BY <1>4 DEF Pairs
<1>7. RefsKnown /\ CompanyRefsAreLive
  BY <1>1, FirstAssumption DEF RefsKnown, CompanyRefsAreLive, Live
<1>8. StaffStatusStands
  BY <1>3 DEF StaffStatusStands
<1>9. OneRowPerHandle
  BY <1>1, FirstAssumption DEF OneRowPerHandle
<1>10. NoCaseTwins
  BY <1>1, FirstAssumption DEF NoCaseTwins
<1>11. ASSUME NEW r \in Requests PROVE RequestOK(r)
  <2>1. Marks(r) = {}
    BY <1>1 DEF Marks
  <2> QED BY <1>4, <2>1 DEF RequestOK, At, InService, ShapeOK, MarksOK, CompanyOK, StatusOK, HandleOK,
                            NameOK, LoneOK, RefusedOK, AuditedOK
<1> QED BY <1>5, <1>6, <1>7, <1>8, <1>9, <1>10, <1>11 DEF IndInv, TablesOK

LEMMA NextOK ==
  ASSUME IndInv, [Next]_vars
  PROVE  IndInv'
<1>1. CASE Restart
  BY <1>1, RestartOK
<1>2. ASSUME NEW s \in Requests, Arrive(s) PROVE IndInv'
  <2>1. run[s].pc = "new"
    BY <1>2 DEF Arrive
  <2>2. PICK a \in Asks : \/ EditAuthorize(s, a) \/ AddLook(s, a) \/ BulkStatus(s, a)
                          \/ CreateLook(s, a) \/ MergeCheck(s, a) \/ ProjectRead(s, a)
    BY <1>2 DEF Arrive
  <2> QED BY <2>1, <2>2, EditAuthorizeOK, AddLookOK, BulkStatusOK, CreateLookOK, MergeCheckOK, ProjectReadOK
<1>3. ASSUME NEW s \in Requests, Proceed(s) PROVE IndInv'
  <2>1. CASE EditRead(s) \/ DetailsCheck(s) \/ DetailsWrite(s) \/ EditAudit(s)
    BY <2>1, EditReadOK, DetailsCheckOK, DetailsWriteOK, EditAuditOK
  <2>2. CASE AddFind(s) \/ AddCommit(s) \/ AddAudit(s)
    BY <2>2, AddFindOK, AddCommitOK, AddAuditOK
  <2>3. CASE CreateInsert(s) \/ CreateAudit(s) \/ MergeCommit(s)
    BY <2>3, CreateInsertOK, CreateAuditOK, MergeCommitOK
  <2>4. CASE ProjectWrite(s) \/ ProjectAudit(s) \/ StatementFails(s)
    BY <2>4, ProjectWriteOK, ProjectAuditOK, StatementFailsOK
  <2> QED BY <1>3, <2>1, <2>2, <2>3, <2>4 DEF Proceed
<1>4. CASE UNCHANGED vars
  <2>1. UNCHANGED <<rows, companies, members, project, audit, run, faults, changed, together, hit, said>>
    BY <1>4 DEF vars, tables, history
  <2>2. TypeOK' /\ Pairs'
    BY <2>1 DEF IndInv, TypeOK, Pairs, InService
  <2>3. TablesOK'
    <3>1. RefsKnown' /\ CompanyRefsAreLive'
      BY <2>1 DEF IndInv, TablesOK, RefsKnown, CompanyRefsAreLive, Live, Changers, Mergers, Overlapped
    <3>2. StaffStatusStands' /\ NoCaseTwins'
      BY <2>1 DEF IndInv, TablesOK, StaffStatusStands, NoCaseTwins, Changers, Overlapped
    <3>3. OneRowPerHandle'
      <4>1. (\A i, f : Changers(i, f)' = Changers(i, f)) /\ (\A r : Kind(r)' = Kind(r))
              /\ \A r, t : Overlapped(r, t)' <=> Overlapped(r, t)
        BY <2>1 DEF Changers, Overlapped, Kind
      <4> QED BY <2>1, <4>1 DEF IndInv, TablesOK, OneRowPerHandle
    <3> QED BY <3>1, <3>2, <3>3 DEF TablesOK
  <2>4. ASSUME NEW r \in Requests PROVE RequestOK(r)'
    <3>0. RequestOK(r)
      BY DEF IndInv
    <3>1. ShapeOK(r)' /\ MarksOK(r)'
      BY <2>1, <3>0 DEF RequestOK, ShapeOK, MarksOK, Marks, At, InService, Mark
    <3>2. CompanyOK(r)'
      BY <2>1, <3>0 DEF RequestOK, CompanyOK, Held, Excusable, Mergers, Changers, Overlapped, At
    <3>3. StatusOK(r)' /\ NameOK(r)'
      BY <2>1, <3>0 DEF RequestOK, StatusOK, NameOK, SameName, Changers, Overlapped, At
    <3>4. HandleOK(r)'
      BY <2>1, <3>0 DEF RequestOK, HandleOK, Apart, Given, Excused, Kind, Changers, Overlapped, At
    <3>5. LoneOK(r)'
      BY <2>1, <3>0 DEF RequestOK, LoneOK, Lone, Overlapped, At, Marks, RowMarks, Mark, Differ, Asked,
                        Found, ByHandle, ByEmail, Fills, CompanyExists, Live
    <3>6. RefusedOK(r)' /\ AuditedOK(r)'
      BY <2>1, <3>0 DEF RequestOK, RefusedOK, AuditedOK, Lone, Overlapped, Marks, RowMarks, Mergers, Changers
    <3> QED BY <3>1, <3>2, <3>3, <3>4, <3>5, <3>6 DEF RequestOK
  <2> QED BY <2>2, <2>3, <2>4 DEF IndInv
<1> QED BY <1>1, <1>2, <1>3, <1>4 DEF Next

LEMMA Invariance == Spec => []IndInv
<1>1. Init => IndInv
  BY InitOK
<1>2. IndInv /\ [Next]_vars => IndInv'
  BY NextOK
<1> QED BY <1>1, <1>2, PTL DEF Spec

\* The tables keep their types, whatever requests come in and however their
\* statements interleave: statuses that are written are valid ones.
THEOREM TypeCorrect == Spec => []TypeOK
<1>1. IndInv => TypeOK
  BY DEF IndInv
<1> QED BY <1>1, Invariance, PTL

\* MergeCompanies, UpsertMaintainer and UpdateMaintainerDetails leave a
\* maintainer on a deleted company only if who put them there overlapped with
\* the merge.
THEOREM OnlyRacesStrand == Spec => []CompanyRefsAreLive
<1>1. IndInv => CompanyRefsAreLive
  BY DEF IndInv, TablesOK
<1> QED BY <1>1, Invariance, PTL

\* A status that staff decided is undone only by a request that overlapped
\* with the decision.
THEOREM DecisionsStand == Spec => []StaffStatusStands
<1>1. IndInv => StaffStatusStands
  BY DEF IndInv, TablesOK
<1> QED BY <1>1, Invariance, PTL

\* Two rows with one handle, and two companies whose names differ only in case,
\* are the work of requests that overlapped (or of a handle that staff typed).
THEOREM OnlyRacesDuplicate == Spec => []NoTwins
<1>1. IndInv => NoTwins
  BY DEF IndInv, TablesOK, NoTwins
<1> QED BY <1>1, Invariance, PTL

\* An addition whose membership is committed is answered with an error only if
\* a statement of UpdateMaintainerDetails failed, or a merge that overlapped
\* took its company away.
THEOREM RefusalsAreExcused == Spec => []RefusedAfterCommit
<1>1. ASSUME IndInv PROVE RefusedAfterCommit
  <2> SUFFICES ASSUME NEW r \in Requests, NEW i \in DOMAIN rows,
                      <<r, "member", i, "project">> \in changed,
                      run[r].pc = "done", run[r].answer = "error", r \notin hit
               PROVE  \E c \in DOMAIN companies :
                        \E s \in Mergers(c), t \in Changers(i, "company") \cup {r} : Overlapped(s, t)
    BY DEF RefusedAfterCommit
  <2>1. PICK e : e = <<r, "member", i, "project">>
    OBVIOUS
  <2>2. e \in Marks(r) /\ e[2] = "member" /\ e[3] = i
    BY <2>1 DEF Marks
  <2>3. RefusedOK(r)
    BY <1>1 DEF IndInv, RequestOK
  <2> QED BY <2>2, <2>3 DEF RefusedOK
<1> QED BY <1>1, Invariance, PTL

\* What a request changed while it was served alone, and without a fault, is in
\* its audit entry, the membership too unless the addition changed no field.
THEOREM AuditIsComplete == Spec => []LoneChangesAreAudited
<1>1. ASSUME IndInv PROVE LoneChangesAreAudited
  <2> SUFFICES ASSUME NEW e \in changed, run[e[1]].pc = "done", Kind(e[1]) \notin {"bulk", "merge"},
                      Lone(e[1]), e[1] \notin hit
               PROVE  e \in audit \/ (e[2] = "member" /\ LeftAsItWas(e[1], e[3]))
    BY DEF LoneChangesAreAudited
  <2>1. PICK r \in Requests : r = e[1]
    BY <1>1 DEF IndInv, TypeOK
  <2>2. e \in Marks(r)
    BY <2>1 DEF Marks
  <2>3. AuditedOK(r) /\ Kind(r) = run[r].kind
    BY <1>1, <2>1 DEF IndInv, RequestOK, Kind
  <2>4. RowMarks(r) = {} \/ Marks(r) \subseteq audit
    BY <2>1, <2>3 DEF AuditedOK
  <2>5. ASSUME RowMarks(r) = {} PROVE e[2] = "member" /\ LeftAsItWas(r, e[3])
    <3>1. \A x \in Marks(r) : x[2] = "member"
      BY <2>5 DEF RowMarks
    <3>2. ASSUME NEW f \in Fields, r \in Changers(e[3], f) PROVE FALSE
      <4>1. PICK x : x = <<r, "row", e[3], f>>
        OBVIOUS
      <4>2. x \in Marks(r) /\ x[2] = "row"
        BY <3>2, <4>1 DEF Changers, Marks
      <4> QED BY <3>1, <4>2
    <3> QED BY <2>2, <3>1, <3>2 DEF LeftAsItWas
  <2> QED BY <2>1, <2>2, <2>4, <2>5
<1> QED BY <1>1, Invariance, PTL
===============================================================================
