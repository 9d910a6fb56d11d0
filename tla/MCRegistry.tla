------------------------------ MODULE MCRegistry ------------------------------
(* Instances of Registry for TLC. *)
EXTENDS Registry, TLC

MCNames == {"Acme", "Beta", "Zeta", "ZETA"}
MCLower == [n \in MCNames |-> IF n = "ZETA" THEN "Zeta" ELSE n]

MCRows == << [github |-> "ann", email |-> "a@x", status |-> "Active", company |-> 1],
             [github |-> Missing, email |-> "b@x", status |-> "Retired", company |-> 0] >>
MCCompanies == << [name |-> "Beta", live |-> TRUE], [name |-> "Acme", live |-> TRUE] >>

Edit(i, h, e, s, c) == [kind |-> "edit", row |-> i, github |-> h, email |-> e,
                        status |-> s, company |-> c]
Self(i, h, e, s, c) == [kind |-> "self", login |-> h, row |-> i, email |-> e,
                        status |-> s, company |-> c]
Add(h, e, n) == [kind |-> "add", github |-> h, email |-> e, company |-> n]
Bulk(ids, s) == [kind |-> "bulk", rows |-> ids, status |-> s]
Create(n) == [kind |-> "create", name |-> n]
Merge(c, d) == [kind |-> "merge", from |-> c, to |-> d]
Set(f, v) == [kind |-> "project", field |-> f, value |-> v]

Sym == Permutations(Requests)

\* Each kind, with its ways to collide with the others.
MCAsks ==
  { Edit(1, "ann", "a@x", "Retired", 2), Edit(2, "ann", "b@x", "Active", 1),
    Edit(3, "cyd", Missing, "Emeritus", 0), Edit(2, "bob", "b@x", "Gone", 0),
    Self(1, "ann", Missing, "Retired", 1), Self(2, "ann", "b@x", "Active", 0),
    Add("bob", "b@x", "Acme"), Add("bob", Missing, "Zeta"), Add("ann", "b@x", Blank),
    Add("bob", Missing, Blank), Add("cyd", "b@x", "Zeta"),
    Bulk({1, 2}, "Active"), Bulk({1, 2}, "Retired"),
    Create("ZETA"), Create("Zeta"), Merge(2, 1), Merge(1, 2),
    Set("maturity", "new"), Set("maintainerRef", "new") }
===============================================================================
