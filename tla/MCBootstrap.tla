----------------------------- MODULE MCBootstrap -----------------------------
EXTENDS Bootstrap

Cells(p, st, pa, c, e) == [project |-> p, status |-> st, parent |-> pa, company |-> c, email |-> e]
Staff(f, n, e) == [foundation |-> f, name |-> n, email |-> e]

\* b is a subproject of a, with a status that is none of its own; m maintains
\* both and n is on a, in a row that names no project.
Nested ==
  [active |-> <<Cells("a", "Sandbox", "", "acme", "m"), Cells("", "", "", "", "n"),
                Cells("b", "unknown", "a", "zed", "m")>>,
   staff |-> <<Staff("cncf", "x", "n"), Staff("", "y", "n")>>]

\* A row above any project, a row of a project alone, an empty row, and a child above its parent.
Moved ==
  [active |-> <<Cells("", "", "", "acme", "m"), Cells("a", "Graduated", "b", "", ""),
                Cells("", "", "", "", ""),
                Cells("", "", "", "zed", "m"), Cells("b", "", "", "acme", "n")>>,
   staff |-> <<Staff("", "x", "n"), Staff("lf", "x", "")>>]

MCSheets == {Nested, Moved}

\* n is on the worksheet too.
MCAdditions == {[email |-> "n", project |-> "a", company |-> "acme"]}

\* c is no project.
MCFossaUsers ==
  <<[email |-> "z", teams |-> <<"a", "c">>], [email |-> "m", teams |-> <<"a", "b">>]>>
=============================================================================
