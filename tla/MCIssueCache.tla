----------------------------- MODULE MCIssueCache -----------------------------
(***************************************************************************)
(* Instances of IssueCache for TLC.                                        *)
(***************************************************************************)
EXTENDS IssueCache, TLC

CONSTANTS i1, i2, n1, q1, q2

\* The title of i2 has no project name.
OneName == (i1 :> n1) @@ (i2 :> None)

\* Two issues for one project.
SameName == (i1 :> n1) @@ (i2 :> n1)

SameRequests == Permutations({q1, q2})
=============================================================================
