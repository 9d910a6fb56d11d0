----------------------------- MODULE MCOnboarding -----------------------------
(***************************************************************************)
(* Instances of Onboarding for TLC.                                        *)
(***************************************************************************)
EXTENDS Onboarding, TLC

CONSTANTS p1, p2, p3, n1, n2, m1, m2, staff, d1, d2

\* p1 and p2 are namesakes, p3 is not.
Namesakes == [p \in Projects |-> IF p = p3 THEN n2 ELSE n1]

\* p1 may have both maintainers, the other projects none.
OnlyOfP1 == [p \in Projects |-> IF p = p1 THEN {m1, m2} ELSE {}]

\* The address of m1 is part of the one of m2.
M1InsideM2 == {<<m2, m1>>}

NobodyAssigned == [n \in Names |-> {}]

\* m1 is assigned to the issue of n2 only.
M1OnN2 == [n \in Names |-> IF n = n2 THEN {m1} ELSE {}]

DeliverySymmetry == Permutations(Deliveries)
=============================================================================
