-------------------------- MODULE MCCodeScannerFossa --------------------------
(***************************************************************************)
(* Instances of CodeScannerFossa for TLC.                                  *)
(***************************************************************************)
EXTENDS CodeScannerFossa, TLC

CONSTANTS p1, p2, u1, u2

\* The address of u2 is part of the address of u1.
OneEmbed == {<<u1, u2>>}

\* Any list of addresses, and the list of all of them.
AnyList == SUBSET People
FullList == {People}
=============================================================================
