----------------------------- MODULE MCWebSession -----------------------------
(* Instances of WebSession for TLC. *)
EXTENDS WebSession, TLC

Sym == Permutations(Browsers) \cup Permutations(States) \cup Permutations(Sessions)
===============================================================================
