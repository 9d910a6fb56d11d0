--------------------------- MODULE MCKdpWorkspaces ----------------------------
(* Instances of KdpWorkspaces for TLC. *)
EXTENDS KdpWorkspaces
===============================================================================
