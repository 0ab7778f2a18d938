---------------------------- MODULE MCRagSystems ----------------------------
(* Values of RagSystems' constants for TLC. *)
EXTENDS RagSystems, TLC

CONSTANTS u1, u2, r1, r2, f1

FileOwner == f1 :> u1
=============================================================================
