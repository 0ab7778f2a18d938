--------------------------- MODULE MCRebuildTask ---------------------------
(* Values of RebuildTask's constants for TLC. *)
EXTENDS RebuildTask, TLC

CONSTANTS t1, t2, w1, w2
=============================================================================
