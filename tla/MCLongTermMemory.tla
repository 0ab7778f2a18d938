-------------------------- MODULE MCLongTermMemory --------------------------
(* Values of LongTermMemory's constants for TLC. *)
EXTENDS LongTermMemory, TLC

CONSTANTS s1, e1
=============================================================================
