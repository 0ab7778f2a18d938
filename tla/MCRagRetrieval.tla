--------------------------- MODULE MCRagRetrieval ---------------------------
(* Values of RagRetrieval's constants for TLC. *)
EXTENDS RagRetrieval, TLC

CONSTANTS c1, c2, c3
=============================================================================
