---------------------------- MODULE MCAuthTokens ----------------------------
(* Values of AuthTokens' constants for TLC. *)
EXTENDS AuthTokens, TLC

CONSTANTS a1, a2, f1, q1, q2

Sym == Permutations({q1, q2}) \cup Permutations({a1, a2})
=============================================================================
