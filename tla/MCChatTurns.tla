----------------------------- MODULE MCChatTurns -----------------------------
(* Values of ChatTurns' constants for TLC. *)
EXTENDS ChatTurns, TLC

CONSTANTS u1, u2, t1, t2, q1, q2, q3, r1, r2

MCOwner == (t1 :> u1) @@ (t2 :> u2)
MCAlike == ({q1, q2} \X {q1, q2}) \cup {<<q3, q3>>}
MCEarlier == (t1 :> 3) @@ (t2 :> 1)
MCSilent == (t1 :> {6}) @@ (t2 :> {})
Turned == Permutations({r1, r2}) \cup Permutations({q1, q2})
=============================================================================
