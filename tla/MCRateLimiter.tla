--------------------------- MODULE MCRateLimiter ---------------------------
(* Values of RateLimiter's constants for TLC. *)
EXTENDS RateLimiter, TLC

CONSTANTS u1, u2, r1, r2, r3, ip1, p1

Sym == Permutations({r2, r3})

From(u) == [user |-> u, ip |-> ip1, proc |-> p1]

MCLimit == u1 :> 1 @@ u2 :> 2

MCSender == r1 :> From(u2) @@ r2 :> From(u1) @@ r3 :> From(u1)
=============================================================================
