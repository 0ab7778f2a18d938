--------------------------- MODULE MCStripeEvents ---------------------------
(* Values of StripeEvents' constants for TLC: a purchase and a cancellation. *)
EXTENDS StripeEvents, TLC

CONSTANTS e1, e2, h1, h2

Sym == Permutations({h1, h2})

MCKind == e1 :> "checkout" @@ e2 :> "deleted"
=============================================================================
