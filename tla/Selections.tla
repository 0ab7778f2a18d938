----------------------------- MODULE Selections -----------------------------
(***************************************************************************)
(* Python's [x for x in s if ...]: the elements of a sequence at the       *)
(* indices that pass a condition, in their order.  It is SelectSeq without *)
(* recursion, so that what it returns can be proved.                       *)
(***************************************************************************)
EXTENDS Integers, FiniteSets

\* The place of index i among the indices K.
Rank(K, i) == Cardinality({j \in K : j <= i})

AtIndices(s, K) ==
    [n \in 1 .. Cardinality(K) |-> s[CHOOSE i \in K : Rank(K, i) = n]]
=============================================================================
