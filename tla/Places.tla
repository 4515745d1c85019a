------------------------------- MODULE Places -------------------------------
(***************************************************************************)
(* What is left of a sequence at a set of its places, in their order.       *)
(***************************************************************************)
EXTENDS Integers, Sequences, FiniteSets

(* How many of the places K lie up to k, and the one of that rank. *)
RankIn(K, k) == Cardinality(K \cap (1..k))
PlaceIn(K, i) == CHOOSE k \in K : RankIn(K, k) = i

Taken(s, K) == [i \in 1..Cardinality(K) |-> s[PlaceIn(K, i)]]
=============================================================================
