----------------------------- MODULE MCAdmission -----------------------------
(* Instances of Admission for TLC. *)
EXTENDS Admission, TLC

CONSTANTS r1, r2, r3, r4, r5

Symmetry == Permutations(Requests \ Impersonated) \cup Permutations(Impersonated)

\* Two halves to a token; the minute refills a token in two ticks, the hour one
\* in four, and both are full again when their key expires.
SmallCap == [w \in Windows |-> 4]
SmallRate == [w \in Windows |-> IF w = "minute" THEN 2 ELSE 1]
=============================================================================
