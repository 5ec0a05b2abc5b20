------------------------------ MODULE MCPlans ------------------------------
(* Plans on a small instance: payments of one and of two months. *)
EXTENDS Plans, TLC

CONSTANTS r1, r2, k1, k2

TwoRequests == {r1, r2}
TwoKeys == {k1, k2}
TwoMonths == (k1 :> 1) @@ (k2 :> 2)
Symmetry == Permutations(TwoRequests)
=============================================================================
