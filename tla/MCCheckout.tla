----------------------------- MODULE MCCheckout -----------------------------
(* A quote with two checkout sessions, two requests at a time and one payment *)
(* by check.                                                                  *)
EXTENDS Checkout, TLC

CONSTANTS r1, r2, c1

MCRequests == {r1, r2}
MCChecks == {c1}
MCDelayed == {1}
MCSymmetry == Permutations(MCRequests)
=============================================================================
