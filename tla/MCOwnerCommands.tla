--------------------------- MODULE MCOwnerCommands ---------------------------
(***************************************************************************)
(* Two messages in either of two threads, and two workers.                   *)
(***************************************************************************)
EXTENDS OwnerCommands, TLC

CONSTANTS m1, m2, t1, t2, w1, w2, r1, r2

Symmetry ==
  Permutations({m1, m2}) \cup Permutations({t1, t2}) \cup Permutations({w1, w2})
    \cup Permutations({r1, r2})
=============================================================================
