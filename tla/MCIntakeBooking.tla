--------------------------- MODULE MCIntakeBooking ---------------------------
(* A chat on the web site and one in a verified session of the same customer, *)
(* two times, a worker that arranges.                                         *)
EXTENDS IntakeBooking, TLC

CONSTANTS web, portal, s1, s2, w1

MCConversations == {web, portal}
MCPortal == {portal}
MCSlots == {s1, s2}
MCWorkers == {w1}
MCSymmetry == Permutations(MCSlots)
=============================================================================
