------------------------------ MODULE MCOutbox ------------------------------
(* The outbox for TLC: two workers that share one identity, which is the worst *)
(* case for the fence: only the generation tells their claims apart.           *)
EXTENDS Outbox

CONSTANTS c1, c2, w1, w2, replica

MCCommands == {c1, c2}
MCWorkers == {w1, w2}
MCIdentity == [w \in MCWorkers |-> replica]
MCSilent == {c2}
MCDelays == {1}
=============================================================================
