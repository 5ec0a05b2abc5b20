------------------------- MODULE MCMessageProcessing -------------------------
(* One message whose handler may or may not answer it with one reply, and two   *)
(* workers that share an identity.                                             *)
EXTENDS MessageProcessing

CONSTANTS m1, r1, w1, w2, replica

MCCommands == {m1, r1}
MCReplies == {r1}
MCReplyTo == [r \in MCReplies |-> m1]
MCTwoWorkers == {w1, w2}

MCIdentity == [w \in Workers |-> replica]
MCSilent == MCReplies
MCDelays == {0}
=============================================================================
