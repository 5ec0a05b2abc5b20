-------------------------- MODULE MCReplyDelivery --------------------------
(* One reply and two workers that share an identity: everything a reply can *)
(* meet, since replies have nothing in common but the workers.               *)
EXTENDS ReplyDelivery

CONSTANTS r1, w1, w2, replica

MCCommands == {r1}
MCWorkers == {w1, w2}
MCIdentity == [w \in MCWorkers |-> replica]
MCDelays == {0}
=============================================================================
