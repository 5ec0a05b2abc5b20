---------------------------- MODULE ReplyDelivery ----------------------------
(***************************************************************************)
(* owner_reply.deliver: DeliverOwnerReplyService posts a stored reply to    *)
(* the owner's channel through an adapter (SlackOwnerReplyAdapter,          *)
(* TelnyxOwnerReplyAdapter) that keeps a ledger of receipts, because the    *)
(* channels accept no idempotency key.                                      *)
(*                                                                         *)
(* Every command here is an owner_reply command, and a dispatch of one is   *)
(* refined into the service's steps.  The receipts of both adapters say     *)
(* "accepted", so the early return for a reply that is already "delivered"  *)
(* is never taken and is left out.                                          *)
(***************************************************************************)
EXTENDS Outbox

VARIABLES
  place,     \* where worker w is in deliver()
  receipts,  \* replies with a receipt in the ledger
  recorded,  \* replies whose outbound row carries the receipt
  posts,     \* posts of c the provider has accepted
  gaps       \* history: posts of c that were accepted without a receipt of theirs

replyVars == <<place, receipts, recorded, posts, gaps>>
deliveryVars == <<vars, replyVars>>

Places == {"none", "send", "receipt", "record", "sent", "failed"}

DeliveryTypeOK ==
  /\ place \in [Workers -> Places]
  /\ receipts \subseteq Commands
  /\ recorded \subseteq Commands
  /\ posts \in [Commands -> Nat]
  /\ gaps \in [Commands -> Nat]

DeliveryInit ==
  /\ Init
  /\ place = [w \in Workers |-> "none"]
  /\ receipts = {}
  /\ recorded = {}
  /\ posts = [c \in Commands |-> 0]
  /\ gaps = [c \in Commands |-> 0]

-----------------------------------------------------------------------------
Standing(w, p) == stage[w] = "dispatch" /\ place[w] = p

GoOn(w, p) == place' = [place EXCEPT ![w] = p]

\* delivery_key: the reply, by its conversation and correlation id.
DeliveryKey(w) == handling[w]

\* A ledger that is not asked (mutant).
NoReceipt(w) == FALSE

HasReceipt(w) == DeliveryKey(w) \in receipts

\* The adapter looks the delivery key up before it posts.
Find(w) ==
  /\ Standing(w, "none")
  /\ GoOn(w, IF HasReceipt(w) THEN "record" ELSE "send")
  /\ UNCHANGED <<vars, receipts, recorded, posts, gaps>>

\* The provider accepts the post, and its answer arrives or is lost.
Post(w) ==
  /\ Standing(w, "send")
  /\ posts' = [posts EXCEPT ![handling[w]] = @ + 1]
  /\ \/ GoOn(w, "receipt") /\ gaps' = gaps
     \/ GoOn(w, "failed") /\ gaps' = [gaps EXCEPT ![handling[w]] = @ + 1]
  /\ UNCHANGED <<vars, receipts, recorded>>

\* No routing, nothing to send, a refusal, or no connection.
SendFails(w) ==
  /\ Standing(w, "send")
  /\ GoOn(w, "failed")
  /\ UNCHANGED <<vars, receipts, recorded, posts, gaps>>

\* The ledger entry, in a transaction of its own; the first one is kept.
RecordReceipt(w) ==
  /\ Standing(w, "receipt")
  /\ \/ /\ receipts' = receipts \cup {DeliveryKey(w)}
        /\ GoOn(w, "record")
        /\ gaps' = gaps
     \/ /\ GoOn(w, "failed")
        /\ gaps' = [gaps EXCEPT ![handling[w]] = @ + 1]
        /\ receipts' = receipts
  /\ UNCHANGED <<vars, recorded, posts>>

\* record_delivery, in the service's second transaction.
RecordDelivery(w) ==
  /\ Standing(w, "record")
  /\ \/ recorded' = recorded \cup {handling[w]} /\ GoOn(w, "sent")
     \/ recorded' = recorded /\ GoOn(w, "failed")
  /\ UNCHANGED <<vars, receipts, posts, gaps>>

Deliver(w) ==
  Find(w) \/ Post(w) \/ SendFails(w) \/ RecordReceipt(w) \/ RecordDelivery(w)

\* A lost answer taken for a delivery (mutant).
SentOrFailed(w) == place[w] \in {"sent", "failed"}

Sent(w) == place[w] = "sent"

\* deliver() has returned or raised.
ReturnDelivery(w) ==
  /\ place[w] \in {"sent", "failed"}
  /\ Return(w, IF Sent(w) THEN "ok" ELSE "error")
  /\ GoOn(w, "none")
  /\ UNCHANGED <<receipts, recorded, posts, gaps>>

LoopDelivery(w) ==
  /\ \/ ClaimBatch(w)
     \/ \E c \in Commands : Dispatch(w, c)
     \/ MarkSucceeded(w)
     \/ MarkFailed(w)
     \/ LoseLease(w)
     \/ Notify(w)
     \/ Restart(w)
  /\ UNCHANGED replyVars

\* A process that dies between the post and its receipt leaves no trace of it.
CrashDelivery(w) ==
  /\ Crash(w)
  /\ GoOn(w, "none")
  /\ gaps' = IF Standing(w, "receipt")
             THEN [gaps EXCEPT ![handling[w]] = @ + 1] ELSE gaps
  /\ UNCHANGED <<receipts, recorded, posts>>

DeliveryWork(w) == Deliver(w) \/ ReturnDelivery(w) \/ LoopDelivery(w)

DeliveryNext ==
  \/ \E w \in Workers : DeliveryWork(w) \/ CrashDelivery(w)
  \/ (Tick \/ \E c \in Commands : Enqueue(c)) /\ UNCHANGED replyVars

DeliverySafeSpec == DeliveryInit /\ [][DeliveryNext]_deliveryVars

DeliverySpec ==
  /\ DeliverySafeSpec
  /\ \A w \in Workers : WF_deliveryVars(DeliveryWork(w))
  /\ WF_deliveryVars(Tick /\ UNCHANGED replyVars)

-----------------------------------------------------------------------------
\* A reply is posted again only because an earlier post left no receipt, or
\* because a worker outlived its lease and posts next to the one that took over:
\* the ledger holds against every other crash, failure and retry.
RepeatsOnlyInTheGap == \A c \in Commands : posts[c] <= 1 + gaps[c] + stalls

\* A reply reported as delivered was posted, and both the ledger and the row of
\* the reply say so, whatever was retried, lost or run twice before.
DeliveredIsRecorded ==
  \A c \in Commands :
    status[c] = "succeeded" => posts[c] > 0 /\ c \in receipts \cap recorded
=============================================================================
