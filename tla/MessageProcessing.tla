-------------------------- MODULE MessageProcessing --------------------------
(***************************************************************************)
(* Owner messages: IngestOwnerMessageService stores a message and enqueues  *)
(* one owner_message.process command for it; ProcessOwnerMessageService     *)
(* turns that command, dispatched at least once, into one workflow run whose *)
(* replies are stored and enqueued once.                                    *)
(*                                                                         *)
(* The outbox is the one of Outbox.tla: a message is identified with its     *)
(* process command, a reply with its owner_reply command, and the dispatch   *)
(* of a process command is refined into the transactions of process().      *)
(* A workflow run is leased like an outbox row, but by a token: every claim  *)
(* takes a fresh one, here the number of claims so far.                     *)
(***************************************************************************)
EXTENDS Outbox

CONSTANTS
  Replies,   \* the replies a handler may produce, by their correlation ids
  ReplyTo    \* ReplyTo[r]: the message r is a reply to

Messages == Commands \ Replies
RepliesTo(m) == {r \in Replies : ReplyTo[r] = m}

ASSUME ProcessingAssumption ==
  /\ Replies \subseteq Commands
  /\ ReplyTo \in [Replies -> Messages]

VARIABLES
  run,       \* the run's status, "none" before the first claim
  token,     \* the run's lease_token
  runLease,  \* time until leased_at is stale
  resolved,  \* the run's intent is stored
  author,    \* author[r]: the token whose handler's reply r is stored, 0 if none
  step,      \* where worker w is in process()
  mine,      \* the token worker w was granted
  produced   \* the replies of w's handler, and its result status

runVars == <<run, token, runLease, resolved, author>>
processVars == <<step, mine, produced>>
allVars == <<vars, runVars, processVars>>

RunStatuses == {"none", "running", "succeeded", "failed"}
\* The ways process() ends ("error": an exception of its second transaction;
\* an unknown intent ends as a handler that failed does).
Outcomes == {"already_processed", "busy", "lease_lost", "intent_unresolved",
             "handler_failed", "error", "completed"}
Steps == {"none", "resolve", "handle", "persist"} \cup Outcomes

\* Handlers that report failure have no replies.
FailedResult == [replies |-> {}, status |-> "failed"]
Results == [replies : SUBSET Replies, status : {"succeeded", "failed"}]
NoResult == [replies |-> {}, status |-> "succeeded"]

ProcessingTypeOK ==
  /\ run \in [Messages -> RunStatuses]
  /\ token \in [Messages -> Nat]
  /\ runLease \in [Messages -> Nat]
  /\ resolved \in [Messages -> BOOLEAN]
  /\ author \in [Replies -> Nat]
  /\ step \in [Workers -> Steps]
  /\ mine \in [Workers -> Nat]
  /\ produced \in [Workers -> Results]

ProcessingInit ==
  /\ Init
  /\ run = [m \in Messages |-> "none"]
  /\ token = [m \in Messages |-> 0]
  /\ runLease = [m \in Messages |-> 0]
  /\ resolved = [m \in Messages |-> FALSE]
  /\ author = [r \in Replies |-> 0]
  /\ step = [w \in Workers |-> "none"]
  /\ mine = [w \in Workers |-> 0]
  /\ produced = [w \in Workers |-> NoResult]

-----------------------------------------------------------------------------
(***************************************************************************)
(* The run's row.                                                          *)
(***************************************************************************)

\* Only a succeeded run is terminal to a claim; a failed one is taken again.
Terminal(m) == run[m] = "succeeded"

\* A run that is being worked on, as far as its lease tells.
BusyRun(m) == run[m] = "running" /\ runLease[m] > 0

\* A fence that asks only for a run that is still going (mutant).
RunFencedByStatus(w, m) == run[m] = "running"

\* The WHERE of set_intent, set_error and finish.
RunFenced(w, m) == run[m] = "running" /\ token[m] = mine[w]

\* Replies stored without their commands (mutant).
WithoutQueueing(R) == status

\* The rows once the owner_reply commands of R are enqueued.
WithQueued(R) ==
  [c \in Commands |-> IF c \in R /\ status[c] = "absent" THEN "pending" ELSE status[c]]

-----------------------------------------------------------------------------
(***************************************************************************)
(* process(), one step per transaction or call out of the service.         *)
(***************************************************************************)

At(w, s) == stage[w] = "dispatch" /\ handling[w] \in Messages /\ step[w] = s

Goto(w, s) == step' = [step EXCEPT ![w] = s]

\* The first transaction.
ClaimRun(w) ==
  LET m == handling[w] IN
  /\ At(w, "none")
  /\ \/ /\ Terminal(m)
        /\ Goto(w, "already_processed")
        /\ UNCHANGED <<run, token, runLease, mine>>
     \/ /\ BusyRun(m)
        /\ Goto(w, "busy")
        /\ UNCHANGED <<run, token, runLease, mine>>
     \/ /\ ~Terminal(m) /\ ~BusyRun(m)
        /\ run' = [run EXCEPT ![m] = "running"]
        /\ token' = [token EXCEPT ![m] = @ + 1]
        /\ runLease' = [runLease EXCEPT ![m] = LeaseTtl]
        /\ mine' = [mine EXCEPT ![w] = token[m] + 1]
        /\ Goto(w, IF resolved[m] THEN "handle" ELSE "resolve")
  /\ UNCHANGED <<vars, resolved, author, produced>>

\* The resolver answers, or fails: set_error leaves the run as it is, running
\* under the lease it has.
Resolve(w) ==
  /\ At(w, "resolve")
  /\ \/ Goto(w, "handle")
     \/ RunFenced(w, handling[w]) /\ Goto(w, "intent_unresolved")
     \/ ~RunFenced(w, handling[w]) /\ Goto(w, "lease_lost")
  /\ UNCHANGED <<vars, runVars, mine, produced>>

\* The handler returns its result, kept in memory until it is stored.
HandlerReturns(w) ==
  /\ At(w, "handle")
  /\ \/ \E R \in SUBSET RepliesTo(handling[w]) :
          produced' = [produced EXCEPT ![w] = [replies |-> R, status |-> "succeeded"]]
     \/ produced' = [produced EXCEPT ![w] = FailedResult]
  /\ Goto(w, "persist")
  /\ UNCHANGED <<vars, runVars, mine>>

\* There is no handler for the intent, or it raises: _finish_failed.
HandlerRaises(w) ==
  LET m == handling[w] IN
  /\ At(w, "handle")
  /\ \/ /\ RunFenced(w, m)
        /\ run' = [run EXCEPT ![m] = "failed"]
        /\ resolved' = [resolved EXCEPT ![m] = TRUE]
        /\ Goto(w, "handler_failed")
     \/ /\ ~RunFenced(w, m)
        /\ Goto(w, "lease_lost")
        /\ UNCHANGED <<run, resolved>>
  /\ UNCHANGED <<vars, token, runLease, author, mine, produced>>

\* The second transaction: the intent, the replies with their owner_reply
\* commands, and the run's end are stored together.
Persist(w) ==
  LET m == handling[w]
      R == produced[w].replies
  IN
  /\ At(w, "persist")
  /\ RunFenced(w, m)
  /\ resolved' = [resolved EXCEPT ![m] = TRUE]
  /\ author' = [r \in Replies |-> IF r \in R /\ author[r] = 0 THEN mine[w] ELSE author[r]]
  /\ status' = WithQueued(R)
  /\ run' = [run EXCEPT ![m] = produced[w].status]
  /\ Goto(w, "completed")
  /\ UNCHANGED <<attempts, lockedBy, wait, lease, workerVars, historyVars, budgetVars,
                 token, runLease, mine, produced>>

\* Or it rolls back, because the run was claimed by another or because a row is
\* refused, and stores nothing.  A run whose rows were refused keeps running.
PersistRollsBack(w) ==
  /\ At(w, "persist")
  /\ \/ ~RunFenced(w, handling[w]) /\ Goto(w, "lease_lost")
     \/ RunFenced(w, handling[w]) /\ Goto(w, "error")
  /\ UNCHANGED <<vars, runVars, mine, produced>>

Process(w) ==
  \/ ClaimRun(w)
  \/ Resolve(w)
  \/ HandlerReturns(w)
  \/ HandlerRaises(w)
  \/ Persist(w)
  \/ PersistRollsBack(w)

-----------------------------------------------------------------------------
(***************************************************************************)
(* The outbox around it.                                                   *)
(***************************************************************************)

\* process() forgets everything when it ends, however it ends.
Forget(w) ==
  /\ step' = [step EXCEPT ![w] = "none"]
  /\ mine' = [mine EXCEPT ![w] = 0]
  /\ produced' = [produced EXCEPT ![w] = NoResult]

\* A busy run taken for a processed one (mutant).
RaisingUnlessBusy == Outcomes \ {"already_processed", "completed", "busy"}

\* The outcomes for which _process_owner_message raises.
Raising == Outcomes \ {"already_processed", "completed"}

\* The service has ended and the dispatcher with it.
ReturnProcess(w) ==
  /\ handling[w] \in Messages
  /\ step[w] \in Outcomes
  /\ Return(w, IF step[w] \in Raising THEN "error" ELSE "ok")
  /\ Forget(w)
  /\ UNCHANGED runVars

\* An owner_reply command: what its dispatch does is DeliverOwnerReplyService.
ReturnReply(w) ==
  /\ handling[w] \in Replies
  /\ \E result \in {"ok", "error"} : Return(w, result)
  /\ UNCHANGED <<runVars, processVars>>

\* The other steps of the worker loop leave runs alone.
WorkerLoop(w) ==
  /\ \/ ClaimBatch(w)
     \/ \E c \in Commands : Dispatch(w, c)
     \/ MarkSucceeded(w)
     \/ MarkFailed(w)
     \/ LoseLease(w)
     \/ Notify(w)
     \/ Restart(w)
  /\ UNCHANGED <<runVars, processVars>>

CrashProcess(w) ==
  /\ Crash(w)
  /\ Forget(w)
  /\ UNCHANGED runVars

\* The ingress transaction, once per message.
Ingest(m) ==
  /\ Enqueue(m)
  /\ UNCHANGED <<runVars, processVars>>

\* As Tick, for the leases of the runs too.
TickProcess ==
  /\ \/ Tick
     \/ /\ \A c \in Commands : wait[c] = 0 /\ lease[c] = 0
        /\ \E m \in Messages : runLease[m] > 0
        /\ UNCHANGED vars
  /\ runLease' = [m \in Messages |-> Less(runLease[m])]
  /\ UNCHANGED <<run, token, resolved, author, processVars>>

Work(w) == Process(w) \/ ReturnProcess(w) \/ ReturnReply(w) \/ WorkerLoop(w)

ProcessingNext ==
  \/ \E m \in Messages : Ingest(m)
  \/ \E w \in Workers : Work(w) \/ CrashProcess(w)
  \/ TickProcess

ProcessingSafeSpec == ProcessingInit /\ [][ProcessingNext]_allVars

ProcessingFairness ==
  /\ \A w \in Workers : WF_allVars(Work(w))
  /\ WF_allVars(TickProcess)

ProcessingSpec == ProcessingSafeSpec /\ ProcessingFairness

-----------------------------------------------------------------------------
(***************************************************************************)
(* Properties.                                                             *)
(***************************************************************************)

\* The owner is answered by one run of the handler only: all stored replies to a
\* message come from the claim that finished its run, no claimant that lost the
\* run adds to them, and no later claim does.
RepliesOfOneRun ==
  \A r \in Replies :
    author[r] # 0 =>
      /\ run[ReplyTo[r]] = "succeeded"
      /\ author[r] = token[ReplyTo[r]]

\* A command is reported done only when a result is stored: its run succeeded, or
\* it has a run whose handler reported failure (and which a claimant that is late
\* by now may be repeating).
DoneMeansProcessed ==
  \A m \in Messages : status[m] = "succeeded" => run[m] = "succeeded" \/ resolved[m]

\* Every message ends: its command is dead, or its run is over and every reply
\* stored for it was handed to delivery until that succeeded or was given up.
EveryMessageAnswered ==
  \A m \in Messages :
    status[m] = "pending" ~>
      \/ status[m] = "dead"
      \/ /\ status[m] = "succeeded"
         /\ \A r \in RepliesTo(m) : author[r] # 0 => status[r] \in Settled
=============================================================================
