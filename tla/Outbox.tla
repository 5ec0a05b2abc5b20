------------------------------- MODULE Outbox -------------------------------
(***************************************************************************)
(* The transactional outbox and the workers that drain it:                 *)
(*   application/outbox_service.py, SqlOutboxRepository,                    *)
(*   composition/dispatcher.py (OutboxWorker), interfaces/worker.py.       *)
(*                                                                         *)
(* A row is a command; a member of Commands stands for the command's       *)
(* deduplication key, so "the same command again" is the same member.      *)
(* Every database transaction is one step: the rows a step changes are     *)
(* locked or updated by one conditional UPDATE.  What a worker holds in     *)
(* memory between its transactions (the claimed records, the one being      *)
(* dispatched) is separate state, and is lost when the process dies.       *)
(*                                                                         *)
(* Time is kept as what remains of it: wait[c] is available_at - now and    *)
(* lease[c] is locked_at + lease_ttl - now, both cut off at 0, since the    *)
(* code only ever compares these instants with the current one.            *)
(***************************************************************************)
EXTENDS Naturals, FiniteSets

CONSTANTS
  Commands,     \* the commands that may be enqueued
  Workers,      \* worker processes
  Identity,     \* Identity[w]: the name worker w writes into locked_by
  Silent,       \* commands whose exhaustion is not reported to the owner
  Delays,       \* the not_before offsets commands are enqueued with
  MaxAttempts,  \* OutboxRecord.max_attempts
  BatchSize, LeaseTtl, RetryIn,  \* WorkerSettings
  MaxCrashes,   \* bound: worker processes killed while they hold a batch
  MaxStalls,    \* bound: ticks in which a live worker outlives its lease
  None          \* no worker, no command

ASSUME OutboxAssumption ==
  /\ IsFiniteSet(Commands)
  /\ Silent \subseteq Commands
  /\ Delays \subseteq Nat
  /\ None \notin Commands
  /\ None \notin {Identity[w] : w \in Workers}
  /\ Identity \in [Workers -> {Identity[w] : w \in Workers}]
  /\ MaxAttempts \in Nat \ {0}
  /\ BatchSize \in Nat \ {0}
  /\ LeaseTtl \in Nat \ {0}
  /\ RetryIn \in Nat \ {0}
  /\ MaxCrashes \in Nat
  /\ MaxStalls \in Nat

VARIABLES
  status,     \* the row's status, "absent" before it is enqueued
  attempts,   \* the row's attempts: the generation of its newest claim
  lockedBy,   \* the row's locked_by
  wait,       \* time until available_at
  lease,      \* time until locked_at is stale
  claims,     \* claims[w][c]: claim_attempts of the record w holds, 0 if none
  stage,      \* where worker w is in run_once
  handling,   \* the record w is dispatching
  verdict,    \* history: how the newest claim's dispatch ended
  handled,    \* history: some dispatch of c returned normally
  notices,    \* failure notices enqueued for c
  crashes, stalls  \* consumed parts of the two budgets

rowVars == <<status, attempts, lockedBy, wait, lease>>
workerVars == <<claims, stage, handling>>
historyVars == <<verdict, handled, notices>>
budgetVars == <<crashes, stalls>>
vars == <<rowVars, workerVars, historyVars, budgetVars>>

Statuses == {"absent", "pending", "in_progress", "succeeded", "failed", "dead"}
Stages == {"idle", "batch", "dispatch", "ok", "error", "notify", "stopped"}
Settled == {"succeeded", "dead"}

TypeOK ==
  /\ status \in [Commands -> Statuses]
  /\ attempts \in [Commands -> Nat]
  /\ lockedBy \in [Commands -> {Identity[w] : w \in Workers} \cup {None}]
  /\ wait \in [Commands -> Nat]
  /\ lease \in [Commands -> Nat]
  /\ claims \in [Workers -> [Commands -> Nat]]
  /\ stage \in [Workers -> Stages]
  /\ handling \in [Workers -> Commands \cup {None}]
  /\ verdict \in [Commands -> {"none", "ok", "error"}]
  /\ handled \in [Commands -> BOOLEAN]
  /\ notices \in [Commands -> Nat]
  /\ crashes \in Nat
  /\ stalls \in Nat

Init ==
  /\ status = [c \in Commands |-> "absent"]
  /\ attempts = [c \in Commands |-> 0]
  /\ lockedBy = [c \in Commands |-> None]
  /\ wait = [c \in Commands |-> 0]
  /\ lease = [c \in Commands |-> 0]
  /\ claims = [w \in Workers |-> [c \in Commands |-> 0]]
  /\ stage = [w \in Workers |-> "idle"]
  /\ handling = [w \in Workers |-> None]
  /\ verdict = [c \in Commands |-> "none"]
  /\ handled = [c \in Commands |-> FALSE]
  /\ notices = [c \in Commands |-> 0]
  /\ crashes = 0
  /\ stalls = 0

-----------------------------------------------------------------------------
(***************************************************************************)
(* Rows.                                                                   *)
(***************************************************************************)

\* Enqueueing a key that already has a row is silently ignored, so only the
\* first enqueue of c is a step.
Enqueue(c) ==
  /\ status[c] = "absent"
  /\ \E d \in Delays : wait' = [wait EXCEPT ![c] = d]
  /\ status' = [status EXCEPT ![c] = "pending"]
  /\ UNCHANGED <<attempts, lockedBy, lease, workerVars, historyVars, budgetVars>>

\* A claim that would also pick up dead commands (mutant).
DueOrDead(c) == status[c] \in {"pending", "failed", "dead"} /\ wait[c] = 0

Due(c) == status[c] \in {"pending", "failed"} /\ wait[c] = 0

\* A claim without the reclaim branch (mutant).
NeverStale(c) == status[c] = "in_progress" /\ FALSE

Stale(c) == status[c] = "in_progress" /\ lease[c] = 0

\* The WHERE of claim_batch.  It does not look at attempts.
Claimable(c) == Due(c) \/ Stale(c)

\* Only retries count as attempts, a reclaim does not (mutant).
RetryGeneration(c) == IF status[c] = "in_progress" THEN attempts[c] ELSE attempts[c] + 1

\* The generation a claim of c takes.
NextGeneration(c) == attempts[c] + 1

\* The fence without the generation, and an update by primary key only (mutants).
FencedByName(w, c) == status[c] = "in_progress" /\ lockedBy[c] = Identity[w]
FencedByKey(w, c) == status[c] # "absent"

\* The WHERE of update(): the row is in progress under exactly this claim.
Fenced(w, c) ==
  /\ status[c] = "in_progress"
  /\ attempts[c] = claims[w][c]
  /\ lockedBy[c] = Identity[w]

\* The status mark_failed writes.
FailedStatus(w, c) == IF claims[w][c] >= MaxAttempts THEN "dead" ELSE "failed"

-----------------------------------------------------------------------------
(***************************************************************************)
(* Workers.  run_once claims a batch, then dispatches and marks its records *)
(* one after the other.                                                    *)
(***************************************************************************)

\* claim_batch: the rows of S become w's, under a new generation each.
Take(w, S) ==
  /\ status' = [c \in Commands |-> IF c \in S THEN "in_progress" ELSE status[c]]
  /\ attempts' = [c \in Commands |-> IF c \in S THEN NextGeneration(c) ELSE attempts[c]]
  /\ lockedBy' = [c \in Commands |-> IF c \in S THEN Identity[w] ELSE lockedBy[c]]
  /\ lease' = [c \in Commands |-> IF c \in S THEN LeaseTtl ELSE lease[c]]
  /\ claims' = [claims EXCEPT ![w] =
                  [c \in Commands |-> IF c \in S THEN NextGeneration(c) ELSE 0]]
  /\ verdict' = [c \in Commands |-> IF c \in S THEN "none" ELSE verdict[c]]
  /\ stage' = [stage EXCEPT ![w] = "batch"]
  /\ UNCHANGED <<wait, handling, handled, notices, budgetVars>>

\* Rows another transaction has locked are skipped, hence any nonempty part of
\* the claimable rows, up to the batch size.
ClaimBatch(w) ==
  /\ stage[w] = "idle"
  /\ \E S \in SUBSET {c \in Commands : Claimable(c)} :
       /\ S # {}
       /\ Cardinality(S) <= BatchSize
       /\ Take(w, S)

\* The next record of the batch is handed to the dispatcher.  Its lease is not
\* looked at again: it may have gone stale while earlier records ran.
Dispatch(w, c) ==
  /\ stage[w] = "batch"
  /\ claims[w][c] # 0
  /\ stage' = [stage EXCEPT ![w] = "dispatch"]
  /\ handling' = [handling EXCEPT ![w] = c]
  /\ UNCHANGED <<rowVars, claims, historyVars, budgetVars>>

\* The dispatched service returns or raises.
Return(w, result) ==
  LET c == handling[w] IN
  /\ stage[w] = "dispatch"
  /\ stage' = [stage EXCEPT ![w] = result]
  /\ verdict' = [verdict EXCEPT ![c] = IF claims[w][c] = attempts[c] THEN result ELSE @]
  /\ handled' = [handled EXCEPT ![c] = @ \/ result = "ok"]
  /\ UNCHANGED <<rowVars, claims, handling, notices, budgetVars>>

\* The record is dealt with; w turns to the rest of its batch.
Drop(w, c) ==
  /\ claims' = [claims EXCEPT ![w][c] = 0]
  /\ handling' = [handling EXCEPT ![w] = None]
  /\ stage' = [stage EXCEPT ![w] =
                 IF \E d \in Commands \ {c} : claims[w][d] # 0 THEN "batch" ELSE "idle"]

\* The process ends: whatever it held in memory is gone, its rows stay locked.
Stop(w) ==
  /\ claims' = [claims EXCEPT ![w] = [c \in Commands |-> 0]]
  /\ handling' = [handling EXCEPT ![w] = None]
  /\ stage' = [stage EXCEPT ![w] = "stopped"]

MarkSucceeded(w) ==
  LET c == handling[w] IN
  /\ stage[w] = "ok"
  /\ Fenced(w, c)
  /\ status' = [status EXCEPT ![c] = "succeeded"]
  /\ lockedBy' = [lockedBy EXCEPT ![c] = None]
  /\ lease' = [lease EXCEPT ![c] = 0]
  /\ Drop(w, c)
  /\ UNCHANGED <<attempts, wait, historyVars, budgetVars>>

MarkFailed(w) ==
  LET c == handling[w] IN
  /\ stage[w] = "error"
  /\ Fenced(w, c)
  /\ status' = [status EXCEPT ![c] = FailedStatus(w, c)]
  /\ wait' = [wait EXCEPT ![c] = RetryIn]
  /\ lockedBy' = [lockedBy EXCEPT ![c] = None]
  /\ lease' = [lease EXCEPT ![c] = 0]
  /\ \/ /\ FailedStatus(w, c) = "dead"
        /\ stage' = [stage EXCEPT ![w] = "notify"]
        /\ UNCHANGED <<claims, handling>>
     \/ /\ FailedStatus(w, c) # "dead"
        /\ Drop(w, c)
  /\ UNCHANGED <<attempts, historyVars, budgetVars>>

\* update() finds no such claim and raises LostOutboxLeaseError.  run_once does
\* not catch it, nor does run_worker: the process ends with its batch undone.
LoseLease(w) ==
  /\ stage[w] \in {"ok", "error"}
  /\ ~Fenced(w, handling[w])
  /\ Stop(w)
  /\ UNCHANGED <<rowVars, historyVars, budgetVars>>

\* A transaction of its own after the one that wrote "dead"; an exception in it
\* is logged and dropped.
Notify(w) ==
  LET c == handling[w] IN
  /\ stage[w] = "notify"
  /\ \/ c \notin Silent /\ notices' = [notices EXCEPT ![c] = @ + 1]
     \/ UNCHANGED notices
  /\ Drop(w, c)
  /\ UNCHANGED <<rowVars, verdict, handled, budgetVars>>

-----------------------------------------------------------------------------
(***************************************************************************)
(* The environment.                                                        *)
(***************************************************************************)

Busy(w) == stage[w] \notin {"idle", "stopped"}

Crash(w) ==
  /\ Busy(w)
  /\ crashes < MaxCrashes
  /\ crashes' = crashes + 1
  /\ Stop(w)
  /\ UNCHANGED <<rowVars, historyVars, stalls>>

\* The platform starts the process again, under the same identity at worst.
Restart(w) ==
  /\ stage[w] = "stopped"
  /\ stage' = [stage EXCEPT ![w] = "idle"]
  /\ UNCHANGED <<rowVars, claims, handling, historyVars, budgetVars>>

Less(n) == IF n = 0 THEN 0 ELSE n - 1

\* A live worker is about to outlive the lease of a record it still holds.
Outlived == \E w \in Workers, c \in Commands :
               /\ status[c] = "in_progress"
               /\ claims[w][c] = attempts[c]
               /\ lease[c] = 1

Tick ==
  /\ \E c \in Commands : wait[c] > 0 \/ lease[c] > 0
  /\ wait' = [c \in Commands |-> Less(wait[c])]
  /\ lease' = [c \in Commands |-> Less(lease[c])]
  /\ \/ ~Outlived /\ stalls' = stalls
     \/ Outlived /\ stalls < MaxStalls /\ stalls' = stalls + 1
  /\ UNCHANGED <<status, attempts, lockedBy, workerVars, historyVars, crashes>>

-----------------------------------------------------------------------------
RunOnce(w) ==
  \/ ClaimBatch(w)
  \/ \E c \in Commands : Dispatch(w, c)
  \/ \E result \in {"ok", "error"} : Return(w, result)
  \/ MarkSucceeded(w)
  \/ MarkFailed(w)
  \/ LoseLease(w)
  \/ Notify(w)

Next ==
  \/ \E c \in Commands : Enqueue(c)
  \/ \E w \in Workers : RunOnce(w) \/ Crash(w) \/ Restart(w)
  \/ Tick

SafeSpec == Init /\ [][Next]_vars

\* The worker loop polls for ever, the platform restarts a dead worker, time
\* passes.  Nobody has to enqueue anything and nobody has to crash.
Fairness ==
  /\ \A w \in Workers : WF_vars(RunOnce(w)) /\ WF_vars(Restart(w))
  /\ WF_vars(Tick)

Spec == SafeSpec /\ Fairness

-----------------------------------------------------------------------------
(***************************************************************************)
(* Properties.                                                             *)
(***************************************************************************)

\* However claims, reclaims, retries and crashes interleave, at most one worker
\* holds a record of the newest generation: every older one has been fenced off
\* (claim_batch increments attempts, update() compares them).
ExclusiveLease ==
  \A c \in Commands : \A v, w \in Workers :
    /\ claims[v][c] # 0
    /\ claims[v][c] = attempts[c]
    /\ claims[w][c] = attempts[c]
    => v = w

\* What the row says is how the dispatch of its newest claim ended: a claimant
\* that outlived its lease never overwrites the row with its own, older result,
\* and a row is only dead once max_attempts claims have been made.
RowReportsNewestClaim ==
  \A c \in Commands :
    /\ status[c] = "succeeded" => verdict[c] = "ok"
    /\ status[c] = "failed" => verdict[c] = "error"
    /\ status[c] = "dead" => verdict[c] = "error" /\ attempts[c] >= MaxAttempts

\* The owner is told of a dead command at most once, and of no other command,
\* whichever workers saw it fail.
OneNoticePerDeadCommand ==
  \A c \in Commands :
    /\ notices[c] <= 1
    /\ notices[c] = 1 => status[c] = "dead" /\ c \notin Silent

\* The outbox does what its users rely on: it stores a command once, reports it
\* done only after its handler returned normally, and settles it once, for good;
\* and it does so in the end: an abandoned lease is reclaimed and a failing command
\* runs out of attempts.
phase == [c \in Commands |->
            CASE status[c] = "absent" -> "absent"
              [] status[c] = "succeeded" -> "done"
              [] status[c] = "dead" -> "dead"
              [] OTHER -> "queued"]

Queue == INSTANCE AtLeastOnceQueue WITH
           Commands <- Commands, phase <- phase, handled <- handled

ImplementsQueue == Queue!Spec

-----------------------------------------------------------------------------
(***************************************************************************)
(* The inductive invariant behind the safety properties.                   *)
(***************************************************************************)

\* No record in a worker's memory is newer than its row.
ClaimsNotAhead == \A w \in Workers, c \in Commands : claims[w][c] <= attempts[c]

\* A worker past the start of a dispatch holds the record it handles.
HandlesWhatItHolds ==
  \A w \in Workers :
    stage[w] \in {"dispatch", "ok", "error", "notify"} =>
      handling[w] \in Commands /\ claims[w][handling[w]] # 0

\* The newest claim on a row is held only while the row is in progress, or by
\* the worker that has just written "dead" and is about to say so.
NewestClaimIsLive ==
  \A w \in Workers, c \in Commands :
    /\ claims[w][c] # 0
    /\ claims[w][c] = attempts[c]
    => \/ status[c] = "in_progress"
       \/ status[c] = "dead" /\ stage[w] = "notify" /\ handling[w] = c

\* The worker with the newest claim remembers how its dispatch ended.
VerdictIsRemembered ==
  \A w \in Workers :
    /\ stage[w] \in {"ok", "error"}
    /\ claims[w][handling[w]] = attempts[handling[w]]
    => verdict[handling[w]] = stage[w]

\* The notice of a dead command is still to be sent while a worker is at it.
NoticeIsDue ==
  \A w \in Workers :
    stage[w] = "notify" =>
      /\ status[handling[w]] = "dead"
      /\ claims[w][handling[w]] = attempts[handling[w]]
      /\ notices[handling[w]] = 0

\* Only a row that was enqueued has been claimed.
AbsentIsUnclaimed == \A c \in Commands : status[c] = "absent" => attempts[c] = 0

OkMeansHandled == \A c \in Commands : verdict[c] = "ok" => handled[c]

IInv ==
  /\ TypeOK
  /\ ClaimsNotAhead
  /\ ExclusiveLease
  /\ HandlesWhatItHolds
  /\ NewestClaimIsLive
  /\ VerdictIsRemembered
  /\ RowReportsNewestClaim
  /\ NoticeIsDue
  /\ OneNoticePerDeadCommand
  /\ AbsentIsUnclaimed
  /\ OkMeansHandled
=============================================================================
