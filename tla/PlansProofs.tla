----------------------------- MODULE PlansProofs -----------------------------
(***************************************************************************)
(* Proofs about the plans of a recurring quote.                             *)
(*                                                                         *)
(* A payment is recorded or undone under the lock of the plan's row, and     *)
(* what is added up was read under that lock, so it is what counts when it   *)
(* is written (Locked).  A nudge names the payment it was queued for, and a  *)
(* payment is recorded once and undone once, so no command a change of the   *)
(* plan queues is there already (NudgesNamePayments).  A card plan was       *)
(* started by a payment that is on record (CardPlanIsPaid), which is why a   *)
(* quote it keeps paid has money behind it.                                  *)
(***************************************************************************)
EXTENDS Plans, FiniteSetTheorems, TLAPS

Forms == [key : Keys, day : Days]
Snapshots == [quote : {"accepted", "paid", None}, checkout : {"open", "paid", "expired", None},
              plan : {"none", "live", "ended", None}, sub : {"none", "active", "canceled", None},
              card : [Collecting -> {"absent", "counted", "duplicate"}] \cup {None},
              counted : SUBSET Keys]

MemoryTypes ==
  /\ plan \in [status : {"none", "live", "ended"}, from : Days, months : Nat]
  /\ seen \in [Actors -> Snapshots]
  /\ form \in [Requests -> Forms \cup {None}]

\* A task that does nothing remembers nothing.
IdleKnowsNothing == \A a \in Actors : pc[a] = "idle" => seen[a] = NoSnapshot

\* The payment a request was asked to record or to undo.
Asked ==
  \A r \in Requests : pc[r] \in {"record", "void", "voiding"} => form[r] \in Forms

\* What a request that undoes has read is what counts until it is done.
Locked ==
  \A r \in Requests : pc[r] = "voiding" =>
    /\ lock = r
    /\ seen[r].counted = Counted
    /\ form[r].key \in Counted
    /\ seen[r].card \in [Collecting -> {"absent", "counted", "duplicate"}]
    /\ \A e \in Collecting : seen[r].card[e] # "absent" => card[e] # "absent"

\* A card plan that is known, or was when a task read it, was paid for.
CardPlanIsPaid ==
  /\ sub # "none" => card["completed"] # "absent"
  /\ \A a \in Actors : seen[a].sub \in {"active", "canceled"} => card["completed"] # "absent"
  /\ \A e \in Events : pc[e] = "apply" /\ e # "completed" => seen[e].sub \in {"active", "canceled"}

\* An event that is applied was reported.
AppliedIsReported == \A e \in Events : pc[e] = "apply" => e \in emitted

\* A nudge was queued when the payment it names was recorded, or was undone.
NudgesNamePayments ==
  \A n \in nudges :
    /\ n.key \in Keys
    /\ n.why = "pay" => ledger[n.key] # "absent"
    /\ n.why = "undo" => ledger[n.key] = "voided"

IInv ==
  /\ TypeOK
  /\ MemoryTypes
  /\ IdleKnowsNothing
  /\ Asked
  /\ Locked
  /\ CardPlanIsPaid
  /\ AppliedIsReported
  /\ NudgesNamePayments
  /\ PlanAgrees
  /\ NudgeStands

-----------------------------------------------------------------------------
(***************************************************************************)
(* What payments cover.                                                     *)
(***************************************************************************)

LEMMA MonthsOfOne ==
  ASSUME NEW k \in Keys
  PROVE  /\ IsFiniteSet({k} \X (1 .. MonthsOf[k]))
         /\ Cardinality({k} \X (1 .. MonthsOf[k])) = MonthsOf[k]
         /\ MonthsOf[k] \in Nat /\ MonthsOf[k] > 0
<1>1. MonthsOf[k] \in 1 .. 24
  BY PlansAssumption
<1>2. IsFiniteSet({k}) /\ Cardinality({k}) = 1
  BY FS_Singleton
<1>3. IsFiniteSet(1 .. MonthsOf[k]) /\ Cardinality(1 .. MonthsOf[k]) = MonthsOf[k]
  <2>1. 1 \in Int /\ MonthsOf[k] \in Int /\ ~(1 > MonthsOf[k])
    BY <1>1
  <2>2. /\ IsFiniteSet(1 .. MonthsOf[k])
        /\ Cardinality(1 .. MonthsOf[k]) = IF 1 > MonthsOf[k] THEN 0 ELSE MonthsOf[k] - 1 + 1
    BY <2>1, FS_Interval
  <2> QED BY <2>1, <2>2
<1>4. /\ IsFiniteSet({k} \X (1 .. MonthsOf[k]))
      /\ Cardinality({k} \X (1 .. MonthsOf[k])) = Cardinality({k}) * Cardinality(1 .. MonthsOf[k])
  BY <1>2, <1>3, FS_Product
<1>5. Cardinality({k} \X (1 .. MonthsOf[k])) = 1 * MonthsOf[k]
  BY <1>2, <1>3, <1>4
<1>6. 1 * MonthsOf[k] = MonthsOf[k] /\ MonthsOf[k] \in Nat /\ MonthsOf[k] > 0
  BY <1>1
<1> QED BY <1>4, <1>5, <1>6

LEMMA MonthsAreFinite ==
  ASSUME NEW S \in SUBSET Keys
  PROVE  IsFiniteSet(PaidMonths(S)) /\ Covered(S) \in Nat
<1>1. IsFiniteSet(1 .. 24)
  <2>1. 1 \in Int /\ 24 \in Int
    OBVIOUS
  <2> QED BY <2>1, FS_Interval
<1>2. IsFiniteSet(Keys \X (1 .. 24))
  BY <1>1, PlansAssumption, FS_Product
<1>3. \A k \in Keys : 1 .. MonthsOf[k] \subseteq 1 .. 24
  BY PlansAssumption
<1>4. PaidMonths(S) \subseteq Keys \X (1 .. 24)
  BY <1>3 DEF PaidMonths
<1> QED BY <1>2, <1>4, FS_Subset, FS_CardinalityType DEF Covered

\* One more payment covers its own months more.
LEMMA OneMorePayment ==
  ASSUME NEW S \in SUBSET Keys, NEW k \in Keys, k \notin S
  PROVE  Covered(S \cup {k}) = Covered(S) + MonthsOf[k]
<1> DEFINE own == {k} \X (1 .. MonthsOf[k])
<1>1. PaidMonths(S \cup {k}) = PaidMonths(S) \cup own
  BY DEF PaidMonths
<1>2. PaidMonths(S) \cap own = {}
  BY DEF PaidMonths
<1>3. IsFiniteSet(own) /\ Cardinality(own) = MonthsOf[k] /\ MonthsOf[k] \in Nat
  BY MonthsOfOne
<1>4. IsFiniteSet(PaidMonths(S)) /\ Cardinality(PaidMonths(S)) \in Nat
  BY MonthsAreFinite DEF Covered
<1> HIDE DEF own
<1>5. Cardinality(PaidMonths(S) \cup own)
        = Cardinality(PaidMonths(S)) + Cardinality(own) - Cardinality(PaidMonths(S) \cap own)
  BY <1>3, <1>4, FS_Union
<1>6. Cardinality(PaidMonths(S) \cap own) = 0
  BY <1>2, FS_EmptySet
<1>7. Cardinality(PaidMonths(S) \cup own) = Cardinality(PaidMonths(S)) + MonthsOf[k]
  BY <1>3, <1>4, <1>5, <1>6
<1> QED BY <1>1, <1>7 DEF Covered

\* Payments cover nothing only if there are none.
LEMMA NothingCovered ==
  ASSUME NEW S \in SUBSET Keys
  PROVE  Covered(S) = 0 <=> S = {}
<1>1. IsFiniteSet(PaidMonths(S))
  BY MonthsAreFinite
<1>2. Covered(S) = 0 <=> PaidMonths(S) = {}
  BY <1>1, FS_EmptySet DEF Covered
<1>3. S = {} => PaidMonths(S) = {}
  BY DEF PaidMonths
<1>4. ASSUME NEW k \in S
      PROVE  PaidMonths(S) # {}
  <2>1. <<k, 1>> \in {k} \X (1 .. MonthsOf[k])
    <3>1. MonthsOf[k] \in Nat /\ MonthsOf[k] > 0
      BY MonthsOfOne
    <3>2. 1 \in 1 .. MonthsOf[k]
      BY <3>1
    <3> QED BY <3>2
  <2> QED BY <2>1 DEF PaidMonths
<1> QED BY <1>2, <1>3, <1>4

-----------------------------------------------------------------------------
(***************************************************************************)
(* Tasks that start and end.                                                *)
(***************************************************************************)

LEMMA ActorTypes ==
  /\ Requests \subseteq Actors /\ Events \subseteq Actors
  /\ \A r \in Requests : r \notin Events
  /\ None \notin Requests /\ None \notin Keys
  /\ "completed" \in Events /\ "completed" \in Collecting
  BY PlansAssumption DEF Actors, Events, Collecting

LEMMA NoSnapshotTyped ==
  /\ NoSnapshot \in Snapshots
  /\ NoSnapshot.quote = None /\ NoSnapshot.sub = None
  BY DEF NoSnapshot, Snapshots

\* Recording and undoing are the owner's, applying is an event's.
LEMMA SnapshotTyped ==
  ASSUME IInv, NEW a \in Actors, NEW step,
         \/ step \in {"record", "void"} /\ a \in Requests
         \/ step = "apply" /\ a \in Events
  PROVE  /\ Snapshot(a, step) \in Snapshots
         /\ Snapshot(a, step).sub \in {None, sub}
         /\ step = "apply" /\ a # "completed" => Snapshot(a, step).sub = sub
<1>1. /\ quote \in {"accepted", "paid"} /\ plan.status \in {"none", "live", "ended"}
      /\ sub \in {"none", "active", "canceled"} /\ checkout \in {"open", "paid", "expired"}
  BY DEF IInv, TypeOK
<1>2. CASE step = "record"
  <2>1. a # "completed" /\ step # "void"
    BY <1>2, ActorTypes
  <2>2. Snapshot(a, step) = [NoSnapshot EXCEPT !.quote = quote, !.plan = plan.status]
    BY <1>2, <2>1 DEF Snapshot
  <2>3. Snapshot(a, step) =
          [quote |-> quote, checkout |-> None, plan |-> plan.status, sub |-> None,
           card |-> None, counted |-> {}]
    BY <2>2 DEF NoSnapshot
  <2> QED BY <1>1, <1>2, <2>3 DEF Snapshots
<1>3. CASE step = "void"
  <2>1. a # "completed" /\ step # "record"
    BY <1>3, ActorTypes
  <2>2. Snapshot(a, step) = [NoSnapshot EXCEPT !.quote = quote, !.sub = sub]
    BY <1>3, <2>1 DEF Snapshot
  <2>3. Snapshot(a, step) =
          [quote |-> quote, checkout |-> None, plan |-> None, sub |-> sub,
           card |-> None, counted |-> {}]
    BY <2>2 DEF NoSnapshot
  <2> QED BY <1>1, <1>3, <2>3 DEF Snapshots
<1>4. CASE step = "apply" /\ a = "completed"
  <2>1. step # "record" /\ step # "void"
    BY <1>4
  <2>2. Snapshot(a, step) =
          [NoSnapshot EXCEPT !.quote = quote, !.plan = plan.status, !.checkout = checkout]
    BY <1>4, <2>1 DEF Snapshot
  <2>3. Snapshot(a, step) =
          [quote |-> quote, checkout |-> checkout, plan |-> plan.status, sub |-> None,
           card |-> None, counted |-> {}]
    BY <2>2 DEF NoSnapshot
  <2> QED BY <1>1, <1>4, <2>3 DEF Snapshots
<1>5. CASE step = "apply" /\ a # "completed"
  <2>1. step # "record" /\ step # "void"
    BY <1>5
  <2>2. Snapshot(a, step) = [NoSnapshot EXCEPT !.sub = sub]
    BY <1>5, <2>1 DEF Snapshot
  <2>3. Snapshot(a, step) =
          [quote |-> None, checkout |-> None, plan |-> None, sub |-> sub,
           card |-> None, counted |-> {}]
    BY <2>2 DEF NoSnapshot
  <2> QED BY <1>1, <1>5, <2>3 DEF Snapshots
<1> QED BY <1>2, <1>3, <1>4, <1>5

CardKept == \A e \in Collecting : card[e] # "absent" => card'[e] # "absent"

\* What the end of a task leaves, if nobody counts on a ledger that changes and no
\* card payment goes away.
LEMMA EndLeaves ==
  ASSUME IInv, NEW a \in Actors, End(a),
         \A r \in Requests \ {a} : pc[r] = "voiding" => Counted' = Counted,
         CardKept, sub' # "none" => card'["completed"] # "absent", emitted' = emitted
  PROVE  /\ pc' \in [Actors -> {"idle", "record", "void", "voiding", "apply"}]
         /\ lock' \in Requests \cup {None}
         /\ seen' \in [Actors -> Snapshots] /\ form' \in [Requests -> Forms \cup {None}]
         /\ pc'[a] = "idle" /\ seen'[a] = NoSnapshot
         /\ \A b \in Actors \ {a} : seen'[b] = seen[b] /\ pc'[b] = pc[b]
         /\ stale' = stale \ {a} \/ stale' = {b \in Actors : seen[b].quote # None} \ {a}
              => stale' \subseteq {b \in Actors : seen'[b].quote # None}
         /\ IdleKnowsNothing' /\ Asked' /\ Locked' /\ CardPlanIsPaid' /\ AppliedIsReported'
<1>1. /\ pc \in [Actors -> {"idle", "record", "void", "voiding", "apply"}]
      /\ lock \in Requests \cup {None}
      /\ seen \in [Actors -> Snapshots] /\ form \in [Requests -> Forms \cup {None}]
  BY DEF IInv, TypeOK, MemoryTypes
<1>2. /\ pc' \in [Actors -> {"idle", "record", "void", "voiding", "apply"}]
      /\ lock' \in Requests \cup {None}
      /\ pc'[a] = "idle" /\ seen'[a] = NoSnapshot /\ seen' \in [Actors -> Snapshots]
      /\ \A b \in Actors \ {a} : seen'[b] = seen[b] /\ pc'[b] = pc[b]
  BY <1>1, NoSnapshotTyped DEF End
<1>3. /\ form' \in [Requests -> Forms \cup {None}]
      /\ \A r \in Requests \ {a} : form'[r] = form[r]
  BY <1>1 DEF End
<1>4. Asked'
  BY <1>2, <1>3, ActorTypes DEF IInv, Asked
<1>5. Locked'
  <2> SUFFICES ASSUME NEW r \in Requests, pc'[r] = "voiding"
               PROVE  /\ lock' = r
                      /\ seen'[r].counted = Counted'
                      /\ form'[r].key \in Counted'
                      /\ seen'[r].card \in [Collecting -> {"absent", "counted", "duplicate"}]
                      /\ \A e \in Collecting : seen'[r].card[e] # "absent" => card'[e] # "absent"
    BY DEF Locked
  <2>1. r # a /\ pc[r] = "voiding" /\ seen'[r] = seen[r] /\ form'[r] = form[r] /\ Counted' = Counted
    BY <1>2, <1>3, ActorTypes
  <2>2. /\ lock = r /\ seen[r].counted = Counted /\ form[r].key \in Counted
        /\ seen[r].card \in [Collecting -> {"absent", "counted", "duplicate"}]
        /\ \A e \in Collecting : seen[r].card[e] # "absent" => card[e] # "absent"
    BY <2>1 DEF IInv, Locked
  <2>3. lock' = r
    BY <2>1, <2>2 DEF End
  <2> QED BY <2>1, <2>2, <2>3 DEF CardKept
<1>6. CardPlanIsPaid'
  <2>1. card["completed"] # "absent" => card'["completed"] # "absent"
    BY ActorTypes DEF CardKept
  <2>2. ASSUME NEW b \in Actors, seen'[b].sub \in {"active", "canceled"}
        PROVE  card'["completed"] # "absent"
    <3>1. b # a
      BY <1>2, <2>2, NoSnapshotTyped, PlansAssumption
    <3>2. seen[b].sub \in {"active", "canceled"}
      BY <1>2, <2>2, <3>1
    <3> QED BY <2>1, <3>2 DEF IInv, CardPlanIsPaid
  <2>3. ASSUME NEW e \in Events, pc'[e] = "apply", e # "completed"
        PROVE  seen'[e].sub \in {"active", "canceled"}
    BY <1>2, <2>3, ActorTypes DEF IInv, CardPlanIsPaid
  <2> QED BY <2>2, <2>3 DEF CardPlanIsPaid
<1>7. AppliedIsReported'
  BY <1>2, ActorTypes DEF IInv, AppliedIsReported
<1>8. \A b \in stale : seen[b].quote # None
  BY DEF IInv, TypeOK
<1>9. stale' = stale \ {a} \/ stale' = {b \in Actors : seen[b].quote # None} \ {a}
        => stale' \subseteq {b \in Actors : seen'[b].quote # None}
  <2>1. stale \subseteq Actors
    BY DEF IInv, TypeOK
  <2> QED BY <1>2, <1>8, <2>1
<1>10. IdleKnowsNothing'
  BY <1>2 DEF IInv, IdleKnowsNothing
<1> QED BY <1>2, <1>3, <1>4, <1>5, <1>6, <1>7, <1>9, <1>10

\* What the begin of a task leaves.
LEMMA BeginLeaves ==
  ASSUME IInv, NEW a \in Actors, NEW step, Begin(a, step),
         \/ step \in {"record", "void"} /\ a \in Requests /\ form'[a] \in Forms
         \/ step = "apply" /\ a \in Events /\ a \in emitted /\ (a # "completed" => sub # "none"),
         form' \in [Requests -> Forms \cup {None}],
         \A r \in Requests \ {a} : form'[r] = form[r],
         lock' = lock, UNCHANGED <<payments, sub, emitted>>
  PROVE  /\ pc' \in [Actors -> {"idle", "record", "void", "voiding", "apply"}]
         /\ seen' \in [Actors -> Snapshots]
         /\ stale' \subseteq {b \in Actors : seen'[b].quote # None}
         /\ IdleKnowsNothing' /\ Asked' /\ Locked' /\ CardPlanIsPaid' /\ AppliedIsReported'
<1>1. /\ pc \in [Actors -> {"idle", "record", "void", "voiding", "apply"}]
      /\ seen \in [Actors -> Snapshots] /\ sub \in {"none", "active", "canceled"}
  BY DEF IInv, TypeOK, MemoryTypes
<1>2. step \in {"record", "void", "apply"} /\ step # "voiding"
  OBVIOUS
<1>3. /\ Snapshot(a, step) \in Snapshots
      /\ Snapshot(a, step).sub \in {None, sub}
      /\ step = "apply" /\ a # "completed" => Snapshot(a, step).sub = sub
  BY SnapshotTyped
<1>4. /\ pc' \in [Actors -> {"idle", "record", "void", "voiding", "apply"}]
      /\ seen' \in [Actors -> Snapshots]
      /\ pc[a] = "idle" /\ pc'[a] = step /\ seen'[a] = Snapshot(a, step)
      /\ \A b \in Actors \ {a} : seen'[b] = seen[b] /\ pc'[b] = pc[b]
  BY <1>1, <1>2, <1>3 DEF Begin
<1>5. stale' \subseteq {b \in Actors : seen'[b].quote # None}
  <2>1. stale' = stale
    BY DEF Begin
  <2>2. a \notin stale
    BY <1>4, NoSnapshotTyped DEF IInv, TypeOK, IdleKnowsNothing
  <2> QED BY <1>4, <2>1, <2>2 DEF IInv, TypeOK
<1>6. Asked'
  BY <1>2, <1>4, ActorTypes DEF IInv, Asked
<1>7. Locked'
  <2> SUFFICES ASSUME NEW r \in Requests, pc'[r] = "voiding"
               PROVE  /\ lock' = r
                      /\ seen'[r].counted = Counted'
                      /\ form'[r].key \in Counted'
                      /\ seen'[r].card \in [Collecting -> {"absent", "counted", "duplicate"}]
                      /\ \A e \in Collecting : seen'[r].card[e] # "absent" => card'[e] # "absent"
    BY DEF Locked
  <2>1. r # a /\ pc[r] = "voiding" /\ seen'[r] = seen[r] /\ form'[r] = form[r]
    BY <1>2, <1>4, ActorTypes
  <2>2. /\ lock = r /\ seen[r].counted = Counted /\ form[r].key \in Counted
        /\ seen[r].card \in [Collecting -> {"absent", "counted", "duplicate"}]
        /\ \A e \in Collecting : seen[r].card[e] # "absent" => card[e] # "absent"
    BY <2>1 DEF IInv, Locked
  <2>3. Counted' = Counted /\ card' = card
    BY DEF Counted, payments
  <2> QED BY <2>1, <2>2, <2>3
<1>8. CardPlanIsPaid'
  <2>1. card' = card /\ sub' = sub
    BY DEF payments
  <2>2. ASSUME NEW b \in Actors, seen'[b].sub \in {"active", "canceled"}
        PROVE  card'["completed"] # "absent"
    <3>1. CASE b = a
      <4>1. sub \in {"active", "canceled"}
        BY <1>3, <1>4, <2>2, <3>1, PlansAssumption
      <4> QED BY <2>1, <4>1 DEF IInv, CardPlanIsPaid
    <3>2. CASE b # a
      BY <1>4, <2>1, <2>2, <3>2 DEF IInv, CardPlanIsPaid
    <3> QED BY <3>1, <3>2
  <2>3. ASSUME NEW e \in Events, pc'[e] = "apply", e # "completed"
        PROVE  seen'[e].sub \in {"active", "canceled"}
    <3>1. CASE e = a
      <4>1. step = "apply" /\ sub # "none"
        BY <1>4, <2>3, <3>1, ActorTypes
      <4> QED BY <1>1, <1>3, <1>4, <2>3, <3>1, <4>1
    <3>2. CASE e # a
      BY <1>4, <2>3, <3>2, ActorTypes DEF IInv, CardPlanIsPaid
    <3> QED BY <3>1, <3>2
  <2> QED BY <2>1, <2>2, <2>3 DEF IInv, CardPlanIsPaid
<1>9. AppliedIsReported'
  <2> SUFFICES ASSUME NEW e \in Events, pc'[e] = "apply" PROVE e \in emitted
    BY DEF AppliedIsReported
  <2>1. CASE e = a
    BY <1>4, <2>1, ActorTypes
  <2>2. CASE e # a
    BY <1>4, <2>2, ActorTypes DEF IInv, AppliedIsReported
  <2> QED BY <2>1, <2>2
<1>10. IdleKnowsNothing'
  BY <1>2, <1>4 DEF IInv, IdleKnowsNothing
<1> QED BY <1>4, <1>5, <1>6, <1>7, <1>8, <1>9, <1>10

-----------------------------------------------------------------------------
(***************************************************************************)
(* Every step keeps the invariant.                                          *)
(***************************************************************************)

\* A step that leaves the plan, its payments and its nudges alone.
LEMMA PlanUntouched ==
  ASSUME IInv, UNCHANGED <<plan, ledger, nudges, due, reminded, today>>
  PROVE  /\ NudgesNamePayments' /\ PlanAgrees' /\ NudgeStands' /\ Counted' = Counted
         /\ plan' \in [status : {"none", "live", "ended"}, from : Days, months : Nat]
         /\ ledger' \in [Keys -> {"absent", "counted", "voided"}]
         /\ due' \subseteq nudges' /\ today' \in Days
<1>1. NudgesNamePayments'
  BY DEF IInv, NudgesNamePayments
<1>2. Counted' = Counted
  BY DEF Counted
<1>3. PlanAgrees'
  BY <1>2 DEF IInv, PlanAgrees, Covered, PaidMonths
<1>4. NudgeStands'
  BY DEF IInv, NudgeStands, Through
<1> QED BY <1>1, <1>2, <1>3, <1>4 DEF IInv, TypeOK, MemoryTypes

\* A step that leaves the tasks and the card's payments alone.
LEMMA TasksUntouched ==
  ASSUME IInv, UNCHANGED <<tasks, stale, payments, sub>>, emitted \subseteq emitted'
  PROVE  /\ IdleKnowsNothing' /\ Asked' /\ Locked' /\ CardPlanIsPaid' /\ AppliedIsReported'
         /\ Counted' = Counted
         /\ seen' \in [Actors -> Snapshots] /\ form' \in [Requests -> Forms \cup {None}]
         /\ pc' \in [Actors -> {"idle", "record", "void", "voiding", "apply"}]
         /\ lock' \in Requests \cup {None}
         /\ stale' \subseteq {b \in Actors : seen'[b].quote # None}
         /\ card' \in [Collecting -> {"absent", "counted", "duplicate"}]
         /\ sub' \in {"none", "active", "canceled"}
<1>1. /\ lock' = lock /\ pc' = pc /\ seen' = seen /\ form' = form /\ stale' = stale
      /\ ledger' = ledger /\ card' = card /\ sub' = sub
  BY DEF tasks, payments
<1>2. Counted' = Counted
  BY <1>1 DEF Counted
<1>3. IdleKnowsNothing' /\ Asked' /\ CardPlanIsPaid' /\ AppliedIsReported'
  BY <1>1 DEF IInv, IdleKnowsNothing, Asked, CardPlanIsPaid, AppliedIsReported
<1>4. Locked'
  BY <1>1, <1>2 DEF IInv, Locked
<1>5. stale' \subseteq {b \in Actors : seen'[b].quote # None}
  BY <1>1 DEF IInv, TypeOK
<1> QED BY <1>1, <1>2, <1>3, <1>4, <1>5 DEF IInv, TypeOK, MemoryTypes

LEMMA OpenRecordKeeps ==
  ASSUME IInv, NEW r \in Requests, NEW k \in Keys, NEW day \in Days, OpenRecord(r, k, day)
  PROVE  IInv'
<1>1. /\ Begin(r, "record") /\ form' = [form EXCEPT ![r] = [key |-> k, day |-> day]]
      /\ UNCHANGED <<quote, checkout, plan, payments, sub, recorded, outbox, reminded,
                     lock, stripe, today>>
  BY DEF OpenRecord
<1>2. [key |-> k, day |-> day] \in Forms
  BY DEF Forms
<1>3. /\ form' \in [Requests -> Forms \cup {None}] /\ form'[r] \in Forms
      /\ \A q \in Requests \ {r} : form'[q] = form[q]
  BY <1>1, <1>2 DEF IInv, MemoryTypes
<1>4. UNCHANGED <<ledger, card, nudges, due, emitted, provider>>
  BY <1>1 DEF payments, outbox, stripe
<1>5. /\ pc' \in [Actors -> {"idle", "record", "void", "voiding", "apply"}]
      /\ seen' \in [Actors -> Snapshots]
      /\ stale' \subseteq {b \in Actors : seen'[b].quote # None}
      /\ IdleKnowsNothing' /\ Asked' /\ Locked' /\ CardPlanIsPaid' /\ AppliedIsReported'
  BY <1>1, <1>3, <1>4, ActorTypes, BeginLeaves
<1>6. /\ NudgesNamePayments' /\ PlanAgrees' /\ NudgeStands'
      /\ plan' \in [status : {"none", "live", "ended"}, from : Days, months : Nat]
      /\ ledger' \in [Keys -> {"absent", "counted", "voided"}]
      /\ due' \subseteq nudges' /\ today' \in Days
  BY <1>1, <1>4, PlanUntouched
<1>7. TypeOK'
  BY <1>1, <1>4, <1>5, <1>6 DEF IInv, TypeOK
<1> QED BY <1>3, <1>5, <1>6, <1>7 DEF IInv, MemoryTypes

LEMMA OpenVoidKeeps ==
  ASSUME IInv, NEW r \in Requests, NEW k \in Keys, OpenVoid(r, k)
  PROVE  IInv'
<1>1. /\ Begin(r, "void") /\ form' = [form EXCEPT ![r] = [key |-> k, day |-> 0]]
      /\ UNCHANGED <<quote, checkout, plan, payments, sub, recorded, outbox, reminded,
                     lock, stripe, today>>
  BY DEF OpenVoid
<1>2. [key |-> k, day |-> 0] \in Forms
  BY PlansAssumption DEF Forms, Days
<1>3. /\ form' \in [Requests -> Forms \cup {None}] /\ form'[r] \in Forms
      /\ \A q \in Requests \ {r} : form'[q] = form[q]
  BY <1>1, <1>2 DEF IInv, MemoryTypes
<1>4. UNCHANGED <<ledger, card, nudges, due, emitted, provider>>
  BY <1>1 DEF payments, outbox, stripe
<1>5. /\ pc' \in [Actors -> {"idle", "record", "void", "voiding", "apply"}]
      /\ seen' \in [Actors -> Snapshots]
      /\ stale' \subseteq {b \in Actors : seen'[b].quote # None}
      /\ IdleKnowsNothing' /\ Asked' /\ Locked' /\ CardPlanIsPaid' /\ AppliedIsReported'
  BY <1>1, <1>3, <1>4, ActorTypes, BeginLeaves
<1>6. /\ NudgesNamePayments' /\ PlanAgrees' /\ NudgeStands'
      /\ plan' \in [status : {"none", "live", "ended"}, from : Days, months : Nat]
      /\ ledger' \in [Keys -> {"absent", "counted", "voided"}]
      /\ due' \subseteq nudges' /\ today' \in Days
  BY <1>1, <1>4, PlanUntouched
<1>7. TypeOK'
  BY <1>1, <1>4, <1>5, <1>6 DEF IInv, TypeOK
<1> QED BY <1>3, <1>5, <1>6, <1>7 DEF IInv, MemoryTypes

LEMMA ReadEventKeeps ==
  ASSUME IInv, NEW e \in Events, ReadEvent(e)
  PROVE  IInv'
<1>1. /\ Begin(e, "apply") /\ e \in emitted /\ (e # "completed" => sub # "none")
      /\ UNCHANGED <<quote, checkout, plan, payments, sub, recorded, outbox, reminded,
                     lock, form, stripe, today>>
  BY DEF ReadEvent
<1>2. UNCHANGED <<ledger, card, nudges, due, emitted, provider>>
  BY <1>1 DEF payments, outbox, stripe
<1>3. form' \in [Requests -> Forms \cup {None}]
  BY <1>1 DEF IInv, MemoryTypes
<1>4. /\ pc' \in [Actors -> {"idle", "record", "void", "voiding", "apply"}]
      /\ seen' \in [Actors -> Snapshots]
      /\ stale' \subseteq {b \in Actors : seen'[b].quote # None}
      /\ IdleKnowsNothing' /\ Asked' /\ Locked' /\ CardPlanIsPaid' /\ AppliedIsReported'
  BY <1>1, <1>2, <1>3, ActorTypes, BeginLeaves
<1>5. /\ NudgesNamePayments' /\ PlanAgrees' /\ NudgeStands'
      /\ plan' \in [status : {"none", "live", "ended"}, from : Days, months : Nat]
      /\ ledger' \in [Keys -> {"absent", "counted", "voided"}]
      /\ due' \subseteq nudges' /\ today' \in Days
  BY <1>1, <1>2, PlanUntouched
<1>6. TypeOK'
  BY <1>1, <1>2, <1>4, <1>5 DEF IInv, TypeOK
<1> QED BY <1>3, <1>4, <1>5, <1>6 DEF IInv, MemoryTypes

LEMMA CrashKeeps ==
  ASSUME IInv, NEW a \in Actors, Crash(a)
  PROVE  IInv'
<1>1. /\ End(a) /\ stale' = stale \ {a}
      /\ UNCHANGED <<quote, checkout, plan, payments, sub, recorded, outbox, reminded,
                     stripe, today>>
  BY DEF Crash
<1>2. UNCHANGED <<ledger, card, nudges, due, emitted, provider>>
  BY <1>1 DEF payments, outbox, stripe
<1>3. /\ NudgesNamePayments' /\ PlanAgrees' /\ NudgeStands' /\ Counted' = Counted
      /\ plan' \in [status : {"none", "live", "ended"}, from : Days, months : Nat]
      /\ ledger' \in [Keys -> {"absent", "counted", "voided"}]
      /\ due' \subseteq nudges' /\ today' \in Days
  BY <1>1, <1>2, PlanUntouched
<1>4. CardKept /\ (sub' # "none" => card'["completed"] # "absent")
  BY <1>1, <1>2 DEF IInv, CardKept, CardPlanIsPaid
<1>5. /\ pc' \in [Actors -> {"idle", "record", "void", "voiding", "apply"}]
      /\ lock' \in Requests \cup {None}
      /\ seen' \in [Actors -> Snapshots] /\ form' \in [Requests -> Forms \cup {None}]
      /\ stale' \subseteq {b \in Actors : seen'[b].quote # None}
      /\ IdleKnowsNothing' /\ Asked' /\ Locked' /\ CardPlanIsPaid' /\ AppliedIsReported'
  BY <1>1, <1>2, <1>3, <1>4, EndLeaves
<1>6. TypeOK'
  BY <1>1, <1>2, <1>3, <1>5 DEF IInv, TypeOK
<1> QED BY <1>3, <1>5, <1>6 DEF IInv, MemoryTypes

LEMMA NudgePlanKeeps ==
  ASSUME IInv, NEW n \in due, NudgePlan(n)
  PROVE  IInv'
<1>1. /\ due' = due \ {n}
      /\ reminded' = IF StillDue(n) THEN reminded \cup {n.through} ELSE reminded
      /\ UNCHANGED <<quote, checkout, plan, payments, sub, recorded, nudges, closing,
                     tasks, stale, stripe, today>>
  BY DEF NudgePlan
<1>2. UNCHANGED <<ledger, card, emitted, provider>>
  BY <1>1 DEF payments, stripe
<1>3. /\ IdleKnowsNothing' /\ Asked' /\ Locked' /\ CardPlanIsPaid' /\ AppliedIsReported'
      /\ Counted' = Counted
      /\ seen' \in [Actors -> Snapshots] /\ form' \in [Requests -> Forms \cup {None}]
      /\ pc' \in [Actors -> {"idle", "record", "void", "voiding", "apply"}]
      /\ lock' \in Requests \cup {None}
      /\ stale' \subseteq {b \in Actors : seen'[b].quote # None}
      /\ card' \in [Collecting -> {"absent", "counted", "duplicate"}]
      /\ sub' \in {"none", "active", "canceled"}
  BY <1>1, <1>2, TasksUntouched
<1>4. NudgesNamePayments' /\ PlanAgrees'
  BY <1>1, <1>2, <1>3 DEF IInv, NudgesNamePayments, PlanAgrees, Covered, PaidMonths
<1>5. NudgeStands'
  <2> SUFFICES ASSUME plan.status = "live", Through(plan) > today
               PROVE  Through(plan) \in reminded' \/ \E m \in due' : m.through = Through(plan)
    BY <1>1 DEF NudgeStands, Through
  <2>1. CASE n.through = Through(plan)
    BY <1>1, <2>1 DEF StillDue
  <2>2. CASE n.through # Through(plan)
    BY <1>1, <2>2 DEF IInv, NudgeStands
  <2> QED BY <2>1, <2>2
<1>6. TypeOK'
  BY <1>1, <1>2, <1>3 DEF IInv, TypeOK
<1> QED BY <1>1, <1>3, <1>4, <1>5, <1>6 DEF IInv, MemoryTypes

\* The provider and the checkout command touch neither the tasks nor the plan.
LEMMA ProviderKeeps ==
  ASSUME IInv, UNCHANGED <<quote, checkout, plan, payments, sub, recorded, nudges, due, reminded,
                           tasks, stale, today>>,
         emitted \subseteq emitted', emitted' \subseteq Events,
         provider' \in {"open", "paid", "closed"}
  PROVE  IInv'
<1>1. UNCHANGED <<ledger, card>>
  BY DEF payments
<1>2. /\ IdleKnowsNothing' /\ Asked' /\ Locked' /\ CardPlanIsPaid' /\ AppliedIsReported'
      /\ seen' \in [Actors -> Snapshots] /\ form' \in [Requests -> Forms \cup {None}]
      /\ pc' \in [Actors -> {"idle", "record", "void", "voiding", "apply"}]
      /\ lock' \in Requests \cup {None}
      /\ stale' \subseteq {b \in Actors : seen'[b].quote # None}
      /\ card' \in [Collecting -> {"absent", "counted", "duplicate"}]
      /\ sub' \in {"none", "active", "canceled"}
  BY TasksUntouched
<1>3. /\ NudgesNamePayments' /\ PlanAgrees' /\ NudgeStands'
      /\ plan' \in [status : {"none", "live", "ended"}, from : Days, months : Nat]
      /\ ledger' \in [Keys -> {"absent", "counted", "voided"}]
      /\ due' \subseteq nudges' /\ today' \in Days
  BY <1>1, PlanUntouched
<1>4. TypeOK'
  BY <1>2, <1>3 DEF IInv, TypeOK
<1> QED BY <1>2, <1>3, <1>4 DEF IInv, MemoryTypes

LEMMA ExpireCheckoutKeeps ==
  ASSUME IInv, ExpireCheckout
  PROVE  IInv'
<1>1. provider' \in {"open", "paid", "closed"} /\ emitted' = emitted /\ emitted \subseteq Events
  BY DEF ExpireCheckout, IInv, TypeOK
<1> QED BY <1>1, ProviderKeeps DEF ExpireCheckout

LEMMA CustomerPaysKeeps ==
  ASSUME IInv, CustomerPays
  PROVE  IInv'
<1>1. /\ provider' \in {"open", "paid", "closed"}
      /\ emitted \subseteq emitted' /\ emitted' \subseteq Events
  BY PlansAssumption DEF CustomerPays, IInv, TypeOK
<1>2. UNCHANGED <<nudges, due>>
  BY DEF CustomerPays, outbox
<1> QED BY <1>1, <1>2, ProviderKeeps DEF CustomerPays

LEMMA CardPlanMovesKeeps ==
  ASSUME IInv, NEW e \in Events, CardPlanMoves(e)
  PROVE  IInv'
<1>1. /\ provider' \in {"open", "paid", "closed"}
      /\ emitted \subseteq emitted' /\ emitted' \subseteq Events
  BY DEF CardPlanMoves, IInv, TypeOK
<1>2. UNCHANGED <<nudges, due>>
  BY DEF CardPlanMoves, outbox
<1> QED BY <1>1, <1>2, ProviderKeeps DEF CardPlanMoves

LEMMA MonthPassesKeeps ==
  ASSUME IInv, MonthPasses
  PROVE  IInv'
<1>1. /\ today' = today + 1 /\ today < MaxToday
      /\ UNCHANGED <<quote, checkout, plan, payments, sub, recorded, outbox, reminded,
                     tasks, stale, stripe>>
  BY DEF MonthPasses
<1>2. UNCHANGED <<ledger, card, nudges, due, emitted, provider>>
  BY <1>1 DEF payments, outbox, stripe
<1>3. today' \in Days /\ today \in Nat
  BY <1>1, PlansAssumption DEF IInv, TypeOK, Days
<1>4. /\ IdleKnowsNothing' /\ Asked' /\ Locked' /\ CardPlanIsPaid' /\ AppliedIsReported'
      /\ Counted' = Counted
      /\ seen' \in [Actors -> Snapshots] /\ form' \in [Requests -> Forms \cup {None}]
      /\ pc' \in [Actors -> {"idle", "record", "void", "voiding", "apply"}]
      /\ lock' \in Requests \cup {None}
      /\ stale' \subseteq {b \in Actors : seen'[b].quote # None}
      /\ card' \in [Collecting -> {"absent", "counted", "duplicate"}]
      /\ sub' \in {"none", "active", "canceled"}
  BY <1>1, <1>2, TasksUntouched
<1>5. NudgesNamePayments' /\ PlanAgrees'
  BY <1>1, <1>2, <1>4 DEF IInv, NudgesNamePayments, PlanAgrees, Covered, PaidMonths
<1>6. NudgeStands'
  <2>1. Through(plan) \in Nat
    BY PlansAssumption DEF IInv, MemoryTypes, Days, Through
  <2>2. Through(plan) > today' => Through(plan) > today
    BY <1>1, <1>3, <2>1
  <2> QED BY <1>1, <1>2, <2>2 DEF IInv, NudgeStands, Through
<1>7. TypeOK'
  BY <1>1, <1>2, <1>3, <1>4 DEF IInv, TypeOK
<1> QED BY <1>1, <1>4, <1>5, <1>6, <1>7 DEF IInv, MemoryTypes

LEMMA LockVoidKeeps ==
  ASSUME IInv, NEW r \in Requests, LockVoid(r)
  PROVE  IInv'
<1>1. /\ pc[r] = "void" /\ lock = None
      /\ UNCHANGED <<quote, checkout, plan, payments, sub, recorded, outbox, reminded,
                     stripe, today>>
  BY DEF LockVoid, LockFree
<1>2. UNCHANGED <<ledger, card, nudges, due, emitted, provider>>
  BY <1>1 DEF payments, outbox, stripe
<1>3. /\ NudgesNamePayments' /\ PlanAgrees' /\ NudgeStands' /\ Counted' = Counted
      /\ plan' \in [status : {"none", "live", "ended"}, from : Days, months : Nat]
      /\ ledger' \in [Keys -> {"absent", "counted", "voided"}]
      /\ due' \subseteq nudges' /\ today' \in Days
  BY <1>1, <1>2, PlanUntouched
<1>4. /\ pc' \in [Actors -> {"idle", "record", "void", "voiding", "apply"}]
      /\ lock' \in Requests \cup {None}
      /\ seen' \in [Actors -> Snapshots] /\ form' \in [Requests -> Forms \cup {None}]
      /\ stale' \subseteq {b \in Actors : seen'[b].quote # None}
      /\ IdleKnowsNothing' /\ Asked' /\ Locked' /\ CardPlanIsPaid' /\ AppliedIsReported'
  <2>1. CASE ledger[form[r].key] # "counted"
    <3>1. End(r) /\ stale' = stale \ {r}
      BY <2>1 DEF LockVoid
    <3>2. CardKept /\ (sub' # "none" => card'["completed"] # "absent")
      BY <1>1, <1>2 DEF IInv, CardKept, CardPlanIsPaid
    <3> QED BY <1>2, <1>3, <3>1, <3>2, ActorTypes, EndLeaves
  <2>2. CASE ledger[form[r].key] = "counted"
    <3>1. /\ lock' = r
          /\ pc' = [pc EXCEPT ![r] = "voiding"]
          /\ seen' = [seen EXCEPT ![r].card = card, ![r].counted = Counted]
          /\ form' = form /\ stale' = stale
      BY <2>2 DEF LockVoid
    <3>2. /\ pc \in [Actors -> {"idle", "record", "void", "voiding", "apply"}]
          /\ seen \in [Actors -> Snapshots] /\ form \in [Requests -> Forms \cup {None}]
          /\ r \in Actors /\ r \notin Events
          /\ card \in [Collecting -> {"absent", "counted", "duplicate"}]
          /\ Counted \subseteq Keys
      BY ActorTypes DEF IInv, TypeOK, MemoryTypes, Counted
    <3>3. /\ pc' \in [Actors -> {"idle", "record", "void", "voiding", "apply"}]
          /\ pc'[r] = "voiding" /\ \A b \in Actors \ {r} : pc'[b] = pc[b]
      BY <3>1, <3>2
    <3>4. /\ seen'[r] \in Snapshots
          /\ seen'[r].counted = Counted /\ seen'[r].card = card
          /\ seen'[r].quote = seen[r].quote /\ seen'[r].sub = seen[r].sub
          /\ \A b \in Actors \ {r} : seen'[b] = seen[b]
      BY ZenonT(40), <3>1, <3>2 DEF Snapshots
    <3>5. seen' \in [Actors -> Snapshots]
      <4>1. DOMAIN seen' = Actors /\ seen' = [b \in Actors |-> seen'[b]]
        BY <3>1, <3>2
      <4>2. \A b \in Actors : seen'[b] \in Snapshots
        BY <3>2, <3>4
      <4> QED BY <4>1, <4>2
    <3>6. form[r] \in Forms /\ form[r].key \in Keys
      BY <1>1 DEF IInv, Asked, Forms
    <3>7. IdleKnowsNothing'
      BY <3>3, <3>4 DEF IInv, IdleKnowsNothing
    <3>8. Asked'
      BY <3>1, <3>2, <3>3, <3>6, ActorTypes DEF IInv, Asked
    <3>9. \A q \in Requests : pc[q] # "voiding"
      BY <1>1, PlansAssumption DEF IInv, Locked
    <3>10. Locked'
      <4> SUFFICES ASSUME NEW q \in Requests, pc'[q] = "voiding"
                   PROVE  /\ lock' = q
                          /\ seen'[q].counted = Counted'
                          /\ form'[q].key \in Counted'
                          /\ seen'[q].card \in [Collecting -> {"absent", "counted", "duplicate"}]
                          /\ \A e \in Collecting :
                               seen'[q].card[e] # "absent" => card'[e] # "absent"
        BY DEF Locked
      <4>1. q = r
        BY <3>3, <3>9, ActorTypes
      <4>2. form[r].key \in Counted
        BY <2>2, <3>6 DEF Counted
      <4> QED BY <1>2, <1>3, <3>1, <3>2, <3>4, <4>1, <4>2
    <3>11. CardPlanIsPaid'
      <4>1. \A b \in Actors : seen'[b].sub = seen[b].sub
        BY <3>4
      <4>2. \A e \in Events : pc'[e] = pc[e] /\ e \in Actors
        BY <3>2, <3>3, ActorTypes
      <4> QED BY <1>1, <1>2, <4>1, <4>2 DEF IInv, CardPlanIsPaid
    <3>12. AppliedIsReported'
      BY <1>2, <3>2, <3>3, ActorTypes DEF IInv, AppliedIsReported
    <3>13. stale' \subseteq {b \in Actors : seen'[b].quote # None}
      <4>1. \A b \in Actors : seen'[b].quote = seen[b].quote
        BY <3>4
      <4> QED BY <3>1, <4>1 DEF IInv, TypeOK
    <3> QED BY <3>1, <3>2, <3>3, <3>5, <3>7, <3>8, <3>10, <3>11, <3>12, <3>13
  <2> QED BY <2>1, <2>2
<1>5. TypeOK'
  BY <1>1, <1>2, <1>3, <1>4 DEF IInv, TypeOK
<1> QED BY <1>3, <1>4, <1>5 DEF IInv, MemoryTypes

\* How a quote is saved, whoever saves it.
LEMMA SavingTyped ==
  ASSUME IInv, NEW a \in Actors, NEW status \in {"accepted", "paid"}, SaveQuote(a, status)
  PROVE  /\ quote' \in {"accepted", "paid"}
         /\ stale' = stale \ {a} \/ stale' = {b \in Actors : seen[b].quote # None} \ {a}
  BY DEF SaveQuote, IInv, TypeOK

LEMMA ApplyCompletedKeeps ==
  ASSUME IInv, ApplyCompleted
  PROVE  IInv'
<1> DEFINE e == "completed"
<1>1. /\ pc[e] = "apply" /\ End(e)
      /\ UNCHANGED <<plan, ledger, outbox, reminded, stripe, today>>
  BY DEF ApplyCompleted
<1>2. UNCHANGED <<nudges, due, emitted, provider>>
  BY <1>1 DEF outbox, stripe
<1>3. /\ NudgesNamePayments' /\ PlanAgrees' /\ NudgeStands' /\ Counted' = Counted
      /\ plan' \in [status : {"none", "live", "ended"}, from : Days, months : Nat]
      /\ ledger' \in [Keys -> {"absent", "counted", "voided"}]
      /\ due' \subseteq nudges' /\ today' \in Days
  BY <1>1, <1>2, PlanUntouched
<1>4. e \in Actors /\ e \in Events /\ e \in Collecting
  BY ActorTypes
<1>5. /\ quote' \in {"accepted", "paid"} /\ checkout' \in {"open", "paid", "expired"}
      /\ card' \in [Collecting -> {"absent", "counted", "duplicate"}]
      /\ sub' \in {"none", "active", "canceled"}
      /\ recorded' \subseteq emitted
      /\ CardKept /\ (sub' # "none" => card'["completed"] # "absent")
      /\ stale' = stale \ {e} \/ stale' = {b \in Actors : seen[b].quote # None} \ {e}
  <2>1. CASE checkout # seen[e].checkout \/ (Saves(e, "paid") /\ ~Current(e))
    <3>1. stale' = stale \ {e} /\ UNCHANGED <<quote, checkout, card, sub, recorded>>
      BY <2>1 DEF ApplyCompleted
    <3> QED BY <3>1 DEF IInv, TypeOK, CardKept, CardPlanIsPaid
  <2>2. CASE ~(checkout # seen[e].checkout \/ (Saves(e, "paid") /\ ~Current(e)))
    <3>1. /\ recorded' = recorded \cup {e} /\ checkout' = "paid"
          /\ card' = CompletedBooked(e)
          /\ SaveQuote(e, "paid")
          /\ sub' = StartedCardPlan
      BY <2>2 DEF ApplyCompleted
    <3>2. /\ card' \in [Collecting -> {"absent", "counted", "duplicate"}]
          /\ card'[e] # "absent" /\ CardKept
      BY <1>4, <3>1 DEF CompletedBooked, IInv, TypeOK, CardKept
    <3>3. sub' \in {"none", "active", "canceled"}
      BY <3>1 DEF StartedCardPlan, IInv, TypeOK
    <3>4. recorded' \subseteq emitted
      BY <1>1, <1>4, <3>1 DEF IInv, TypeOK, AppliedIsReported
    <3>5. /\ quote' \in {"accepted", "paid"}
          /\ stale' = stale \ {e} \/ stale' = {b \in Actors : seen[b].quote # None} \ {e}
      BY <1>4, <3>1, SavingTyped
    <3> QED BY <3>1, <3>2, <3>3, <3>4, <3>5
  <2> QED BY <2>1, <2>2
<1>6. /\ pc' \in [Actors -> {"idle", "record", "void", "voiding", "apply"}]
      /\ lock' \in Requests \cup {None}
      /\ seen' \in [Actors -> Snapshots] /\ form' \in [Requests -> Forms \cup {None}]
      /\ stale' \subseteq {b \in Actors : seen'[b].quote # None}
      /\ IdleKnowsNothing' /\ Asked' /\ Locked' /\ CardPlanIsPaid' /\ AppliedIsReported'
  BY <1>1, <1>2, <1>3, <1>4, <1>5, EndLeaves
<1>7. TypeOK'
  BY <1>2, <1>3, <1>5, <1>6 DEF IInv, TypeOK
<1> QED BY <1>3, <1>6, <1>7 DEF IInv, MemoryTypes

LEMMA ApplyLifecycleKeeps ==
  ASSUME IInv, NEW e \in Events, ApplyLifecycle(e)
  PROVE  IInv'
<1>1. /\ e # "completed" /\ pc[e] = "apply" /\ End(e) /\ stale' = stale \ {e}
      /\ recorded' = recorded \cup {e} /\ sub' = Folded(e) /\ card' = RenewalBooked(e)
      /\ UNCHANGED <<quote, checkout, plan, ledger, outbox, reminded, stripe, today>>
  BY DEF ApplyLifecycle
<1>2. UNCHANGED <<nudges, due, emitted, provider>>
  BY <1>1 DEF outbox, stripe
<1>3. /\ NudgesNamePayments' /\ PlanAgrees' /\ NudgeStands' /\ Counted' = Counted
      /\ plan' \in [status : {"none", "live", "ended"}, from : Days, months : Nat]
      /\ ledger' \in [Keys -> {"absent", "counted", "voided"}]
      /\ due' \subseteq nudges' /\ today' \in Days
  BY <1>1, <1>2, PlanUntouched
<1>4. seen[e].sub \in {"active", "canceled"} /\ e \in Actors
  BY <1>1, ActorTypes DEF IInv, CardPlanIsPaid
<1>5. card["completed"] # "absent"
  BY <1>4 DEF IInv, CardPlanIsPaid
<1>6. /\ card' \in [Collecting -> {"absent", "counted", "duplicate"}] /\ CardKept
  BY <1>1 DEF RenewalBooked, Collecting, IInv, TypeOK, CardKept
<1>7. sub' \in {"none", "active", "canceled"} /\ card'["completed"] # "absent"
  <2>1. Carried(e) \in {"canceled", "active", None}
    BY DEF Carried
  <2>2. sub' \in {"none", "active", "canceled"}
    BY <1>1, <1>4, <2>1 DEF Folded
  <2> QED BY <1>5, <1>6, <2>2, ActorTypes DEF CardKept
<1>8. /\ pc' \in [Actors -> {"idle", "record", "void", "voiding", "apply"}]
      /\ lock' \in Requests \cup {None}
      /\ seen' \in [Actors -> Snapshots] /\ form' \in [Requests -> Forms \cup {None}]
      /\ stale' \subseteq {b \in Actors : seen'[b].quote # None}
      /\ IdleKnowsNothing' /\ Asked' /\ Locked' /\ CardPlanIsPaid' /\ AppliedIsReported'
  BY <1>1, <1>2, <1>3, <1>4, <1>6, <1>7, EndLeaves
<1>9. recorded' \subseteq emitted
  BY <1>1 DEF IInv, TypeOK, AppliedIsReported
<1>10. TypeOK'
  BY <1>1, <1>2, <1>3, <1>6, <1>7, <1>8, <1>9 DEF IInv, TypeOK
<1> QED BY <1>3, <1>8, <1>10 DEF IInv, MemoryTypes

\* A nudge for a payment that was not recorded, or not undone, before is queued.
LEMMA NudgeIsQueued ==
  ASSUME IInv, NEW p, NEW k \in Keys, NEW why \in {"pay", "undo"}, QueueNudge(p, why, k),
         why = "pay" => ledger[k] = "absent",
         why = "undo" => ledger[k] = "counted",
         ledger' = [ledger EXCEPT ![k] = IF why = "pay" THEN "counted" ELSE "voided"]
  PROVE  /\ due' \subseteq nudges'
         /\ Through(p) > today => \E n \in due' : n.through = Through(p)
         /\ NudgesNamePayments'
<1> DEFINE n == NudgeOf(p, why, k)
<1>1. n.through = Through(p) /\ n.why = why /\ n.key = k
  BY DEF NudgeOf
<1>2. n \notin nudges
  <2>1. "absent" # "counted" /\ "counted" # "voided"
    OBVIOUS
  <2> QED BY <1>1, <2>1 DEF IInv, NudgesNamePayments
<1>3. CASE Through(p) > today
  <2>1. nudges' = nudges \cup {n} /\ due' = due \cup {n}
    BY <1>2, <1>3 DEF QueueNudge
  <2>2. NudgesNamePayments'
    <3> SUFFICES ASSUME NEW m \in nudges'
                 PROVE  /\ m.key \in Keys
                        /\ m.why = "pay" => ledger'[m.key] # "absent"
                        /\ m.why = "undo" => ledger'[m.key] = "voided"
      BY DEF NudgesNamePayments
    <3>1. ledger \in [Keys -> {"absent", "counted", "voided"}]
      BY DEF IInv, TypeOK
    <3>2. CASE m = n
      BY <1>1, <3>1, <3>2
    <3>3. CASE m \in nudges
      <4>1. /\ m.key \in Keys
            /\ m.why = "pay" => ledger[m.key] # "absent"
            /\ m.why = "undo" => ledger[m.key] = "voided"
        BY <3>3 DEF IInv, NudgesNamePayments
      <4> HIDE DEF n
      <4> QED BY <3>1, <4>1
    <3> QED BY <2>1, <3>2, <3>3
  <2> HIDE DEF n
  <2> QED BY <1>1, <2>1, <2>2 DEF IInv, TypeOK
<1>4. CASE ~(Through(p) > today)
  <2>1. UNCHANGED <<nudges, due>>
    BY <1>4 DEF QueueNudge
  <2>2. NudgesNamePayments'
    <3> SUFFICES ASSUME NEW m \in nudges
                 PROVE  /\ m.key \in Keys
                        /\ m.why = "pay" => ledger'[m.key] # "absent"
                        /\ m.why = "undo" => ledger'[m.key] = "voided"
      BY <2>1 DEF NudgesNamePayments
    <3>1. ledger \in [Keys -> {"absent", "counted", "voided"}]
      BY DEF IInv, TypeOK
    <3>2. /\ m.key \in Keys
          /\ m.why = "pay" => ledger[m.key] # "absent"
          /\ m.why = "undo" => ledger[m.key] = "voided"
      BY DEF IInv, NudgesNamePayments
    <3> HIDE DEF n
    <3> QED BY <3>1, <3>2
  <2> QED BY <1>4, <2>1, <2>2 DEF IInv, TypeOK
<1> QED BY <1>3, <1>4

\* The plan that a payment leaves is what the payments then cover.
LEMMA ExtendedAgrees ==
  ASSUME IInv, NEW r \in Requests, pc[r] = "record", ledger[form[r].key] = "absent",
         plan' = Extended(r), ledger' = [ledger EXCEPT ![form[r].key] = "counted"]
  PROVE  /\ PlanAgrees'
         /\ plan' \in [status : {"none", "live", "ended"}, from : Days, months : Nat]
<1> DEFINE k == form[r].key
<1>1. form[r] \in Forms /\ k \in Keys /\ form[r].day \in Days
  BY DEF IInv, Asked, Forms
<1>2. ledger \in [Keys -> {"absent", "counted", "voided"}] /\ k \notin Counted
  BY DEF IInv, TypeOK, Counted
<1>3. Counted' = Counted \cup {k}
  <2> HIDE DEF k
  <2>1. ledger' = [ledger EXCEPT ![k] = "counted"]
    BY DEF k
  <2> QED BY <1>1, <1>2, <2>1 DEF Counted
<1>4. Counted \in SUBSET Keys /\ Counted' \in SUBSET Keys
  BY DEF Counted
<1>5. Covered(Counted)' = Covered(Counted) + MonthsOf[k]
  <2>1. Covered(Counted)' = Covered(Counted')
    BY DEF Covered, PaidMonths
  <2>2. Covered(Counted \cup {k}) = Covered(Counted) + MonthsOf[k]
    BY <1>1, <1>2, <1>4, OneMorePayment
  <2> QED BY <1>3, <2>1, <2>2
<1>6. MonthsOf[k] \in Nat /\ Covered(Counted) \in Nat
  BY <1>1, <1>4, MonthsOfOne, MonthsAreFinite
<1>7. Covered(Counted) = 0 <=> Counted = {}
  BY <1>4, NothingCovered
<1>8. plan.status = "live" <=> Counted # {}
  BY DEF IInv, PlanAgrees
<1>9. /\ plan'.status = "live"
      /\ plan'.months = Covered(Counted) + MonthsOf[k]
      /\ plan' \in [status : {"none", "live", "ended"}, from : Days, months : Nat]
  <2>1. plan.from \in Days
    BY DEF IInv, TypeOK
  <2>2. CASE plan.status # "live" \/ Covered(Counted) = 0
    <3>1. plan' = [status |-> "live", from |-> form[r].day, months |-> MonthsOf[k]]
      BY <2>2 DEF Extended
    <3>2. Covered(Counted) = 0
      BY <1>7, <1>8, <2>2
    <3> QED BY <1>1, <1>6, <3>1, <3>2
  <2>3. CASE ~(plan.status # "live" \/ Covered(Counted) = 0)
    <3>1. plan' = [status |-> "live", from |-> plan.from, months |-> Covered(Counted) + MonthsOf[k]]
      BY <2>3 DEF Extended
    <3> QED BY <1>6, <2>1, <3>1
  <2> QED BY <2>2, <2>3
<1>10. PlanAgrees'
  <2>1. Counted' # {}
    BY <1>3
  <2> QED BY <1>5, <1>9, <2>1 DEF PlanAgrees
<1> QED BY <1>9, <1>10

LEMMA RecordPaymentKeeps ==
  ASSUME IInv, NEW r \in Requests, RecordPayment(r)
  PROVE  IInv'
<1> DEFINE k == form[r].key
<1>1. /\ pc[r] = "record" /\ lock = None /\ End(r)
      /\ UNCHANGED <<card, sub, recorded, reminded, stripe, today>>
  BY DEF RecordPayment, LockFree
<1>2. UNCHANGED <<emitted, provider>>
  BY <1>1 DEF stripe
<1>3. r \in Actors /\ form[r] \in Forms /\ k \in Keys
  BY <1>1, ActorTypes DEF IInv, Asked, Forms
<1>4. \A q \in Requests : pc[q] # "voiding"
  BY <1>1, PlansAssumption DEF IInv, Locked
<1>5. CardKept /\ (sub' # "none" => card'["completed"] # "absent")
  BY <1>1 DEF IInv, CardKept, CardPlanIsPaid
<1>6. /\ pc' \in [Actors -> {"idle", "record", "void", "voiding", "apply"}]
      /\ lock' \in Requests \cup {None}
      /\ seen' \in [Actors -> Snapshots] /\ form' \in [Requests -> Forms \cup {None}]
      /\ stale' = stale \ {r} \/ stale' = {b \in Actors : seen[b].quote # None} \ {r}
           => stale' \subseteq {b \in Actors : seen'[b].quote # None}
      /\ IdleKnowsNothing' /\ Asked' /\ Locked' /\ CardPlanIsPaid' /\ AppliedIsReported'
  BY <1>1, <1>2, <1>3, <1>4, <1>5, EndLeaves
<1>7. CASE RecordConflicts(r)
  <2>1. stale' = stale \ {r} /\ UNCHANGED <<quote, checkout, plan, ledger, outbox>>
    BY <1>7 DEF RecordPayment
  <2>2. UNCHANGED <<nudges, due>>
    BY <2>1 DEF outbox
  <2>3. /\ NudgesNamePayments' /\ PlanAgrees' /\ NudgeStands'
        /\ plan' \in [status : {"none", "live", "ended"}, from : Days, months : Nat]
        /\ ledger' \in [Keys -> {"absent", "counted", "voided"}]
        /\ due' \subseteq nudges' /\ today' \in Days
    BY <1>1, <2>1, <2>2, PlanUntouched
  <2>4. TypeOK'
    BY <1>1, <1>2, <1>6, <2>1, <2>3 DEF IInv, TypeOK
  <2> QED BY <1>6, <2>3, <2>4 DEF IInv, MemoryTypes
<1>8. CASE ~RecordConflicts(r)
  <2>1. /\ SaveQuote(r, "paid")
        /\ IF Saves(r, "paid") /\ checkout = "open"
           THEN checkout' = "expired" /\ closing' = TRUE
           ELSE UNCHANGED <<checkout, closing>>
        /\ ledger' = [ledger EXCEPT ![form[r].key] = "counted"]
        /\ plan' = Extended(r)
        /\ QueueNudge(plan', "pay", form[r].key)
    BY <1>8 DEF RecordPayment
  <2>2. ledger[k] = "absent"
    BY <1>8, <1>3 DEF RecordConflicts
  <2>3. /\ quote' \in {"accepted", "paid"}
        /\ stale' = stale \ {r} \/ stale' = {b \in Actors : seen[b].quote # None} \ {r}
    BY <1>3, <2>1, SavingTyped
  <2>4. checkout' \in {"open", "paid", "expired"}
    BY <2>1 DEF IInv, TypeOK
  <2>5. /\ PlanAgrees'
        /\ plan' \in [status : {"none", "live", "ended"}, from : Days, months : Nat]
    BY <1>1, <2>1, <2>2, ExtendedAgrees
  <2>6. /\ due' \subseteq nudges'
        /\ Through(plan') > today => \E n \in due' : n.through = Through(plan')
        /\ NudgesNamePayments'
    BY <1>3, <2>1, <2>2, NudgeIsQueued
  <2>7. NudgeStands'
    BY <1>1, <2>6 DEF NudgeStands, Through
  <2>8. ledger' \in [Keys -> {"absent", "counted", "voided"}]
    BY <2>1 DEF IInv, TypeOK
  <2>9. TypeOK'
    BY <1>1, <1>2, <1>6, <2>3, <2>4, <2>5, <2>6, <2>8 DEF IInv, TypeOK
  <2> QED BY <1>6, <2>3, <2>5, <2>6, <2>7, <2>9 DEF IInv, MemoryTypes
<1> QED BY <1>7, <1>8

LEMMA VoidPaymentKeeps ==
  ASSUME IInv, NEW r \in Requests, VoidPayment(r)
  PROVE  IInv'
<1> DEFINE k == form[r].key
           rest == seen[r].counted \ {k}
           back == IF KeptByCard(r) THEN seen[r].quote ELSE "accepted"
<1>1. /\ pc[r] = "voiding" /\ End(r)
      /\ UNCHANGED <<checkout, sub, recorded, closing, reminded, stripe, today>>
  BY DEF VoidPayment
<1>2. UNCHANGED <<emitted, provider>>
  BY <1>1 DEF stripe
<1>3. r \in Actors /\ form[r] \in Forms /\ k \in Keys
  BY <1>1, ActorTypes DEF IInv, Asked, Forms
<1>4. /\ lock = r /\ seen[r].counted = Counted /\ k \in Counted
      /\ seen[r].card \in [Collecting -> {"absent", "counted", "duplicate"}]
  BY <1>1 DEF IInv, Locked
<1>5. \A q \in Requests \ {r} : pc[q] # "voiding"
  BY <1>4 DEF IInv, Locked
<1>6. ledger \in [Keys -> {"absent", "counted", "voided"}] /\ ledger[k] = "counted"
      /\ rest = Counted \ {k} /\ rest \in SUBSET Keys
  BY <1>4 DEF IInv, TypeOK, Counted
<1>7. /\ CardKept /\ card' \in [Collecting -> {"absent", "counted", "duplicate"}]
      /\ sub' # "none" => card'["completed"] # "absent"
  <2>1. card' = card \/ card' = CountInstead(r)
    BY DEF VoidPayment, payments
  <2>2. CardKept /\ card' \in [Collecting -> {"absent", "counted", "duplicate"}]
    BY <2>1 DEF CountInstead, CardKept, IInv, TypeOK
  <2> QED BY <1>1, <2>2, ActorTypes DEF IInv, CardPlanIsPaid, CardKept
<1>8. /\ pc' \in [Actors -> {"idle", "record", "void", "voiding", "apply"}]
      /\ lock' \in Requests \cup {None}
      /\ seen' \in [Actors -> Snapshots] /\ form' \in [Requests -> Forms \cup {None}]
      /\ stale' = stale \ {r} \/ stale' = {b \in Actors : seen[b].quote # None} \ {r}
           => stale' \subseteq {b \in Actors : seen'[b].quote # None}
      /\ IdleKnowsNothing' /\ Asked' /\ Locked' /\ CardPlanIsPaid' /\ AppliedIsReported'
  BY <1>1, <1>2, <1>3, <1>5, <1>7, EndLeaves
<1>9. ASSUME ledger' = [ledger EXCEPT ![k] = "voided"]
      PROVE  Counted' = rest /\ ledger' \in [Keys -> {"absent", "counted", "voided"}]
  <2> HIDE DEF k
  <2> QED BY <1>3, <1>6, <1>9 DEF Counted
<1>10. CASE rest # {}
  <2>1. /\ ledger' = [ledger EXCEPT ![k] = "voided"]
        /\ plan' = [plan EXCEPT !.months = Covered(rest)]
        /\ QueueNudge(plan', "undo", k)
        /\ stale' = stale \ {r}
        /\ UNCHANGED <<quote, card>>
    BY <1>10 DEF VoidPayment
  <2>2. Counted' = rest /\ ledger' \in [Keys -> {"absent", "counted", "voided"}]
    BY <1>9, <2>1
  <2>3. Covered(rest) \in Nat
    BY <1>6, MonthsAreFinite
  <2>4. /\ plan' \in [status : {"none", "live", "ended"}, from : Days, months : Nat]
        /\ plan'.status = plan.status /\ plan'.months = Covered(rest)
    BY <2>1, <2>3 DEF IInv, MemoryTypes
  <2>5. PlanAgrees'
    <3>1. plan.status = "live"
      BY <1>4 DEF IInv, PlanAgrees
    <3>2. Covered(Counted)' = Covered(rest)
      BY <2>2 DEF Covered, PaidMonths
    <3> QED BY <1>10, <2>2, <2>4, <3>1, <3>2 DEF PlanAgrees
  <2>6. /\ due' \subseteq nudges'
        /\ Through(plan') > today => \E n \in due' : n.through = Through(plan')
        /\ NudgesNamePayments'
    BY <1>3, <1>6, <2>1, NudgeIsQueued
  <2>7. NudgeStands'
    BY <1>1, <2>6 DEF NudgeStands, Through
  <2>8. TypeOK'
    BY <1>1, <1>2, <1>7, <1>8, <2>1, <2>2, <2>4, <2>6 DEF IInv, TypeOK
  <2> QED BY <1>8, <2>4, <2>5, <2>6, <2>7, <2>8 DEF IInv, MemoryTypes
<1>11. CASE rest = {} /\ Saves(r, back) /\ ~Current(r)
  <2>1. stale' = stale \ {r} /\ UNCHANGED <<quote, plan, payments, nudges, due>>
    BY <1>11 DEF VoidPayment
  <2>2. UNCHANGED <<ledger, card>>
    BY <2>1 DEF payments
  <2>3. /\ NudgesNamePayments' /\ PlanAgrees' /\ NudgeStands'
        /\ plan' \in [status : {"none", "live", "ended"}, from : Days, months : Nat]
        /\ ledger' \in [Keys -> {"absent", "counted", "voided"}]
        /\ due' \subseteq nudges' /\ today' \in Days
    BY <1>1, <2>1, <2>2, PlanUntouched
  <2>4. TypeOK'
    BY <1>1, <1>2, <1>7, <1>8, <2>1, <2>3 DEF IInv, TypeOK
  <2> QED BY <1>8, <2>3, <2>4 DEF IInv, MemoryTypes
<1>12. CASE rest = {} /\ ~(Saves(r, back) /\ ~Current(r))
  <2>1. /\ ledger' = [ledger EXCEPT ![k] = "voided"]
        /\ plan' = [plan EXCEPT !.status = "ended", !.months = 0]
        /\ SaveQuote(r, back)
        /\ UNCHANGED <<nudges, due>>
    BY <1>12 DEF VoidPayment
  <2>2. Counted' = rest /\ ledger' \in [Keys -> {"absent", "counted", "voided"}]
    BY <1>9, <2>1
  <2>3. /\ plan' \in [status : {"none", "live", "ended"}, from : Days, months : Nat]
        /\ plan'.status = "ended"
    BY <2>1 DEF IInv, MemoryTypes
  <2>4. PlanAgrees' /\ NudgeStands'
    BY <1>12, <2>2, <2>3 DEF PlanAgrees, NudgeStands
  <2>5. /\ quote' \in {"accepted", "paid"}
        /\ stale' = stale \ {r} \/ stale' = {b \in Actors : seen[b].quote # None} \ {r}
    BY <2>1 DEF SaveQuote, IInv, TypeOK
  <2>6. NudgesNamePayments'
    <3> SUFFICES ASSUME NEW m \in nudges
                 PROVE  /\ m.key \in Keys
                        /\ m.why = "pay" => ledger'[m.key] # "absent"
                        /\ m.why = "undo" => ledger'[m.key] = "voided"
      BY <2>1 DEF NudgesNamePayments
    <3>1. /\ m.key \in Keys
          /\ m.why = "pay" => ledger[m.key] # "absent"
          /\ m.why = "undo" => ledger[m.key] = "voided"
      BY DEF IInv, NudgesNamePayments
    <3> HIDE DEF k
    <3> QED BY <1>6, <2>1, <3>1
  <2>7. TypeOK'
    BY <1>1, <1>2, <1>7, <1>8, <2>1, <2>2, <2>3, <2>5 DEF IInv, TypeOK
  <2> QED BY <1>8, <2>3, <2>4, <2>5, <2>6, <2>7 DEF IInv, MemoryTypes
<1> QED BY <1>10, <1>11, <1>12

LEMMA InitIInv == Init => IInv
<1> SUFFICES ASSUME Init PROVE IInv
  OBVIOUS
<1>1. 0 \in Days
  BY PlansAssumption DEF Days
<1>2. NoPlan \in [status : {"none", "live", "ended"}, from : Days, months : Nat] /\ NoPlan.status = "none"
  BY <1>1 DEF NoPlan
<1>3. seen \in [Actors -> Snapshots] /\ \A a \in Actors : seen[a] = NoSnapshot
  BY NoSnapshotTyped DEF Init
<1>4. TypeOK
  BY <1>1, <1>2 DEF Init, TypeOK
<1>5. MemoryTypes
  BY <1>2, <1>3 DEF Init, MemoryTypes
<1>6. IdleKnowsNothing
  BY <1>3 DEF IdleKnowsNothing
<1>7. Asked /\ Locked /\ AppliedIsReported
  BY ActorTypes DEF Init, Asked, Locked, AppliedIsReported
<1>8. CardPlanIsPaid
  BY <1>3, NoSnapshotTyped, ActorTypes, PlansAssumption DEF Init, CardPlanIsPaid
<1>9. NudgesNamePayments
  BY DEF Init, NudgesNamePayments
<1>10. Counted = {}
  BY DEF Init, Counted
<1>11. PlanAgrees /\ NudgeStands
  BY <1>2, <1>10 DEF Init, PlanAgrees, NudgeStands
<1> QED BY <1>4, <1>5, <1>6, <1>7, <1>8, <1>9, <1>11 DEF IInv

LEMMA NextIInv == IInv /\ [Next]_vars => IInv'
<1> SUFFICES ASSUME IInv, [Next]_vars PROVE IInv'
  OBVIOUS
<1>1. ASSUME NEW r \in Requests, NEW k \in Keys, NEW day \in Days, OpenRecord(r, k, day)
      PROVE  IInv'
  BY <1>1, OpenRecordKeeps
<1>2. ASSUME NEW r \in Requests, RecordPayment(r) PROVE IInv'
  BY <1>2, RecordPaymentKeeps
<1>3. ASSUME NEW r \in Requests, NEW k \in Keys, OpenVoid(r, k) PROVE IInv'
  BY <1>3, OpenVoidKeeps
<1>4. ASSUME NEW r \in Requests, LockVoid(r) PROVE IInv'
  BY <1>4, LockVoidKeeps
<1>5. ASSUME NEW r \in Requests, VoidPayment(r) PROVE IInv'
  BY <1>5, VoidPaymentKeeps
<1>6. ASSUME NEW e \in Events, ReadEvent(e) PROVE IInv'
  BY <1>6, ReadEventKeeps
<1>7. CASE ApplyCompleted
  BY <1>7, ApplyCompletedKeeps
<1>8. ASSUME NEW e \in Events, ApplyLifecycle(e) PROVE IInv'
  BY <1>8, ApplyLifecycleKeeps
<1>9. ASSUME NEW a \in Actors, Crash(a) PROVE IInv'
  BY <1>9, CrashKeeps
<1>10. ASSUME NEW n \in due, NudgePlan(n) PROVE IInv'
  BY <1>10, NudgePlanKeeps
<1>11. CASE ExpireCheckout
  BY <1>11, ExpireCheckoutKeeps
<1>12. CASE CustomerPays
  BY <1>12, CustomerPaysKeeps
<1>13. ASSUME NEW e \in Events, CardPlanMoves(e) PROVE IInv'
  BY <1>13, CardPlanMovesKeeps
<1>14. CASE MonthPasses
  BY <1>14, MonthPassesKeeps
<1>15. CASE UNCHANGED vars
  <2>1. UNCHANGED <<quote, checkout, plan, payments, sub, recorded, nudges, due, reminded,
                    tasks, stale, today, emitted, provider>>
    BY <1>15 DEF vars, outbox, stripe
  <2>2. emitted \subseteq Events /\ provider \in {"open", "paid", "closed"}
    BY DEF IInv, TypeOK
  <2> QED BY <2>1, <2>2, ProviderKeeps
<1> QED
  BY <1>1, <1>2, <1>3, <1>4, <1>5, <1>6, <1>7, <1>8, <1>9, <1>10, <1>11, <1>12, <1>13, <1>14, <1>15
  DEF Next

-----------------------------------------------------------------------------
(***************************************************************************)
(* Theorems.                                                                *)
(***************************************************************************)

\* The invariant holds throughout, for any forms, requests and months.
THEOREM Invariance == Spec => []IInv
<1>1. Init => IInv
  BY InitIInv
<1>2. IInv /\ [Next]_vars => IInv'
  BY NextIInv
<1> QED BY <1>1, <1>2, PTL DEF Spec

\* Every variable keeps its type.
THEOREM TypeCorrect == Spec => []TypeOK
<1>1. IInv => TypeOK
  BY DEF IInv
<1> QED BY <1>1, Invariance, PTL

\* The manual plan is paid through exactly what its payments that count pay for,
\* whoever records and undoes them side by side (owner.py, the ledger read again
\* under the plan's lock).
THEOREM PlanAgreesWithLedger == Spec => []PlanAgrees
<1>1. IInv => PlanAgrees
  BY DEF IInv
<1> QED BY <1>1, Invariance, PTL

\* The day a live manual plan is paid through is never without its reminder
\* (owner.py _queue_plan_nudge, manual_payments.py nudge_plan).
THEOREM EveryEndIsReminded == Spec => []NudgeStands
<1>1. IInv => NudgeStands
  BY DEF IInv
<1> QED BY <1>1, Invariance, PTL

\* A step that neither takes money away nor pays the quote.
LEMMA MoneyKept ==
  ASSUME CardKept, Counted \subseteq Counted', PaidHasMoney,
         quote' = quote \/ Counted' # {} \/ \E e \in Collecting : card'[e] # "absent"
  PROVE  PaidHasMoney'
BY DEF PaidHasMoney, HasMoney, CardKept

\* The undoing of the last payment keeps a quote paid only if it was read unpaid.
LEMMA VoidPaymentMoney ==
  ASSUME IInv, PaidHasMoney, NEW r \in Requests, VoidPayment(r), ~PaidHasMoney'
  PROVE  pc[r] = "voiding" /\ pc'[r] = "idle" /\ seen[r].quote = "accepted"
<1> DEFINE k == form[r].key
           rest == seen[r].counted \ {k}
           back == IF KeptByCard(r) THEN seen[r].quote ELSE "accepted"
<1>1. pc[r] = "voiding" /\ End(r) /\ r \in Actors
  BY ActorTypes DEF VoidPayment
<1>2. pc'[r] = "idle"
  BY <1>1 DEF End, IInv, TypeOK
<1>3. /\ seen[r].counted = Counted /\ k \in Counted
      /\ \A e \in Collecting : seen[r].card[e] # "absent" => card[e] # "absent"
  BY <1>1 DEF IInv, Locked
<1>4. quote' = "paid" /\ Counted' = {} /\ \A e \in Collecting : card'[e] = "absent"
  BY DEF PaidHasMoney, HasMoney
<1>5. ledger \in [Keys -> {"absent", "counted", "voided"}] /\ k \in Keys /\ rest = Counted \ {k}
  BY <1>3 DEF IInv, TypeOK, Counted
<1>6. CardKept
  <2>1. card' = card \/ card' = CountInstead(r)
    BY DEF VoidPayment, payments
  <2> QED BY <2>1 DEF CountInstead, CardKept
<1>7. \A e \in Collecting : card[e] = "absent"
  BY <1>4, <1>6 DEF CardKept
<1>8. rest = {}
  <2> SUFFICES ASSUME rest # {} PROVE FALSE
    OBVIOUS
  <2>1. ledger' = [ledger EXCEPT ![k] = "voided"]
    BY DEF VoidPayment
  <2>2. \A i \in rest : i \in Counted'
    <3> HIDE DEF k
    <3> QED BY <1>5, <2>1 DEF Counted
  <2> QED BY <1>4, <2>2
<1>9. ~(Saves(r, back) /\ ~Current(r))
  <2> SUFFICES ASSUME Saves(r, back) /\ ~Current(r) PROVE FALSE
    OBVIOUS
  <2>1. ledger' = ledger
    BY <1>8 DEF VoidPayment, payments
  <2>2. Counted' = Counted
    BY <2>1 DEF Counted
  <2> QED BY <1>3, <1>4, <2>2
<1>10. SaveQuote(r, back)
  BY <1>8, <1>9 DEF VoidPayment
<1>11. ~KeptByCard(r)
  <2>1. seen[r].sub # "active"
    BY <1>1, <1>7, ActorTypes DEF IInv, CardPlanIsPaid
  <2> QED BY <1>3, <1>7, <2>1 DEF KeptByCard
<1>12. seen[r].quote = "accepted"
  BY <1>4, <1>10, <1>11 DEF SaveQuote
<1> QED BY <1>1, <1>2, <1>12

LEMMA StepKeepsMoney ==
  ASSUME IInv, [Next]_vars, PaidHasMoney, ~PaidHasMoney'
  PROVE  \E r \in Requests : VoidPayment(r)
<1> SUFFICES ASSUME \A r \in Requests : ~VoidPayment(r) PROVE FALSE
  OBVIOUS
<1>1. ASSUME UNCHANGED <<quote, payments>> PROVE FALSE
  BY <1>1 DEF PaidHasMoney, HasMoney, Counted, payments
<1>2. ASSUME NEW r \in Requests, RecordPayment(r) PROVE FALSE
  <2>1. card' = card /\ pc[r] = "record"
    BY <1>2 DEF RecordPayment
  <2>2. CASE RecordConflicts(r)
    BY <1>1, <1>2, <2>1, <2>2 DEF RecordPayment, payments
  <2>3. CASE ~RecordConflicts(r)
    <3>1. ledger' = [ledger EXCEPT ![form[r].key] = "counted"]
      BY <1>2, <2>3 DEF RecordPayment
    <3>2. form[r].key \in Keys
      BY <2>1 DEF IInv, Asked, Forms
    <3>3. form[r].key \in Counted'
      BY <3>1, <3>2 DEF Counted, IInv, TypeOK
    <3> QED BY <3>3 DEF PaidHasMoney, HasMoney
  <2> QED BY <2>2, <2>3
<1>3. CASE ApplyCompleted
  <2> DEFINE e == "completed"
  <2>1. ledger' = ledger
    BY <1>3 DEF ApplyCompleted
  <2>2. CASE checkout # seen[e].checkout \/ (Saves(e, "paid") /\ ~Current(e))
    <3>1. UNCHANGED <<quote, card>>
      BY <1>3, <2>2 DEF ApplyCompleted
    <3> QED BY <1>1, <2>1, <3>1 DEF payments
  <2>3. CASE ~(checkout # seen[e].checkout \/ (Saves(e, "paid") /\ ~Current(e)))
    <3>1. card' = CompletedBooked(e)
      BY <1>3, <2>3 DEF ApplyCompleted
    <3>2. card'[e] # "absent"
      BY <3>1, ActorTypes DEF CompletedBooked, IInv, TypeOK
    <3> QED BY <3>2, ActorTypes DEF PaidHasMoney, HasMoney
  <2> QED BY <2>2, <2>3
<1>4. ASSUME NEW e \in Events, ApplyLifecycle(e) PROVE FALSE
  <2>1. UNCHANGED <<quote, ledger>> /\ card' = RenewalBooked(e)
    BY <1>4 DEF ApplyLifecycle
  <2>2. CardKept /\ Counted' = Counted
    BY <2>1 DEF RenewalBooked, CardKept, Collecting, Counted, IInv, TypeOK
  <2> QED BY <2>1, <2>2, MoneyKept
<1>5. UNCHANGED <<quote, payments>>
  BY <1>2, <1>3, <1>4
  DEF Next, OpenRecord, OpenVoid, LockVoid, ReadEvent, Crash, NudgePlan, ExpireCheckout,
      CustomerPays, CardPlanMoves, MonthPasses, vars
<1> QED BY <1>1, <1>5

\* A paid quote is left without money by nothing but the undoing of the last payment
\* by a request that read the quote before another one paid it (owner.py
\* void_plan_payment); and nothing makes a quote paid that has none.
THEOREM MoneyStaysBehindThePaidQuote == Spec => OnlyStaleUndoKeepsPaid
<1>1. ASSUME IInv, [Next]_vars, PaidHasMoney /\ ~PaidHasMoney'
      PROVE  \E r \in Requests : pc[r] = "voiding" /\ pc'[r] = "idle" /\ seen[r].quote = "accepted"
  <2>1. PICK r \in Requests : VoidPayment(r)
    BY <1>1, StepKeepsMoney
  <2> QED BY <1>1, <2>1, VoidPaymentMoney
<1>2. IInv /\ [Next]_vars =>
        [PaidHasMoney /\ ~PaidHasMoney' =>
           \E r \in Requests : pc[r] = "voiding" /\ pc'[r] = "idle" /\ seen[r].quote = "accepted"]_vars
  BY <1>1
<1> QED BY <1>2, Invariance, PTL DEF Spec, OnlyStaleUndoKeepsPaid
=============================================================================
