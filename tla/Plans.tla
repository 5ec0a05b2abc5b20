-------------------------------- MODULE Plans --------------------------------
(***************************************************************************)
(* A delivered recurring quote and the plans that pay it.  The owner        *)
(* records checks and cash that each cover some months (a manual plan,      *)
(* with the day it is paid through) and undoes them; the customer may       *)
(* complete the open card checkout beside it, and the provider then reports *)
(* the card plan's events, in any order and again until they are            *)
(* acknowledged; the outbox worker nudges the owner before a manual plan    *)
(* runs out.                                                                *)
(*   application/owner.py (record_plan_payment, void_plan_payment),         *)
(*   application/public_quotes.py (record_payment_event and the             *)
(*   subscription branch), application/manual_payments.py (nudge_plan,      *)
(*   expire_checkout), domain/payments.py, infrastructure/stripe/events.py, *)
(*   infrastructure/payment_repositories.py.                                *)
(*                                                                         *)
(* Requests and webhook deliveries run concurrently, each in one            *)
(* transaction.  What one reads first, it may find changed when it writes:  *)
(* the row of the manual plan is locked and read again, the quote and the   *)
(* checkout's row are saved with a WHERE on what was read, and a card       *)
(* plan's row is saved as it was read, with no condition at all.            *)
(*                                                                         *)
(* The unit of time is the month.  The quote is linked to its customer and  *)
(* accepted, with its checkout open, from the start; opening a checkout and *)
(* the one-off payments are Checkout's.  Receipts are left out.             *)
(***************************************************************************)
EXTENDS Integers, FiniteSets

CONSTANTS
  Requests,   \* tasks that serve the owner
  Keys,       \* one-time keys of the owner's forms
  MonthsOf,   \* the months the payment of a form covers
  MaxToday,   \* bound: months that pass
  Reported,   \* the events the provider reports in this instance
  None

\* What the provider can report of the checkout and of the card plan it starts.
Events == {"completed", "first_invoice", "renewed", "updated", "deleted"}
Collecting == {"completed", "renewed"}      \* the events that bring money in
Actors == Requests \cup Events
Days == 0 .. MaxToday

ASSUME PlansAssumption ==
  /\ Requests \cap Events = {}
  /\ IsFiniteSet(Keys)
  /\ MonthsOf \in [Keys -> 1 .. 24]
  /\ MaxToday \in Nat
  /\ Reported \subseteq Events
  /\ None \notin Requests \cup Keys
  /\ None \notin {"accepted", "paid", "none", "active", "canceled"}

VARIABLES
  quote, checkout,     \* customer status of the quote; row of its checkout
  plan,                \* row of the manual plan
  ledger, card,        \* the manual payments, by key; the card payments
  sub,                 \* row of the card plan
  recorded,            \* events applied (payment_provider_events)
  nudges, due,         \* nudge commands ever queued; those still to run
  reminded,            \* days the owner was reminded of
  closing,             \* a checkout_expire command is on the outbox
  lock,                \* who holds the row of the manual plan
  pc, seen, form,      \* what each task is at, has read, was asked
  stale,               \* tasks whose quote was saved since they read it
  provider, emitted,   \* the checkout at the provider; the events it delivers
  today

payments == <<ledger, card>>
outbox == <<nudges, due, closing>>
tasks == <<lock, pc, seen, form>>
stripe == <<provider, emitted>>
vars == <<quote, checkout, plan, payments, sub, recorded, outbox, reminded,
          tasks, stale, stripe, today>>

NoSnapshot == [quote |-> None, checkout |-> None, plan |-> None, sub |-> None, card |-> None,
               counted |-> {}]
NoPlan == [status |-> "none", from |-> 0, months |-> 0]

TypeOK ==
  /\ quote \in {"accepted", "paid"}
  /\ checkout \in {"open", "paid", "expired"}
  /\ plan.status \in {"none", "live", "ended"} /\ plan.from \in Days /\ plan.months \in Nat
  /\ ledger \in [Keys -> {"absent", "counted", "voided"}]
  /\ card \in [Collecting -> {"absent", "counted", "duplicate"}]
  /\ sub \in {"none", "active", "canceled"}
  /\ recorded \subseteq emitted /\ emitted \subseteq Events
  /\ due \subseteq nudges
  /\ lock \in Requests \cup {None}
  /\ pc \in [Actors -> {"idle", "record", "void", "voiding", "apply"}]
  /\ stale \subseteq {a \in Actors : seen[a].quote # None}
  /\ provider \in {"open", "paid", "closed"}
  /\ today \in Days

Init ==
  /\ quote = "accepted" /\ checkout = "open"
  /\ plan = NoPlan
  /\ ledger = [k \in Keys |-> "absent"]
  /\ card = [e \in Collecting |-> "absent"]
  /\ sub = "none"
  /\ recorded = {}
  /\ nudges = {} /\ due = {} /\ reminded = {} /\ closing = FALSE
  /\ lock = None
  /\ pc = [a \in Actors |-> "idle"]
  /\ seen = [a \in Actors |-> NoSnapshot]
  /\ form = [r \in Requests |-> None]
  /\ stale = {}
  /\ provider = "open" /\ emitted = {}
  /\ today = 0

-----------------------------------------------------------------------------
(***************************************************************************)
(* Reading and writing.                                                    *)
(***************************************************************************)

Counted == {k \in Keys : ledger[k] = "counted"}

\* The months that payments cover, each paid by one of them.
PaidMonths(keys) == UNION {{k} \X (1 .. MonthsOf[k]) : k \in keys}
Covered(keys) == Cardinality(PaidMonths(keys))

\* The first day that is not paid for.
Through(p) == p.from + p.months

\* What a task keeps of what it reads, by the step it takes.
Snapshot(a, step) ==
  CASE step = "record" -> [NoSnapshot EXCEPT !.quote = quote, !.plan = plan.status]
    [] step = "void" -> [NoSnapshot EXCEPT !.quote = quote, !.sub = sub]
    [] a = "completed" ->
         [NoSnapshot EXCEPT !.quote = quote, !.plan = plan.status, !.checkout = checkout]
    [] OTHER -> [NoSnapshot EXCEPT !.sub = sub]

Begin(a, step) ==
  /\ pc[a] = "idle"
  /\ pc' = [pc EXCEPT ![a] = step]
  /\ seen' = [seen EXCEPT ![a] = Snapshot(a, step)]
  /\ UNCHANGED stale

\* The transaction of a ends, committed or rolled back, and lets go of its lock.
End(a) ==
  /\ pc' = [pc EXCEPT ![a] = "idle"]
  /\ seen' = [seen EXCEPT ![a] = NoSnapshot]
  /\ lock' = IF lock = a THEN None ELSE lock
  /\ form' = IF a \in Requests THEN [form EXCEPT ![a] = None] ELSE form

\* The WHERE on the version in save() of a quote.
Current(a) == a \notin stale

\* The quote is saved, unless the status a would give it is the one a has read.
SaveQuote(a, status) ==
  IF status = seen[a].quote THEN UNCHANGED quote /\ stale' = stale \ {a}
  ELSE quote' = status /\ stale' = {b \in Actors : seen[b].quote # None} \ {a}

Saves(a, status) == status # seen[a].quote

\* The plan's row is read without FOR UPDATE (mutant).
LockNotNeeded == TRUE

\* The plan's row can be locked: nobody holds it.
LockFree == lock = None

\* A nudge command per plan and day, whoever queued it (mutant).
NudgePerDay(p, why, k) == [through |-> Through(p), why |-> "pay", key |-> None]

\* The identity of a nudge command names the payment it was queued for.
NudgeOf(p, why, k) == [through |-> Through(p), why |-> why, key |-> k]

\* Queued a week ahead unless the day is over, or the command is there already.
QueueNudge(p, why, k) ==
  LET n == NudgeOf(p, why, k) IN
  IF Through(p) > today /\ n \notin nudges
  THEN nudges' = nudges \cup {n} /\ due' = due \cup {n}
  ELSE UNCHANGED <<nudges, due>>

-----------------------------------------------------------------------------
(***************************************************************************)
(* The owner.                                                              *)
(***************************************************************************)

\* What the owner asks to record, in the dashboard or by a text she confirmed: one to
\* 24 months, paid on a day that is not ahead.
AsksToRecord(k, day) == MonthsOf[k] \in 1 .. 24 /\ day <= today

\* What she asks to undo: a payment on record, by a text the latest that counts.
AsksToUndo(k) == ledger[k] # "absent"

\* The form is checked against the quote, the plans and the payments; a key that
\* is known is answered at once, and a card plan that is live refuses it.
OpenRecord(r, k, day) ==
  /\ AsksToRecord(k, day)
  /\ ledger[k] = "absent"
  /\ sub # "active"
  /\ Begin(r, "record")
  /\ form' = [form EXCEPT ![r] = [key |-> k, day |-> day]]
  /\ UNCHANGED <<quote, checkout, plan, payments, sub, recorded, outbox, reminded,
                 lock, stripe, today>>

\* A plan with nothing left to extend starts on the day of this payment.
Extended(r) ==
  LET k == form[r].key
      covered == Covered(Counted)
      fresh == plan.status # "live" \/ covered = 0 IN
  [status |-> "live",
   from   |-> IF fresh THEN form[r].day ELSE plan.from,
   months |-> IF fresh THEN MonthsOf[k] ELSE covered + MonthsOf[k]]

\* A plan that another task has created, a quote saved since, a reference that is
\* taken: the owner is asked to refresh, and nothing is kept.
RecordConflicts(r) ==
  \/ seen[r].plan = "none" /\ plan.status # "none"
  \/ Saves(r, "paid") /\ ~Current(r)
  \/ ledger[form[r].key] # "absent"

\* The plan's row is locked from here to the commit.  The first payment settles
\* the quote and closes the checkout that is open.
RecordPayment(r) ==
  /\ pc[r] = "record"
  /\ LockFree
  /\ End(r)
  /\ IF RecordConflicts(r)
     THEN /\ stale' = stale \ {r}
          /\ UNCHANGED <<quote, checkout, plan, ledger, outbox>>
     ELSE /\ SaveQuote(r, "paid")
          /\ IF Saves(r, "paid") /\ checkout = "open"
             THEN checkout' = "expired" /\ closing' = TRUE
             ELSE UNCHANGED <<checkout, closing>>
          /\ ledger' = [ledger EXCEPT ![form[r].key] = "counted"]
          /\ plan' = Extended(r)
          /\ QueueNudge(plan', "pay", form[r].key)
  /\ UNCHANGED <<card, sub, recorded, reminded, stripe, today>>

\* The quote and the plans, as they are before the lock.
OpenVoid(r, k) ==
  /\ plan.status # "none"
  /\ AsksToUndo(k)
  /\ Begin(r, "void")
  /\ form' = [form EXCEPT ![r] = [key |-> k, day |-> 0]]
  /\ UNCHANGED <<quote, checkout, plan, payments, sub, recorded, outbox, reminded,
                 lock, stripe, today>>

\* The plan's row is locked and the ledger read; a payment that is voided already
\* ends it.
LockVoid(r) ==
  /\ pc[r] = "void"
  /\ LockFree
  /\ IF ledger[form[r].key] = "counted"
     THEN /\ lock' = r
          /\ pc' = [pc EXCEPT ![r] = "voiding"]
          /\ seen' = [seen EXCEPT ![r].card = card, ![r].counted = Counted]
          /\ UNCHANGED <<form, stale>>
     ELSE End(r) /\ stale' = stale \ {r}
  /\ UNCHANGED <<quote, checkout, plan, payments, sub, recorded, outbox, reminded,
                 stripe, today>>

\* Card payments that raced the manual plan count instead of it.
CountInstead(r) ==
  [e \in Collecting |-> IF seen[r].card[e] = "duplicate" THEN "counted" ELSE card[e]]

\* The manual plan itself, as it was read, keeps the quote paid (mutant).
KeptByAnyPlan(r) ==
  \/ plan.status = "live" \/ seen[r].sub = "active"
  \/ \E e \in Collecting : seen[r].card[e] # "absent"

\* A card plan or card money keeps the quote paid.
KeptByCard(r) ==
  \/ seen[r].sub = "active"
  \/ \E e \in Collecting : seen[r].card[e] # "absent"

VoidPayment(r) ==
  LET k == form[r].key
      rest == seen[r].counted \ {k}
      back == IF KeptByCard(r) THEN seen[r].quote ELSE "accepted" IN
  /\ pc[r] = "voiding"
  /\ End(r)
  /\ IF rest # {}
     THEN /\ ledger' = [ledger EXCEPT ![k] = "voided"]
          /\ plan' = [plan EXCEPT !.months = Covered(rest)]
          /\ QueueNudge(plan', "undo", k)
          /\ stale' = stale \ {r}
          /\ UNCHANGED <<quote, card>>
     ELSE IF Saves(r, back) /\ ~Current(r)
     THEN stale' = stale \ {r} /\ UNCHANGED <<quote, plan, payments, nudges, due>>
     ELSE /\ ledger' = [ledger EXCEPT ![k] = "voided"]
          /\ plan' = [plan EXCEPT !.status = "ended", !.months = 0]
          /\ card' = CountInstead(r)
          /\ SaveQuote(r, back)
          /\ UNCHANGED <<nudges, due>>
  /\ UNCHANGED <<checkout, sub, recorded, closing, reminded, stripe, today>>

-----------------------------------------------------------------------------
(***************************************************************************)
(* Webhook deliveries.                                                     *)
(***************************************************************************)

\* An event that is recorded is acknowledged and no more.  One of a card plan that
\* is not known yet fails, so that the provider delivers it again.
ReadEvent(e) ==
  /\ e \in emitted \ recorded
  /\ e # "completed" => sub # "none"
  /\ Begin(e, "apply")
  /\ UNCHANGED <<quote, checkout, plan, payments, sub, recorded, outbox, reminded,
                 lock, form, stripe, today>>

\* A manual plan was live when the completion of the checkout was read.
BesideManual(e) == seen[e].plan = "live"

\* The card plan's row, created unless an event of it already has.
StartedCardPlan == IF sub = "none" THEN "active" ELSE sub

\* How the card payment of a checkout is booked.
CompletedBooked(e) ==
  [card EXCEPT ![e] = IF BesideManual(e) THEN "duplicate" ELSE "counted"]

\* The customer completed the card checkout: the money is booked, beside a manual
\* plan as a duplicate the owner is told of, and the card plan is there.
ApplyCompleted ==
  LET e == "completed" IN
  /\ pc[e] = "apply"
  /\ End(e)
  /\ IF checkout # seen[e].checkout \/ (Saves(e, "paid") /\ ~Current(e))
     THEN /\ stale' = stale \ {e}
          /\ UNCHANGED <<quote, checkout, card, sub, recorded>>
     ELSE /\ recorded' = recorded \cup {e}
          /\ checkout' = "paid"
          /\ card' = CompletedBooked(e)
          /\ SaveQuote(e, "paid")
          /\ sub' = StartedCardPlan
  /\ UNCHANGED <<plan, ledger, outbox, reminded, stripe, today>>

\* The status an event of the card plan carries, if it does.
Carried(e) ==
  CASE e = "deleted" -> "canceled"
    [] e = "updated" -> "active"
    [] OTHER         -> None

\* It is laid over the row that was read.
Folded(e) == IF Carried(e) = None THEN seen[e].sub ELSE Carried(e)

\* A renewal is booked, one payment per invoice.
RenewalBooked(e) == IF e = "renewed" THEN [card EXCEPT ![e] = "counted"] ELSE card

ApplyLifecycle(e) ==
  /\ e # "completed"
  /\ pc[e] = "apply"
  /\ End(e)
  /\ stale' = stale \ {e}
  /\ recorded' = recorded \cup {e}
  /\ sub' = Folded(e)
  /\ card' = RenewalBooked(e)
  /\ UNCHANGED <<quote, checkout, plan, ledger, outbox, reminded, stripe, today>>

\* A task dies, or the database fails it: its transaction is rolled back.
Crash(a) ==
  /\ pc[a] # "idle"
  /\ End(a)
  /\ stale' = stale \ {a}
  /\ UNCHANGED <<quote, checkout, plan, payments, sub, recorded, outbox, reminded,
                 stripe, today>>

-----------------------------------------------------------------------------
(***************************************************************************)
(* The worker, the provider and time.                                      *)
(***************************************************************************)

\* The plan is still paid through the day of the nudge, and the day not over.
StillDue(n) == plan.status = "live" /\ Through(plan) = n.through /\ n.through > today

\* A nudge for a plan that was paid again, undone or ended since, or for a day that
\* is over, is dropped.
NudgePlan(n) ==
  /\ n \in due
  /\ due' = due \ {n}
  /\ reminded' = IF StillDue(n) THEN reminded \cup {n.through} ELSE reminded
  /\ UNCHANGED <<quote, checkout, plan, payments, sub, recorded, nudges, closing,
                 tasks, stale, stripe, today>>

ExpireCheckout ==
  /\ closing
  /\ closing' = FALSE
  /\ provider' = IF provider = "open" THEN "closed" ELSE provider
  /\ UNCHANGED <<quote, checkout, plan, payments, sub, recorded, nudges, due, reminded,
                 tasks, stale, emitted, today>>

CustomerPays ==
  /\ provider = "open"
  /\ provider' = "paid"
  /\ emitted' = emitted \cup (Reported \cap {"completed", "first_invoice"})
  /\ UNCHANGED <<quote, checkout, plan, payments, sub, recorded, outbox, reminded,
                 tasks, stale, today>>

\* The card plan renews, changes or ends; nothing comes after its end.
CardPlanMoves(e) ==
  /\ provider = "paid"
  /\ e \in Reported \cap {"renewed", "updated", "deleted"}
  /\ "deleted" \notin emitted
  /\ emitted' = emitted \cup {e}
  /\ UNCHANGED <<quote, checkout, plan, payments, sub, recorded, outbox, reminded,
                 tasks, stale, provider, today>>

MonthPasses ==
  /\ today < MaxToday
  /\ today' = today + 1
  /\ UNCHANGED <<quote, checkout, plan, payments, sub, recorded, outbox, reminded,
                 tasks, stale, stripe>>

Next ==
  \/ \E r \in Requests, k \in Keys, day \in Days : OpenRecord(r, k, day)
  \/ \E r \in Requests : RecordPayment(r)
  \/ \E r \in Requests, k \in Keys : OpenVoid(r, k)
  \/ \E r \in Requests : LockVoid(r)
  \/ \E r \in Requests : VoidPayment(r)
  \/ \E e \in Events : ReadEvent(e)
  \/ ApplyCompleted
  \/ \E e \in Events : ApplyLifecycle(e)
  \/ \E a \in Actors : Crash(a)
  \/ \E n \in due : NudgePlan(n)
  \/ ExpireCheckout
  \/ CustomerPays
  \/ \E e \in Events : CardPlanMoves(e)
  \/ MonthPasses

Spec == Init /\ [][Next]_vars

-----------------------------------------------------------------------------
(***************************************************************************)
(* Properties.                                                             *)
(***************************************************************************)

\* The day the manual plan is paid through is the day its payments that still count
\* pay for, and it is live exactly while there are some: payments recorded and
\* undone side by side neither lose nor double a month (owner.py: the ledger is
\* read again under the plan's lock).
PlanAgrees ==
  /\ plan.status = "live" <=> Counted # {}
  /\ plan.status = "live" => plan.months = Covered(Counted)

\* A manual payment that still counts, or a card payment.
HasMoney == Counted # {} \/ \E e \in Collecting : card[e] # "absent"

\* Undoing the last payment puts the quote back, unless a card keeps it paid
\* (void_plan_payment: "Voiding the last one ends the plan and puts the quote back
\* where it was"): a quote is paid only as long as there is money behind it.
PaidHasMoney == quote = "paid" => HasMoney

\* Where that fails, it is by one step: the undoing of the last payment by a request
\* that read the quote before it was paid, and so does not save it.  No other order
\* of payments, undoings, card events and crashes takes the money from a paid quote
\* or makes one paid that has none.
OnlyStaleUndoKeepsPaid ==
  [][(PaidHasMoney /\ ~PaidHasMoney') =>
       \E r \in Requests : pc[r] = "voiding" /\ pc'[r] = "idle" /\ seen[r].quote = "accepted"
    ]_vars

\* The owner is reminded of every day a manual plan is paid through: as long as it
\* lies ahead, a command for it is queued or the owner was reminded of it, also of
\* a day that comes back when a later payment is undone.
NudgeStands ==
  plan.status = "live" /\ Through(plan) > today =>
    \/ Through(plan) \in reminded
    \/ \E n \in due : n.through = Through(plan)
=============================================================================
