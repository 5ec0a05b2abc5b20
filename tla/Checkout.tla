------------------------------ MODULE Checkout ------------------------------
(***************************************************************************)
(* The money side of one delivered one-off quote.  The customer opens,      *)
(* accepts or declines it on the public site, pays on the provider's        *)
(* checkout page; the provider reports by webhook; meanwhile the owner may  *)
(* record a check or cash payment, and undo it.                             *)
(*   application/public_quotes.py (PublicQuoteService),                     *)
(*   application/owner.py (mark_paid, mark_unpaid),                         *)
(*   application/manual_payments.py (expire_checkout), domain/payments.py,  *)
(*   infrastructure/payment_repositories.py, domain/quotes.py.              *)
(*                                                                         *)
(* Every request runs in a task of its own and commits once per             *)
(* transaction.  Under the database's read-committed isolation a            *)
(* transaction can write on the strength of rows that have changed since    *)
(* it read them: what it read is kept per request, what it writes is fenced *)
(* by the version of the quote, by the status of a session's row, and by    *)
(* the unique index on the payments that count.  Every save raises the      *)
(* version, which is only ever compared with the one that was read: instead *)
(* of it, "stale" has the requests that read a quote saved since.           *)
(* Checkouts that collect nothing (a full discount) are left out.           *)
(***************************************************************************)
EXTENDS Naturals, FiniteSets, FiniteSetsExt

CONSTANTS
  Requests,     \* tasks that serve customers and the owner
  MaxSessions,  \* bound: checkout sessions opened for the quote
  Checks,       \* bound: payments the owner records by hand
  Delayed,      \* sessions that may be paid by a method that settles later
  None

\* The n-th session is what the provider answers to the idempotency key of the
\* n-th attempt, however often it is asked.
Sessions == 1 .. MaxSessions
Outcomes == {"succeeded", "pending", "failed"}
Events == [session : Sessions, outcome : Outcomes]
Event(s, o) == [session |-> s, outcome |-> o]
Actors == Requests \cup Events   \* a delivery of an event is served like a request
Payments == Sessions \cup Checks \* the ledger's references

Statuses == {"sent", "viewed", "accepted", "declined", "paid"}

ASSUME CheckoutAssumption ==
  /\ MaxSessions \in Nat \ {0}
  /\ IsFiniteSet(Checks)
  /\ Requests \cap Events = {}
  /\ Sessions \cap Checks = {}
  /\ Delayed \subseteq Sessions
  /\ None \notin Sessions /\ None \notin Statuses

VARIABLES
  quote,          \* customer status of the quote
  rows,           \* status of the row of each session (quote_payments)
  ledger, before, \* the payments; what the customer had done before a manual one
  recorded,       \* events applied (payment_provider_events)
  told,           \* card payments the owner was told are a second payment
  closing,        \* sessions with a checkout_expire command on the outbox
  pc, seen, found, listed,  \* what each request is at, and has read
  stale,          \* requests whose quote has been saved since they read it
  provider,       \* the sessions as the provider has them
  past,           \* sessions whose deadline is over
  links,          \* sessions whose URL a customer was given
  emitted         \* events the provider delivers until they are acknowledged

database == <<quote, rows, ledger, before, recorded, told>>
memory == <<seen, found, listed>>
stripe == <<provider, past, emitted>>
vars == <<database, closing, pc, memory, stale, stripe, links>>

Booked == {"absent", "counted", "duplicate", "voided"}
NoPayments == [p \in Payments |-> "absent"]
Steps == {"idle", "view", "decline", "accept", "checkout", "attempt", "open", "record", "fence",
          "pay", "unpay", "webhook"}

CheckoutTypeOK ==
  /\ quote \in Statuses
  /\ rows \in [Sessions -> {"absent", "open", "pending", "paid", "failed", "expired"}]
  /\ ledger \in [Payments -> Booked]
  /\ before \in [Checks -> {"sent", "viewed", "accepted"}]
  /\ recorded \subseteq emitted
  /\ told \subseteq Sessions
  /\ closing \subseteq Sessions
  /\ pc \in [Actors -> Steps]
  /\ seen \in [Actors -> Statuses \cup {None}]
  /\ found \in [Actors -> Sessions \cup {None}]
  /\ listed \in [Actors -> [Payments -> Booked]]
  /\ stale \subseteq {a \in Actors : seen[a] # None}
  /\ provider \in [Sessions -> {"none", "open", "settling", "paid", "failed", "closed"}]
  /\ past \in [Sessions -> BOOLEAN]
  /\ links \subseteq Sessions
  /\ emitted \subseteq Events

Init ==
  /\ quote = "sent"
  /\ rows = [s \in Sessions |-> "absent"]
  /\ ledger = NoPayments
  /\ before = [p \in Checks |-> "sent"]
  /\ recorded = {}
  /\ told = {}
  /\ closing = {}
  /\ pc = [a \in Actors |-> "idle"]
  /\ seen = [a \in Actors |-> None]
  /\ found = [a \in Actors |-> None]
  /\ listed = [a \in Actors |-> NoPayments]
  /\ stale = {}
  /\ provider = [s \in Sessions |-> "none"]
  /\ past = [s \in Sessions |-> FALSE]
  /\ links = {}
  /\ emitted = {}

-----------------------------------------------------------------------------
(***************************************************************************)
(* Transactions.                                                           *)
(***************************************************************************)

\* The status of a session's row, by what the provider says or a successor does.
MarkedPending(status) == IF status = "open" THEN "pending" ELSE status
MarkedFailed(status) == IF status = "paid" THEN status ELSE "failed"
MarkedExpired(status) == IF status \in {"open", "pending"} THEN "expired" ELSE status
Created(s, status) == [rows EXCEPT ![s] = status]

\* count_for_quote
AttemptCount == Cardinality({s \in Sessions : rows[s] # "absent"})

InPlay == {s \in Sessions : rows[s] \in {"open", "pending"}}
Counted == {p \in Payments : ledger[p] = "counted"}
Active(payments) == {p \in Payments : payments[p] \in {"counted", "duplicate"}}

\* What a request that reads this quote goes on with; to anything else it answers
\* at once, changing nothing.
Admitted(step) ==
  /\ step = "view" => quote = "sent"
  /\ step \in {"decline", "accept", "pay"} => quote \notin {"paid", "declined"}
  /\ step = "unpay" => Active(ledger) \cap Checks # {}

\* A request starts by reading the quote; to undo a payment, the payments too.
Begin(a, step) ==
  /\ pc[a] = "idle"
  /\ Admitted(step)
  /\ pc' = [pc EXCEPT ![a] = step]
  /\ seen' = [seen EXCEPT ![a] = quote]
  /\ listed' = IF step = "unpay" THEN [listed EXCEPT ![a] = ledger] ELSE listed
  /\ UNCHANGED <<database, closing, found, stale, stripe, links>>

\* The quote is not needed any more, as it was read.
Outdate(a) == seen' = [seen EXCEPT ![a] = None]

\* A save without the WHERE on the version (mutant).
AnyVersion(a) == TRUE

\* The WHERE of save(): the row still has the version the request read.
Current(a) == a \notin stale

Save(a, status) ==
  /\ Current(a)
  /\ quote' = status
  /\ stale' = {b \in Actors : seen'[b] # None}

NoSave == quote' = quote /\ stale' = {b \in stale : seen'[b] # None}

Forget(a) ==
  /\ pc' = [pc EXCEPT ![a] = "idle"]
  /\ Outdate(a)
  /\ found' = [found EXCEPT ![a] = None]
  /\ listed' = [listed EXCEPT ![a] = NoPayments]

\* The dedup row of an event is stored in a transaction of its own (mutant).
AbortOnceRecorded(a) ==
  /\ pc[a] # "idle"
  /\ Forget(a)
  /\ NoSave
  /\ recorded' = IF a \in Events THEN recorded \cup {a} ELSE recorded
  /\ UNCHANGED <<rows, ledger, before, told, closing, stripe, links>>

\* The request is refused, or dies with its server: its transaction is rolled back.
Abort(a) ==
  /\ pc[a] # "idle"
  /\ Forget(a)
  /\ NoSave
  /\ UNCHANGED <<rows, ledger, before, recorded, told, closing, stripe, links>>

\* A customer status moves, or stays as the request read it and is not saved.
Move(a, status) ==
  \/ seen[a] = status /\ NoSave
  \/ seen[a] # status /\ Save(a, status)

\* find_open: the newest session still in play.
Newest(set) == IF set = {} THEN None ELSE Max(set)

-----------------------------------------------------------------------------
(***************************************************************************)
(* The customer.                                                           *)
(***************************************************************************)

View(a) ==
  /\ pc[a] = "view"
  /\ Forget(a)
  /\ Move(a, "viewed")
  /\ UNCHANGED <<rows, ledger, before, recorded, told, closing, stripe, links>>

\* The session a customer may still have open is left as it is.
Decline(a) ==
  /\ pc[a] = "decline"
  /\ Forget(a)
  /\ Move(a, "declined")
  /\ UNCHANGED <<rows, ledger, before, recorded, told, closing, stripe, links>>

\* is_expired
Lapsed(s) == rows[s] = "open" /\ past[s]

FindOpen(a) ==
  LET s == Newest(InPlay) IN
  /\ pc[a] = "accept"
  /\ found' = [found EXCEPT ![a] = s]
  /\ pc' = [pc EXCEPT ![a] = IF s = None \/ Lapsed(s) THEN "attempt" ELSE "checkout"]
  /\ UNCHANGED <<database, closing, seen, listed, stale, stripe, links>>

\* The end of the first transaction of accept_quote: the URL of the session in play.
ReturnOpen(a) ==
  /\ pc[a] = "checkout"
  /\ Forget(a)
  /\ Move(a, "accepted")
  /\ links' = links \cup {found[a]}
  /\ UNCHANGED <<rows, ledger, before, recorded, told, closing, stripe>>

\* ... or the key of the next attempt, one more than the sessions there are by
\* then.  A lapsed session is retired, if its row is still as it was read.
NewAttempt(a) ==
  LET s == found[a] IN
  /\ pc[a] = "attempt"
  /\ AttemptCount < MaxSessions
  /\ \/ s = None /\ UNCHANGED rows
     \/ s # None /\ rows[s] = "open" /\ rows' = [rows EXCEPT ![s] = MarkedExpired(@)]
  /\ found' = [found EXCEPT ![a] = AttemptCount + 1]
  /\ pc' = [pc EXCEPT ![a] = "open"]
  /\ Outdate(a)
  /\ Move(a, "accepted")
  /\ UNCHANGED <<ledger, before, recorded, told, closing, listed, stripe, links>>

\* create_checkout: a repeated key gets the session it got before.  The answer
\* may be lost.
OpenSession(a) ==
  /\ pc[a] = "open"
  /\ provider' = [provider EXCEPT ![found[a]] = IF @ = "none" THEN "open" ELSE @]
  /\ pc' = [pc EXCEPT ![a] = "record"]
  /\ UNCHANGED <<database, closing, memory, stale, past, emitted, links>>

\* The second transaction reads the quote again.
Reread(a) ==
  /\ pc[a] = "record"
  /\ seen' = [seen EXCEPT ![a] = quote]
  /\ pc' = [pc EXCEPT ![a] = "fence"]
  /\ UNCHANGED <<database, closing, found, listed, stale, stripe, links>>

\* The session counts as opened while the customer waited (mutant).
AlwaysPayable(a) == TRUE

\* The quote is still to be paid, and the save that says so goes through.
StillPayable(a) == seen[a] = "accepted" /\ Current(a)

\* A command is on the outbox once: its dedup key is the session's id.
Expire(s) == closing' = closing \cup {s}

\* It stores the session, open if the quote is still to be paid, else expired and
\* to be closed.
RecordSession(a) ==
  LET s == found[a] IN
  /\ pc[a] = "fence"
  /\ rows[s] = "absent"
  /\ Forget(a)
  /\ \/ /\ StillPayable(a)
        /\ Save(a, seen[a])
        /\ rows' = Created(s, "open")
        /\ links' = links \cup {s}
        /\ UNCHANGED closing
     \/ /\ ~StillPayable(a)
        /\ NoSave
        /\ rows' = Created(s, "expired")
        /\ Expire(s)
        /\ UNCHANGED links
  /\ UNCHANGED <<ledger, before, recorded, told, stripe>>

\* A concurrent accept has stored the session; it is handed out if it is open.
RecordedByOther(a) ==
  LET s == found[a] IN
  /\ pc[a] = "fence"
  /\ rows[s] = "open"
  /\ quote = "accepted"
  /\ links' = links \cup {s}
  /\ Forget(a)
  /\ NoSave
  /\ UNCHANGED <<rows, ledger, before, recorded, told, closing, stripe>>

-----------------------------------------------------------------------------
(***************************************************************************)
(* The ledger and the owner.                                               *)
(***************************************************************************)

\* record(): of the payments of a quote one counts, the one settled first.
Record(p) ==
  \/ /\ Counted = {}
     /\ ledger' = [ledger EXCEPT ![p] = "counted"]
  \/ /\ Counted # {}
     /\ ledger' = [ledger EXCEPT ![p] = "duplicate"]
  \/ \E q \in Counted :
       ledger' = [ledger EXCEPT ![p] = "counted", ![q] = "duplicate"]

\* The row is closed, the session is left to expire (mutant).
CloseRowOnly(s) ==
  rows' = (IF s = None THEN rows ELSE [rows EXCEPT ![s] = "expired"]) /\ UNCHANGED closing

CloseOpen(s) ==
  \/ s = None /\ UNCHANGED <<rows, closing>>
  \/ s # None /\ rows' = [rows EXCEPT ![s] = MarkedExpired(@)] /\ Expire(s)

\* A payment the ledger takes for a second one is refused, with all the rest.
MarkPaid(a) ==
  /\ pc[a] = "pay"
  /\ \E p \in Checks :
       /\ ledger[p] = "absent"
       /\ Record(p)
       /\ ledger'[p] = "counted"
       /\ before' = [before EXCEPT ![p] = seen[a]]
  /\ Forget(a)
  /\ Save(a, "paid")
  /\ CloseOpen(Newest(InPlay))
  /\ UNCHANGED <<recorded, told, stripe, links>>

\* void_manual, of a payment that is not voided yet; mark_duplicate.
Voided(p) == [ledger EXCEPT ![p] = "voided"]
Promoted(payments, q) == [payments EXCEPT ![q] = "counted"]

\* A card payment that came second counts instead of the one that is undone.
MarkUnpaid(a) ==
  /\ pc[a] = "unpay"
  /\ Forget(a)
  /\ \E p \in Active(listed[a]) \cap Checks :
       LET standby == {q \in Payments \ {p} : listed[a][q] = "duplicate"} IN
       /\ ledger[p] \in {"counted", "duplicate"}
       /\ \/ /\ listed[a][p] = "duplicate"
             /\ ledger' = Voided(p)
             /\ NoSave
          \/ /\ listed[a][p] = "counted"
             /\ Counted \subseteq {p}
             /\ \E q \in standby : ledger' = Promoted(Voided(p), q)
             /\ NoSave
          \/ /\ listed[a][p] = "counted"
             /\ standby = {}
             /\ ledger' = Voided(p)
             /\ IF seen[a] = "paid" THEN Save(a, before[p]) ELSE Current(a) /\ NoSave
  /\ UNCHANGED <<rows, before, recorded, told, closing, stripe, links>>

-----------------------------------------------------------------------------
(***************************************************************************)
(* The provider's events.                                                   *)
(***************************************************************************)

\* The quote is not read: the dedup row and the session are one short commit.
Unsettled(e) ==
  /\ e \in emitted \ recorded
  /\ LET s == e.session IN
     \/ /\ e.outcome = "pending"
        /\ rows' = [rows EXCEPT ![s] = MarkedPending(@)]
     \/ /\ e.outcome = "failed"
        /\ rows' = [rows EXCEPT ![s] = MarkedFailed(@)]
  /\ recorded' = recorded \cup {e}
  /\ UNCHANGED <<quote, ledger, before, told, closing, pc, memory, stale, stripe, links>>

\* The owner hears of a payment only if it does not count (mutant).
FlaggedIfDuplicate(s) == IF ledger'[s] = "duplicate" THEN told \cup {s} ELSE told

\* _flag_paid_twice
Flagged(s) == IF Cardinality(Active(ledger')) >= 2 THEN told \cup {s} ELSE told

\* The dedup row, the session, its sibling, the ledger and the quote: one commit.
Settled(e) ==
  LET s == e.session
      sibling == Newest(InPlay \ {s})
  IN
  /\ pc[e] = "webhook"
  /\ e \notin recorded
  /\ rows' = [t \in Sessions |-> IF t = s THEN "paid"
                                 ELSE IF t = sibling THEN MarkedExpired(rows[t]) ELSE rows[t]]
  /\ Record(s)
  /\ told' = Flagged(s)
  /\ Forget(e)
  /\ Move(e, "paid")
  /\ recorded' = recorded \cup {e}
  /\ UNCHANGED <<before, closing, stripe, links>>

\* A delivery of an event already applied changes nothing.
Deliver(e) == e \in emitted \ recorded /\ e.outcome = "succeeded" /\ Begin(e, "webhook")

-----------------------------------------------------------------------------
(***************************************************************************)
(* The provider, and the worker's call to close a session.                  *)
(***************************************************************************)

\* A customer pays at once, or by a method that settles later.
Pay(s) ==
  /\ s \in links
  /\ provider[s] = "open"
  /\ \E o \in {"succeeded"} \cup (IF s \in Delayed THEN {"pending"} ELSE {}) :
       /\ provider' = [provider EXCEPT ![s] = IF o = "pending" THEN "settling" ELSE "paid"]
       /\ emitted' = emitted \cup {Event(s, o)}
  /\ UNCHANGED <<database, closing, pc, memory, stale, past, links>>

SettleLate(s) ==
  /\ provider[s] = "settling"
  /\ \E o \in {"succeeded", "failed"} :
       /\ provider' = [provider EXCEPT ![s] = IF o = "failed" THEN "failed" ELSE "paid"]
       /\ emitted' = emitted \cup {Event(s, o)}
  /\ UNCHANGED <<database, closing, pc, memory, stale, past, links>>

\* It matters to a session that can be paid, and to one GVAS takes for open.
Deadline(s) ==
  /\ provider[s] = "open" \/ rows[s] = "open"
  /\ ~past[s]
  /\ past' = [past EXCEPT ![s] = TRUE]
  /\ provider' = [provider EXCEPT ![s] = IF @ = "open" THEN "closed" ELSE @]
  /\ UNCHANGED <<database, closing, pc, memory, stale, emitted, links>>

\* expire_checkout, for a session that is still open: to close one that is not is
\* done without effect.  The command may also never get through.
CloseAtProvider(s) ==
  /\ s \in closing
  /\ provider[s] = "open"
  /\ provider' = [provider EXCEPT ![s] = "closed"]
  /\ UNCHANGED <<database, closing, pc, memory, stale, past, emitted, links>>

-----------------------------------------------------------------------------
Request(a) ==
  \/ \E step \in {"view", "decline", "accept", "pay", "unpay"} : Begin(a, step)
  \/ View(a) \/ Decline(a)
  \/ FindOpen(a) \/ ReturnOpen(a) \/ NewAttempt(a) \/ OpenSession(a) \/ Reread(a)
  \/ RecordSession(a) \/ RecordedByOther(a)
  \/ MarkPaid(a) \/ MarkUnpaid(a)

Next ==
  \/ \E a \in Requests : Request(a)
  \/ \E e \in Events : Unsettled(e) \/ Deliver(e) \/ Settled(e)
  \/ \E a \in Actors : Abort(a)
  \/ \E s \in Sessions :
       Pay(s) \/ SettleLate(s) \/ Deadline(s) \/ CloseAtProvider(s)

Spec == Init /\ [][Next]_vars

-----------------------------------------------------------------------------
\* Until the owner undoes a payment, a quote is paid exactly when one payment in
\* the ledger counts for it, whatever view, accept, decline, event or mark raced.
Undone == \E p \in Checks : ledger[p] = "voided"
PaidMeansCounted ==
  /\ Cardinality(Counted) <= 1
  /\ ~Undone => (quote = "paid" <=> Counted # {})

\* A session only becomes open on a quote that is accepted at that moment: neither
\* a decline nor a payment that came while it was opened leaves one to be paid.
OpenedOnlyWhileAccepted ==
  [][\A s \in Sessions :
       rows[s] # "open" /\ rows'[s] = "open" => quote' = "accepted"]_vars

\* A session GVAS has written off can only be paid while a command to close it is
\* on the outbox or has been given up, or if a card payment made it superfluous.
WrittenOffIsClosed ==
  \A s \in Sessions :
    rows[s] = "expired" /\ provider[s] = "open" =>
      \/ s \in closing
      \/ \E t \in Sessions \ {s} : rows[t] = "paid"

\* The owner was told of a card payment whenever a quote was paid twice.  Unless a
\* payment was undone and another recorded: a card payment that was applied while the
\* first was undone left the quote unpaid, and a check dated before it counts.
PaidTwiceIsReported ==
  Cardinality(Active(ledger)) >= 2 =>
    \/ \E s \in told : ledger[s] # "absent"
    \/ Undone /\ Active(ledger) \cap Checks # {}

\* Money that the provider collected is in the ledger before its event is
\* acknowledged, although the first delivery may lose a race or its server.
AcknowledgedIsBooked ==
  \A s \in Sessions : Event(s, "succeeded") \in recorded => ledger[s] # "absent"
=============================================================================
