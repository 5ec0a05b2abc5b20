----------------------- MODULE CheckoutCalendarProofs -----------------------
(***************************************************************************)
(* Two components that share no state.                                      *)
(*                                                                           *)
(* The money side of a quote, for any number of requests, sessions and      *)
(* checks.  The invariant has three parts: what a request in flight may      *)
(* still rely on of what it read (MemoryInv), how the payments agree with    *)
(* the quote and the events (LedgerInv), and how the rows agree with the     *)
(* provider (SessionInv).                                                   *)
(*                                                                           *)
(* The calendar of blocks, for one worker and any slots, days, messages,    *)
(* blocks and faults: what the records say of a day and what the calendar    *)
(* says of it (BlocksInv).                                                  *)
(***************************************************************************)
EXTENDS Checkout, CalendarBlocks, FiniteSetTheorems, SequenceTheorems, WellFoundedInduction, TLAPS

-----------------------------------------------------------------------------
(***************************************************************************)
(* Hosted quotes and their checkout.                                        *)
(***************************************************************************)

\* What a request read when it was admitted, and how far it has come.
ReadsFit ==
  \A a \in Actors :
    /\ pc[a] = "view" => seen[a] = "sent"
    /\ pc[a] \in {"decline", "accept", "checkout", "attempt", "pay"} =>
         seen[a] \in {"sent", "viewed", "accepted"}
    /\ pc[a] \in {"unpay", "webhook"} => seen[a] # None
    /\ pc[a] \in {"checkout", "open", "record", "fence"} => found[a] \in Sessions
    /\ pc[a] \in {"record", "fence"} => provider[found[a]] # "none"
    /\ pc[a] = "attempt" /\ found[a] # None => past[found[a]]

\* The version fence: a quote that was not saved since is as it was read.
FreshIsCurrent == \A a \in Actors : seen[a] # None /\ a \notin stale => seen[a] = quote

\* Only undoing a payment takes a quote back from "paid".
PaidReadStands ==
  \A a \in Actors : seen[a] = "paid" /\ quote # "paid" => \E p \in Checks : ledger[p] = "voided"

\* At most one payment by hand is on record, now and in any list that was read.
OneCheck(payments) == \A c, d \in Active(payments) \cap Checks : c = d

\* A card payment that was listed is still on record.
ListsFit ==
  \A a \in Actors :
    /\ OneCheck(listed[a])
    /\ \A s \in Sessions : listed[a][s] # "absent" => ledger[s] # "absent"

\* Only payments that succeeded are delivered with the quote.
DeliveredSucceeded ==
  \A e \in Events : pc[e] # "idle" => e.outcome = "succeeded" /\ e \in emitted

MemoryInv ==
  /\ ReadsFit
  /\ FreshIsCurrent
  /\ PaidReadStands
  /\ ListsFit
  /\ DeliveredSucceeded

\* A card payment is on record exactly when its event was applied; it is never undone.
BookedByEvent ==
  \A s \in Sessions :
    /\ ledger[s] # "absent" <=> Event(s, "succeeded") \in recorded
    /\ ledger[s] # "voided"

OneCounts == \A p, q \in Counted : p = q

UnpaidHasNoCheck == quote # "paid" => Active(ledger) \cap Checks = {}

UntilUndone ==
  ~Undone => /\ quote = "paid" <=> Counted # {}
             /\ quote # "paid" => Active(ledger) = {}

ToldIsBooked == \A s \in told : ledger[s] # "absent"

\* The second card payment of a quote is told, whatever was undone.
SecondIsTold ==
  \A s, t \in Sessions : s # t /\ ledger[s] # "absent" /\ ledger[t] # "absent" => told # {}

TwiceIsTold ==
  \A p, q \in Active(ledger) :
    p # q => told # {} \/ (Undone /\ Active(ledger) \cap Checks # {})

LedgerInv ==
  /\ BookedByEvent
  /\ OneCounts
  /\ OneCheck(ledger)
  /\ UnpaidHasNoCheck
  /\ UntilUndone
  /\ ToldIsBooked
  /\ SecondIsTold
  /\ TwiceIsTold

\* A row is stored after the provider made the session, and a session whose deadline
\* is over cannot be paid any more.
RowsAtProvider == \A s \in Sessions : rows[s] # "absent" => provider[s] # "none"
PastIsClosed == \A s \in Sessions : past[s] => provider[s] \notin {"none", "open"}
EmittedAtProvider == \A e \in emitted : provider[e.session] # "none"

SessionInv ==
  /\ RowsAtProvider
  /\ PastIsClosed
  /\ EmittedAtProvider
  /\ WrittenOffIsClosed

CInv ==
  /\ CheckoutTypeOK
  /\ MemoryInv
  /\ LedgerInv
  /\ SessionInv

-----------------------------------------------------------------------------
(***************************************************************************)
(* Sets: a finite set that is counted, and the newest of some sessions.    *)
(***************************************************************************)

\* A finite set has at most one element unless two of them differ.
LEMMA CountingTwo ==
  ASSUME NEW S, IsFiniteSet(S)
  PROVE  /\ Cardinality(S) \in Nat
         /\ Cardinality(S) <= 1 <=> \A p, q \in S : p = q
<1>1. Cardinality(S) \in Nat
  BY FS_CardinalityType
<1>2. ASSUME \A p, q \in S : p = q
      PROVE  Cardinality(S) <= 1
  <2>1. CASE S = {}
    BY <2>1, FS_EmptySet
  <2>2. CASE S # {}
    <3>1. \E x : S = {x}
      BY <1>2, <2>2
    <3>2. QED
      BY <3>1, FS_Singleton
  <2>3. QED
    BY <2>1, <2>2
<1>3. ASSUME Cardinality(S) <= 1
      PROVE  \A p, q \in S : p = q
  <2>1. Cardinality(S) = 0 \/ Cardinality(S) = 1
    BY <1>1, <1>3
  <2>2. S = {} \/ \E x : S = {x}
    BY <2>1, FS_EmptySet, FS_Singleton
  <2>3. QED
    BY <2>2
<1>4. QED
  BY <1>1, <1>2, <1>3

\* The sessions and the checks of a quote are finitely many.
LEMMA PaymentsAreFinite ==
  ASSUME NEW S \in SUBSET Payments
  PROVE  IsFiniteSet(S)
<1>1. IsFiniteSet(Sessions)
  BY CheckoutAssumption, FS_Interval DEF Sessions
<1>2. IsFiniteSet(Payments)
  BY <1>1, CheckoutAssumption, FS_Union DEF Payments
<1>3. QED
  BY <1>2, FS_Subset

\* find_open finds one of the sessions in play, or none: a set of sessions has a
\* greatest member, the one at the least distance from the last session.
LEMMA NewestIsOne ==
  ASSUME NEW S \in SUBSET Sessions
  PROVE  Newest(S) \in S \cup {None}
<1>1. CASE S = {}
  BY <1>1 DEF Newest
<1>2. CASE S # {}
  <2> DEFINE Distances == {MaxSessions - x : x \in S}
  <2>1. /\ MaxSessions \in Nat
        /\ \A x \in S : x \in Int /\ MaxSessions - x \in Nat
    BY CheckoutAssumption DEF Sessions
  <2>2. Distances \subseteq Nat /\ Distances # {}
    BY <1>2, <2>1
  <2>3. IsWellFoundedOn(OpToRel(<, Nat), Nat)
    BY NatLessThanWellFounded
  <2>4. PICK d \in Distances : \A e \in Distances : ~(<<e, d>> \in OpToRel(<, Nat))
    BY <2>2, <2>3, WFMin
  <2>5. \A e \in Distances : ~(e < d)
    BY <2>2, <2>4 DEF OpToRel
  <2>6. PICK x \in S : d = MaxSessions - x
    OBVIOUS
  <2>7. ASSUME NEW y \in S
        PROVE  x >= y
    <3>1. MaxSessions - y \in Distances
      OBVIOUS
    <3>2. ~(MaxSessions - y < MaxSessions - x)
      BY <2>5, <2>6, <3>1
    <3>3. QED
      BY <2>1, <3>2
  <2>8. Max(S) \in S
    BY <2>7 DEF Max
  <2>9. QED
    BY <1>2, <2>8 DEF Newest
<1>3. QED
  BY <1>1, <1>2

-----------------------------------------------------------------------------
(***************************************************************************)
(* What requests remember.                                                 *)
(***************************************************************************)

\* Events and requests are served alike.
LEMMA EventsAct ==
  /\ Events \subseteq Actors /\ Requests \subseteq Actors
  /\ \A e \in Events : e \in Actors /\ e.session \in Sessions /\ e = Event(e.session, e.outcome)
  /\ \A s \in Sessions : Event(s, "succeeded") \in Events
  BY DEF Events, Actors, Outcomes, Event

\* A request that is over has forgotten what it read.
LEMMA ForgetFacts ==
  ASSUME CheckoutTypeOK, NEW a \in Actors, Forget(a)
  PROVE  /\ pc' \in [Actors -> Steps] /\ seen' \in [Actors -> Statuses \cup {None}]
         /\ found' \in [Actors -> Sessions \cup {None}]
         /\ listed' \in [Actors -> [Payments -> Booked]]
         /\ pc'[a] = "idle" /\ seen'[a] = None /\ listed'[a] = NoPayments
         /\ \A b \in Actors : b # a => /\ pc'[b] = pc[b] /\ seen'[b] = seen[b]
                                       /\ found'[b] = found[b] /\ listed'[b] = listed[b]
<1>1. NoPayments \in [Payments -> Booked]
  BY DEF NoPayments, Booked
<1>2. QED
  BY <1>1 DEF Forget, Outdate, CheckoutTypeOK, Steps

\* Nobody keeps a fresh read of a quote that is saved.
QuoteStep ==
  \/ quote' = quote /\ stale' = {b \in stale : seen'[b] # None}
  \/ stale' = {b \in Actors : seen'[b] # None}

\* The end of a request leaves the others with what they may rely on, as long as
\* payments stay on record and only undoing one takes a quote back from "paid".
LEMMA ForgetKeepsMemory ==
  ASSUME CheckoutTypeOK, MemoryInv, NEW a \in Actors, Forget(a), QuoteStep,
         UNCHANGED <<provider, past, emitted>>,
         \A s \in Sessions : ledger[s] # "absent" => ledger'[s] # "absent",
         Undone => Undone',
         quote = "paid" /\ quote' # "paid" => Undone'
  PROVE  MemoryInv'
<1>1. /\ pc'[a] = "idle" /\ seen'[a] = None /\ listed'[a] = NoPayments
      /\ \A b \in Actors : b # a => /\ pc'[b] = pc[b] /\ seen'[b] = seen[b]
                                    /\ found'[b] = found[b] /\ listed'[b] = listed[b]
  BY ForgetFacts
<1>2. ReadsFit'
  BY <1>1 DEF MemoryInv, ReadsFit
<1>3. FreshIsCurrent'
  BY <1>1 DEF MemoryInv, FreshIsCurrent, QuoteStep
<1>4. PaidReadStands'
  BY <1>1, CheckoutAssumption DEF MemoryInv, PaidReadStands, Undone, Statuses
<1>5. ListsFit'
  <2>1. OneCheck(NoPayments) /\ \A s \in Sessions : NoPayments[s] = "absent"
    BY DEF OneCheck, NoPayments, Active, Payments
  <2>2. QED
    BY <1>1, <2>1 DEF MemoryInv, ListsFit, OneCheck, Active
<1>6. DeliveredSucceeded'
  BY <1>1, EventsAct DEF MemoryInv, DeliveredSucceeded
<1>7. QED
  BY <1>2, <1>3, <1>4, <1>5, <1>6 DEF MemoryInv

\* The two ways a request ends without or with a save.
LEMMA MoveIsQuoteStep ==
  ASSUME NEW a \in Actors, NEW status, Move(a, status)
  PROVE  QuoteStep
  BY DEF Move, Save, NoSave, QuoteStep

\* A request that moves the quote from one unpaid status to another leaves a paid
\* quote paid.
LEMMA MoveKeepsPaid ==
  ASSUME MemoryInv, NEW a \in Actors, NEW status, Move(a, status),
         seen[a] \in {"sent", "viewed", "accepted"}, status # "paid"
  PROVE  quote' = "paid" <=> quote = "paid"
  BY CheckoutAssumption DEF Move, Save, NoSave, Current, MemoryInv, FreshIsCurrent, Statuses

\* A ledger that is left alone agrees as before.
LEMMA SameLedger ==
  ASSUME LedgerInv, UNCHANGED <<ledger, recorded, told>>, quote' = "paid" <=> quote = "paid"
  PROVE  LedgerInv'
  BY DEF LedgerInv, BookedByEvent, OneCounts, OneCheck, UnpaidHasNoCheck, UntilUndone,
         ToldIsBooked, SecondIsTold, TwiceIsTold, Counted, Active, Undone

\* Rows and sessions that are left alone.
LEMMA SameSessions ==
  ASSUME SessionInv, UNCHANGED <<rows, provider, past, emitted>>, closing \subseteq closing'
  PROVE  SessionInv'
  BY DEF SessionInv, RowsAtProvider, PastIsClosed, EmittedAtProvider, WrittenOffIsClosed

-----------------------------------------------------------------------------
(***************************************************************************)
(* The steps of a request, one lemma per action.                           *)
(***************************************************************************)

\* Nothing is on record at first.
LEMMA InitCInv == Init => CInv
<1> SUFFICES ASSUME Init PROVE CInv
  OBVIOUS
<1> USE DEF Init
<1>1. CheckoutTypeOK
  BY DEF CheckoutTypeOK, Statuses, NoPayments, Booked, Steps
<1>2. MemoryInv
  <2>1. ReadsFit /\ DeliveredSucceeded
    BY EventsAct DEF ReadsFit, DeliveredSucceeded
  <2>2. FreshIsCurrent /\ PaidReadStands
    BY CheckoutAssumption DEF FreshIsCurrent, PaidReadStands, Statuses
  <2>3. ListsFit
    BY DEF ListsFit, NoPayments, OneCheck, Active, Payments
  <2>4. QED
    BY <2>1, <2>2, <2>3 DEF MemoryInv
<1>3. LedgerInv
  BY DEF LedgerInv, BookedByEvent, OneCounts, OneCheck, UnpaidHasNoCheck, UntilUndone, ToldIsBooked,
         SecondIsTold, TwiceIsTold, Counted, Active, Undone, NoPayments, Payments
<1>4. SessionInv
  BY DEF SessionInv, RowsAtProvider, PastIsClosed, EmittedAtProvider, WrittenOffIsClosed
<1>5. QED
  BY <1>1, <1>2, <1>3, <1>4 DEF CInv

\* A request relies on nothing it does not read as it starts.
LEMMA BeginKeeps ==
  ASSUME CInv, NEW a \in Actors, NEW step \in {"view", "decline", "accept", "pay", "unpay", "webhook"},
         step = "webhook" <=> a \in Events,
         step = "webhook" => a.outcome = "succeeded" /\ a \in emitted,
         Begin(a, step)
  PROVE  CInv'
<1> USE DEF CInv
<1>1. /\ UNCHANGED <<quote, rows, ledger, before, recorded, told>> /\ UNCHANGED <<provider, past, emitted>>
      /\ UNCHANGED <<closing, found, stale>>
      /\ pc' = [pc EXCEPT ![a] = step] /\ seen' = [seen EXCEPT ![a] = quote]
      /\ listed' = [listed EXCEPT ![a] = IF step = "unpay" THEN ledger ELSE @]
  BY DEF Begin, database, stripe, CheckoutTypeOK
<1>2. /\ step = "view" => quote = "sent"
      /\ step \in {"decline", "accept", "pay"} => quote \in {"sent", "viewed", "accepted"}
  BY DEF Begin, Admitted, CheckoutTypeOK, Statuses
<1>3. CheckoutTypeOK'
  BY <1>1, CheckoutAssumption DEF Begin, CheckoutTypeOK, Steps
<1>4. MemoryInv'
  <2>1. ReadsFit'
    BY <1>1, <1>2, CheckoutAssumption DEF CheckoutTypeOK, MemoryInv, ReadsFit
  <2>2. FreshIsCurrent' /\ PaidReadStands'
    BY <1>1 DEF CheckoutTypeOK, MemoryInv, FreshIsCurrent, PaidReadStands
  <2>3. ListsFit'
    BY <1>1 DEF CheckoutTypeOK, MemoryInv, ListsFit, LedgerInv, OneCheck, Active
  <2>4. DeliveredSucceeded'
    BY <1>1, EventsAct DEF CheckoutTypeOK, MemoryInv, DeliveredSucceeded
  <2>5. QED
    BY <2>1, <2>2, <2>3, <2>4 DEF MemoryInv
<1>5. LedgerInv'
  BY <1>1, SameLedger
<1>6. SessionInv'
  BY <1>1, SameSessions
<1>7. QED
  BY <1>3, <1>4, <1>5, <1>6

\* A request that ends with a save of another unpaid status, or with none, and
\* leaves payments and sessions alone.
LEMMA EndKeeps ==
  ASSUME CInv, NEW a \in Actors, Forget(a), QuoteStep, quote' \in Statuses,
         quote' = "paid" <=> quote = "paid", links' \subseteq Sessions,
         UNCHANGED <<rows, ledger, before, recorded, told, closing>>,
         UNCHANGED <<provider, past, emitted>>
  PROVE  CInv'
<1> USE DEF CInv
<1>1. CheckoutTypeOK'
  BY ForgetFacts DEF CheckoutTypeOK, QuoteStep
<1>2. MemoryInv'
  BY ForgetKeepsMemory DEF Undone
<1>3. LedgerInv' /\ SessionInv'
  BY SameLedger, SameSessions
<1>4. QED
  BY <1>1, <1>2, <1>3

\* A quote that is viewed or declined.
LEMMA AnswerKeeps ==
  ASSUME CInv, NEW a \in Actors, View(a) \/ Decline(a)
  PROVE  CInv'
<1>1. PICK status \in {"viewed", "declined"} : Move(a, status)
  BY DEF View, Decline
<1>2. Forget(a) /\ seen[a] \in {"sent", "viewed", "accepted"}
  BY DEF View, Decline, CInv, MemoryInv, ReadsFit
<1>3. quote' = "paid" <=> quote = "paid"
  BY <1>1, <1>2, MoveKeepsPaid DEF CInv
<1>4. quote' \in Statuses /\ QuoteStep
  BY <1>1, MoveIsQuoteStep DEF Move, Save, NoSave, CInv, CheckoutTypeOK, Statuses
<1>5. QED
  BY <1>2, <1>3, <1>4, EndKeeps DEF View, Decline, stripe, CInv, CheckoutTypeOK

\* A request that is rolled back.
LEMMA AbortKeeps ==
  ASSUME CInv, NEW a \in Actors, Abort(a)
  PROVE  CInv'
<1>1. QuoteStep /\ quote' = quote /\ quote \in Statuses
  BY DEF Abort, NoSave, QuoteStep, CInv, CheckoutTypeOK
<1>2. QED
  BY <1>1, EndKeeps DEF Abort, stripe, CInv, CheckoutTypeOK

\* The session found in play is known to the provider; a lapsed one is past.
LEMMA FindOpenKeeps ==
  ASSUME CInv, NEW a \in Actors, FindOpen(a)
  PROVE  CInv'
<1> USE DEF CInv
<1> DEFINE s == Newest(InPlay)
<1>1. s \in Sessions \cup {None}
  BY NewestIsOne DEF InPlay
<1>2. /\ UNCHANGED <<quote, rows, ledger, before, recorded, told>> /\ UNCHANGED <<provider, past, emitted>>
      /\ UNCHANGED <<closing, seen, listed, stale, links>>
      /\ pc[a] = "accept" /\ found' = [found EXCEPT ![a] = s]
      /\ pc' = [pc EXCEPT ![a] = IF s = None \/ Lapsed(s) THEN "attempt" ELSE "checkout"]
  BY DEF FindOpen, database, stripe
<1>3. CheckoutTypeOK'
  BY <1>1, <1>2 DEF CheckoutTypeOK, Steps
<1>4. MemoryInv'
  <2>1. ReadsFit'
    BY <1>1, <1>2 DEF CheckoutTypeOK, MemoryInv, ReadsFit, Lapsed
  <2>2. FreshIsCurrent' /\ PaidReadStands' /\ ListsFit'
    BY <1>2 DEF MemoryInv, FreshIsCurrent, PaidReadStands, ListsFit, OneCheck, Active
  <2>3. DeliveredSucceeded'
    BY <1>2, EventsAct DEF CheckoutTypeOK, MemoryInv, DeliveredSucceeded
  <2>4. QED
    BY <2>1, <2>2, <2>3 DEF MemoryInv
<1>5. LedgerInv' /\ SessionInv'
  BY <1>2, SameLedger, SameSessions
<1>6. QED
  BY <1>3, <1>4, <1>5

\* The URL of the session in play goes to the customer.
LEMMA ReturnOpenKeeps ==
  ASSUME CInv, NEW a \in Actors, ReturnOpen(a)
  PROVE  CInv'
<1>1. /\ Forget(a) /\ Move(a, "accepted") /\ seen[a] \in {"sent", "viewed", "accepted"}
      /\ links' \subseteq Sessions
  BY DEF ReturnOpen, CInv, CheckoutTypeOK, MemoryInv, ReadsFit
<1>2. quote' = "paid" <=> quote = "paid"
  BY <1>1, MoveKeepsPaid DEF CInv
<1>3. quote' \in Statuses /\ QuoteStep
  BY <1>1, MoveIsQuoteStep DEF Move, Save, NoSave, CInv, CheckoutTypeOK, Statuses
<1>4. QED
  BY <1>1, <1>2, <1>3, EndKeeps DEF ReturnOpen, stripe

\* The key of the next attempt is a session's; only a session whose deadline is over
\* is retired for it.
LEMMA NewAttemptKeeps ==
  ASSUME CInv, NEW a \in Actors, NewAttempt(a)
  PROVE  CInv'
<1> USE DEF CInv
<1>1. AttemptCount + 1 \in Sessions
  <2>1. IsFiniteSet({s \in Sessions : rows[s] # "absent"})
    BY PaymentsAreFinite DEF Payments
  <2>2. AttemptCount \in Nat
    BY <2>1, CountingTwo DEF AttemptCount
  <2>3. QED
    BY <2>2, CheckoutAssumption DEF NewAttempt, Sessions
<1>2. /\ UNCHANGED <<ledger, before, recorded, told>> /\ UNCHANGED <<provider, past, emitted>>
      /\ UNCHANGED <<closing, listed, links>>
      /\ pc[a] = "attempt" /\ Move(a, "accepted")
      /\ pc' = [pc EXCEPT ![a] = "open"] /\ seen' = [seen EXCEPT ![a] = None]
      /\ found' = [found EXCEPT ![a] = AttemptCount + 1]
  BY DEF NewAttempt, Outdate, stripe
<1>3. \/ rows' = rows
      \/ \E s \in Sessions : /\ rows[s] = "open" /\ past[s]
                             /\ rows' = [rows EXCEPT ![s] = "expired"]
  <2>1. CASE found[a] = None
    BY <2>1 DEF NewAttempt
  <2>2. CASE found[a] # None
    <3>1. found[a] \in Sessions /\ past[found[a]]
      BY <1>2, <2>2 DEF CheckoutTypeOK, MemoryInv, ReadsFit
    <3>2. QED
      BY <2>2, <3>1 DEF NewAttempt, MarkedExpired, CheckoutTypeOK
  <2>3. QED
    BY <2>1, <2>2
<1>4. quote' = "paid" <=> quote = "paid"
  <2>1. seen[a] \in {"sent", "viewed", "accepted"}
    BY <1>2 DEF MemoryInv, ReadsFit
  <2>2. QED
    BY <1>2, <2>1, MoveKeepsPaid
<1>5. QuoteStep /\ quote' \in Statuses
  BY <1>2, MoveIsQuoteStep DEF Move, Save, NoSave, CheckoutTypeOK, Statuses
<1>6. CheckoutTypeOK'
  BY <1>1, <1>2, <1>3, <1>5 DEF CheckoutTypeOK, QuoteStep, Steps
<1>7. MemoryInv'
  <2>1. ReadsFit'
    BY <1>1, <1>2 DEF CheckoutTypeOK, MemoryInv, ReadsFit
  <2>2. FreshIsCurrent'
    BY <1>2, <1>5 DEF CheckoutTypeOK, MemoryInv, FreshIsCurrent, QuoteStep
  <2>3. PaidReadStands'
    BY <1>2, <1>4, CheckoutAssumption DEF CheckoutTypeOK, MemoryInv, PaidReadStands, Statuses
  <2>4. ListsFit'
    BY <1>2 DEF MemoryInv, ListsFit, OneCheck, Active
  <2>5. DeliveredSucceeded'
    BY <1>2, EventsAct DEF CheckoutTypeOK, MemoryInv, DeliveredSucceeded
  <2>6. QED
    BY <2>1, <2>2, <2>3, <2>4, <2>5 DEF MemoryInv
<1>8. LedgerInv'
  BY <1>2, <1>4, SameLedger
<1>9. SessionInv'
  BY <1>2, <1>3 DEF CheckoutTypeOK, SessionInv, RowsAtProvider, PastIsClosed, EmittedAtProvider,
                    WrittenOffIsClosed
<1>10. QED
  BY <1>6, <1>7, <1>8, <1>9

\* The provider makes a session nobody has stored, or answers with the one it has.
LEMMA OpenSessionKeeps ==
  ASSUME CInv, NEW a \in Actors, OpenSession(a)
  PROVE  CInv'
<1> USE DEF CInv
<1>1. /\ UNCHANGED <<quote, rows, ledger, before, recorded, told>> /\ UNCHANGED <<past, emitted>>
      /\ UNCHANGED <<closing, seen, found, listed, stale, links>>
      /\ pc[a] = "open" /\ pc' = [pc EXCEPT ![a] = "record"]
      /\ provider' = [provider EXCEPT ![found[a]] = IF @ = "none" THEN "open" ELSE @]
  BY DEF OpenSession, database, memory
<1>2. found[a] \in Sessions
  BY <1>1 DEF MemoryInv, ReadsFit
<1>3. CheckoutTypeOK'
  BY <1>1, <1>2 DEF CheckoutTypeOK, Steps
<1>4. /\ \A s \in Sessions : provider[s] # "none" => provider'[s] = provider[s]
      /\ provider'[found[a]] # "none"
  BY <1>1, <1>2 DEF CheckoutTypeOK
<1>5. MemoryInv'
  <2>1. ReadsFit'
    BY <1>1, <1>4 DEF CheckoutTypeOK, MemoryInv, ReadsFit
  <2>2. FreshIsCurrent' /\ PaidReadStands' /\ ListsFit'
    BY <1>1 DEF MemoryInv, FreshIsCurrent, PaidReadStands, ListsFit, OneCheck, Active
  <2>3. DeliveredSucceeded'
    BY <1>1, EventsAct DEF CheckoutTypeOK, MemoryInv, DeliveredSucceeded
  <2>4. QED
    BY <2>1, <2>2, <2>3 DEF MemoryInv
<1>6. LedgerInv'
  BY <1>1, SameLedger
<1>7. SessionInv'
  <2>1. \A e \in emitted : e.session \in Sessions
    BY EventsAct DEF CheckoutTypeOK
  <2>2. QED
    BY <1>1, <1>4, <2>1 DEF SessionInv, RowsAtProvider, PastIsClosed, EmittedAtProvider,
                            WrittenOffIsClosed
<1>8. QED
  BY <1>3, <1>5, <1>6, <1>7

\* The quote is read as it is.
LEMMA RereadKeeps ==
  ASSUME CInv, NEW a \in Actors, Reread(a)
  PROVE  CInv'
<1> USE DEF CInv
<1>1. /\ UNCHANGED <<quote, rows, ledger, before, recorded, told>> /\ UNCHANGED <<provider, past, emitted>>
      /\ UNCHANGED <<closing, found, listed, stale, links>>
      /\ pc[a] = "record" /\ pc' = [pc EXCEPT ![a] = "fence"]
      /\ seen' = [seen EXCEPT ![a] = quote]
  BY DEF Reread, database, stripe
<1>2. CheckoutTypeOK'
  BY <1>1, CheckoutAssumption DEF CheckoutTypeOK, Steps
<1>3. MemoryInv'
  <2>1. ReadsFit'
    BY <1>1 DEF CheckoutTypeOK, MemoryInv, ReadsFit
  <2>2. FreshIsCurrent' /\ PaidReadStands' /\ ListsFit'
    BY <1>1 DEF CheckoutTypeOK, MemoryInv, FreshIsCurrent, PaidReadStands, ListsFit, OneCheck, Active
  <2>3. DeliveredSucceeded'
    BY <1>1, EventsAct DEF CheckoutTypeOK, MemoryInv, DeliveredSucceeded
  <2>4. QED
    BY <2>1, <2>2, <2>3 DEF MemoryInv
<1>4. LedgerInv' /\ SessionInv'
  BY <1>1, SameLedger, SameSessions
<1>5. QED
  BY <1>2, <1>3, <1>4

\* The session that was opened is stored, to be paid or to be closed.
LEMMA RecordSessionKeeps ==
  ASSUME CInv, NEW a \in Actors, RecordSession(a)
  PROVE  CInv'
<1> USE DEF CInv
<1> DEFINE s == found[a]
<1>1. /\ UNCHANGED <<ledger, before, recorded, told>> /\ UNCHANGED <<provider, past, emitted>>
      /\ Forget(a) /\ s \in Sessions /\ rows[s] = "absent" /\ provider[s] # "none"
  BY DEF RecordSession, stripe, MemoryInv, ReadsFit
<1>2. /\ quote' = quote /\ QuoteStep
      /\ \/ rows' = [rows EXCEPT ![s] = "open"] /\ closing' = closing
         \/ rows' = [rows EXCEPT ![s] = "expired"] /\ closing' = closing \cup {s}
      /\ links' \subseteq Sessions
  <2>1. CASE StillPayable(a)
    BY <1>1, <2>1, CheckoutAssumption
    DEF RecordSession, StillPayable, Save, Current, Created, QuoteStep, CheckoutTypeOK, MemoryInv,
        FreshIsCurrent, Statuses
  <2>2. CASE ~StillPayable(a)
    BY <2>2 DEF RecordSession, NoSave, QuoteStep, Created, Expire, CheckoutTypeOK
  <2>3. QED
    BY <2>1, <2>2
<1>3. CheckoutTypeOK'
  <2>1. /\ rows' \in [Sessions -> {"absent", "open", "pending", "paid", "failed", "expired"}]
        /\ closing' \subseteq Sessions /\ stale' \subseteq {b \in Actors : seen'[b] # None}
    BY <1>1, <1>2 DEF CheckoutTypeOK, QuoteStep
  <2>2. QED
    BY <1>1, <1>2, <2>1, ForgetFacts DEF CheckoutTypeOK
<1>4. MemoryInv'
  BY <1>1, <1>2, ForgetKeepsMemory DEF Undone
<1>5. LedgerInv'
  BY <1>1, <1>2, SameLedger
<1>6. SessionInv'
  BY <1>1, <1>2 DEF CheckoutTypeOK, SessionInv, RowsAtProvider, PastIsClosed, EmittedAtProvider,
                    WrittenOffIsClosed
<1>7. QED
  BY <1>3, <1>4, <1>5, <1>6

\* The session that a concurrent accept has stored goes to the customer.
LEMMA RecordedByOtherKeeps ==
  ASSUME CInv, NEW a \in Actors, RecordedByOther(a)
  PROVE  CInv'
<1>1. found[a] \in Sessions
  BY DEF RecordedByOther, CInv, MemoryInv, ReadsFit
<1>2. QuoteStep /\ quote' = quote /\ quote \in Statuses /\ links' \subseteq Sessions
  BY <1>1 DEF RecordedByOther, NoSave, QuoteStep, CInv, CheckoutTypeOK
<1>3. QED
  BY <1>2, EndKeeps DEF RecordedByOther, stripe

-----------------------------------------------------------------------------
(***************************************************************************)
(* The steps that write the ledger.                                        *)
(***************************************************************************)

\* A payment that is recorded counts or is a duplicate, beside one that counts.
LEMMA RecordFacts ==
  ASSUME CheckoutTypeOK, OneCounts, NEW p \in Payments, ledger[p] = "absent", Record(p)
  PROVE  /\ ledger' \in [Payments -> Booked]
         /\ ledger'[p] \in {"counted", "duplicate"}
         /\ \A q \in Payments \ {p} :
              \/ ledger'[q] = ledger[q]
              \/ ledger[q] = "counted" /\ ledger'[q] = "duplicate"
         /\ Counted' # {} /\ OneCounts'
<1>1. ledger \in [Payments -> Booked] /\ \A q \in Counted : q # p
  BY DEF CheckoutTypeOK, Counted
<1>2. CASE Counted = {} /\ ledger' = [ledger EXCEPT ![p] = "counted"]
  BY <1>1, <1>2 DEF Booked, Counted, OneCounts
<1>3. CASE Counted # {} /\ ledger' = [ledger EXCEPT ![p] = "duplicate"]
  BY <1>1, <1>3 DEF Booked, Counted, OneCounts
<1>4. ASSUME NEW q \in Counted, ledger' = [ledger EXCEPT ![p] = "counted", ![q] = "duplicate"]
      PROVE  /\ ledger' \in [Payments -> Booked]
             /\ ledger'[p] = "counted"
             /\ \A r \in Payments \ {p} :
                  \/ ledger'[r] = ledger[r]
                  \/ ledger[r] = "counted" /\ ledger'[r] = "duplicate"
             /\ Counted' # {} /\ OneCounts'
  BY <1>1, <1>4 DEF Booked, Counted, OneCounts
<1>5. QED
  BY <1>2, <1>3, <1>4 DEF Record

\* A payment is added to those on record; none is undone.
LEMMA RecordAdds ==
  ASSUME CheckoutTypeOK, OneCounts, NEW p \in Payments, ledger[p] = "absent", Record(p)
  PROVE  /\ Active(ledger') = Active(ledger) \cup {p}
         /\ Undone' <=> Undone
         /\ \A q \in Payments : ledger'[q] # "absent" <=> ledger[q] # "absent" \/ q = p
         /\ \A q \in Payments : ledger'[q] = "voided" <=> ledger[q] = "voided"
<1>1. \A q \in Payments :
        /\ ledger'[q] \in {"counted", "duplicate"} <=> ledger[q] \in {"counted", "duplicate"} \/ q = p
        /\ ledger'[q] # "absent" <=> ledger[q] # "absent" \/ q = p
        /\ ledger'[q] = "voided" <=> ledger[q] = "voided"
  BY RecordFacts
<1>2. QED
  BY <1>1 DEF Active, Undone, Payments

\* The owner records a payment by hand: the quote was not paid, and no other payment
\* by hand is on record.
LEMMA MarkPaidKeeps ==
  ASSUME CInv, NEW a \in Requests, MarkPaid(a)
  PROVE  CInv'
<1> USE DEF CInv
<1> DEFINE s == Newest(InPlay)
<1>1. PICK p \in Checks : /\ ledger[p] = "absent" /\ Record(p) /\ ledger'[p] = "counted"
                          /\ before' = [before EXCEPT ![p] = seen[a]]
  BY DEF MarkPaid
<1>2. /\ a \in Actors /\ Forget(a) /\ Save(a, "paid") /\ CloseOpen(s)
      /\ UNCHANGED <<recorded, told, links>> /\ UNCHANGED <<provider, past, emitted>>
      /\ seen[a] \in {"sent", "viewed", "accepted"}
  BY EventsAct DEF MarkPaid, stripe, MemoryInv, ReadsFit
<1>3. /\ quote' = "paid" /\ quote # "paid" /\ QuoteStep
  BY <1>2, CheckoutAssumption DEF Save, Current, QuoteStep, MemoryInv, FreshIsCurrent, Statuses
<1>4. /\ ledger' \in [Payments -> Booked] /\ Counted' # {} /\ OneCounts'
      /\ Active(ledger') = Active(ledger) \cup {p}
      /\ Undone' <=> Undone
      /\ \A q \in Payments : ledger'[q] # "absent" <=> ledger[q] # "absent" \/ q = p
      /\ \A q \in Payments : ledger'[q] = "voided" <=> ledger[q] = "voided"
  <2>1. p \in Payments /\ OneCounts
    BY DEF Payments, LedgerInv
  <2>2. QED
    BY <1>1, <2>1, RecordFacts, RecordAdds
<1>5. \/ rows' = rows /\ closing' = closing
      \/ /\ s \in Sessions /\ rows' = [rows EXCEPT ![s] = MarkedExpired(@)]
         /\ closing' = closing \cup {s}
  <2>1. s \in Sessions \cup {None}
    BY NewestIsOne DEF InPlay
  <2>2. QED
    BY <1>2, <2>1 DEF CloseOpen, Expire
<1>6. CheckoutTypeOK'
  <2>1. /\ rows' \in [Sessions -> {"absent", "open", "pending", "paid", "failed", "expired"}]
        /\ closing' \subseteq Sessions
    BY <1>5 DEF CheckoutTypeOK, MarkedExpired
  <2>2. /\ before' \in [Checks -> {"sent", "viewed", "accepted"}] /\ quote' \in Statuses
        /\ stale' \subseteq {b \in Actors : seen'[b] # None}
    BY <1>1, <1>2, <1>3 DEF CheckoutTypeOK, QuoteStep, Statuses
  <2>3. QED
    BY <1>2, <1>4, <2>1, <2>2, ForgetFacts DEF CheckoutTypeOK
<1>7. MemoryInv'
  <2>1. \A t \in Sessions : ledger[t] # "absent" => ledger'[t] # "absent"
    BY <1>4 DEF Payments
  <2>2. QED
    BY <1>2, <1>3, <1>4, <2>1, ForgetKeepsMemory
<1>8. LedgerInv'
  <2>1. \A t \in Sessions : /\ t # p /\ (ledger'[t] # "absent" <=> ledger[t] # "absent")
                            /\ ledger'[t] = "voided" <=> ledger[t] = "voided"
    BY <1>4, CheckoutAssumption DEF Payments
  <2>2. BookedByEvent' /\ ToldIsBooked' /\ SecondIsTold'
    BY <1>2, <2>1 DEF LedgerInv, BookedByEvent, ToldIsBooked, SecondIsTold, CheckoutTypeOK
  <2>3. Active(ledger) \cap Checks = {}
    BY <1>3 DEF LedgerInv, UnpaidHasNoCheck
  <2>4. OneCheck(ledger)'
    BY <1>4, <2>3 DEF OneCheck
  <2>5. UnpaidHasNoCheck' /\ UntilUndone'
    BY <1>3, <1>4 DEF UnpaidHasNoCheck, UntilUndone
  <2>6. TwiceIsTold'
    <3>1. ~Undone => Active(ledger) = {}
      BY <1>3 DEF LedgerInv, UntilUndone
    <3>2. QED
      BY <1>4, <3>1 DEF TwiceIsTold
  <2>7. QED
    BY <1>4, <2>2, <2>4, <2>5, <2>6 DEF LedgerInv
<1>9. SessionInv'
  BY <1>2, <1>5 DEF CheckoutTypeOK, SessionInv, RowsAtProvider, PastIsClosed, EmittedAtProvider,
                    WrittenOffIsClosed, MarkedExpired
<1>10. QED
  BY <1>6, <1>7, <1>8, <1>9

\* The owner undoes a payment by hand: what is left on record are card payments, and
\* two of them were told.
LEMMA MarkUnpaidKeeps ==
  ASSUME CInv, NEW a \in Requests, MarkUnpaid(a)
  PROVE  CInv'
<1> USE DEF CInv
<1>1. /\ a \in Actors /\ Forget(a)
      /\ UNCHANGED <<rows, before, recorded, told, closing, links>>
      /\ UNCHANGED <<provider, past, emitted>>
  BY EventsAct DEF MarkUnpaid, stripe
<1>2. PICK p \in Active(listed[a]) \cap Checks :
        LET standby == {q \in Payments \ {p} : listed[a][q] = "duplicate"} IN
        /\ ledger[p] \in {"counted", "duplicate"}
        /\ \/ /\ listed[a][p] = "duplicate"
              /\ ledger' = Voided(p)
              /\ NoSave
           \/ /\ listed[a][p] = "counted"
              /\ Counted \subseteq {p}
              /\ \E q \in standby : ledger' = Promoted(Voided(p), q)
              /\ NoSave
           \/ /\ listed[a][p] = "counted"
              /\ standby = {}
              /\ ledger' = Voided(p)
              /\ IF seen[a] = "paid" THEN Save(a, before[p]) ELSE Current(a) /\ NoSave
  BY DEF MarkUnpaid
<1>3. /\ p \in Payments /\ p \notin Sessions /\ p \in Active(ledger)
      /\ ledger[p] \in {"counted", "duplicate"}
  BY <1>2, CheckoutAssumption DEF Active, Payments
<1>4. QuoteStep /\ quote' \in Statuses
  BY <1>2 DEF Save, NoSave, QuoteStep, CheckoutTypeOK, Statuses
<1>5. ASSUME NEW q \in Payments \ {p}, listed[a][q] = "duplicate"
      PROVE  q \in Sessions /\ q \in Active(ledger) /\ q \notin Checks
  <2>1. q \notin Checks
    BY <1>1, <1>2, <1>5 DEF MemoryInv, ListsFit, OneCheck, Active
  <2>2. q \in Sessions
    BY <2>1 DEF Payments
  <2>3. ledger[q] # "absent" /\ ledger[q] # "voided"
    BY <1>1, <1>5, <2>2 DEF MemoryInv, ListsFit, LedgerInv, BookedByEvent
  <2>4. QED
    BY <2>1, <2>2, <2>3 DEF Active, CheckoutTypeOK, Booked
<1>6. /\ ledger' \in [Payments -> Booked]
      /\ ledger'[p] = "voided"
      /\ \A q \in Payments \ {p} :
           \/ ledger'[q] = ledger[q]
           \/ q \in Active(ledger) /\ ledger'[q] = "counted"
      /\ OneCounts'
  <2>1. CASE ledger' = Voided(p)
    BY <1>3, <2>1 DEF Voided, CheckoutTypeOK, Booked, LedgerInv, OneCounts, Counted
  <2>2. ASSUME NEW q \in Payments \ {p}, listed[a][q] = "duplicate", Counted \subseteq {p},
               ledger' = Promoted(Voided(p), q)
        PROVE  /\ ledger' \in [Payments -> Booked]
               /\ ledger'[p] = "voided"
               /\ \A r \in Payments \ {p} :
                    \/ ledger'[r] = ledger[r]
                    \/ r \in Active(ledger) /\ ledger'[r] = "counted"
               /\ OneCounts'
    <3>1. q \in Active(ledger)
      BY <1>5, <2>2
    <3>2. ledger' = [ledger EXCEPT ![p] = "voided", ![q] = "counted"]
      BY <2>2 DEF Promoted, Voided
    <3>3. /\ ledger' \in [Payments -> Booked] /\ ledger'[p] = "voided" /\ ledger'[q] = "counted"
          /\ \A r \in Payments \ {p, q} : ledger'[r] = ledger[r]
      BY <1>3, <3>2 DEF CheckoutTypeOK, Booked
    <3>4. OneCounts'
      BY <2>2, <3>3 DEF OneCounts, Counted
    <3>5. QED
      BY <3>1, <3>3, <3>4
  <2>3. QED
    BY <1>2, <2>1, <2>2
<1>7. Undone'
  BY <1>2, <1>6 DEF Undone
<1>8. \A t \in Sessions : (ledger'[t] # "absent" <=> ledger[t] # "absent") /\ ledger'[t] # "voided"
  <2>1. \A t \in Sessions : t \in Payments \ {p} /\ ledger[t] # "voided"
    BY <1>3 DEF Payments, LedgerInv, BookedByEvent
  <2>2. QED
    BY <1>6, <2>1 DEF Active
<1>9. Active(ledger') \cap Checks = {}
  <2>1. \A q \in Checks : q # p => q \notin Active(ledger)
    BY <1>2, <1>3 DEF LedgerInv, OneCheck
  <2>2. ASSUME NEW q \in Checks
        PROVE  q \notin Active(ledger')
    <3>1. CASE q = p
      BY <1>6, <3>1 DEF Active
    <3>2. CASE q # p
      BY <1>6, <2>1, <3>2 DEF Active, Payments
    <3>3. QED
      BY <3>1, <3>2
  <2>3. QED
    BY <2>2
<1>10. CheckoutTypeOK'
  BY <1>1, <1>4, <1>6, ForgetFacts DEF CheckoutTypeOK, QuoteStep
<1>11. MemoryInv'
  BY <1>1, <1>4, <1>7, <1>8, ForgetKeepsMemory
<1>12. LedgerInv'
  <2>1. BookedByEvent' /\ ToldIsBooked' /\ SecondIsTold'
    BY <1>1, <1>8 DEF LedgerInv, BookedByEvent, ToldIsBooked, SecondIsTold, CheckoutTypeOK
  <2>2. OneCheck(ledger)' /\ UnpaidHasNoCheck' /\ UntilUndone'
    BY <1>7, <1>9 DEF OneCheck, UnpaidHasNoCheck, UntilUndone
  <2>3. TwiceIsTold'
    <3>1. ASSUME NEW q \in Active(ledger')
          PROVE  q \in Sessions /\ ledger'[q] # "absent"
      BY <1>9 DEF Active, Payments
    <3>2. QED
      BY <2>1, <3>1 DEF TwiceIsTold, SecondIsTold
  <2>4. QED
    BY <1>6, <2>1, <2>2, <2>3 DEF LedgerInv
<1>13. SessionInv'
  BY <1>1, SameSessions
<1>14. QED
  BY <1>10, <1>11, <1>12, <1>13

\* The session's row follows an event that is not a payment yet, or never.
LEMMA UnsettledKeeps ==
  ASSUME CInv, NEW e \in Events, Unsettled(e)
  PROVE  CInv'
<1> USE DEF CInv
<1> DEFINE s == e.session
<1>1. /\ UNCHANGED <<quote, ledger, before, told, closing, pc, seen, found, listed, stale, links>>
      /\ UNCHANGED <<provider, past, emitted>>
      /\ e \in emitted /\ e.outcome \in {"pending", "failed"} /\ recorded' = recorded \cup {e}
      /\ \/ rows' = [rows EXCEPT ![s] = MarkedPending(@)]
         \/ rows' = [rows EXCEPT ![s] = MarkedFailed(@)]
  BY DEF Unsettled, memory, stripe
<1>2. s \in Sessions /\ provider[s] # "none"
  BY <1>1, EventsAct DEF SessionInv, EmittedAtProvider
<1>3. CheckoutTypeOK'
  BY <1>1, <1>2 DEF CheckoutTypeOK, MarkedPending, MarkedFailed
<1>4. MemoryInv'
  <2>1. ReadsFit' /\ FreshIsCurrent' /\ DeliveredSucceeded'
    BY <1>1 DEF MemoryInv, ReadsFit, FreshIsCurrent, DeliveredSucceeded
  <2>2. PaidReadStands' /\ ListsFit'
    BY <1>1 DEF MemoryInv, PaidReadStands, ListsFit, OneCheck, Active
  <2>3. QED
    BY <2>1, <2>2 DEF MemoryInv
<1>5. LedgerInv'
  <2>1. \A t \in Sessions : Event(t, "succeeded") \in recorded' <=> Event(t, "succeeded") \in recorded
    BY <1>1 DEF Event
  <2>2. BookedByEvent'
    BY <1>1, <2>1 DEF LedgerInv, BookedByEvent
  <2>3. QED
    BY <1>1, <2>2 DEF LedgerInv, OneCounts, OneCheck, UnpaidHasNoCheck, UntilUndone, ToldIsBooked,
                      SecondIsTold, TwiceIsTold, Counted, Active, Undone
<1>6. SessionInv'
  BY <1>1, <1>2 DEF CheckoutTypeOK, SessionInv, RowsAtProvider, PastIsClosed, EmittedAtProvider,
                    WrittenOffIsClosed, MarkedPending, MarkedFailed
<1>7. QED
  BY <1>3, <1>4, <1>5, <1>6

\* A card payment is booked; if it is a second one, the owner is told.
LEMMA SettledKeeps ==
  ASSUME CInv, NEW e \in Events, Settled(e)
  PROVE  CInv'
<1> USE DEF CInv
<1> DEFINE s == e.session
           sibling == Newest(InPlay \ {s})
<1>1. /\ e \in Actors /\ Forget(e) /\ Move(e, "paid")
      /\ pc[e] = "webhook" /\ e \notin recorded /\ recorded' = recorded \cup {e}
      /\ Record(s) /\ told' = Flagged(s)
      /\ rows' = [t \in Sessions |-> IF t = s THEN "paid"
                                     ELSE IF t = sibling THEN MarkedExpired(rows[t]) ELSE rows[t]]
      /\ UNCHANGED <<before, closing, links>> /\ UNCHANGED <<provider, past, emitted>>
  BY EventsAct DEF Settled, stripe
<1>2. /\ s \in Sessions /\ e \in emitted /\ e = Event(s, "succeeded") /\ s \in Payments
      /\ provider[s] # "none" /\ seen[e] # None
  BY <1>1, EventsAct
  DEF MemoryInv, DeliveredSucceeded, ReadsFit, Payments, SessionInv, EmittedAtProvider
<1>3. ledger[s] = "absent"
  BY <1>1, <1>2 DEF LedgerInv, BookedByEvent
<1>4. /\ ledger' \in [Payments -> Booked] /\ Counted' # {} /\ OneCounts'
      /\ Active(ledger') = Active(ledger) \cup {s}
      /\ Undone' <=> Undone
      /\ \A q \in Payments : ledger'[q] # "absent" <=> ledger[q] # "absent" \/ q = s
      /\ \A q \in Payments : ledger'[q] = "voided" <=> ledger[q] = "voided"
  <2>1. OneCounts
    BY DEF LedgerInv
  <2>2. QED
    BY <1>1, <1>2, <1>3, <2>1, RecordFacts, RecordAdds
<1>5. /\ QuoteStep /\ quote' \in Statuses
      /\ quote = "paid" => quote' = "paid"
      /\ quote' = "paid" \/ Undone
  BY <1>1, <1>2, MoveIsQuoteStep
  DEF Move, Save, NoSave, CheckoutTypeOK, Statuses, MemoryInv, PaidReadStands, Undone
<1>6. told \subseteq told' /\ told' \subseteq told \cup {s}
  BY <1>1 DEF Flagged
<1>7. told' # {} \/ \A p, q \in Active(ledger') : p = q
  <2>1. IsFiniteSet(Active(ledger'))
    BY PaymentsAreFinite DEF Active
  <2>2. CASE Cardinality(Active(ledger')) >= 2
    BY <1>1, <2>2 DEF Flagged
  <2>3. CASE ~(Cardinality(Active(ledger')) >= 2)
    BY <2>1, <2>3, CountingTwo
  <2>4. QED
    BY <2>2, <2>3
<1>8. CheckoutTypeOK'
  BY <1>1, <1>2, <1>4, <1>5, <1>6, ForgetFacts DEF CheckoutTypeOK, QuoteStep, MarkedExpired
<1>9. MemoryInv'
  <2>1. \A t \in Sessions : ledger[t] # "absent" => ledger'[t] # "absent"
    BY <1>4 DEF Payments
  <2>2. QED
    BY <1>1, <1>4, <1>5, <2>1, ForgetKeepsMemory
<1>10. LedgerInv'
  <2>1. \A t \in Sessions : /\ ledger'[t] # "absent" <=> ledger[t] # "absent" \/ t = s
                            /\ ledger'[t] = "voided" <=> ledger[t] = "voided"
    BY <1>4 DEF Payments
  <2>2. BookedByEvent'
    <3>1. \A t \in Sessions : Event(t, "succeeded") = e <=> t = s
      BY <1>2 DEF Event
    <3>2. QED
      BY <1>1, <2>1, <3>1 DEF LedgerInv, BookedByEvent
  <2>3. ToldIsBooked'
    BY <1>2, <1>6, <2>1 DEF LedgerInv, ToldIsBooked, CheckoutTypeOK
  <2>4. SecondIsTold'
    <3>1. ASSUME NEW t \in Sessions, ledger'[t] # "absent"
          PROVE  t \in Active(ledger')
      BY <1>4, <2>1, <3>1 DEF Active, LedgerInv, BookedByEvent, Payments, Booked
    <3>2. QED
      BY <1>7, <3>1 DEF SecondIsTold
  <2>5. s \notin Checks
    BY <1>2, CheckoutAssumption
  <2>6. Active(ledger') \cap Checks = Active(ledger) \cap Checks
    BY <1>4, <2>5
  <2>7. OneCheck(ledger)' /\ UnpaidHasNoCheck'
    BY <1>5, <2>6 DEF LedgerInv, OneCheck, UnpaidHasNoCheck
  <2>8. UntilUndone'
    BY <1>4, <1>5 DEF UntilUndone
  <2>9. TwiceIsTold'
    BY <1>7 DEF TwiceIsTold
  <2>10. QED
    BY <1>4, <2>2, <2>3, <2>4, <2>7, <2>8, <2>9 DEF LedgerInv
<1>11. SessionInv'
  <2>1. RowsAtProvider' /\ PastIsClosed' /\ EmittedAtProvider'
    BY <1>1, <1>2 DEF CheckoutTypeOK, SessionInv, RowsAtProvider, PastIsClosed, EmittedAtProvider,
                      MarkedExpired
  <2>2. WrittenOffIsClosed'
    <3>1. rows'[s] = "paid" /\ \A t \in Sessions : rows[t] = "paid" => rows'[t] = "paid"
      BY <1>1, <1>2 DEF MarkedExpired
    <3>2. QED
      BY <1>2, <3>1 DEF WrittenOffIsClosed
  <2>3. QED
    BY <2>1, <2>2 DEF SessionInv
<1>12. QED
  BY <1>8, <1>9, <1>10, <1>11

-----------------------------------------------------------------------------
(***************************************************************************)
(* The provider.                                                           *)
(***************************************************************************)

\* A step of the provider on one session: what was made stays made, what was closed
\* is not opened again.
LEMMA ProviderKeeps ==
  ASSUME CInv, NEW s \in Sessions, Pay(s) \/ SettleLate(s) \/ Deadline(s) \/ CloseAtProvider(s)
  PROVE  CInv'
<1> USE DEF CInv
<1>1. /\ UNCHANGED <<quote, rows, ledger, before, recorded, told>>
      /\ UNCHANGED <<closing, pc, seen, found, listed, stale, links>>
  BY DEF Pay, SettleLate, Deadline, CloseAtProvider, database, memory
<1>2. provider[s] # "none"
  BY DEF Pay, SettleLate, Deadline, CloseAtProvider, SessionInv, RowsAtProvider
<1>3. PICK status \in {"settling", "paid", "failed", "closed", provider[s]} :
        /\ provider' = [provider EXCEPT ![s] = status]
        /\ status = "open" => ~past'[s]
  BY DEF Pay, SettleLate, Deadline, CloseAtProvider, CheckoutTypeOK, SessionInv, PastIsClosed
<1>4. \/ past' = past
      \/ past' = [past EXCEPT ![s] = TRUE]
  BY DEF Pay, SettleLate, Deadline, CloseAtProvider
<1>5. \/ emitted' = emitted
      \/ \E o \in Outcomes : emitted' = emitted \cup {Event(s, o)}
  BY DEF Pay, SettleLate, Deadline, CloseAtProvider, Outcomes
<1>6. /\ emitted \subseteq emitted' /\ emitted' \subseteq Events
      /\ \A e \in emitted' : e \in emitted \/ e.session = s
  BY <1>5 DEF CheckoutTypeOK, Events, Event
<1>7. CheckoutTypeOK'
  <2>1. provider' \in [Sessions -> {"none", "open", "settling", "paid", "failed", "closed"}]
    BY <1>3 DEF CheckoutTypeOK
  <2>2. past' \in [Sessions -> BOOLEAN]
    BY <1>4 DEF CheckoutTypeOK
  <2>3. QED
    BY <1>1, <1>6, <2>1, <2>2 DEF CheckoutTypeOK
<1>8. \A t \in Sessions : /\ provider[t] # "none" <=> provider'[t] # "none"
                          /\ provider'[t] = "open" => provider[t] = "open" /\ ~past'[t]
                          /\ past[t] => past'[t]
  BY <1>2, <1>3, <1>4 DEF CheckoutTypeOK, SessionInv, PastIsClosed
<1>9. MemoryInv'
  <2>1. ReadsFit'
    BY <1>1, <1>8 DEF CheckoutTypeOK, MemoryInv, ReadsFit
  <2>2. FreshIsCurrent' /\ PaidReadStands' /\ ListsFit'
    BY <1>1 DEF MemoryInv, FreshIsCurrent, PaidReadStands, ListsFit, OneCheck, Active
  <2>3. DeliveredSucceeded'
    BY <1>1, <1>6 DEF MemoryInv, DeliveredSucceeded
  <2>4. QED
    BY <2>1, <2>2, <2>3 DEF MemoryInv
<1>10. LedgerInv'
  BY <1>1, SameLedger
<1>11. SessionInv'
  <2>1. PastIsClosed'
    BY <1>2, <1>4, <1>8 DEF CheckoutTypeOK, SessionInv, PastIsClosed
  <2>2. EmittedAtProvider'
    <3>1. \A e \in emitted : e.session \in Sessions
      BY EventsAct DEF CheckoutTypeOK
    <3>2. QED
      BY <1>2, <1>6, <1>8, <3>1 DEF SessionInv, EmittedAtProvider
  <2>3. RowsAtProvider' /\ WrittenOffIsClosed'
    BY <1>1, <1>8 DEF SessionInv, RowsAtProvider, WrittenOffIsClosed
  <2>4. QED
    BY <2>1, <2>2, <2>3 DEF SessionInv
<1>12. QED
  BY <1>7, <1>9, <1>10, <1>11

-----------------------------------------------------------------------------
(***************************************************************************)
(* The theorems.                                                           *)
(***************************************************************************)

\* Every step keeps the invariant.
LEMMA NextKeeps == CInv /\ [Next]_vars => CInv'
<1> SUFFICES ASSUME CInv, [Next]_vars
             PROVE  CInv'
  OBVIOUS
<1>1. ASSUME NEW a \in Requests, Request(a)
      PROVE  CInv'
  <2>1. a \in Actors /\ a \notin Events
    BY EventsAct, CheckoutAssumption
  <2>2. CASE \E step \in {"view", "decline", "accept", "pay", "unpay"} : Begin(a, step)
    BY <2>1, <2>2, BeginKeeps
  <2>3. CASE View(a) \/ Decline(a)
    BY <2>1, <2>3, AnswerKeeps
  <2>4. CASE FindOpen(a)
    BY <2>1, <2>4, FindOpenKeeps
  <2>5. CASE ReturnOpen(a)
    BY <2>1, <2>5, ReturnOpenKeeps
  <2>6. CASE NewAttempt(a)
    BY <2>1, <2>6, NewAttemptKeeps
  <2>7. CASE OpenSession(a)
    BY <2>1, <2>7, OpenSessionKeeps
  <2>8. CASE Reread(a)
    BY <2>1, <2>8, RereadKeeps
  <2>9. CASE RecordSession(a)
    BY <2>1, <2>9, RecordSessionKeeps
  <2>10. CASE RecordedByOther(a)
    BY <2>1, <2>10, RecordedByOtherKeeps
  <2>11. CASE MarkPaid(a)
    BY <2>11, MarkPaidKeeps
  <2>12. CASE MarkUnpaid(a)
    BY <2>12, MarkUnpaidKeeps
  <2>13. QED
    BY <1>1, <2>2, <2>3, <2>4, <2>5, <2>6, <2>7, <2>8, <2>9, <2>10, <2>11, <2>12 DEF Request
<1>2. ASSUME NEW e \in Events, Unsettled(e) \/ Deliver(e) \/ Settled(e)
      PROVE  CInv'
  <2>1. CASE Unsettled(e)
    BY <2>1, UnsettledKeeps
  <2>2. CASE Deliver(e)
    BY <2>2, EventsAct, BeginKeeps DEF Deliver
  <2>3. CASE Settled(e)
    BY <2>3, SettledKeeps
  <2>4. QED
    BY <1>2, <2>1, <2>2, <2>3
<1>3. CASE \E a \in Actors : Abort(a)
  BY <1>3, AbortKeeps
<1>4. CASE \E s \in Sessions : Pay(s) \/ SettleLate(s) \/ Deadline(s) \/ CloseAtProvider(s)
  BY <1>4, ProviderKeeps
<1>5. CASE UNCHANGED vars
  <2>1. /\ UNCHANGED <<quote, rows, ledger, before, recorded, told>>
        /\ UNCHANGED <<provider, past, emitted>>
        /\ UNCHANGED <<closing, pc, seen, found, listed, stale, links>>
    BY <1>5 DEF vars, database, memory, stripe
  <2>2. CheckoutTypeOK'
    BY <2>1 DEF CInv, CheckoutTypeOK
  <2>3. MemoryInv'
    BY <2>1 DEF CInv, MemoryInv, ReadsFit, FreshIsCurrent, PaidReadStands, ListsFit, OneCheck, Active,
                DeliveredSucceeded
  <2>4. LedgerInv' /\ SessionInv'
    BY <2>1, SameLedger, SameSessions DEF CInv
  <2>5. QED
    BY <2>2, <2>3, <2>4 DEF CInv
<1>6. QED
  BY <1>1, <1>2, <1>3, <1>4, <1>5 DEF Next

\* The invariant holds throughout.
THEOREM Invariance == Spec => []CInv
  BY InitCInv, NextKeeps, PTL DEF Spec

\* Every variable keeps its type.
THEOREM TypeCorrect == Spec => []CheckoutTypeOK
<1>1. CInv => CheckoutTypeOK
  BY DEF CInv
<1>2. QED
  BY <1>1, Invariance, PTL

\* One payment counts at most, and until the owner undoes one the quote is paid exactly
\* when one counts, whatever requests and deliveries raced.
THEOREM PaidIsCounted == Spec => []PaidMeansCounted
<1>1. CInv => PaidMeansCounted
  <2>1. IsFiniteSet(Counted)
    BY PaymentsAreFinite DEF Counted
  <2>2. CInv => Cardinality(Counted) <= 1
    BY <2>1, CountingTwo DEF CInv, LedgerInv, OneCounts
  <2>3. QED
    BY <2>2 DEF CInv, LedgerInv, UntilUndone, PaidMeansCounted
<1>2. QED
  BY <1>1, Invariance, PTL

\* Two payments of one quote never go unreported, but for the case the property names.
THEOREM SecondPaymentIsReported == Spec => []PaidTwiceIsReported
<1>1. CInv => PaidTwiceIsReported
  <2> SUFFICES ASSUME CInv, Cardinality(Active(ledger)) >= 2
               PROVE  \/ \E s \in told : ledger[s] # "absent"
                      \/ Undone /\ Active(ledger) \cap Checks # {}
    BY DEF PaidTwiceIsReported
  <2>1. IsFiniteSet(Active(ledger))
    BY PaymentsAreFinite DEF Active
  <2>2. \E p, q \in Active(ledger) : p # q
    BY <2>1, CountingTwo
  <2>3. told # {} \/ (Undone /\ Active(ledger) \cap Checks # {})
    BY <2>2 DEF CInv, LedgerInv, TwiceIsTold
  <2>4. QED
    BY <2>3 DEF CInv, LedgerInv, ToldIsBooked
<1>2. QED
  BY <1>1, Invariance, PTL

\* Money the provider collected is in the ledger before its event is acknowledged.
THEOREM CollectedIsBooked == Spec => []AcknowledgedIsBooked
<1>1. CInv => AcknowledgedIsBooked
  BY DEF CInv, LedgerInv, BookedByEvent, AcknowledgedIsBooked
<1>2. QED
  BY <1>1, Invariance, PTL

\* A session that was written off is being closed at the provider, unless a card
\* payment made it superfluous.
THEOREM WrittenOffIsBeingClosed == Spec => []WrittenOffIsClosed
<1>1. CInv => WrittenOffIsClosed
  BY DEF CInv, SessionInv
<1>2. QED
  BY <1>1, Invariance, PTL

\* No step opens a session on a quote that was declined or paid while the provider
\* made it: only the save that still finds the quote accepted stores it open.
THEOREM OpensOnlyWhileAccepted == Spec => OpenedOnlyWhileAccepted
<1> DEFINE Opens == \E s \in Sessions : rows[s] # "open" /\ rows'[s] = "open"
<1>1. ASSUME CInv, NEW a \in Requests, Request(a), Opens
      PROVE  quote' = "accepted"
  <2>1. CASE RecordSession(a)
    BY <1>1, <2>1 DEF RecordSession, StillPayable, Save, Created, CInv, CheckoutTypeOK
  <2>2. ASSUME NewAttempt(a)
        PROVE  FALSE
    BY <1>1, <2>2 DEF NewAttempt, MarkedExpired, CInv, CheckoutTypeOK
  <2>3. ASSUME MarkPaid(a)
        PROVE  FALSE
    BY <1>1, <2>3 DEF MarkPaid, CloseOpen, MarkedExpired, CInv, CheckoutTypeOK
  <2>4. QED
    BY <1>1, <2>1, <2>2, <2>3
    DEF Request, Begin, View, Decline, FindOpen, ReturnOpen, OpenSession, Reread, RecordedByOther,
        MarkUnpaid, database
<1>2. ASSUME CInv, NEW e \in Events, Unsettled(e) \/ Deliver(e) \/ Settled(e)
      PROVE  ~Opens
  BY <1>2 DEF Unsettled, Deliver, Begin, Settled, MarkedPending, MarkedFailed, MarkedExpired,
              database, CInv, CheckoutTypeOK
<1>3. ASSUME \/ \E a \in Actors : Abort(a)
             \/ \E s \in Sessions : Pay(s) \/ SettleLate(s) \/ Deadline(s) \/ CloseAtProvider(s)
             \/ UNCHANGED vars
      PROVE  ~Opens
  BY <1>3 DEF Abort, Pay, SettleLate, Deadline, CloseAtProvider, vars, database
<1>4. CInv /\ [Next]_vars => (Opens => quote' = "accepted")
  BY <1>1, <1>2, <1>3 DEF Next
<1>5. CInv /\ [Next]_vars =>
        [\A s \in Sessions : rows[s] # "open" /\ rows'[s] = "open" => quote' = "accepted"]_vars
  BY <1>4
<1>6. QED
  BY <1>5, Invariance, PTL DEF Spec, OpenedOnlyWhileAccepted

-----------------------------------------------------------------------------
(***************************************************************************)
(* Calendar blocks: the invariant, for one worker.                          *)
(***************************************************************************)

\* What the records say of a day: a block in force closes its slots, one that may have
\* reached the calendar may have closed them.
InForce(b, d) == blocks[b].day = d /\ blocks[b].state = "applied" /\ blocks[b].sure
Perhaps(b, d) ==
  /\ blocks[b].day = d
  /\ \/ blocks[b].state = "applied" /\ ~blocks[b].sure
     \/ blocks[b].state = "proposed" /\ blocks[b].previous # Nothing

\* Hours that agree with the records, whatever the block but says.
Agree(d, open, but) ==
  /\ \A s \in open, b \in DOMAIN blocks : b # but /\ InForce(b, d) => s \notin blocks[b].slots
  /\ \A s \in Slots \ open :
       \E b \in DOMAIN blocks : b # but /\ (InForce(b, d) \/ Perhaps(b, d)) /\ s \in blocks[b].slots

\* One block at most waits, and nothing was asked for since.
BlockFits(b) ==
  /\ blocks[b].state = "proposed" => b = Len(blocks)
  /\ blocks[b].state = "applied" => blocks[b].previous # Nothing
  /\ blocks[b].previous # Nothing /\ ~blocks[b].previous.overridden => blocks[b].previous.open = Slots
  /\ blocks[b].reference => blocks[b].day = BookedDay /\ BookedSlot \in blocks[b].slots
  /\ (/\ blocks[b].state = "proposed" /\ blocks[b].previous # Nothing
      /\ blocks[b].day \notin doubt)
     => Agree(blocks[b].day, blocks[b].previous.open, b)

\* The first block in force on a day was put on an open day.
OldestFits(d) ==
  AppliedOn(d) # {} =>
    \E b \in AppliedOn(d) : /\ \A c \in AppliedOn(d) : b <= c
                            /\ d \notin doubt => blocks[b].previous.open = Slots

NoneWaits == \A b \in DOMAIN blocks : blocks[b].state # "proposed"

OnCalendar == {"read", "write", "check", "record"}

\* A block that a worker puts on the calendar is the newest one.
ClosingFits(job) ==
  LET b == job.block IN
  /\ b \in DOMAIN blocks /\ b = Len(blocks) /\ blocks[b].day = job.day /\ blocks[b].previous # Nothing
  /\ IF job.by = "text" THEN blocks[b].state = "proposed"
     ELSE /\ blocks[b].state = "applied" /\ ~blocks[b].sure
          /\ job.day \notin doubt => Agree(job.day, blocks[b].previous.open, b)
          /\ job.stage \in {"read", "write"} => rules[job.day] = blocks[b].previous
          /\ job.stage = "check" => rules[job.day] \in {blocks[b].previous, job.target}
  /\ job.target = Without(blocks[b].previous, blocks[b].slots)
  /\ job.stage = "record" => rules[job.day].open \cap blocks[b].slots = {}

\* A day is opened with the blocks that are in force, to hours that are all of them.
OpeningFits(job) ==
  /\ job.named = AppliedOn(job.day)
  /\ ~job.target.overridden => job.target.open = Slots
  /\ job.day \notin doubt => job.target.open = Slots
  /\ job.stage = "record" => rules[job.day].open = job.target.open
  /\ (job.stage \in {"check", "record"} /\ job.day \notin doubt)
     => rules[job.day] = job.target \/ Agree(job.day, rules[job.day].open, 0)

JobFits(job) ==
  /\ job.stage # "idle" => job.text \in Texts
  /\ job.by = "tool" => job.stage \in {"day"} \cup OnCalendar /\ NoneWaits /\ job.plan \in Plans
  /\ job.by = "text" => job.stage \notin {"day", "check"}
  /\ job.stage = "propose" => job.plan \in Plans
  /\ job.stage \in {"resolve", "ask", "propose"} => ~job.undo
  /\ job.stage = "write" => job.rules = rules
  /\ job.stage \in OnCalendar => IF job.undo THEN OpeningFits(job) ELSE ClosingFits(job)

Opening(job, d) == job.undo /\ job.day = d /\ job.stage \in {"record", "check"}

DayFits(d) ==
  /\ ~rules[d].overridden => rules[d].open = Slots
  /\ OldestFits(d)
  /\ d \notin doubt => Agree(d, rules[d].open, 0) \/ \E w \in Workers : Opening(work[w], d)

BlocksInv ==
  /\ BlocksTypeOK
  /\ \A b \in DOMAIN blocks : BlockFits(b)
  /\ \A d \in Days : DayFits(d)
  /\ \A w \in Workers : JobFits(work[w])
  /\ command # Nothing => NoneWaits
-----------------------------------------------------------------------------
\* Two workers may write back the rules they read over each other; the invariant is about
\* one.
OneWorker == \A v, w \in Workers : v = w

LEMMA JobTypes ==
  /\ Idle \in Jobs /\ Idle.stage = "idle" /\ Idle.by = "text" /\ ~Idle.undo /\ Usual \in Hours
  /\ Idle.text = Nothing /\ Idle.rules = Nothing /\ Usual.open = Slots /\ 1 \in Days /\ BookedSlot \in Slots
  /\ Nothing \notin Hours
<1>1. 1 \in Days /\ 0 \in 0 .. MaxBlocks
  BY CalendarBlocksAssumption DEF Days
<1>2. Usual \in Hours
  BY DEF Usual, Hours
<1> QED BY <1>1, <1>2, CalendarBlocksAssumption DEF Idle, Jobs, Stages, Usual, Hours, BookedSlot

\* What is known of a worker and of the blocks.
LEMMA JobFacts ==
  ASSUME BlocksInv, NEW w \in Workers
  PROVE  /\ work \in [Workers -> Jobs] /\ work[w] \in Jobs /\ JobFits(work[w])
         /\ work[w].stage \in Stages /\ work[w].text \in Texts \cup {Nothing} /\ work[w].day \in Days
         /\ work[w].by \in {"text", "tool"} /\ work[w].undo \in BOOLEAN /\ work[w].target \in Hours
         /\ work[w].block \in 0 .. MaxBlocks /\ work[w].named \in SUBSET BlockIds
         /\ work[w].rules \in [Days -> Hours] \cup {Nothing} /\ work[w].plan \in Plans \cup {Nothing}
         /\ work[w].todo \in SUBSET Days
<1>1. work \in [Workers -> Jobs] /\ JobFits(work[w])
  BY DEF BlocksInv, BlocksTypeOK
<1>2. work[w] \in Jobs
  BY <1>1
<1> QED BY <1>1, <1>2 DEF Jobs

LEMMA RowFacts ==
  ASSUME BlocksInv
  PROVE  /\ blocks \in Seq(Blocks) /\ Len(blocks) \in Nat /\ DOMAIN blocks = 1 .. Len(blocks)
         /\ Len(blocks) <= MaxBlocks /\ MaxBlocks \in Nat /\ DOMAIN blocks \subseteq BlockIds
         /\ rules \in [Days -> Hours] /\ doubt \subseteq Days /\ command \in Plans \cup {Nothing}
         /\ again \subseteq Texts /\ today \in Days
         /\ \A b \in DOMAIN blocks :
              /\ BlockFits(b) /\ blocks[b] \in Blocks /\ blocks[b].day \in Days
              /\ blocks[b].slots \subseteq Slots
              /\ blocks[b].state \in {"proposed", "applied", "cancelled", "removed"}
              /\ blocks[b].previous \in Hours \cup {Nothing} /\ blocks[b].live \in BOOLEAN
              /\ blocks[b].reference \in BOOLEAN /\ blocks[b].sure \in BOOLEAN
         /\ \A d \in Days : DayFits(d) /\ rules[d] \in Hours
<1>1. /\ blocks \in Seq(Blocks) /\ Len(blocks) <= MaxBlocks /\ MaxBlocks \in Nat
      /\ rules \in [Days -> Hours] /\ doubt \subseteq Days /\ command \in Plans \cup {Nothing}
      /\ again \subseteq Texts /\ today \in Days
      /\ \A b \in DOMAIN blocks : BlockFits(b)
      /\ \A d \in Days : DayFits(d)
  BY CalendarBlocksAssumption DEF BlocksInv, BlocksTypeOK, Days
<1>2. Len(blocks) \in Nat /\ DOMAIN blocks = 1 .. Len(blocks) /\ \A b \in DOMAIN blocks : blocks[b] \in Blocks
  BY <1>1
<1>3. DOMAIN blocks \subseteq BlockIds
  BY <1>1, <1>2 DEF BlockIds
<1> QED BY <1>1, <1>2, <1>3 DEF Blocks

\* The block that waits, if one does.
LEMMA WaitingFacts ==
  ASSUME BlocksInv
  PROVE  \/ LatestProposed = 0 /\ NoneWaits
         \/ /\ LatestProposed \in DOMAIN blocks /\ LatestProposed = Len(blocks) /\ LatestProposed > 0
            /\ blocks[LatestProposed].state = "proposed"
            /\ \A b \in DOMAIN blocks : blocks[b].state = "proposed" => b = LatestProposed
<1> DEFINE waiting == {b \in DOMAIN blocks : blocks[b].state = "proposed"}
<1>1. \A b \in waiting : b = Len(blocks) /\ b > 0 /\ b \in Nat
  BY RowFacts DEF BlockFits
<1>2. CASE waiting = {}
  BY <1>2 DEF LatestProposed, NoneWaits
<1>3. CASE waiting # {}
  <2>1. PICK b \in waiting : TRUE
    BY <1>3
  <2>2. \A c \in waiting : c <= b /\ c = b
    BY <1>1, <2>1
  <2>3. LatestProposed \in waiting
    BY <1>3, <2>1, <2>2 DEF LatestProposed
  <2> QED BY <1>1, <2>3
<1> QED BY <1>2, <1>3

\* Doubt only grows, and what is beyond doubt then was so before.
LEMMA BlockFitsStays ==
  ASSUME NEW b \in DOMAIN blocks, BlockFits(b), UNCHANGED blocks, doubt \subseteq doubt'
  PROVE  BlockFits(b)'
BY DEF BlockFits, Agree, InForce, Perhaps

LEMMA AgreeStays ==
  ASSUME UNCHANGED blocks, NEW d, NEW open, NEW but, Agree(d, open, but)
  PROVE  Agree(d, open, but)'
BY DEF Agree, InForce, Perhaps

LEMMA JobFitsStays ==
  ASSUME UNCHANGED <<rules, blocks>>, doubt \subseteq doubt', NEW job, JobFits(job)
  PROVE  JobFits(job)'
<1>1. \A d, open, but : Agree(d, open, but) => Agree(d, open, but)'
  BY DEF Agree, InForce, Perhaps
<1>2. NoneWaits => NoneWaits'
  BY DEF NoneWaits
<1>3. OpeningFits(job) => OpeningFits(job)'
  BY <1>1 DEF OpeningFits, AppliedOn
<1>4. ClosingFits(job) => ClosingFits(job)'
  BY <1>1 DEF ClosingFits
<1> QED BY <1>2, <1>3, <1>4 DEF JobFits

\* A step of a worker that touches neither the blocks nor the calendar.
LEMMA JobStep ==
  ASSUME BlocksInv, OneWorker, NEW w \in Workers, NEW new \in Jobs,
         UNCHANGED <<rules, blocks, booking, today>>,
         work' = [work EXCEPT ![w] = new], JobFits(new),
         doubt' \subseteq Days, doubt \subseteq doubt',
         command' \in Plans \cup {Nothing}, command' # Nothing => NoneWaits,
         again' \subseteq Texts, used' \in [messages : 0..MaxMessages, faults : 0..MaxFaults],
         \A d \in Days \ doubt' : Opening(work[w], d) => Agree(d, rules[d].open, 0) \/ Opening(new, d)
  PROVE  BlocksInv'
<1>1. BlocksTypeOK'
  BY DEF BlocksInv, BlocksTypeOK
<1>2. \A b \in DOMAIN blocks' : BlockFits(b)'
  BY BlockFitsStays DEF BlocksInv
<1>3. work'[w] = new /\ \A v \in Workers : v = w
  BY JobFacts DEF OneWorker
<1>4. ASSUME NEW d \in Days PROVE DayFits(d)'
  <2>1. DayFits(d)
    BY DEF BlocksInv
  <2>2. OldestFits(d)'
    BY <2>1 DEF DayFits, OldestFits, AppliedOn
  <2>3. ASSUME d \notin doubt' PROVE Agree(d, rules[d].open, 0)' \/ \E v \in Workers : Opening(work[v], d)'
    <3>1. Agree(d, rules[d].open, 0) => Agree(d, rules[d].open, 0)'
      BY DEF Agree, InForce, Perhaps
    <3>2. Opening(new, d) => Opening(work[w], d)'
      BY <1>3 DEF Opening
    <3>3. Agree(d, rules[d].open, 0) \/ Opening(work[w], d)
      BY <1>3, <2>1, <2>3 DEF DayFits
    <3> QED BY <2>3, <3>1, <3>2, <3>3
  <2> QED BY <2>1, <2>2, <2>3 DEF DayFits
<1>5. \A v \in Workers : JobFits(work[v])'
  <2>1. JobFits(new)'
    BY JobFitsStays
  <2>2. JobFits(work[w])'
    BY <1>3, <2>1 DEF JobFits, OpeningFits, ClosingFits
  <2> QED BY <1>3, <2>2
<1>6. (command # Nothing => NoneWaits)'
  BY DEF NoneWaits
<1> QED BY <1>1, <1>2, <1>4, <1>5, <1>6 DEF BlocksInv

-----------------------------------------------------------------------------
(***************************************************************************)
(* Steps of a worker that leave blocks and calendar alone.                  *)
(***************************************************************************)

LEMMA IdleFits == ASSUME BlocksInv PROVE JobFits(Idle) /\ Idle \in Jobs /\ \A d : ~Opening(Idle, d)
BY JobTypes DEF JobFits, OnCalendar, Opening

\* A worker that is not about to write a day has opened none.
LEMMA NotOpening ==
  ASSUME NEW w \in Workers, work[w].stage \notin {"record", "check"} \/ ~work[w].undo, NEW d
  PROVE  ~Opening(work[w], d)
BY DEF Opening

LEMMA UsedTypes ==
  ASSUME BlocksInv
  PROVE  /\ used \in [messages : 0..MaxMessages, faults : 0..MaxFaults]
         /\ Fault => used' \in [messages : 0..MaxMessages, faults : 0..MaxFaults]
<1>1. used \in [messages : 0..MaxMessages, faults : 0..MaxFaults] /\ MaxFaults \in Nat
  BY CalendarBlocksAssumption DEF BlocksInv, BlocksTypeOK
<1> QED BY <1>1 DEF Fault

LEMMA TakeKeeps ==
  ASSUME BlocksInv, OneWorker, NEW w \in Workers, Take(w) PROVE BlocksInv'
<1>1. /\ work[w].stage = "idle" /\ UNCHANGED <<rules, blocks, command, booking, today, doubt>>
      /\ again' \subseteq again
  BY DEF Take, At
<1>2. PICK text \in Texts : work' = [work EXCEPT ![w] = [Idle EXCEPT !.stage = "resolve", !.text = text]]
  BY RowFacts DEF Take, Become
<1>3. PICK new : new = [Idle EXCEPT !.stage = "resolve", !.text = text]
  OBVIOUS
<1>4. /\ new \in Jobs /\ new.stage = "resolve" /\ new.text = text /\ new.by = "text" /\ ~new.undo
  BY <1>3, JobTypes DEF Idle, Jobs, Stages
<1>5. JobFits(new)
  BY <1>4 DEF JobFits, OnCalendar
<1>6. used' \in [messages : 0..MaxMessages, faults : 0..MaxFaults]
  <2>1. used \in [messages : 0..MaxMessages, faults : 0..MaxFaults] /\ MaxMessages \in Nat
    BY UsedTypes, CalendarBlocksAssumption
  <2>2. CASE UNCHANGED used
    BY <2>1, <2>2
  <2>3. CASE used.messages < MaxMessages /\ used' = [used EXCEPT !.messages = @ + 1]
    BY <2>1, <2>3
  <2> QED BY <2>2, <2>3 DEF Take
<1>7. \A d : ~Opening(work[w], d)
  BY <1>1 DEF Opening
<1>8. command \in Plans \cup {Nothing} /\ doubt \subseteq Days /\ again' \subseteq Texts /\ (command # Nothing => NoneWaits)
  BY <1>1, RowFacts DEF BlocksInv
<1> QED BY <1>1, <1>2, <1>3, <1>4, <1>5, <1>6, <1>7, <1>8, JobStep

\* What a lost worker, or one that cannot look again, leaves behind is in doubt.
LEMMA BehindIsDoubted ==
  ASSUME BlocksInv, NEW w \in Workers, doubt' = LeavesBehind(w)
  PROVE  /\ doubt' \subseteq Days /\ doubt \subseteq doubt'
         /\ \A d \in Days \ doubt' : Opening(work[w], d) => Agree(d, rules[d].open, 0)
<1>1. doubt' \subseteq Days /\ doubt \subseteq doubt'
  BY JobFacts, RowFacts DEF LeavesBehind
<1>2. ASSUME NEW d \in Days \ doubt', Opening(work[w], d) PROVE Agree(d, rules[d].open, 0)
  <2>1. /\ d = work[w].day /\ work[w].undo /\ work[w].stage \in {"check", "record"}
        /\ d \notin doubt /\ rules[d] # work[w].target
    BY <1>1, <1>2 DEF Opening, LeavesBehind
  <2>2. OpeningFits(work[w])
    BY <2>1, JobFacts DEF JobFits, OnCalendar
  <2> QED BY <2>1, <2>2 DEF OpeningFits
<1> QED BY <1>1, <1>2

LEMMA CrashKeeps ==
  ASSUME BlocksInv, OneWorker, NEW w \in Workers, Crash(w) PROVE BlocksInv'
<1>1. /\ work[w].stage # "idle" /\ Fault /\ again' = again \cup {work[w].text}
      /\ doubt' = LeavesBehind(w) /\ work' = [work EXCEPT ![w] = Idle]
      /\ UNCHANGED <<rules, blocks, command, booking, today>>
  BY DEF Crash, At, Become
<1>2. work[w].text \in Texts
  BY <1>1, JobFacts DEF JobFits
<1>3. command \in Plans \cup {Nothing} /\ again' \subseteq Texts /\ (command # Nothing => NoneWaits)
  BY <1>1, <1>2, RowFacts DEF BlocksInv
<1> QED BY <1>1, <1>3, UsedTypes, BehindIsDoubted, IdleFits, JobStep

\* The worker is done, or is at a message that it has not decided about.
LEMMA QuietStep ==
  ASSUME BlocksInv, OneWorker, NEW w \in Workers, NEW new \in Jobs,
         UNCHANGED <<rules, blocks, booking, again, today, doubt>>,
         used' \in [messages : 0..MaxMessages, faults : 0..MaxFaults],
         work' = [work EXCEPT ![w] = new], JobFits(new),
         work[w].stage \notin {"record", "check"} \/ ~work[w].undo,
         command' \in Plans \cup {Nothing}, command' # Nothing => NoneWaits
  PROVE  BlocksInv'
<1>1. doubt' \subseteq Days /\ doubt \subseteq doubt' /\ again' \subseteq Texts
  BY RowFacts
<1>2. \A d : ~Opening(work[w], d)
  BY DEF Opening
<1> QED BY <1>1, <1>2, JobStep

\* The hours an unblock goes back to are all of them.
LEMMA RestoredFits ==
  ASSUME BlocksInv, NEW d \in Days, AppliedOn(d) # {}
  PROVE  /\ Restored(AppliedOn(d)) \in Hours
         /\ ~Restored(AppliedOn(d)).overridden => Restored(AppliedOn(d)).open = Slots
         /\ d \notin doubt => Restored(AppliedOn(d)).open = Slots
<1>1. PICK b \in AppliedOn(d) : /\ \A c \in AppliedOn(d) : b <= c
                                /\ d \notin doubt => blocks[b].previous.open = Slots
  BY RowFacts DEF DayFits, OldestFits
<1>2. \A c \in AppliedOn(d) : c \in Nat
  BY RowFacts DEF AppliedOn
<1>3. Oldest(AppliedOn(d)) = b
  BY <1>1, <1>2 DEF Oldest
<1>4. blocks[b].previous \in Hours /\ (~blocks[b].previous.overridden => blocks[b].previous.open = Slots)
  BY RowFacts DEF AppliedOn, BlockFits
<1> QED BY <1>1, <1>3, <1>4, JobTypes DEF Restored

LEMMA UnblockKeeps ==
  ASSUME BlocksInv, OneWorker, NEW w \in Workers, Unblock(w) PROVE BlocksInv'
<1>1. PICK d : d = work[w].text.day
  OBVIOUS
<1>2. PICK target : target = Restored(AppliedOn(d))
  OBVIOUS
<1>3. /\ work[w].stage = "resolve" /\ work[w].text.kind = "unblock"
      /\ UNCHANGED <<rules, blocks, command, booking, again, today, doubt, used>>
  BY DEF Unblock, Texted, At
<1>4. work[w].text \in Texts
  BY <1>3, JobFacts DEF JobFits
<1>5. d \in Days
  BY <1>1, <1>3, <1>4 DEF Texts, Unavailable, Unblocks, Confirmations
<1>6. CASE work' = [work EXCEPT ![w] = Idle]
  BY <1>3, <1>6, IdleFits, UsedTypes, RowFacts, QuietStep DEF BlocksInv
<1>7. CASE /\ AppliedOn(d) # {}
           /\ work' = [work EXCEPT ![w] = [work[w] EXCEPT !.stage = "read", !.undo = TRUE, !.day = d,
                                                          !.named = AppliedOn(d), !.target = target]]
  <2>1. PICK named : named = AppliedOn(d)
    OBVIOUS
  <2>2. named \subseteq BlockIds
    BY <2>1, RowFacts DEF AppliedOn
  <2>3. target \in Hours /\ (~target.overridden => target.open = Slots) /\ (d \notin doubt => target.open = Slots)
    BY <1>2, <1>5, <1>7, RestoredFits
  <2>4. PICK was : was = work[w]
    OBVIOUS
  <2>5. PICK new : new = [was EXCEPT !.stage = "read", !.undo = TRUE, !.day = d,
                                     !.named = named, !.target = target]
    OBVIOUS
  <2>6. was \in Jobs
    BY <2>4, JobFacts
  <2>7. /\ new \in Jobs /\ new.stage = "read" /\ new.undo /\ new.day = d /\ new.named = named
        /\ new.target = target /\ new.by = was.by /\ new.text = was.text
    BY <1>5, <2>2, <2>3, <2>5, <2>6 DEF Jobs, Stages
  <2>8. was.by = "text"
    BY <1>3, <2>4, JobFacts DEF JobFits, OnCalendar
  <2>9. JobFits(new)
    BY <1>4, <2>1, <2>3, <2>4, <2>7, <2>8 DEF JobFits, OnCalendar, OpeningFits
  <2>10. work' = [work EXCEPT ![w] = new]
    BY <1>7, <2>1, <2>4, <2>5
  <2> QED BY <1>3, <2>7, <2>9, <2>10, UsedTypes, RowFacts, QuietStep DEF BlocksInv
<1> QED BY <1>1, <1>2, <1>6, <1>7 DEF Unblock, Become, Reply

-----------------------------------------------------------------------------
(***************************************************************************)
(* The rest of the steps that leave blocks and calendar alone.              *)
(***************************************************************************)

\* A worker that goes on with its message, with nothing at the calendar.
LEMMA OnwardFits ==
  ASSUME BlocksInv, NEW was \in Jobs, JobFits(was), NEW new, NEW stage \in Stages,
         new = [was EXCEPT !.stage = stage],
         was.stage = "resolve", stage = "ask", was.by = "text"
  PROVE  new \in Jobs /\ JobFits(new)
<1>1. new \in Jobs /\ new.stage = stage /\ new.text = was.text /\ new.by = "text" /\ new.undo = was.undo
  BY DEF Jobs
<1> QED BY <1>1 DEF JobFits, OnCalendar

\* A message is a text's until the owner says yes to a change of the assistant.
LEMMA ByText ==
  ASSUME BlocksInv, NEW w \in Workers, work[w].stage \in {"resolve", "ask", "propose"}
  PROVE  work[w].by = "text" /\ work[w].text \in Texts /\ ~work[w].undo
BY JobFacts DEF JobFits, OnCalendar

LEMMA AnswerTextKeeps ==
  ASSUME BlocksInv, OneWorker, NEW w \in Workers, Answer(w) PROVE BlocksInv'
<1>1. /\ work[w].stage = "resolve" /\ command' = Nothing
      /\ UNCHANGED <<rules, blocks, booking, again, today, doubt, used>>
  BY DEF Answer, At
<1>2. CASE work' = [work EXCEPT ![w] = Idle]
  BY <1>1, <1>2, IdleFits, UsedTypes, QuietStep
<1>3. CASE work' = [work EXCEPT ![w] = [work[w] EXCEPT !.stage = "ask"]]
  <2>1. PICK was : was = work[w]
    OBVIOUS
  <2>2. PICK new : new = [was EXCEPT !.stage = "ask"]
    OBVIOUS
  <2>3. new \in Jobs /\ JobFits(new)
    BY <1>1, <2>1, <2>2, JobFacts, ByText, OnwardFits DEF Stages
  <2> QED BY <1>1, <1>3, <2>1, <2>2, <2>3, UsedTypes, QuietStep
<1> QED BY <1>2, <1>3 DEF Answer, Become, Reply, Goto

\* What a tool prepares has the form of its arguments.
LEMMA PreparedTypes == ASSUME BlocksInv PROVE Prepared \subseteq Plans
<1>1. ASSUME NEW p \in [tool : {"block"}, days : (SUBSET Days) \ {{}}, slots : Ranges, named : {{}}]
      PROVE  p \in Plans
  BY CalendarBlocksAssumption DEF Plans
<1>2. ASSUME NEW ds \in SUBSET Days
      PROVE  [tool |-> "unblock", days |-> ds, slots |-> {}, named |-> UNION {AppliedOn(d) : d \in ds}] \in Plans
  <2>1. UNION {AppliedOn(d) : d \in ds} \subseteq BlockIds
    BY RowFacts DEF AppliedOn
  <2> QED BY <2>1 DEF Plans
<1> QED BY <1>1, <1>2, Zenon DEF Prepared, FromToday

LEMMA AskKeeps ==
  ASSUME BlocksInv, OneWorker, NEW w \in Workers, Ask(w) PROVE BlocksInv'
<1>1. /\ work[w].stage = "ask" /\ UNCHANGED <<rules, blocks, command, booking, again, today, doubt, used>>
  BY DEF Ask, At
<1>2. CASE work' = [work EXCEPT ![w] = Idle]
  BY <1>1, <1>2, IdleFits, UsedTypes, RowFacts, QuietStep DEF BlocksInv
<1>3. ASSUME NEW plan \in Prepared,
             work' = [work EXCEPT ![w] = [work[w] EXCEPT !.stage = "propose", !.plan = plan]]
      PROVE  BlocksInv'
  <2>1. PICK was : was = work[w]
    OBVIOUS
  <2>2. PICK new : new = [was EXCEPT !.stage = "propose", !.plan = plan]
    OBVIOUS
  <2>3. was \in Jobs /\ plan \in Plans /\ was.by = "text" /\ was.text \in Texts /\ ~was.undo
    BY <1>1, <2>1, JobFacts, ByText, PreparedTypes
  <2>4. /\ new \in Jobs /\ new.stage = "propose" /\ new.plan = plan /\ new.by = "text"
        /\ new.text \in Texts /\ new.undo = was.undo
    BY <2>2, <2>3 DEF Jobs, Stages
  <2>5. JobFits(new)
    BY <2>3, <2>4 DEF JobFits, OnCalendar
  <2> QED BY <1>1, <1>3, <2>1, <2>2, <2>4, <2>5, UsedTypes, RowFacts, QuietStep DEF BlocksInv
<1> QED BY <1>2, <1>3 DEF Ask, Become, Reply

LEMMA ConfirmKeeps ==
  ASSUME BlocksInv, OneWorker, NEW w \in Workers, Confirm(w) PROVE BlocksInv'
<1>1. /\ work[w].stage = "resolve" /\ command # Nothing /\ command' = Nothing
      /\ UNCHANGED <<rules, blocks, booking, again, today, doubt, used>>
  BY DEF Confirm, At
<1>2. PICK was : was = work[w]
  OBVIOUS
<1>3. PICK plan : plan = command
  OBVIOUS
<1>4. PICK undo : undo = (plan.tool = "unblock")
  OBVIOUS
<1>5. PICK todo : todo = plan.days
  OBVIOUS
<1>6. plan \in Plans /\ was \in Jobs /\ was.text \in Texts /\ NoneWaits
  BY <1>1, <1>2, <1>3, RowFacts, JobFacts, ByText DEF BlocksInv
<1>7. undo \in BOOLEAN /\ todo \in SUBSET Days
  BY <1>4, <1>5, <1>6 DEF Plans
<1>8. PICK new : new = [was EXCEPT !.stage = "day", !.by = "tool", !.plan = plan, !.undo = undo, !.todo = todo]
  OBVIOUS
<1>9. work' = [work EXCEPT ![w] = new]
  BY <1>2, <1>3, <1>4, <1>5, <1>8 DEF Confirm, Become
<1>10. /\ new \in Jobs /\ new.stage = "day" /\ new.by = "tool" /\ new.plan = plan /\ new.text = was.text
  BY <1>6, <1>7, <1>8 DEF Jobs, Stages
<1>11. JobFits(new)
  BY <1>6, <1>10 DEF JobFits, OnCalendar
<1> QED BY <1>1, <1>9, <1>10, <1>11, UsedTypes, QuietStep

LEMMA DaysDoneKeeps ==
  ASSUME BlocksInv, OneWorker, NEW w \in Workers, DaysDone(w) PROVE BlocksInv'
BY IdleFits, UsedTypes, RowFacts, QuietStep DEF BlocksInv, DaysDone, Reply, Become, At

\* A tool goes on to the next day.
LEMMA NextDayFits ==
  ASSUME BlocksInv, NEW was \in Jobs, JobFits(was), was.by = "tool", NEW todo \in SUBSET Days,
         NEW new, new \in {[was EXCEPT !.todo = todo], [was EXCEPT !.stage = "day", !.todo = todo, !.rules = Nothing]},
         was.stage = "day" \/ new.stage = "day"
  PROVE  new \in Jobs /\ JobFits(new) /\ new.stage = "day" /\ \A d : ~Opening(new, d)
<1>1. was.stage # "idle" /\ was.text \in Texts /\ NoneWaits /\ was.plan \in Plans
  BY DEF JobFits, OnCalendar
<1>2. /\ new \in Jobs /\ new.stage = "day" /\ new.by = "tool" /\ new.plan = was.plan
      /\ new.text = was.text
  <2>1. CASE new = [was EXCEPT !.todo = todo]
    BY <2>1 DEF Jobs
  <2>2. CASE new = [was EXCEPT !.stage = "day", !.todo = todo, !.rules = Nothing]
    BY <2>2 DEF Jobs, Stages
  <2> QED BY <2>1, <2>2
<1> QED BY <1>1, <1>2 DEF JobFits, OnCalendar, Opening

LEMMA ByTool ==
  ASSUME BlocksInv, NEW w \in Workers, work[w].stage \in {"day", "check"}
  PROVE  work[w].by = "tool"
BY JobFacts DEF JobFits

LEMMA SkipKeeps ==
  ASSUME BlocksInv, OneWorker, NEW w \in Workers, work[w].stage = "day", NEW d, Skip(w, d),
         UNCHANGED <<rules, command, booking, again, today, doubt>>,
         used' \in [messages : 0..MaxMessages, faults : 0..MaxFaults]
  PROVE  BlocksInv'
<1>1. PICK was : was = work[w]
  OBVIOUS
<1>2. PICK todo : todo = was.todo \ {d}
  OBVIOUS
<1>3. PICK new : new = [was EXCEPT !.todo = todo]
  OBVIOUS
<1>4. was \in Jobs /\ JobFits(was) /\ was.by = "tool" /\ todo \in SUBSET Days
  BY <1>1, <1>2, JobFacts, ByTool
<1>5. new \in Jobs /\ JobFits(new)
  BY <1>1, <1>3, <1>4, NextDayFits
<1>6. work' = [work EXCEPT ![w] = new]
  BY <1>1, <1>2, <1>3 DEF Skip, Become
<1> QED BY <1>5, <1>6, RowFacts, QuietStep DEF BlocksInv, Skip

LEMMA DayDoneJob ==
  ASSUME BlocksInv, NEW w \in Workers, work[w].stage \in OnCalendar, DayDone(w)
  PROVE  \E new \in Jobs :
           /\ work' = [work EXCEPT ![w] = new] /\ JobFits(new) /\ \A d : ~Opening(new, d)
           /\ \/ new = Idle /\ work[w].by = "text"
              \/ new.stage = "day" /\ new.by = "tool" /\ work[w].by = "tool"
<1>1. CASE work[w].by = "tool"
  <2>1. PICK was : was = work[w]
    OBVIOUS
  <2>2. PICK todo : todo = was.todo \ {was.day}
    OBVIOUS
  <2>3. PICK new : new = [was EXCEPT !.stage = "day", !.todo = todo, !.rules = Nothing]
    OBVIOUS
  <2>4. was \in Jobs /\ JobFits(was) /\ was.by = "tool" /\ todo \in SUBSET Days
    BY <1>1, <2>1, <2>2, JobFacts
  <2>5. new.stage = "day" /\ new.by = "tool"
    BY <2>3, <2>4 DEF Jobs
  <2>6. new \in Jobs /\ JobFits(new) /\ \A d : ~Opening(new, d)
    BY <2>3, <2>4, <2>5, NextDayFits
  <2>7. work' = [work EXCEPT ![w] = new]
    BY <1>1, <2>1, <2>2, <2>3 DEF DayDone, Become
  <2> QED BY <1>1, <2>5, <2>6, <2>7
<1>2. CASE work[w].by # "tool"
  BY <1>2, IdleFits, JobFacts DEF DayDone, Reply, Become
<1> QED BY <1>1, <1>2

LEMMA LookFailsKeeps ==
  ASSUME BlocksInv, OneWorker, NEW w \in Workers, LookFails(w) PROVE BlocksInv'
<1>1. /\ work[w].stage = "check" /\ Fault /\ doubt' = LeavesBehind(w) /\ DayDone(w)
      /\ UNCHANGED <<rules, blocks, command, booking, again, today>>
  BY DEF LookFails, At
<1>2. PICK new \in Jobs : work' = [work EXCEPT ![w] = new] /\ JobFits(new)
  BY <1>1, DayDoneJob DEF OnCalendar
<1>3. command \in Plans \cup {Nothing} /\ again' \subseteq Texts /\ (command # Nothing => NoneWaits)
  BY <1>1, RowFacts DEF BlocksInv
<1> QED BY <1>1, <1>2, <1>3, UsedTypes, BehindIsDoubted, JobStep

LEMMA ReadRulesKeeps ==
  ASSUME BlocksInv, OneWorker, NEW w \in Workers, ReadRules(w) PROVE BlocksInv'
<1>1. /\ work[w].stage = "read" /\ UNCHANGED <<rules, blocks, command, booking, again, today, doubt, used>>
  BY DEF ReadRules, At
<1>2. PICK was : was = work[w]
  OBVIOUS
<1>3. PICK new : new = [was EXCEPT !.stage = "write", !.rules = rules]
  OBVIOUS
<1>4. was \in Jobs /\ JobFits(was) /\ was.stage = "read"
  BY <1>1, <1>2, JobFacts
<1>5. /\ new \in Jobs /\ new.stage = "write" /\ new.rules = rules /\ new.text = was.text
      /\ new.by = was.by /\ new.plan = was.plan /\ new.undo = was.undo /\ new.day = was.day
      /\ new.block = was.block /\ new.named = was.named /\ new.target = was.target
  BY <1>3, <1>4, RowFacts DEF Jobs, Stages
<1>6. OpeningFits(was) => OpeningFits(new)
  BY <1>4, <1>5 DEF OpeningFits
<1>7. ClosingFits(was) => ClosingFits(new)
  BY <1>4, <1>5 DEF ClosingFits
<1>8. JobFits(new)
  BY <1>4, <1>5, <1>6, <1>7 DEF JobFits, OnCalendar
<1>9. work' = [work EXCEPT ![w] = new]
  BY <1>2, <1>3 DEF ReadRules, Become
<1> QED BY <1>1, <1>5, <1>8, <1>9, RowFacts, UsedTypes, QuietStep DEF BlocksInv

\* A read that fails has the tools look at the day, as it was.
LEMMA ReadFailsKeeps ==
  ASSUME BlocksInv, OneWorker, NEW w \in Workers, ReadFails(w) PROVE BlocksInv'
<1>1. Fault /\ UNCHANGED <<rules, blocks, command, booking, again, today, doubt>>
  BY DEF ReadFails
<1>2. used' \in [messages : 0..MaxMessages, faults : 0..MaxFaults]
  BY <1>1, UsedTypes
<1>3. CASE work[w].stage = "read" /\ work[w].by = "tool"
           /\ work' = [work EXCEPT ![w] = [work[w] EXCEPT !.stage = "check"]]
  <2>1. PICK was : was = work[w]
    OBVIOUS
  <2>2. PICK new : new = [was EXCEPT !.stage = "check"]
    OBVIOUS
  <2>3. was \in Jobs /\ JobFits(was) /\ was.stage = "read" /\ was.by = "tool" /\ was.day \in Days
    BY <1>3, <2>1, JobFacts
  <2>4. /\ new \in Jobs /\ new.stage = "check" /\ new.text = was.text
        /\ new.by = was.by /\ new.plan = was.plan /\ new.undo = was.undo /\ new.day = was.day
        /\ new.block = was.block /\ new.named = was.named /\ new.target = was.target
    BY <2>2, <2>3 DEF Jobs, Stages
  <2>5. was.day \notin doubt => Agree(was.day, rules[was.day].open, 0)
    <3>1. \A v \in Workers : ~Opening(work[v], was.day)
      BY <1>3 DEF Opening, OneWorker
    <3> QED BY <2>3, <3>1, RowFacts DEF DayFits
  <2>6. OpeningFits(was) => OpeningFits(new)
    BY <2>3, <2>4, <2>5 DEF OpeningFits
  <2>7. ClosingFits(was) => ClosingFits(new)
    BY <2>3, <2>4 DEF ClosingFits
  <2>8. JobFits(new)
    BY <2>3, <2>4, <2>6, <2>7 DEF JobFits, OnCalendar
  <2>9. work' = [work EXCEPT ![w] = new]
    BY <1>3, <2>1, <2>2
  <2> QED BY <1>1, <1>2, <1>3, <2>4, <2>8, <2>9, RowFacts, QuietStep DEF BlocksInv
<1>4. CASE work[w].stage \in {"read", "resolve"} /\ work' = [work EXCEPT ![w] = Idle]
  BY <1>1, <1>2, <1>4, IdleFits, RowFacts, QuietStep DEF BlocksInv
<1>5. CASE work[w].stage = "day" /\ Skip(w, NextDayOf(w))
  BY <1>1, <1>2, <1>5, SkipKeeps
<1> QED BY <1>3, <1>4, <1>5 DEF ReadFails, At, Goto, Become, Reply

-----------------------------------------------------------------------------
(***************************************************************************)
(* Steps that change the blocks, or the calendar.                           *)
(***************************************************************************)

LEMMA Step ==
  ASSUME OneWorker, NEW w \in Workers, NEW new \in Jobs, work \in [Workers -> Jobs], BlocksTypeOK',
         work' = [work EXCEPT ![w] = new], JobFits(new)',
         \A b \in DOMAIN blocks' : BlockFits(b)',
         \A d \in Days :
           /\ ~rules'[d].overridden => rules'[d].open = Slots
           /\ OldestFits(d)'
           /\ d \notin doubt' => Agree(d, rules[d].open, 0)' \/ Opening(new, d),
         (command # Nothing => NoneWaits)'
  PROVE  BlocksInv'
<1>1. work'[w] = new /\ \A v \in Workers : v = w
  BY DEF OneWorker
<1>2. \A v \in Workers : JobFits(work[v])'
  <2>1. JobFits(work[w])'
    BY <1>1 DEF JobFits, OpeningFits, ClosingFits
  <2> QED BY <1>1, <2>1
<1>3. ASSUME NEW d \in Days PROVE DayFits(d)'
  <2>1. Opening(new, d) => Opening(work[w], d)'
    BY <1>1 DEF Opening
  <2> QED BY <2>1 DEF DayFits
<1> QED BY <1>2, <1>3 DEF BlocksInv

\* The types of the next state, where only these change.
LEMMA NextTypes ==
  ASSUME BlocksInv, NEW w \in Workers, NEW new \in Jobs, work' = [work EXCEPT ![w] = new],
         rules' \in [Days -> Hours], blocks' \in Seq(Blocks), Len(blocks') <= MaxBlocks,
         command' \in Plans \cup {Nothing}, booking' \in {booking, "declined"},
         UNCHANGED <<again, today>>, doubt' \subseteq Days,
         used' \in [messages : 0..MaxMessages, faults : 0..MaxFaults]
  PROVE  BlocksTypeOK'
BY DEF BlocksInv, BlocksTypeOK

\* Records that differ only in what is said of the days of doubt agree as before.
LEMMA AgreeSame ==
  ASSUME NEW d, NEW open, NEW but, DOMAIN blocks \subseteq DOMAIN blocks', Agree(d, open, but),
         \A b \in DOMAIN blocks' \ DOMAIN blocks : ~InForce(b, d)',
         \A b \in DOMAIN blocks :
           /\ blocks'[b].slots = blocks[b].slots
           /\ InForce(b, d)' => InForce(b, d)
           /\ InForce(b, d) \/ Perhaps(b, d) => InForce(b, d)' \/ Perhaps(b, d)'
  PROVE  Agree(d, open, but)'
<1>1. \A s \in open, b \in DOMAIN blocks' : b # but /\ InForce(b, d)' => s \notin blocks'[b].slots
  BY DEF Agree
<1>2. ASSUME NEW s \in Slots \ open
      PROVE  \E b \in DOMAIN blocks' : b # but /\ (InForce(b, d)' \/ Perhaps(b, d)') /\ s \in blocks'[b].slots
  <2>1. PICK b \in DOMAIN blocks : b # but /\ (InForce(b, d) \/ Perhaps(b, d)) /\ s \in blocks[b].slots
    BY DEF Agree
  <2> QED BY <2>1
<1> QED BY <1>1, <1>2 DEF Agree

\* What a job writes is what it aims at, on its day only.
LEMMA Writes ==
  ASSUME BlocksInv, NEW w \in Workers, work[w].stage = "write"
  PROVE  /\ Rewritten(work[w]) \in [Days -> Hours]
         /\ Rewritten(work[w])[work[w].day] = work[w].target
         /\ \A d \in Days \ {work[w].day} : Rewritten(work[w])[d] = rules[d]
BY JobFacts, RowFacts DEF JobFits, Rewritten

\* The hours that a block leaves agree with the records, the block among them.
LEMMA ClosesWell ==
  ASSUME BlocksInv, NEW w \in Workers, work[w].stage \in OnCalendar, ~work[w].undo,
         work[w].day \notin doubt
  PROVE  Agree(work[w].day, work[w].target.open, 0)
<1>1. PICK b : b = work[w].block
  OBVIOUS
<1>2. PICK d : d = work[w].day
  OBVIOUS
<1>3. ClosingFits(work[w]) /\ d \in Days
  BY <1>2, JobFacts DEF JobFits
<1>4. /\ b \in DOMAIN blocks /\ blocks[b].day = d /\ blocks[b].previous # Nothing
      /\ work[w].target.open = blocks[b].previous.open \ blocks[b].slots
  BY <1>1, <1>2, <1>3 DEF ClosingFits, Without
<1>5. Perhaps(b, d) /\ Agree(d, blocks[b].previous.open, b)
  <2>1. CASE work[w].by = "text"
    BY <1>1, <1>2, <1>3, <1>4, <2>1, RowFacts DEF ClosingFits, BlockFits, Perhaps
  <2>2. CASE work[w].by # "text"
    BY <1>1, <1>2, <1>3, <1>4, <2>2 DEF ClosingFits, Perhaps
  <2> QED BY <2>1, <2>2
<1>6. b # 0
  BY <1>4, RowFacts
<1>7. ASSUME NEW s \in work[w].target.open, NEW c \in DOMAIN blocks, InForce(c, d)
      PROVE  s \notin blocks[c].slots
  <2>1. CASE c = b
    BY <1>4, <2>1
  <2>2. CASE c # b
    BY <1>4, <1>5, <1>7, <2>2 DEF Agree
  <2> QED BY <2>1, <2>2
<1>8. ASSUME NEW s \in Slots \ work[w].target.open
      PROVE  \E c \in DOMAIN blocks : c # 0 /\ (InForce(c, d) \/ Perhaps(c, d)) /\ s \in blocks[c].slots
  <2>1. CASE s \in blocks[b].slots
    BY <1>4, <1>5, <1>6, <2>1
  <2>2. CASE s \notin blocks[b].slots
    <3>1. PICK c \in DOMAIN blocks : c # b /\ (InForce(c, d) \/ Perhaps(c, d)) /\ s \in blocks[c].slots
      BY <1>4, <1>5, <1>8, <2>2 DEF Agree
    <3>2. c # 0
      BY RowFacts
    <3> QED BY <3>1, <3>2
  <2> QED BY <2>1, <2>2
<1> QED BY <1>2, <1>7, <1>8 DEF Agree

\* The answers to a write: the calendar has the day as the job wants it.
LEMMA WroteKeeps ==
  ASSUME BlocksInv, OneWorker, NEW w \in Workers, work[w].stage = "write", NEW new \in Jobs,
         rules' = Rewritten(work[w]), UNCHANGED <<blocks, command, booking, again, today>>,
         doubt \subseteq doubt', doubt' \subseteq Days,
         used' \in [messages : 0..MaxMessages, faults : 0..MaxFaults],
         work' = [work EXCEPT ![w] = new], JobFits(new)',
         work[w].undo => work[w].day \in doubt' \/ Opening(new, work[w].day)
  PROVE  BlocksInv'
<1>1. PICK at : at = work[w].day
  OBVIOUS
<1>2. /\ rules' \in [Days -> Hours] /\ rules'[at] = work[w].target
      /\ \A d \in Days \ {at} : rules'[d] = rules[d]
  BY <1>1, Writes
<1>3. BlocksTypeOK'
  BY <1>2, RowFacts, NextTypes
<1>4. \A b \in DOMAIN blocks' : BlockFits(b)'
  BY RowFacts, BlockFitsStays
<1>5. \A d, open, but : Agree(d, open, but) => Agree(d, open, but)'
  BY DEF Agree, InForce, Perhaps
<1>6. ASSUME NEW d \in Days
      PROVE  /\ ~rules'[d].overridden => rules'[d].open = Slots
             /\ OldestFits(d)'
             /\ d \notin doubt' => Agree(d, rules[d].open, 0)' \/ Opening(new, d)
  <2>1. DayFits(d)
    BY RowFacts
  <2>2. OldestFits(d)'
    BY <2>1 DEF DayFits, OldestFits, AppliedOn
  <2>3. CASE d # at
    <3>1. rules'[d] = rules[d] /\ \A v \in Workers : ~Opening(work[v], d)
      BY <1>1, <1>2, <2>3 DEF Opening, OneWorker
    <3>2. d \notin doubt' => Agree(d, rules[d].open, 0)
      BY <2>1, <3>1 DEF DayFits
    <3>3. Agree(d, rules[d].open, 0) => Agree(d, rules[d].open, 0)'
      BY <3>1 DEF Agree, InForce, Perhaps
    <3> QED BY <2>1, <2>2, <3>1, <3>2, <3>3 DEF DayFits
  <2>4. CASE d = at
    <3>1. ~work[w].target.overridden => work[w].target.open = Slots
      <4>1. CASE work[w].undo
        BY <4>1, JobFacts DEF JobFits, OnCalendar, OpeningFits
      <4>2. CASE ~work[w].undo
        <5>1. ClosingFits(work[w])
          BY <4>2, JobFacts DEF JobFits, OnCalendar
        <5>2. work[w].target.overridden
          BY <5>1 DEF ClosingFits, Without
        <5> QED BY <5>2
      <4> QED BY <4>1, <4>2
    <3>2. d \notin doubt' => Agree(d, work[w].target.open, 0) \/ Opening(new, d)
      BY <1>1, <2>4, ClosesWell DEF OnCalendar
    <3>3. Agree(d, work[w].target.open, 0) => Agree(d, rules[d].open, 0)'
      BY <1>2, <2>4 DEF Agree, InForce, Perhaps
    <3> QED BY <1>2, <2>2, <2>4, <3>1, <3>2, <3>3
  <2> QED BY <2>3, <2>4
<1>7. (command # Nothing => NoneWaits)'
  BY DEF BlocksInv, NoneWaits
<1> QED BY <1>3, <1>4, <1>6, <1>7, JobFacts, Step

\* The job after a write: at the next stage, and the day is what it aims at.
LEMMA WrittenFits ==
  ASSUME BlocksInv, NEW w \in Workers, work[w].stage = "write", NEW new, NEW stage,
         stage \in {"record", "check"}, stage = "check" => work[w].by = "tool",
         new = [work[w] EXCEPT !.stage = stage, !.rules = Nothing],
         rules' = Rewritten(work[w]), UNCHANGED blocks, doubt \subseteq doubt'
  PROVE  new \in Jobs /\ JobFits(new)' /\ (work[w].undo => Opening(new, work[w].day))
<1>1. PICK was : was = work[w]
  OBVIOUS
<1>2. was \in Jobs /\ JobFits(was) /\ was.stage = "write" /\ was.day \in Days /\ was.target \in Hours
  BY <1>1, JobFacts
<1>3. /\ new \in Jobs /\ new.stage = stage /\ new.text = was.text
      /\ new.by = was.by /\ new.plan = was.plan /\ new.undo = was.undo /\ new.day = was.day
      /\ new.block = was.block /\ new.named = was.named /\ new.target = was.target
  BY <1>1, <1>2 DEF Jobs, Stages
<1>4. rules'[was.day] = was.target
  BY <1>1, Writes
<1>5. \A d, open, but : Agree(d, open, but) => Agree(d, open, but)'
  BY DEF Agree, InForce, Perhaps
<1>6. OpeningFits(was) => OpeningFits(new)'
  BY <1>2, <1>3, <1>4 DEF OpeningFits, AppliedOn
<1>7. ClosingFits(was) => ClosingFits(new)'
  <2> SUFFICES ASSUME ClosingFits(was) PROVE ClosingFits(new)'
    OBVIOUS
  <2>1. PICK b : b = was.block
    OBVIOUS
  <2>2. /\ b \in DOMAIN blocks /\ b = Len(blocks) /\ blocks[b].day = was.day /\ blocks[b].previous # Nothing
        /\ was.target = Without(blocks[b].previous, blocks[b].slots)
        /\ was.by = "text" => blocks[b].state = "proposed"
        /\ was.by # "text" =>
             /\ blocks[b].state = "applied" /\ ~blocks[b].sure
             /\ was.day \notin doubt => Agree(was.day, blocks[b].previous.open, b)
    BY <2>1 DEF ClosingFits
  <2>3. rules'[was.day].open \cap blocks[b].slots = {}
    BY <1>4, <2>2 DEF Without
  <2>4. (was.by # "text" /\ was.day \notin doubt') => Agree(was.day, blocks[b].previous.open, b)'
    BY <1>5, <2>2
  <2> QED BY <1>1, <1>3, <1>4, <2>1, <2>2, <2>3, <2>4 DEF ClosingFits
<1>8. NoneWaits => NoneWaits'
  BY DEF NoneWaits
<1>9. JobFits(new)'
  BY <1>1, <1>2, <1>3, <1>6, <1>7, <1>8 DEF JobFits, OnCalendar
<1> QED BY <1>1, <1>3, <1>9 DEF Opening

LEMMA WriteRulesKeeps ==
  ASSUME BlocksInv, OneWorker, NEW w \in Workers, WriteRules(w) PROVE BlocksInv'
<1>1. /\ work[w].stage = "write" /\ rules' = Rewritten(work[w])
      /\ UNCHANGED <<blocks, command, booking, again, today, doubt, used>>
  BY DEF WriteRules, At
<1>2. PICK new : new = [work[w] EXCEPT !.stage = "record", !.rules = Nothing]
  OBVIOUS
<1>3. new \in Jobs /\ JobFits(new)' /\ (work[w].undo => Opening(new, work[w].day))
  BY <1>1, <1>2, WrittenFits
<1>4. work' = [work EXCEPT ![w] = new]
  BY <1>2 DEF WriteRules, Become
<1> QED BY <1>1, <1>3, <1>4, RowFacts, UsedTypes, WroteKeeps

LEMMA IdleFitsNext == JobFits(Idle)'
BY JobTypes DEF JobFits, OnCalendar

\* The write may have been made or not; nobody was told.
LEMMA WriteFailsKeeps ==
  ASSUME BlocksInv, OneWorker, NEW w \in Workers, WriteFails(w) PROVE BlocksInv'
<1>1. /\ work[w].stage = "write" /\ Fault /\ rules' \in {rules, Rewritten(work[w])}
      /\ UNCHANGED <<blocks, command, booking, again, today>>
  BY DEF WriteFails, At
<1>2. used' \in [messages : 0..MaxMessages, faults : 0..MaxFaults]
  BY <1>1, UsedTypes
<1>3. CASE work[w].by = "text"
  <2>1. /\ work' = [work EXCEPT ![w] = Idle]
        /\ doubt' = IF work[w].undo /\ rules'[work[w].day] = work[w].target
                    THEN doubt \cup {work[w].day} ELSE doubt
    BY <1>3 DEF WriteFails, Reply, Become
  <2>2. doubt' \subseteq Days /\ doubt \subseteq doubt'
    BY <2>1, RowFacts, JobFacts
  <2>3. CASE rules' = Rewritten(work[w])
    <3>1. work[w].undo => work[w].day \in doubt'
      BY <1>1, <2>1, <2>3, Writes
    <3> QED BY <1>1, <1>2, <2>1, <2>2, <2>3, <3>1, IdleFits, IdleFitsNext, WroteKeeps
  <2>4. CASE rules' = rules
    <3>1. \A d : ~Opening(work[w], d)
      BY <1>1 DEF Opening
    <3>2. command' \in Plans \cup {Nothing} /\ (command' # Nothing => NoneWaits) /\ again' \subseteq Texts
      BY <1>1, RowFacts DEF BlocksInv
    <3> QED BY <1>1, <1>2, <2>1, <2>2, <2>4, <3>1, <3>2, IdleFits, JobStep
  <2> QED BY <1>1, <2>3, <2>4
<1>4. CASE work[w].by # "text"
  <2>1. PICK new : new = [work[w] EXCEPT !.stage = "check", !.rules = Nothing]
    OBVIOUS
  <2>2. work' = [work EXCEPT ![w] = new] /\ doubt' = doubt /\ work[w].by = "tool"
    BY <1>4, <2>1, JobFacts DEF WriteFails, Become
  <2>3. CASE rules' = Rewritten(work[w])
    <3>1. new \in Jobs /\ JobFits(new)' /\ (work[w].undo => Opening(new, work[w].day))
      BY <1>1, <2>1, <2>2, <2>3, WrittenFits
    <3> QED BY <1>1, <1>2, <2>2, <2>3, <3>1, RowFacts, WroteKeeps
  <2>4. CASE rules' = rules
    <3>1. PICK was : was = work[w]
      OBVIOUS
    <3>2. was \in Jobs /\ JobFits(was) /\ was.stage = "write" /\ was.by = "tool" /\ was.day \in Days
      BY <1>1, <2>2, <3>1, JobFacts
    <3>3. /\ new \in Jobs /\ new.stage = "check" /\ new.text = was.text
          /\ new.by = was.by /\ new.plan = was.plan /\ new.undo = was.undo /\ new.day = was.day
          /\ new.block = was.block /\ new.named = was.named /\ new.target = was.target
      BY <2>1, <3>1, <3>2 DEF Jobs, Stages
    <3>4. was.day \notin doubt => Agree(was.day, rules[was.day].open, 0)
      <4>1. \A v \in Workers : ~Opening(work[v], was.day)
        BY <1>1 DEF Opening, OneWorker
      <4> QED BY <3>2, <4>1, RowFacts DEF DayFits
    <3>5. OpeningFits(was) => OpeningFits(new)
      BY <3>2, <3>3, <3>4 DEF OpeningFits
    <3>6. ClosingFits(was) => ClosingFits(new)
      BY <3>2, <3>3 DEF ClosingFits
    <3>7. JobFits(new)
      BY <3>2, <3>3, <3>5, <3>6 DEF JobFits, OnCalendar
    <3> QED BY <1>1, <1>2, <2>2, <2>4, <3>3, <3>7, RowFacts, QuietStep DEF BlocksInv
  <2> QED BY <1>1, <2>3, <2>4
<1> QED BY <1>3, <1>4

-----------------------------------------------------------------------------
\* A change to one row.
LEMMA RowChanges ==
  ASSUME BlocksInv, NEW b \in DOMAIN blocks, NEW row \in Blocks, blocks' = [blocks EXCEPT ![b] = row]
  PROVE  /\ blocks' \in Seq(Blocks) /\ Len(blocks') = Len(blocks) /\ DOMAIN blocks' = DOMAIN blocks
         /\ blocks'[b] = row /\ \A c \in DOMAIN blocks \ {b} : blocks'[c] = blocks[c]
BY RowFacts

\* What waits is dropped: it is cancelled, and what it may have closed is in doubt.
LEMMA DroppedRows ==
  ASSUME BlocksInv
  PROVE  LET kept == Dropped(LatestProposed) IN
         /\ kept \in Seq(Blocks) /\ Len(kept) = Len(blocks) /\ DOMAIN kept = DOMAIN blocks
         /\ \A b \in DOMAIN blocks :
              /\ kept[b].day = blocks[b].day /\ kept[b].slots = blocks[b].slots
              /\ kept[b].previous = blocks[b].previous /\ kept[b].reference = blocks[b].reference
              /\ kept[b].sure = blocks[b].sure
              /\ kept[b].state = IF blocks[b].state = "proposed" THEN "cancelled" ELSE blocks[b].state
<1>1. CASE LatestProposed = 0
  BY <1>1, WaitingFacts, RowFacts DEF Dropped, NoneWaits
<1>2. CASE LatestProposed # 0
  <2>1. PICK b : b = LatestProposed
    OBVIOUS
  <2>2. /\ b \in DOMAIN blocks /\ b # 0 /\ blocks[b].state = "proposed"
        /\ \A c \in DOMAIN blocks : blocks[c].state = "proposed" => c = b
    BY <1>2, <2>1, WaitingFacts
  <2>3. PICK was : was = blocks[b]
    OBVIOUS
  <2>4. PICK row : row = [was EXCEPT !.state = "cancelled"]
    OBVIOUS
  <2>5. was \in Blocks
    BY <2>2, <2>3, RowFacts
  <2>6. /\ row \in Blocks /\ row.day = was.day /\ row.slots = was.slots /\ row.previous = was.previous
        /\ row.reference = was.reference /\ row.sure = was.sure /\ row.state = "cancelled"
    BY <2>4, <2>5 DEF Blocks
  <2>7. PICK kept : kept = [blocks EXCEPT ![b] = row]
    OBVIOUS
  <2>8. Dropped(b) = kept
    BY <2>2, <2>3, <2>4, <2>7 DEF Dropped
  <2>9. /\ kept \in Seq(Blocks) /\ Len(kept) = Len(blocks) /\ DOMAIN kept = DOMAIN blocks
        /\ kept[b] = row /\ \A c \in DOMAIN blocks \ {b} : kept[c] = blocks[c]
    BY <2>2, <2>6, <2>7, RowFacts
  <2>10. \A c \in DOMAIN blocks \ {b} : blocks[c].state # "proposed"
    BY <2>2
  <2> QED BY <2>1, <2>2, <2>3, <2>6, <2>8, <2>9, <2>10
<1> QED BY <1>1, <1>2

\* Of a day beyond doubt the records then say what they said.
LEMMA DroppedSays ==
  ASSUME BlocksInv, doubt' = DoubtOfDropped(LatestProposed)
  PROVE  /\ doubt \subseteq doubt' /\ doubt' \subseteq Days
         /\ \A d \in Days \ doubt', b \in DOMAIN blocks :
              ~(blocks[b].day = d /\ blocks[b].state = "proposed" /\ blocks[b].previous # Nothing)
<1>1. doubt \subseteq doubt' /\ doubt' \subseteq Days
  <2>1. CASE LatestProposed = 0
    BY <2>1, RowFacts DEF DoubtOfDropped
  <2>2. CASE LatestProposed # 0
    <3>1. blocks[LatestProposed].day \in Days
      BY <2>2, WaitingFacts, RowFacts
    <3> QED BY <3>1, RowFacts DEF DoubtOfDropped
  <2> QED BY <2>1, <2>2
<1>2. ASSUME NEW d \in Days \ doubt', NEW b \in DOMAIN blocks, blocks[b].day = d,
             blocks[b].state = "proposed", blocks[b].previous # Nothing
      PROVE  FALSE
  <2>1. b = LatestProposed /\ b # 0
    BY <1>2, WaitingFacts, RowFacts DEF NoneWaits
  <2>2. d \in doubt'
    BY <1>2, <2>1 DEF DoubtOfDropped
  <2> QED BY <1>2, <2>2
<1> QED BY <1>1, <1>2

\* The steps that drop what waits, and may add a block that waits instead.
LEMMA DropStep ==
  ASSUME BlocksInv, OneWorker, NEW w \in Workers, NEW new \in Jobs, work' = [work EXCEPT ![w] = new],
         new.stage = "idle", new.by = "text",
         work[w].stage \notin {"record", "check"} \/ ~work[w].undo,
         UNCHANGED <<rules, booking, again, today, used>>, doubt' = DoubtOfDropped(LatestProposed),
         command' \in Plans \cup {Nothing},
         \/ blocks' = Dropped(LatestProposed)
         \/ /\ command' = Nothing /\ Len(blocks) < MaxBlocks
            /\ \E row \in Blocks :
                 /\ row.state = "proposed" /\ row.previous = Nothing
                 /\ row.reference => row.day = BookedDay /\ BookedSlot \in row.slots
                 /\ blocks' = Append(Dropped(LatestProposed), row)
  PROVE  BlocksInv'
<1>1. PICK kept : kept = Dropped(LatestProposed)
  OBVIOUS
<1>2. /\ kept \in Seq(Blocks) /\ Len(kept) = Len(blocks) /\ DOMAIN kept = DOMAIN blocks
      /\ \A b \in DOMAIN blocks :
              /\ kept[b].day = blocks[b].day /\ kept[b].slots = blocks[b].slots
              /\ kept[b].previous = blocks[b].previous /\ kept[b].reference = blocks[b].reference
              /\ kept[b].sure = blocks[b].sure
              /\ kept[b].state = IF blocks[b].state = "proposed" THEN "cancelled" ELSE blocks[b].state
  BY <1>1, DroppedRows
<1>3. /\ doubt \subseteq doubt' /\ doubt' \subseteq Days
      /\ \A d \in Days \ doubt', b \in DOMAIN blocks :
           ~(blocks[b].day = d /\ blocks[b].state = "proposed" /\ blocks[b].previous # Nothing)
  BY DroppedSays
<1>4. /\ blocks' \in Seq(Blocks) /\ Len(blocks') <= MaxBlocks /\ DOMAIN blocks \subseteq DOMAIN blocks'
      /\ \A b \in DOMAIN blocks : blocks'[b] = kept[b]
      /\ \A b \in DOMAIN blocks' \ DOMAIN blocks :
           /\ b = Len(blocks') /\ blocks'[b].state = "proposed" /\ blocks'[b].previous = Nothing
           /\ blocks'[b].reference => blocks'[b].day = BookedDay /\ BookedSlot \in blocks'[b].slots
      /\ command' # Nothing => DOMAIN blocks' = DOMAIN blocks
  <2>1. CASE blocks' = kept
    BY <1>2, <2>1, RowFacts
  <2>2. CASE blocks' # kept
    <3>1. PICK row \in Blocks :
            /\ row.state = "proposed" /\ row.previous = Nothing
            /\ row.reference => row.day = BookedDay /\ BookedSlot \in row.slots
            /\ blocks' = Append(kept, row)
      BY <1>1, <2>2
    <3>2. command' = Nothing /\ Len(blocks) < MaxBlocks
      BY <1>1, <2>2
    <3>3. /\ blocks' \in Seq(Blocks) /\ Len(blocks') = Len(blocks) + 1
          /\ DOMAIN blocks' = 1 .. (Len(blocks) + 1) /\ blocks'[Len(blocks) + 1] = row
          /\ \A b \in DOMAIN blocks : blocks'[b] = kept[b]
      BY <1>2, <3>1, RowFacts
    <3>4. DOMAIN blocks' \ DOMAIN blocks = {Len(blocks) + 1}
      BY <3>3, RowFacts
    <3> QED BY <3>1, <3>2, <3>3, <3>4, RowFacts
  <2> QED BY <2>1, <2>2
<1>5. BlocksTypeOK'
  BY <1>3, <1>4, RowFacts, UsedTypes, NextTypes
<1>6. ASSUME NEW d \in Days \ doubt', NEW open, NEW but, Agree(d, open, but)
      PROVE  Agree(d, open, but)'
  <2>1. \A b \in DOMAIN blocks' \ DOMAIN blocks : ~InForce(b, d)'
    BY <1>4 DEF InForce
  <2>2. ASSUME NEW b \in DOMAIN blocks
        PROVE  /\ blocks'[b].slots = blocks[b].slots
               /\ InForce(b, d)' => InForce(b, d)
               /\ InForce(b, d) \/ Perhaps(b, d) => InForce(b, d)' \/ Perhaps(b, d)'
    <3>1. /\ blocks'[b] = kept[b] /\ kept[b].day = blocks[b].day /\ kept[b].slots = blocks[b].slots
          /\ kept[b].previous = blocks[b].previous /\ kept[b].sure = blocks[b].sure
          /\ kept[b].state = IF blocks[b].state = "proposed" THEN "cancelled" ELSE blocks[b].state
      BY <1>2, <1>4
    <3>2. ~(blocks[b].day = d /\ blocks[b].state = "proposed" /\ blocks[b].previous # Nothing)
      BY <1>3
    <3> QED BY <3>1, <3>2 DEF InForce, Perhaps
  <2> QED BY <1>4, <1>6, <2>1, <2>2, AgreeSame
<1>7. ASSUME NEW b \in DOMAIN blocks' PROVE BlockFits(b)'
  <2>1. CASE b \in DOMAIN blocks
    <3>1. BlockFits(b)
      BY <2>1, RowFacts
    <3>2. /\ blocks'[b] = kept[b] /\ kept[b].day = blocks[b].day /\ kept[b].slots = blocks[b].slots
          /\ kept[b].previous = blocks[b].previous /\ kept[b].reference = blocks[b].reference
          /\ kept[b].state = IF blocks[b].state = "proposed" THEN "cancelled" ELSE blocks[b].state
      BY <1>2, <1>4, <2>1
    <3>3. blocks'[b].state # "proposed"
      BY <3>2
    <3> QED BY <3>1, <3>2, <3>3 DEF BlockFits
  <2>2. CASE b \notin DOMAIN blocks
    BY <1>4, <2>2 DEF BlockFits
  <2> QED BY <2>1, <2>2
<1>8. ASSUME NEW d \in Days
      PROVE  /\ ~rules'[d].overridden => rules'[d].open = Slots
             /\ OldestFits(d)'
             /\ d \notin doubt' => Agree(d, rules[d].open, 0)' \/ Opening(new, d)
  <2>1. DayFits(d) /\ \A v \in Workers : ~Opening(work[v], d)
    BY RowFacts DEF OneWorker, Opening
  <2>2. AppliedOn(d)' = AppliedOn(d)
    <3>1. \A b \in DOMAIN blocks' \ DOMAIN blocks : blocks'[b].state # "applied"
      BY <1>4
    <3>2. \A b \in DOMAIN blocks : /\ blocks'[b].day = blocks[b].day
                                   /\ blocks'[b].state = "applied" <=> blocks[b].state = "applied"
      BY <1>2, <1>4
    <3> QED BY <1>4, <3>1, <3>2 DEF AppliedOn
  <2>3. OldestFits(d)'
    <3>1. \A b \in AppliedOn(d) : blocks'[b].previous = blocks[b].previous
      BY <1>2, <1>4 DEF AppliedOn
    <3> QED BY <1>3, <2>1, <2>2, <3>1 DEF DayFits, OldestFits
  <2>4. ASSUME d \notin doubt' PROVE Agree(d, rules[d].open, 0)'
    <3>1. Agree(d, rules[d].open, 0)
      BY <1>3, <2>1, <2>4 DEF DayFits
    <3>2. PICK open : open = rules[d].open
      OBVIOUS
    <3>3. Agree(d, open, 0)'
      BY <1>6, <2>4, <3>1, <3>2
    <3> QED BY <3>2, <3>3 DEF Agree, InForce, Perhaps
  <2> QED BY <2>1, <2>3, <2>4 DEF DayFits
<1>9. (command # Nothing => NoneWaits)'
  <2>1. \A b \in DOMAIN blocks : blocks'[b].state # "proposed"
    BY <1>2, <1>4
  <2> QED BY <1>4, <2>1 DEF NoneWaits
<1>10. JobFits(new)'
  BY DEF JobFits, OnCalendar
<1> QED BY <1>5, <1>7, <1>8, <1>9, <1>10, JobFacts, Step

LEMMA CancelKeeps ==
  ASSUME BlocksInv, OneWorker, NEW w \in Workers, Cancel(w) PROVE BlocksInv'
<1>1. /\ work[w].stage = "resolve" /\ command = Nothing /\ LatestProposed # 0
      /\ blocks' = Dropped(LatestProposed) /\ doubt' = DoubtOfDropped(LatestProposed)
      /\ work' = [work EXCEPT ![w] = Idle]
      /\ UNCHANGED <<rules, command, booking, again, today, used>>
  BY DEF Cancel, Texted, At, Reply, Become
<1> QED BY <1>1, JobTypes, DropStep

LEMMA ProposeChangeKeeps ==
  ASSUME BlocksInv, OneWorker, NEW w \in Workers, ProposeChange(w) PROVE BlocksInv'
<1>1. /\ work[w].stage = "propose" /\ command' = work[w].plan
      /\ blocks' = Dropped(LatestProposed) /\ doubt' = DoubtOfDropped(LatestProposed)
      /\ work' = [work EXCEPT ![w] = Idle]
      /\ UNCHANGED <<rules, booking, again, today, used>>
  BY DEF ProposeChange, At, Reply, Become
<1> QED BY <1>1, JobTypes, JobFacts, DropStep

LEMMA ProposeKeeps ==
  ASSUME BlocksInv, OneWorker, NEW w \in Workers, Propose(w) PROVE BlocksInv'
<1>1. PICK text : text = work[w].text
  OBVIOUS
<1>2. /\ work[w].stage = "resolve" /\ command = Nothing /\ text.kind = "unavailable"
      /\ work' = [work EXCEPT ![w] = Idle]
      /\ UNCHANGED <<rules, command, booking, again, today, used>>
  BY <1>1 DEF Propose, Texted, At, Reply, Become
<1>3. text \in Texts
  BY <1>1, <1>2, JobFacts DEF JobFits
<1>4. text.day \in Days /\ text.slots \subseteq Slots
  BY <1>2, <1>3, CalendarBlocksAssumption DEF Texts, Unavailable, Unblocks, Confirmations
<1>5. CASE UNCHANGED <<blocks, doubt>>
  BY <1>2, <1>5, IdleFits, UsedTypes, RowFacts, QuietStep DEF BlocksInv
<1>6. CASE ~UNCHANGED <<blocks, doubt>>
  <2>1. PICK row : row = NewBlock(text.day, text.slots, "proposed", Nothing, Answers(text.day, text.slots))
    OBVIOUS
  <2>2. /\ row \in Blocks /\ row.state = "proposed" /\ row.previous = Nothing
        /\ row.reference => row.day = BookedDay /\ BookedSlot \in row.slots
    BY <1>4, <2>1 DEF NewBlock, Blocks, Answers
  <2>3. /\ Len(blocks) < MaxBlocks /\ blocks' = Append(Dropped(LatestProposed), row)
        /\ doubt' = DoubtOfDropped(LatestProposed)
    BY <1>1, <1>6, <2>1 DEF Propose
  <2> QED BY <1>2, <2>2, <2>3, JobTypes, DropStep
<1> QED BY <1>5, <1>6

\* A block that says nothing of the day can be left out, or counted.
LEMMA AgreeWithout ==
  ASSUME BlocksInv, NEW d, NEW open, NEW b, ~InForce(b, d), ~Perhaps(b, d), Agree(d, open, 0)
  PROVE  Agree(d, open, b)
<1>1. \A c \in DOMAIN blocks : c # 0
  BY RowFacts
<1>2. \A s \in open, c \in DOMAIN blocks : c # b /\ InForce(c, d) => s \notin blocks[c].slots
  BY <1>1 DEF Agree
<1>3. ASSUME NEW s \in Slots \ open
      PROVE  \E c \in DOMAIN blocks : c # b /\ (InForce(c, d) \/ Perhaps(c, d)) /\ s \in blocks[c].slots
  <2>1. PICK c \in DOMAIN blocks : (InForce(c, d) \/ Perhaps(c, d)) /\ s \in blocks[c].slots
    BY DEF Agree
  <2>2. c # b
    BY <2>1
  <2> QED BY <2>1, <2>2
<1> QED BY <1>2, <1>3 DEF Agree

\* A yes: what the day had before it is saved, and the calendar is about to change.
LEMMA ApplyKeeps ==
  ASSUME BlocksInv, OneWorker, NEW w \in Workers, Apply(w) PROVE BlocksInv'
<1>1. PICK b : b = LatestProposed
  OBVIOUS
<1>2. /\ work[w].stage = "resolve" /\ command = Nothing /\ b # 0 /\ blocks[b].live
      /\ UNCHANGED <<rules, command, booking, again, today, doubt, used>>
  BY <1>1 DEF Apply, Texted, At
<1>3. /\ b \in DOMAIN blocks /\ b = Len(blocks) /\ blocks[b].state = "proposed"
      /\ \A c \in DOMAIN blocks : blocks[c].state = "proposed" => c = b
  BY <1>1, <1>2, WaitingFacts
<1>4. PICK was : was = blocks[b]
  OBVIOUS
<1>5. PICK d : d = was.day
  OBVIOUS
<1>6. PICK previous : previous = Previous(b)
  OBVIOUS
<1>7. was \in Blocks /\ d \in Days /\ was.slots \subseteq Slots /\ BlockFits(b)
  BY <1>3, <1>4, <1>5, RowFacts
<1>8. ASSUME NEW e \in Days
      PROVE DayFits(e) /\ (e \notin doubt => Agree(e, rules[e].open, 0))
  <2>1. \A v \in Workers : ~Opening(work[v], e)
    BY <1>2 DEF Opening, OneWorker
  <2> QED BY <2>1, RowFacts DEF DayFits
<1>9. /\ previous \in Hours /\ previous # Nothing /\ (~previous.overridden => previous.open = Slots)
      /\ d \notin doubt => Agree(d, previous.open, b)
  <2>1. CASE was.previous = Nothing
    <3>1. previous = rules[d] /\ rules[d] \in Hours
      BY <1>4, <1>5, <1>6, <1>7, <2>1, RowFacts DEF Previous
    <3>2. ~InForce(b, d) /\ ~Perhaps(b, d)
      BY <1>3, <1>4, <2>1 DEF InForce, Perhaps
    <3>3. Agree(d, previous.open, 0) => Agree(d, previous.open, b)
      BY <3>2, AgreeWithout
    <3> QED BY <1>7, <1>8, <3>1, <3>3, JobTypes DEF DayFits
  <2>2. CASE was.previous # Nothing
    BY <1>3, <1>4, <1>5, <1>6, <1>7, <2>2, JobTypes, RowFacts DEF Previous, BlockFits
  <2> QED BY <2>1, <2>2
<1>10. PICK row : row = [was EXCEPT !.previous = previous]
  OBVIOUS
<1>11. /\ row \in Blocks /\ row.previous = previous /\ row.day = d /\ row.slots = was.slots
       /\ row.state = was.state /\ row.sure = was.sure /\ row.reference = was.reference
  BY <1>5, <1>7, <1>9, <1>10 DEF Blocks
<1>12. blocks' = [blocks EXCEPT ![b] = row]
  BY <1>1, <1>3, <1>4, <1>6, <1>10 DEF Apply
<1>13. /\ blocks' \in Seq(Blocks) /\ Len(blocks') = Len(blocks) /\ DOMAIN blocks' = DOMAIN blocks
       /\ blocks'[b] = row /\ \A c \in DOMAIN blocks \ {b} : blocks'[c] = blocks[c]
  BY <1>3, <1>11, <1>12, RowChanges
<1>14. ASSUME NEW e, NEW open, NEW but, Agree(e, open, but)
       PROVE  Agree(e, open, but)'
  <2>1. ASSUME NEW c \in DOMAIN blocks
        PROVE  /\ blocks'[c].slots = blocks[c].slots
               /\ InForce(c, e)' => InForce(c, e)
               /\ InForce(c, e) \/ Perhaps(c, e) => InForce(c, e)' \/ Perhaps(c, e)'
    <3>1. CASE c = b
      BY <1>3, <1>4, <1>5, <1>9, <1>11, <1>13, <3>1 DEF InForce, Perhaps
    <3>2. CASE c # b
      BY <1>13, <3>2 DEF InForce, Perhaps
    <3> QED BY <3>1, <3>2
  <2> QED BY <1>13, <1>14, <2>1, AgreeSame
<1>15. ASSUME NEW c \in DOMAIN blocks' PROVE BlockFits(c)'
  <2>1. CASE c = b
    <3>1. d \notin doubt' => Agree(d, previous.open, b)'
      BY <1>2, <1>9, <1>14
    <3>2. (blocks[c].day \notin doubt)' => Agree(blocks[c].day, blocks[c].previous.open, c)'
      BY <1>11, <1>13, <2>1, <3>1 DEF Agree, InForce, Perhaps
    <3>3. /\ blocks'[c].state = "proposed" /\ c = Len(blocks') /\ blocks'[c].previous = previous
          /\ blocks'[c].day = blocks[b].day /\ blocks'[c].slots = blocks[b].slots
          /\ blocks'[c].reference = blocks[b].reference
      BY <1>3, <1>4, <1>5, <1>11, <1>13, <2>1
    <3>4. blocks[b].reference => blocks[b].day = BookedDay /\ BookedSlot \in blocks[b].slots
      BY <1>7 DEF BlockFits
    <3> QED BY <1>9, <3>2, <3>3, <3>4 DEF BlockFits
  <2>2. CASE c # b
    BY <1>3, <1>13, <2>2, RowFacts DEF BlockFits
  <2> QED BY <2>1, <2>2
<1>16. ASSUME NEW e \in Days
       PROVE  /\ ~rules'[e].overridden => rules'[e].open = Slots
              /\ OldestFits(e)' /\ (e \notin doubt' => Agree(e, rules[e].open, 0)')
  <2>1. AppliedOn(e)' = AppliedOn(e)
    BY <1>3, <1>4, <1>11, <1>13 DEF AppliedOn
  <2>2. \A c \in AppliedOn(e) : blocks'[c] = blocks[c]
    BY <1>3, <1>13 DEF AppliedOn
  <2>3. OldestFits(e)'
    BY <1>2, <1>8, <2>1, <2>2 DEF DayFits, OldestFits
  <2>4. PICK open : open = rules[e].open
    OBVIOUS
  <2>5. Agree(e, open, 0) => Agree(e, open, 0)'
    BY <1>14
  <2>6. Agree(e, open, 0)' => Agree(e, rules[e].open, 0)'
    BY <1>2, <2>4 DEF Agree, InForce, Perhaps
  <2> QED BY <1>2, <1>8, <2>3, <2>4, <2>5, <2>6 DEF DayFits
<1>17. PICK job : job = work[w]
  OBVIOUS
<1>18. PICK target : target = Without(previous, was.slots)
  OBVIOUS
<1>19. PICK new : new = [job EXCEPT !.stage = "read", !.day = d, !.block = b, !.target = target]
  OBVIOUS
<1>20. work' = [work EXCEPT ![w] = new]
  BY <1>1, <1>4, <1>5, <1>6, <1>17, <1>18, <1>19 DEF Apply, Become
<1>21. /\ job \in Jobs /\ JobFits(job) /\ job.by = "text" /\ job.text \in Texts /\ ~job.undo /\ target \in Hours
       /\ b \in 0 .. MaxBlocks
  BY <1>2, <1>3, <1>9, <1>17, <1>18, JobFacts, ByText, RowFacts DEF Without, Hours
<1>22. /\ new \in Jobs /\ new.stage = "read" /\ new.day = d /\ new.block = b /\ new.target = target
       /\ new.by = "text" /\ new.text \in Texts /\ ~new.undo
  BY <1>7, <1>19, <1>21 DEF Jobs, Stages
<1>23. ClosingFits(new)'
  <2>1. blocks'[b].slots = was.slots /\ blocks'[b].previous = previous /\ blocks'[b].state = "proposed"
        /\ blocks'[b].day = d
    BY <1>3, <1>4, <1>11, <1>13
  <2> QED BY <1>3, <1>9, <1>13, <1>18, <1>22, <2>1 DEF ClosingFits
<1>24. JobFits(new)'
  BY <1>22, <1>23 DEF JobFits, OnCalendar
<1>25. BlocksTypeOK'
  BY <1>2, <1>13, <1>20, <1>22, RowFacts, UsedTypes, NextTypes
<1> QED BY <1>2, <1>15, <1>16, <1>20, <1>22, <1>24, <1>25, JobFacts, Step

-----------------------------------------------------------------------------
\* The tools take the days in order.
LEMMA NextDayType ==
  ASSUME BlocksInv, NEW w \in Workers, work[w].todo # {}
  PROVE  NextDayOf(w) \in Days
<1>1. PICK todo : todo = work[w].todo
  OBVIOUS
<1>2. todo \subseteq Days /\ todo \subseteq Nat /\ todo # {}
  BY <1>1, JobFacts, CalendarBlocksAssumption DEF Days
<1>3. IsWellFoundedOn(OpToRel(<, Nat), Nat)
  BY NatLessThanWellFounded
<1>4. PICK d \in todo : \A e \in todo : ~(<<e, d>> \in OpToRel(<, Nat))
  BY <1>2, <1>3, WFMin
<1>5. \A e \in todo : ~(e < d)
  BY <1>2, <1>4 DEF OpToRel
<1>6. \A e \in todo : d <= e
  BY <1>2, <1>5
<1>7. NextDayOf(w) \in todo
  BY <1>1, <1>6 DEF NextDayOf
<1> QED BY <1>2, <1>7

\* The tool of an unblock, at a day whose blocks are those that were read back.
LEMMA UnblockDayKeeps ==
  ASSUME BlocksInv, OneWorker, NEW w \in Workers, UnblockDay(w) PROVE BlocksInv'
<1>1. PICK d : d = NextDayOf(w)
  OBVIOUS
<1>2. PICK target : target = Restored(AppliedOn(d))
  OBVIOUS
<1>3. PICK named : named = AppliedOn(d)
  OBVIOUS
<1>4. /\ work[w].stage = "day" /\ work[w].todo # {} /\ work[w].undo /\ work[w].by = "tool"
      /\ UNCHANGED <<rules, command, booking, again, today, doubt, used>>
  BY ByTool DEF UnblockDay, At
<1>5. d \in Days
  BY <1>1, <1>4, NextDayType
<1>6. CASE Skip(w, d)
  BY <1>4, <1>6, UsedTypes, SkipKeeps
<1>7. CASE /\ AppliedOn(d) # {} /\ UNCHANGED blocks
           /\ work' = [work EXCEPT ![w] = [work[w] EXCEPT !.stage = "read", !.day = d,
                                                          !.named = AppliedOn(d), !.target = target]]
  <2>1. named \subseteq BlockIds
    BY <1>3, RowFacts DEF AppliedOn
  <2>2. target \in Hours /\ (~target.overridden => target.open = Slots) /\ (d \notin doubt => target.open = Slots)
    BY <1>2, <1>5, <1>7, RestoredFits
  <2>3. PICK was : was = work[w]
    OBVIOUS
  <2>4. PICK new : new = [was EXCEPT !.stage = "read", !.day = d, !.named = named, !.target = target]
    OBVIOUS
  <2>5. was \in Jobs /\ JobFits(was)
    BY <2>3, JobFacts
  <2>6. /\ new \in Jobs /\ new.stage = "read" /\ new.undo = was.undo /\ new.day = d /\ new.named = named
        /\ new.target = target /\ new.by = was.by /\ new.text = was.text /\ new.plan = was.plan
    BY <1>5, <2>1, <2>2, <2>4, <2>5 DEF Jobs, Stages
  <2>7. JobFits(new)
    BY <1>3, <1>4, <2>2, <2>3, <2>5, <2>6 DEF JobFits, OnCalendar, OpeningFits
  <2>8. work' = [work EXCEPT ![w] = new]
    BY <1>3, <1>7, <2>3, <2>4
  <2> QED BY <1>4, <1>7, <2>6, <2>7, <2>8, UsedTypes, RowFacts, QuietStep DEF BlocksInv
<1> QED BY <1>1, <1>2, <1>6, <1>7 DEF UnblockDay, AsReadBack, Become

\* The tool of a block: the newest row says so before the calendar is changed.
LEMMA BlockDayKeeps ==
  ASSUME BlocksInv, OneWorker, NEW w \in Workers, BlockDay(w) PROVE BlocksInv'
<1>1. PICK d : d = NextDayOf(w)
  OBVIOUS
<1>2. PICK slots : slots = work[w].plan.slots
  OBVIOUS
<1>3. PICK previous : previous = rules[d]
  OBVIOUS
<1>4. PICK b : b = Len(blocks) + 1
  OBVIOUS
<1>5. PICK row : row = NewBlock(d, slots, "applied", previous, FALSE)
  OBVIOUS
<1>6. /\ work[w].stage = "day" /\ work[w].todo # {} /\ ~work[w].undo /\ work[w].by = "tool"
      /\ UNCHANGED <<rules, command, booking, again, today, doubt, used>>
  BY ByTool DEF BlockDay, At
<1>7. PICK was : was = work[w]
  OBVIOUS
<1>8. was \in Jobs /\ JobFits(was) /\ was.by = "tool" /\ was.plan \in Plans /\ NoneWaits /\ was.text \in Texts
  BY <1>6, <1>7, JobFacts DEF JobFits
<1>9. d \in Days /\ slots \subseteq Slots /\ previous \in Hours /\ previous # Nothing
  BY <1>1, <1>2, <1>3, <1>6, <1>7, <1>8, NextDayType, RowFacts, JobTypes DEF Plans
<1>10. CASE Skip(w, d)
  BY <1>6, <1>10, UsedTypes, SkipKeeps
<1>11. CASE ~Skip(w, d)
  <2>1. PICK target : target = Without(previous, slots)
    OBVIOUS
  <2>2. PICK new : new = [was EXCEPT !.stage = "read", !.day = d, !.block = b, !.target = target]
    OBVIOUS
  <2>3. /\ Len(blocks) < MaxBlocks /\ blocks' = Append(blocks, row)
        /\ work' = [work EXCEPT ![w] = new]
    BY <1>1, <1>2, <1>3, <1>4, <1>5, <1>7, <1>11, <2>1, <2>2 DEF BlockDay, Become
  <2>4. /\ row \in Blocks /\ row.day = d /\ row.slots = slots /\ row.state = "applied"
        /\ row.previous = previous /\ ~row.reference /\ ~row.sure
    BY <1>5, <1>9 DEF NewBlock, Blocks
  <2>5. /\ blocks' \in Seq(Blocks) /\ Len(blocks') = b /\ b <= MaxBlocks /\ b \in Nat
        /\ DOMAIN blocks' = DOMAIN blocks \cup {b} /\ b \notin DOMAIN blocks /\ blocks'[b] = row
        /\ \A c \in DOMAIN blocks : blocks'[c] = blocks[c] /\ c < b /\ c \in Nat
    BY <1>4, <2>3, <2>4, RowFacts
  <2>6. ASSUME NEW e, NEW open, NEW but, Agree(e, open, but)
        PROVE  Agree(e, open, but)'
    <3>1. ~InForce(b, e)'
      BY <2>4, <2>5 DEF InForce
    <3>2. \A c \in DOMAIN blocks : blocks'[c] = blocks[c]
      BY <2>5
    <3>3. \A c \in DOMAIN blocks :
            /\ blocks'[c].slots = blocks[c].slots
            /\ InForce(c, e)' => InForce(c, e)
            /\ InForce(c, e) \/ Perhaps(c, e) => InForce(c, e)' \/ Perhaps(c, e)'
      BY <3>2 DEF InForce, Perhaps
    <3> QED BY <2>5, <2>6, <3>1, <3>3, AgreeSame
  <2>7. ASSUME NEW e \in Days
        PROVE  DayFits(e) /\ (e \notin doubt => Agree(e, rules[e].open, 0))
    <3>1. \A v \in Workers : ~Opening(work[v], e)
      BY <1>6 DEF Opening, OneWorker
    <3> QED BY <3>1, RowFacts DEF DayFits
  <2>8. ASSUME NEW c \in DOMAIN blocks' PROVE BlockFits(c)'
    <3>1. CASE c = b
      BY <1>3, <1>9, <2>4, <2>5, <2>7, <3>1 DEF BlockFits, DayFits
    <3>2. CASE c # b
      <4>1. c \in DOMAIN blocks /\ blocks'[c] = blocks[c] /\ BlockFits(c) /\ blocks[c].state # "proposed"
        BY <1>8, <2>5, <3>2, RowFacts DEF NoneWaits
      <4> QED BY <4>1 DEF BlockFits
    <3> QED BY <3>1, <3>2
  <2>9. (d \notin doubt /\ AppliedOn(d) = {}) => previous.open = Slots
    <3>1. SUFFICES ASSUME d \notin doubt, AppliedOn(d) = {} PROVE previous.open = Slots
      OBVIOUS
    <3>2. \A c \in DOMAIN blocks : ~InForce(c, d) /\ ~Perhaps(c, d)
      BY <1>8, <3>1 DEF InForce, Perhaps, NoneWaits, AppliedOn
    <3>3. Agree(d, previous.open, 0) /\ previous.open \subseteq Slots
      BY <1>3, <1>9, <2>7, <3>1 DEF Hours
    <3> QED BY <3>2, <3>3 DEF Agree
  <2>10. ASSUME NEW e \in Days PROVE OldestFits(e)'
    <3>1. AppliedOn(e)' = IF e = d THEN AppliedOn(e) \cup {b} ELSE AppliedOn(e)
      BY <2>4, <2>5 DEF AppliedOn
    <3>2. CASE AppliedOn(e) # {}
      <4>1. PICK c \in AppliedOn(e) : /\ \A o \in AppliedOn(e) : c <= o
                                      /\ e \notin doubt => blocks[c].previous.open = Slots
        BY <2>7, <3>2 DEF DayFits, OldestFits
      <4>2. c \in AppliedOn(e)' /\ blocks'[c] = blocks[c] /\ c <= b
        BY <2>5, <3>1, <4>1 DEF AppliedOn
      <4>3. \A o \in AppliedOn(e)' : c <= o
        BY <3>1, <4>1, <4>2
      <4> QED BY <1>6, <4>1, <4>2, <4>3 DEF OldestFits
    <3>3. CASE AppliedOn(e) = {} /\ e = d
      <4>1. AppliedOn(e)' = {b} /\ b <= b
        BY <2>5, <3>1, <3>3
      <4>2. e \notin doubt' => blocks'[b].previous.open = Slots
        BY <1>6, <2>4, <2>5, <2>9, <3>3
      <4> QED BY <4>1, <4>2 DEF OldestFits
    <3>4. CASE AppliedOn(e) = {} /\ e # d
      BY <3>1, <3>4 DEF OldestFits
    <3> QED BY <3>2, <3>3, <3>4
  <2>11. ASSUME NEW e \in Days
         PROVE  /\ ~rules'[e].overridden => rules'[e].open = Slots
                /\ e \notin doubt' => Agree(e, rules[e].open, 0)'
    <3>1. PICK open : open = rules[e].open
      OBVIOUS
    <3>2. Agree(e, open, 0) => Agree(e, open, 0)'
      BY <2>6
    <3>3. Agree(e, open, 0)' => Agree(e, rules[e].open, 0)'
      BY <1>6, <3>1 DEF Agree, InForce, Perhaps
    <3> QED BY <1>6, <2>7, <3>1, <3>2, <3>3 DEF DayFits
  <2>12. target \in Hours /\ b \in 0 .. MaxBlocks
    BY <1>9, <2>1, <2>5, RowFacts DEF Without, Hours
  <2>13. /\ new \in Jobs /\ new.stage = "read" /\ new.day = d /\ new.block = b /\ new.target = target
         /\ new.by = "tool" /\ new.text \in Texts /\ new.undo = was.undo /\ new.plan \in Plans
    BY <1>8, <1>9, <2>2, <2>12 DEF Jobs, Stages
  <2>14. ClosingFits(new)'
    <3>2. d \notin doubt => Agree(d, previous.open, b)'
      <4>1. SUFFICES ASSUME d \notin doubt PROVE Agree(d, previous.open, b)'
        OBVIOUS
      <4>2. Agree(d, previous.open, 0)
        BY <1>3, <1>9, <2>7, <4>1
      <4>3. Agree(d, previous.open, b)
        BY <2>5, <4>2, RowFacts DEF Agree
      <4> QED BY <2>6, <4>3
    <3>3. /\ blocks'[b].day = d /\ blocks'[b].state = "applied" /\ ~blocks'[b].sure
          /\ blocks'[b].previous = previous /\ blocks'[b].slots = slots
      BY <2>4, <2>5
    <3>4. Agree(new.day, blocks[b].previous.open, b)' \/ d \in doubt
      BY <2>13, <3>2, <3>3 DEF Agree, InForce, Perhaps
    <3> QED BY <1>3, <1>6, <1>9, <2>1, <2>5, <2>13, <3>3, <3>4 DEF ClosingFits
  <2>15. JobFits(new)'
    <3>1. NoneWaits'
      BY <1>8, <2>4, <2>5 DEF NoneWaits
    <3> QED BY <1>6, <1>7, <2>13, <2>14, <3>1 DEF JobFits, OnCalendar
  <2>16. (command # Nothing => NoneWaits)'
    BY <1>8, <2>4, <2>5 DEF NoneWaits
  <2>17. BlocksTypeOK'
    BY <1>6, <2>3, <2>5, <2>13, RowFacts, UsedTypes, NextTypes
  <2> QED BY <2>3, <2>8, <2>10, <2>11, <2>13, <2>15, <2>16, <2>17, JobFacts, Step
<1> QED BY <1>10, <1>11

\* The tool has looked at the day again, and it is not as the tool wants it: an
\* unblock leaves it, a block is taken out of the records.
LEMMA NotDoneKeeps ==
  ASSUME BlocksInv, OneWorker, NEW w \in Workers, LookAgain(w), DayDone(w)
  PROVE  BlocksInv'
<1>1. PICK job : job = work[w]
  OBVIOUS
<1>2. PICK d : d = job.day
  OBVIOUS
<1>3. /\ job.stage = "check" /\ job.by = "tool" /\ JobFits(job) /\ NoneWaits /\ d \in Days
      /\ UNCHANGED <<rules, command, booking, again, today, doubt, used>>
  BY <1>1, <1>2, JobFacts, ByTool DEF LookAgain, At, JobFits
<1>4. PICK new \in Jobs : /\ work' = [work EXCEPT ![w] = new] /\ JobFits(new) /\ \A e : ~Opening(new, e)
                          /\ new.stage = "day" /\ new.by = "tool"
  BY <1>1, <1>3, DayDoneJob DEF OnCalendar
<1>5. work'[w].stage = "day"
  BY <1>4, JobFacts
<1>6. ~Goto(w, "record")
  <2>1. SUFFICES ASSUME work' = [work EXCEPT ![w] = [work[w] EXCEPT !.stage = "record"]] PROVE FALSE
    BY DEF Goto, Become
  <2>2. work'[w].stage = "record"
    BY <2>1, JobFacts DEF Jobs
  <2> QED BY <1>5, <2>2
<1>7. CASE job.undo
  <2>1. UNCHANGED blocks /\ rules[d] # job.target
    BY <1>1, <1>2, <1>6, <1>7 DEF LookAgain
  <2>2. OpeningFits(job)
    BY <1>3, <1>7 DEF JobFits, OnCalendar
  <2>3. \A e \in Days \ doubt : Opening(work[w], e) => Agree(e, rules[e].open, 0)
    BY <1>1, <1>2, <1>3, <2>1, <2>2 DEF Opening, OpeningFits
  <2>4. doubt' \subseteq Days /\ again' \subseteq Texts /\ command' \in Plans \cup {Nothing}
        /\ (command' # Nothing => NoneWaits)
    BY <1>3, RowFacts
  <2> QED BY <1>3, <1>4, <2>1, <2>3, <2>4, UsedTypes, JobStep
<1>8. CASE ~job.undo
  <2>1. PICK b : b = job.block
    OBVIOUS
  <2>2. ClosingFits(job)
    BY <1>3, <1>8 DEF JobFits, OnCalendar
  <2>3. PICK was : was = blocks[b]
    OBVIOUS
  <2>4. PICK row : row = [was EXCEPT !.state = "removed"]
    OBVIOUS
  <2>5. /\ b \in DOMAIN blocks /\ b = Len(blocks) /\ was.day = d /\ was.state = "applied" /\ ~was.sure
        /\ d \notin doubt => Agree(d, was.previous.open, b)
        /\ rules[d] \in {was.previous, job.target} /\ job.target = Without(was.previous, was.slots)
    BY <1>2, <1>3, <2>1, <2>2, <2>3 DEF ClosingFits
  <2>6. rules[d].open \cap was.slots # {} /\ blocks' = [blocks EXCEPT ![b] = row]
    BY <1>1, <1>2, <1>6, <1>8, <2>1, <2>3, <2>4, <2>5 DEF LookAgain
  <2>7. rules[d] = was.previous
    BY <2>5, <2>6 DEF Without
  <2>8. was \in Blocks
    BY <2>3, <2>5, RowFacts
  <2>9. /\ row \in Blocks /\ row.day = d /\ row.slots = was.slots /\ row.state = "removed"
        /\ row.reference = was.reference /\ row.previous = was.previous
    BY <2>4, <2>5, <2>8 DEF Blocks
  <2>10. /\ blocks' \in Seq(Blocks) /\ Len(blocks') = Len(blocks) /\ DOMAIN blocks' = DOMAIN blocks
         /\ blocks'[b] = row /\ \A c \in DOMAIN blocks \ {b} : blocks'[c] = blocks[c]
    BY <2>5, <2>6, <2>9, RowChanges
  <2>11. \A e : ~InForce(b, e)' /\ ~Perhaps(b, e)'
    BY <2>9, <2>10 DEF InForce, Perhaps
  <2>12. \A c \in DOMAIN blocks \ {b} : BlockFits(c) /\ blocks[c].state # "proposed" /\ c <= b /\ c \in Nat
    BY <1>3, <2>5, RowFacts DEF NoneWaits
  <2>13. ASSUME NEW c \in DOMAIN blocks' PROVE BlockFits(c)'
    <3>1. CASE c = b
      <4>1. BlockFits(b) /\ blocks[b] = was
        BY <2>3, <2>5, RowFacts
      <4>2. /\ was.previous # Nothing /\ ~was.previous.overridden => was.previous.open = Slots
            /\ was.reference => was.day = BookedDay /\ BookedSlot \in was.slots
        BY <4>1 DEF BlockFits
      <4>3. /\ blocks'[c].state = "removed" /\ blocks'[c].previous = was.previous
            /\ blocks'[c].reference = was.reference /\ blocks'[c].day = was.day
            /\ blocks'[c].slots = was.slots
        BY <2>5, <2>9, <2>10, <3>1
      <4> QED BY <4>2, <4>3 DEF BlockFits
    <3>2. CASE c # b
      BY <2>10, <2>12, <3>2 DEF BlockFits
    <3> QED BY <3>1, <3>2
  <2>14. ASSUME NEW e \in Days \ doubt
         PROVE  Agree(e, rules[e].open, 0)'
    <3>1. CASE e = d
      <4>1. Agree(d, rules[d].open, b)
        BY <2>5, <2>7, <3>1
      <4>2. Agree(d, rules[d].open, 0)'
        <5>1. PICK open : open = rules[d].open
          OBVIOUS
        <5>2. \A s \in open, c \in DOMAIN blocks' : InForce(c, d)' => s \notin blocks'[c].slots
          BY <2>10, <2>11, <4>1, <5>1 DEF Agree, InForce
        <5>3. ASSUME NEW s \in Slots \ open
              PROVE  \E c \in DOMAIN blocks' : c # 0 /\ (InForce(c, d)' \/ Perhaps(c, d)') /\ s \in blocks'[c].slots
          <6>1. PICK c \in DOMAIN blocks : c # b /\ (InForce(c, d) \/ Perhaps(c, d)) /\ s \in blocks[c].slots
            BY <4>1, <5>1, <5>3 DEF Agree
          <6>2. blocks'[c] = blocks[c] /\ c # 0
            BY <2>10, <6>1, RowFacts
          <6> QED BY <2>10, <6>1, <6>2 DEF InForce, Perhaps
        <5> QED BY <1>3, <5>1, <5>2, <5>3 DEF Agree
      <4> QED BY <3>1, <4>2
    <3>2. CASE e # d
      <4>1. \A v \in Workers : ~Opening(work[v], e)
        BY <1>1, <1>8 DEF Opening, OneWorker
      <4>2. PICK open : open = rules[e].open
        OBVIOUS
      <4>3. Agree(e, open, 0)
        BY <4>1, <4>2, RowFacts DEF DayFits
      <4>4. \A c \in DOMAIN blocks :
              /\ blocks'[c].slots = blocks[c].slots
              /\ InForce(c, e)' => InForce(c, e)
              /\ InForce(c, e) \/ Perhaps(c, e) => InForce(c, e)' \/ Perhaps(c, e)'
        <5>1. blocks'[b].slots = blocks[b].slots /\ ~InForce(b, e) /\ ~Perhaps(b, e)
          BY <2>3, <2>5, <2>9, <2>10, <3>2 DEF InForce, Perhaps
        <5> QED BY <2>10, <2>11, <5>1 DEF InForce, Perhaps
      <4>5. Agree(e, open, 0)'
        BY <2>10, <4>3, <4>4, AgreeSame
      <4> QED BY <1>3, <4>2, <4>5 DEF Agree, InForce, Perhaps
    <3> QED BY <3>1, <3>2
  <2>15. ASSUME NEW e \in Days PROVE OldestFits(e)'
    <3>1. AppliedOn(e)' = AppliedOn(e) \ {b}
      BY <2>5, <2>9, <2>10 DEF AppliedOn
    <3>2. CASE AppliedOn(e) \ {b} # {}
      <4>1. AppliedOn(e) # {}
        BY <3>2
      <4>2. PICK c \in AppliedOn(e) : /\ \A o \in AppliedOn(e) : c <= o
                                      /\ e \notin doubt => blocks[c].previous.open = Slots
        BY <4>1, RowFacts DEF DayFits, OldestFits
      <4>3. PICK o \in AppliedOn(e) : o # b
        BY <3>2
      <4>4. o < b /\ c <= o /\ c \in Nat /\ o \in Nat /\ b \in Nat
        BY <2>5, <4>2, <4>3, RowFacts DEF AppliedOn
      <4>5. c # b /\ blocks'[c] = blocks[c] /\ c \in AppliedOn(e)'
        BY <2>10, <3>1, <4>2, <4>4 DEF AppliedOn
      <4> QED BY <1>3, <3>1, <4>2, <4>5 DEF OldestFits
    <3>3. CASE AppliedOn(e) \ {b} = {}
      BY <3>1, <3>3 DEF OldestFits
    <3> QED BY <3>2, <3>3
  <2>16. \A e \in Days : ~rules'[e].overridden => rules'[e].open = Slots
    BY <1>3, RowFacts DEF DayFits
  <2>17. NoneWaits'
    BY <1>3, <2>9, <2>10 DEF NoneWaits
  <2>18. JobFits(new)'
    BY <1>4, <2>17 DEF JobFits, OnCalendar
  <2>19. BlocksTypeOK'
    BY <1>3, <1>4, <2>10, RowFacts, UsedTypes, NextTypes
  <2> QED BY <1>3, <1>4, <2>13, <2>14, <2>15, <2>16, <2>17, <2>18, <2>19, JobFacts, Step
<1> QED BY <1>7, <1>8

LEMMA LookAgainKeeps ==
  ASSUME BlocksInv, OneWorker, NEW w \in Workers, LookAgain(w) PROVE BlocksInv'
<1>1. PICK was : was = work[w]
  OBVIOUS
<1>2. /\ was.stage = "check" /\ was.by = "tool" /\ was \in Jobs /\ JobFits(was) /\ was.day \in Days
      /\ UNCHANGED <<rules, command, booking, again, today, doubt, used>>
  BY <1>1, JobFacts, ByTool DEF LookAgain, At
<1>3. CASE DayDone(w)
  BY <1>3, NotDoneKeeps
<1>4. CASE ~DayDone(w)
  <2>1. PICK new : new = [was EXCEPT !.stage = "record"]
    OBVIOUS
  <2>2. work' = [work EXCEPT ![w] = new] /\ UNCHANGED blocks
    BY <1>1, <1>4, <2>1 DEF LookAgain, Goto, Become
  <2>3. /\ new \in Jobs /\ new.stage = "record" /\ new.text = was.text
        /\ new.by = was.by /\ new.plan = was.plan /\ new.undo = was.undo /\ new.day = was.day
        /\ new.block = was.block /\ new.named = was.named /\ new.target = was.target
    BY <1>2, <2>1 DEF Jobs, Stages
  <2>4. was.undo => OpeningFits(new)
    <3>1. SUFFICES ASSUME was.undo PROVE OpeningFits(new)
      OBVIOUS
    <3>2. OpeningFits(was)
      BY <1>2, <3>1 DEF JobFits, OnCalendar
    <3>3. IF was.target.overridden THEN rules[was.day].open = was.target.open ELSE ~rules[was.day].overridden
      BY <1>1, <1>4, <3>1 DEF LookAgain
    <3>4. rules[was.day].open = was.target.open
      BY <1>2, <3>2, <3>3, RowFacts DEF OpeningFits, DayFits
    <3> QED BY <1>2, <2>3, <3>2, <3>4 DEF OpeningFits
  <2>5. ~was.undo => ClosingFits(new)
    <3>1. SUFFICES ASSUME ~was.undo PROVE ClosingFits(new)
      OBVIOUS
    <3>2. ClosingFits(was)
      BY <1>2, <3>1 DEF JobFits, OnCalendar
    <3>3. rules[was.day].open \cap blocks[was.block].slots = {}
      BY <1>1, <1>4, <3>1 DEF LookAgain
    <3> QED BY <1>2, <2>3, <3>2, <3>3 DEF ClosingFits
  <2>6. JobFits(new)
    BY <1>2, <2>3, <2>4, <2>5 DEF JobFits, OnCalendar
  <2>7. \A d : Opening(work[w], d) => Opening(new, d)
    BY <1>1, <2>3 DEF Opening
  <2>8. doubt' \subseteq Days /\ again' \subseteq Texts /\ command' \in Plans \cup {Nothing}
        /\ (command' # Nothing => NoneWaits)
    BY <1>2, RowFacts DEF BlocksInv
  <2> QED BY <1>2, <2>2, <2>3, <2>6, <2>7, <2>8, UsedTypes, JobStep
<1> QED BY <1>3, <1>4

\* An unblock is recorded: what was in force on the day no longer is.
LEMMA RecordOpens ==
  ASSUME BlocksInv, OneWorker, NEW w \in Workers, RecordChange(w), work[w].undo
  PROVE  BlocksInv'
<1>1. PICK job : job = work[w]
  OBVIOUS
<1>2. PICK d : d = job.day
  OBVIOUS
<1>3. PICK new \in Jobs : /\ work' = [work EXCEPT ![w] = new] /\ JobFits(new)
                          /\ (new = Idle \/ (new.stage = "day" /\ new.by = "tool" /\ job.by = "tool"))
  <2>1. work[w].stage \in OnCalendar /\ DayDone(w)
    BY DEF RecordChange, At, OnCalendar
  <2> QED BY <1>1, <2>1, DayDoneJob
<1>4. /\ job.stage = "record" /\ job.undo /\ JobFits(job) /\ d \in Days
      /\ UNCHANGED <<rules, command, again, today, used>>
  BY <1>1, <1>2, JobFacts DEF RecordChange, At
<1>5. OpeningFits(job)
  BY <1>4 DEF JobFits, OnCalendar
<1>6. /\ job.named = AppliedOn(d) /\ (d \notin doubt => rules[d].open = Slots)
  BY <1>2, <1>4, <1>5 DEF OpeningFits
<1>7. /\ booking' = booking
      /\ blocks' = [c \in DOMAIN blocks |-> IF c \in AppliedOn(d) THEN [blocks[c] EXCEPT !.state = "removed"]
                                            ELSE blocks[c]]
      /\ doubt' = IF \E c \in DOMAIN blocks : /\ blocks[c].day = d /\ blocks[c].state = "proposed"
                                              /\ blocks[c].previous # Nothing
                  THEN doubt \cup {d} ELSE doubt
  BY <1>1, <1>2, <1>4, <1>6 DEF RecordChange
<1>8. doubt \subseteq doubt' /\ doubt' \subseteq Days
  BY <1>4, <1>7, RowFacts
<1>9. DOMAIN blocks' = DOMAIN blocks /\ \A c \in DOMAIN blocks \ AppliedOn(d) : blocks'[c] = blocks[c]
  BY <1>7
<1>10. ASSUME NEW c \in AppliedOn(d)
       PROVE  /\ c \in DOMAIN blocks /\ blocks'[c] \in Blocks /\ blocks'[c].state = "removed"
              /\ blocks'[c].day = blocks[c].day /\ blocks'[c].slots = blocks[c].slots
              /\ blocks'[c].previous = blocks[c].previous /\ blocks'[c].reference = blocks[c].reference
  <2>1. c \in DOMAIN blocks
    BY DEF AppliedOn
  <2>2. PICK was : was = blocks[c]
    OBVIOUS
  <2>3. was \in Blocks
    BY <2>1, <2>2, RowFacts
  <2>4. blocks'[c] = [was EXCEPT !.state = "removed"]
    BY <1>7, <2>1, <2>2
  <2> QED BY <2>1, <2>2, <2>3, <2>4 DEF Blocks
<1>11. blocks' \in Seq(Blocks) /\ Len(blocks') = Len(blocks)
  <2>1. \A c \in DOMAIN blocks : blocks'[c] \in Blocks
    BY <1>9, <1>10, RowFacts
  <2>2. blocks' \in [1 .. Len(blocks) -> Blocks]
    BY <1>7, <1>9, <2>1, RowFacts
  <2> QED BY <2>2, RowFacts
<1>12. ASSUME NEW e \in Days \ {d}, NEW open, NEW but, Agree(e, open, but)
       PROVE  Agree(e, open, but)'
  <2>1. ASSUME NEW c \in DOMAIN blocks
        PROVE  /\ blocks'[c].slots = blocks[c].slots
               /\ InForce(c, e)' => InForce(c, e)
               /\ InForce(c, e) \/ Perhaps(c, e) => InForce(c, e)' \/ Perhaps(c, e)'
    <3>1. CASE c \in AppliedOn(d)
      BY <1>10, <3>1 DEF AppliedOn, InForce, Perhaps
    <3>2. CASE c \notin AppliedOn(d)
      BY <1>9, <3>2 DEF InForce, Perhaps
    <3> QED BY <3>1, <3>2
  <2> QED BY <1>9, <1>12, <2>1, AgreeSame
<1>13. ASSUME NEW c \in DOMAIN blocks' PROVE BlockFits(c)'
  <2>1. c \in DOMAIN blocks /\ BlockFits(c)
    BY <1>9, RowFacts
  <2>2. CASE c \in AppliedOn(d)
    BY <1>10, <2>1, <2>2 DEF BlockFits
  <2>3. CASE c \notin AppliedOn(d)
    <3>1. blocks'[c] = blocks[c]
      BY <1>9, <2>1, <2>3
    <3>2. ASSUME blocks[c].state = "proposed", blocks[c].previous # Nothing, blocks[c].day \notin doubt'
          PROVE  Agree(blocks[c].day, blocks[c].previous.open, c)'
      <4>1. blocks[c].day \in Days \ {d} /\ Agree(blocks[c].day, blocks[c].previous.open, c)
        BY <1>7, <1>8, <2>1, <3>2, RowFacts DEF BlockFits
      <4>2. PICK e : e = blocks[c].day
        OBVIOUS
      <4>3. PICK open : open = blocks[c].previous.open
        OBVIOUS
      <4>4. Agree(e, open, c)'
        BY <1>12, <4>1, <4>2, <4>3
      <4> QED BY <3>1, <4>2, <4>3, <4>4 DEF Agree, InForce, Perhaps
    <3> QED BY <1>11, <2>1, <3>1, <3>2 DEF BlockFits
  <2> QED BY <2>2, <2>3
<1>14. AppliedOn(d)' = {} /\ \A e \in Days \ {d} : AppliedOn(e)' = AppliedOn(e)
  <2>1. \A c \in DOMAIN blocks : blocks'[c].day = blocks[c].day
    BY <1>9, <1>10
  <2>2. \A c \in AppliedOn(d) : blocks'[c].state = "removed"
    BY <1>10
  <2> QED BY <1>9, <2>1, <2>2 DEF AppliedOn
<1>15. ASSUME NEW e \in Days PROVE OldestFits(e)'
  <2>1. CASE e = d
    BY <1>14, <2>1 DEF OldestFits
  <2>2. CASE e # d
    <3>1. \A c \in AppliedOn(e) : blocks'[c] = blocks[c]
      BY <1>9, <2>2 DEF AppliedOn
    <3> QED BY <1>8, <1>14, <2>2, <3>1, RowFacts DEF DayFits, OldestFits
  <2> QED BY <2>1, <2>2
<1>16. ASSUME NEW e \in Days \ doubt' PROVE Agree(e, rules[e].open, 0)'
  <2>1. CASE e = d
    <3>1. rules'[e].open = Slots
      BY <1>4, <1>6, <1>8, <2>1
    <3>2. \A c \in DOMAIN blocks' : ~InForce(c, e)'
      BY <1>14, <2>1 DEF InForce, AppliedOn
    <3> QED BY <3>1, <3>2 DEF Agree
  <2>2. CASE e # d
    <3>1. \A v \in Workers : ~Opening(work[v], e)
      BY <1>1, <1>2, <2>2 DEF Opening, OneWorker
    <3>2. PICK open : open = rules[e].open
      OBVIOUS
    <3>3. Agree(e, open, 0)
      BY <1>8, <3>1, <3>2, RowFacts DEF DayFits
    <3>4. Agree(e, open, 0)'
      BY <1>12, <2>2, <3>3
    <3> QED BY <1>4, <3>2, <3>4 DEF Agree
  <2> QED BY <2>1, <2>2
<1>17. \A e \in Days : ~rules'[e].overridden => rules'[e].open = Slots
  BY <1>4, RowFacts DEF DayFits
<1>18. NoneWaits => NoneWaits'
  <2>1. \A c \in DOMAIN blocks : blocks'[c].state \in {blocks[c].state, "removed"}
    BY <1>9, <1>10
  <2> QED BY <1>9, <2>1 DEF NoneWaits
<1>19. JobFits(new)'
  BY <1>3, <1>4, <1>18, IdleFitsNext DEF JobFits, OnCalendar
<1>20. BlocksTypeOK'
  BY <1>3, <1>4, <1>7, <1>8, <1>11, RowFacts, UsedTypes, NextTypes
<1>21. (command # Nothing => NoneWaits)'
  BY <1>4, <1>18 DEF BlocksInv
<1> QED BY <1>3, <1>13, <1>15, <1>16, <1>17, <1>19, <1>20, <1>21, JobFacts, Step

\* A block is recorded: it is in force, and its slots are closed.
LEMMA RecordCloses ==
  ASSUME BlocksInv, OneWorker, NEW w \in Workers, RecordChange(w), ~work[w].undo
  PROVE  BlocksInv'
<1>1. PICK job : job = work[w]
  OBVIOUS
<1>2. PICK d : d = job.day
  OBVIOUS
<1>3. PICK b : b = job.block
  OBVIOUS
<1>4. PICK was : was = blocks[b]
  OBVIOUS
<1>5. PICK row : row = [was EXCEPT !.state = "applied", !.sure = TRUE]
  OBVIOUS
<1>6. PICK new \in Jobs : /\ work' = [work EXCEPT ![w] = new] /\ JobFits(new)
                          /\ (new = Idle \/ (new.stage = "day" /\ new.by = "tool" /\ job.by = "tool"))
  <2>1. work[w].stage \in OnCalendar /\ DayDone(w)
    BY DEF RecordChange, At, OnCalendar
  <2> QED BY <1>1, <2>1, DayDoneJob
<1>7. /\ job.stage = "record" /\ ~job.undo /\ JobFits(job) /\ d \in Days /\ job.by \in {"text", "tool"}
      /\ job.by = "tool" => NoneWaits
      /\ UNCHANGED <<rules, command, again, today, doubt, used>> /\ booking' \in {booking, "declined"}
  <2>1. job.stage = "record" /\ ~job.undo /\ JobFits(job) /\ d \in Days /\ job.by \in {"text", "tool"}
    BY <1>1, <1>2, JobFacts DEF RecordChange, At
  <2>2. UNCHANGED <<rules, command, again, today, doubt, used>> /\ booking' \in {booking, "declined"}
    BY <1>1, <2>1 DEF RecordChange
  <2> QED BY <2>1, <2>2 DEF JobFits
<1>8. ClosingFits(job)
  BY <1>7 DEF JobFits, OnCalendar
<1>9. /\ b \in DOMAIN blocks /\ b = Len(blocks) /\ was.day = d /\ was.previous # Nothing
      /\ rules[d].open \cap was.slots = {}
      /\ (job.by = "text" => was.state = "proposed") /\ (job.by = "tool" => was.state = "applied")
  BY <1>2, <1>3, <1>4, <1>7, <1>8 DEF ClosingFits
<1>10. was \in Blocks /\ BlockFits(b)
  BY <1>4, <1>9, RowFacts
<1>11. /\ row \in Blocks /\ row.day = d /\ row.slots = was.slots /\ row.state = "applied" /\ row.sure
       /\ row.reference = was.reference /\ row.previous = was.previous
  BY <1>5, <1>9, <1>10 DEF Blocks
<1>12. blocks' = [blocks EXCEPT ![b] = row]
  BY <1>1, <1>3, <1>4, <1>5, <1>7, <1>9 DEF RecordChange
<1>13. /\ blocks' \in Seq(Blocks) /\ Len(blocks') = Len(blocks) /\ DOMAIN blocks' = DOMAIN blocks
       /\ blocks'[b] = row /\ \A c \in DOMAIN blocks \ {b} : blocks'[c] = blocks[c]
  BY <1>9, <1>11, <1>12, RowChanges
<1>14. \A c \in DOMAIN blocks \ {b} : BlockFits(c) /\ blocks[c].state # "proposed" /\ c < b /\ c \in Nat
  BY <1>9, RowFacts DEF BlockFits
<1>15. ASSUME NEW c \in DOMAIN blocks' PROVE BlockFits(c)'
  <2>1. CASE c = b
    <3>1. /\ ~was.previous.overridden => was.previous.open = Slots
          /\ was.reference => was.day = BookedDay /\ BookedSlot \in was.slots
      BY <1>4, <1>9, <1>10 DEF BlockFits
    <3>2. /\ blocks'[c].state = "applied" /\ blocks'[c].previous = was.previous
          /\ blocks'[c].reference = was.reference /\ blocks'[c].day = was.day
          /\ blocks'[c].slots = was.slots
      BY <1>9, <1>11, <1>13, <2>1
    <3> QED BY <1>9, <3>1, <3>2 DEF BlockFits
  <2>2. CASE c # b
    BY <1>13, <1>14, <2>2 DEF BlockFits
  <2> QED BY <2>1, <2>2
<1>16. ASSUME NEW e \in Days \ doubt
       PROVE  Agree(e, rules[e].open, 0)'
  <2>1. PICK open : open = rules[e].open
    OBVIOUS
  <2>2. Agree(e, open, 0)
    <3>1. \A v \in Workers : ~Opening(work[v], e)
      BY <1>1, <1>7 DEF Opening, OneWorker
    <3> QED BY <2>1, <3>1, RowFacts DEF DayFits
  <2>3. ASSUME NEW c \in DOMAIN blocks
        PROVE  /\ blocks'[c].slots = blocks[c].slots
               /\ InForce(c, e)' => (InForce(c, e) \/ (c = b /\ e = d))
               /\ InForce(c, e) \/ Perhaps(c, e) => InForce(c, e)' \/ Perhaps(c, e)'
    <3>1. CASE c = b
      BY <1>4, <1>9, <1>11, <1>13, <3>1 DEF InForce, Perhaps
    <3>2. CASE c # b
      BY <1>13, <3>2 DEF InForce, Perhaps
    <3> QED BY <3>1, <3>2
  <2>4. e = d => \A s \in open : s \notin blocks[b].slots
    BY <1>4, <1>9, <2>1
  <2>5. \A s \in open, c \in DOMAIN blocks' : InForce(c, e)' => s \notin blocks'[c].slots
    <3>1. \A c \in DOMAIN blocks : c # 0
      BY RowFacts
    <3> QED BY <1>13, <2>2, <2>3, <2>4, <3>1 DEF Agree
  <2>6. ASSUME NEW s \in Slots \ open
        PROVE  \E c \in DOMAIN blocks' : c # 0 /\ (InForce(c, e)' \/ Perhaps(c, e)') /\ s \in blocks'[c].slots
    <3>1. PICK c \in DOMAIN blocks : c # 0 /\ (InForce(c, e) \/ Perhaps(c, e)) /\ s \in blocks[c].slots
      BY <2>2, <2>6 DEF Agree
    <3> QED BY <1>13, <2>3, <3>1
  <2>7. rules'[e].open = open
    BY <1>7, <2>1
  <2> QED BY <2>5, <2>6, <2>7 DEF Agree
<1>17. (d \notin doubt /\ AppliedOn(d) = {}) => was.previous.open = Slots
  <2>1. SUFFICES ASSUME d \notin doubt, AppliedOn(d) = {} PROVE was.previous.open = Slots
    OBVIOUS
  <2>2. was.state = "proposed"
    BY <1>4, <1>7, <1>9, <2>1 DEF AppliedOn
  <2>3. Agree(d, was.previous.open, b)
    BY <1>4, <1>9, <1>10, <2>1, <2>2 DEF BlockFits
  <2>4. \A c \in DOMAIN blocks : c # b => ~InForce(c, d) /\ ~Perhaps(c, d)
    BY <1>14, <2>1 DEF InForce, Perhaps, AppliedOn
  <2>5. was.previous.open \subseteq Slots
    BY <1>4, <1>9, RowFacts DEF Hours
  <2> QED BY <2>3, <2>4, <2>5 DEF Agree
<1>18. ASSUME NEW e \in Days PROVE OldestFits(e)'
  <2>1. AppliedOn(e)' = IF e = d THEN AppliedOn(e) \cup {b} ELSE AppliedOn(e)
    <3>1. ASSUME NEW c \in DOMAIN blocks
          PROVE  (blocks'[c].day = e /\ blocks'[c].state = "applied")
                   <=> ((blocks[c].day = e /\ blocks[c].state = "applied") \/ (c = b /\ e = d))
      <4>1. CASE c = b
        BY <1>4, <1>9, <1>11, <1>13, <4>1
      <4>2. CASE c # b
        BY <1>13, <4>2
      <4> QED BY <4>1, <4>2
    <3> QED BY <1>9, <1>13, <3>1 DEF AppliedOn
  <2>2. \A c \in AppliedOn(e) : c <= b /\ blocks'[c].previous = blocks[c].previous
    BY <1>4, <1>9, <1>11, <1>13, RowFacts DEF AppliedOn
  <2>3. CASE AppliedOn(e) # {}
    <3>1. PICK c \in AppliedOn(e) : /\ \A o \in AppliedOn(e) : c <= o
                                    /\ e \notin doubt => blocks[c].previous.open = Slots
      BY <2>3, RowFacts DEF DayFits, OldestFits
    <3>2. c \in AppliedOn(e)' /\ \A o \in AppliedOn(e)' : c <= o
      BY <2>1, <2>2, <3>1
    <3> QED BY <1>7, <2>2, <3>1, <3>2 DEF OldestFits
  <2>4. CASE AppliedOn(e) = {} /\ e = d
    <3>1. AppliedOn(e)' = {b} /\ b <= b
      BY <1>9, <2>1, <2>4, RowFacts
    <3>2. e \notin doubt' => blocks'[b].previous.open = Slots
      BY <1>7, <1>11, <1>13, <1>17, <2>4
    <3> QED BY <3>1, <3>2 DEF OldestFits
  <2>5. CASE AppliedOn(e) = {} /\ e # d
    BY <2>1, <2>5 DEF OldestFits
  <2> QED BY <2>3, <2>4, <2>5
<1>19. \A e \in Days : ~rules'[e].overridden => rules'[e].open = Slots
  BY <1>7, RowFacts DEF DayFits
<1>20. NoneWaits'
  BY <1>11, <1>13, <1>14 DEF NoneWaits
<1>21. JobFits(new)'
  BY <1>6, <1>20, IdleFitsNext DEF JobFits, OnCalendar
<1>22. BlocksTypeOK'
  BY <1>6, <1>7, <1>13, RowFacts, UsedTypes, NextTypes
<1> QED BY <1>6, <1>7, <1>15, <1>16, <1>18, <1>19, <1>20, <1>21, <1>22, JobFacts, Step

-----------------------------------------------------------------------------
(***************************************************************************)
(* Everyone else, and the start.                                            *)
(***************************************************************************)

\* Steps of no worker: a proposal may lapse, and a row says no more than that.
LEMMA OutsideStep ==
  ASSUME BlocksInv, UNCHANGED <<rules, work, doubt>>, BlocksTypeOK', command' \in {command, Nothing},
         DOMAIN blocks' = DOMAIN blocks, Len(blocks') = Len(blocks),
         \A b \in DOMAIN blocks :
           /\ blocks'[b].day = blocks[b].day /\ blocks'[b].slots = blocks[b].slots
           /\ blocks'[b].state = blocks[b].state /\ blocks'[b].previous = blocks[b].previous
           /\ blocks'[b].reference = blocks[b].reference /\ blocks'[b].sure = blocks[b].sure
  PROVE  BlocksInv'
<1>1. ASSUME NEW d, NEW open, NEW but, Agree(d, open, but) PROVE Agree(d, open, but)'
  BY <1>1, AgreeSame DEF InForce, Perhaps
<1>2. NoneWaits => NoneWaits'
  BY DEF NoneWaits
<1>3. \A d : AppliedOn(d)' = AppliedOn(d)
  BY DEF AppliedOn
<1>4. ASSUME NEW b \in DOMAIN blocks' PROVE BlockFits(b)'
  <2>1. PICK d : d = blocks[b].day
    OBVIOUS
  <2>2. PICK open : open = blocks[b].previous.open
    OBVIOUS
  <2>3. BlockFits(b)
    BY RowFacts
  <2>4. (blocks[b].state = "proposed" /\ blocks[b].previous # Nothing /\ d \notin doubt) => Agree(d, open, b)'
    BY <1>1, <2>1, <2>2, <2>3 DEF BlockFits
  <2>5. Agree(d, open, b)' => Agree(blocks[b].day, blocks[b].previous.open, b)'
    BY <2>1, <2>2 DEF Agree, InForce, Perhaps
  <2> QED BY <2>1, <2>3, <2>4, <2>5 DEF BlockFits
<1>5. ASSUME NEW d \in Days PROVE DayFits(d)'
  <2>1. DayFits(d)
    BY RowFacts
  <2>2. OldestFits(d)'
    <3>1. \A b \in AppliedOn(d) : blocks'[b].previous = blocks[b].previous
      BY DEF AppliedOn
    <3> QED BY <1>3, <2>1, <3>1 DEF DayFits, OldestFits
  <2>3. PICK open : open = rules[d].open
    OBVIOUS
  <2>4. Agree(d, rules[d].open, 0) => Agree(d, rules[d].open, 0)'
    <3>1. Agree(d, open, 0) => Agree(d, open, 0)'
      BY <1>1
    <3> QED BY <2>3, <3>1 DEF Agree, InForce, Perhaps
  <2> QED BY <2>1, <2>2, <2>4 DEF DayFits, Opening
<1>6. ASSUME NEW w \in Workers PROVE JobFits(work[w])'
  <2>1. PICK job : job = work[w]
    OBVIOUS
  <2>2. JobFits(job)
    BY <2>1, JobFacts
  <2>3. OpeningFits(job) => OpeningFits(job)'
    <3>1. PICK open : open = rules[job.day].open
      OBVIOUS
    <3>2. Agree(job.day, rules[job.day].open, 0) => Agree(job.day, rules[job.day].open, 0)'
      <4>1. Agree(job.day, open, 0) => Agree(job.day, open, 0)'
        BY <1>1
      <4> QED BY <3>1, <4>1 DEF Agree, InForce, Perhaps
    <3> QED BY <1>3, <3>2 DEF OpeningFits
  <2>4. ClosingFits(job) => ClosingFits(job)'
    <3>1. SUFFICES ASSUME ClosingFits(job) PROVE ClosingFits(job)'
      OBVIOUS
    <3>2. PICK b : b = job.block
      OBVIOUS
    <3>3. PICK open : open = blocks[b].previous.open
      OBVIOUS
    <3>4. b \in DOMAIN blocks
      BY <3>1, <3>2 DEF ClosingFits
    <3>5. Agree(job.day, blocks[b].previous.open, b) => Agree(job.day, blocks[b].previous.open, b)'
      <4>1. Agree(job.day, open, b) => Agree(job.day, open, b)'
        BY <1>1
      <4> QED BY <3>3, <3>4, <4>1 DEF Agree, InForce, Perhaps
    <3> QED BY <3>1, <3>2, <3>4, <3>5 DEF ClosingFits
  <2>5. JobFits(job)'
    BY <1>2, <2>2, <2>3, <2>4 DEF JobFits
  <2> QED BY <2>1, <2>5 DEF JobFits, OpeningFits, ClosingFits
<1>7. (command # Nothing => NoneWaits)'
  BY <1>2 DEF BlocksInv
<1> QED BY <1>4, <1>5, <1>6, <1>7 DEF BlocksInv

LEMMA ApproveBookingKeeps == ASSUME BlocksInv, ApproveBooking PROVE BlocksInv'
<1>1. UNCHANGED <<rules, blocks, command, again, today, work, doubt>> /\ booking' = "approved"
      /\ used' \in [messages : 0..MaxMessages, faults : 0..MaxFaults]
  BY UsedTypes DEF ApproveBooking
<1>2. BlocksTypeOK'
  BY <1>1 DEF BlocksInv, BlocksTypeOK
<1> QED BY <1>1, <1>2, OutsideStep

LEMMA MidnightKeeps == ASSUME BlocksInv, Midnight PROVE BlocksInv'
<1>1. UNCHANGED <<rules, blocks, command, booking, again, work, doubt>>
      /\ used' \in [messages : 0..MaxMessages, faults : 0..MaxFaults]
  BY UsedTypes DEF Midnight
<1>2. today' \in Days
  BY RowFacts, CalendarBlocksAssumption DEF Midnight, Days
<1>3. BlocksTypeOK'
  BY <1>1, <1>2 DEF BlocksInv, BlocksTypeOK, Days
<1> QED BY <1>1, <1>3, OutsideStep

LEMMA LapseKeeps == ASSUME BlocksInv, Lapse PROVE BlocksInv'
<1>1. UNCHANGED <<rules, booking, again, today, work, doubt>>
      /\ used' \in [messages : 0..MaxMessages, faults : 0..MaxFaults]
  BY UsedTypes DEF Lapse
<1>2. CASE command # Nothing /\ command' = Nothing /\ UNCHANGED blocks
  <2>1. BlocksTypeOK'
    BY <1>1, <1>2 DEF BlocksInv, BlocksTypeOK
  <2> QED BY <1>1, <1>2, <2>1, OutsideStep
<1>3. CASE ~(command # Nothing /\ command' = Nothing /\ UNCHANGED blocks)
  <2>1. PICK b : b = LatestProposed
    OBVIOUS
  <2>2. b # 0 /\ blocks' = [blocks EXCEPT ![b].live = FALSE] /\ command' = command
    BY <1>3, <2>1 DEF Lapse
  <2>3. PICK was : was = blocks[b]
    OBVIOUS
  <2>4. PICK row : row = [was EXCEPT !.live = FALSE]
    OBVIOUS
  <2>5. b \in DOMAIN blocks /\ was \in Blocks
    BY <2>1, <2>2, <2>3, WaitingFacts, RowFacts
  <2>6. /\ row \in Blocks /\ row.day = was.day /\ row.slots = was.slots /\ row.previous = was.previous
        /\ row.reference = was.reference /\ row.sure = was.sure /\ row.state = was.state
    BY <2>4, <2>5 DEF Blocks
  <2>7. blocks' = [blocks EXCEPT ![b] = row]
    BY <2>2, <2>3, <2>4, <2>5
  <2>8. /\ blocks' \in Seq(Blocks) /\ Len(blocks') = Len(blocks) /\ DOMAIN blocks' = DOMAIN blocks
        /\ blocks'[b] = row /\ \A c \in DOMAIN blocks \ {b} : blocks'[c] = blocks[c]
    BY <2>5, <2>6, <2>7, RowChanges
  <2>9. BlocksTypeOK'
    BY <1>1, <2>2, <2>8 DEF BlocksInv, BlocksTypeOK
  <2>10. \A c \in DOMAIN blocks :
           /\ blocks'[c].day = blocks[c].day /\ blocks'[c].slots = blocks[c].slots
           /\ blocks'[c].state = blocks[c].state /\ blocks'[c].previous = blocks[c].previous
           /\ blocks'[c].reference = blocks[c].reference /\ blocks'[c].sure = blocks[c].sure
    BY <2>3, <2>6, <2>8
  <2> QED BY <1>1, <2>2, <2>8, <2>9, <2>10, OutsideStep
<1> QED BY <1>2, <1>3

\* The calendar starts with a block at most in force, and one at most that waits.
LEMMA InitBlocks == ASSUME BlocksInit PROVE BlocksInv
<1> DEFINE applied == InForceAlready
<1>1. PICK first \in {<<>>, <<applied>>} :
        /\ \/ blocks = first
           \/ \E d \in Days, slots \in Ranges :
                blocks = Append(first, NewBlock(d, slots, "proposed", Nothing, Answers(d, slots)))
        /\ rules = [d \in Days |-> IF first # <<>> /\ d = BookedDay
                                   THEN Without(Usual, {BookedSlot}) ELSE Usual]
  BY DEF BlocksInit
<1>2. PICK already \in BOOLEAN : already = (first # <<>>)
  OBVIOUS
<1>3. /\ applied \in Blocks /\ applied.day = BookedDay /\ applied.slots = {BookedSlot}
      /\ applied.state = "applied" /\ applied.previous = Usual /\ ~applied.reference /\ applied.sure
      /\ BookedDay \in Days /\ BookedSlot \in Slots
  BY JobTypes DEF InForceAlready, NewBlock, Blocks, BookedDay
<1> HIDE DEF applied
<1>5. /\ first \in Seq(Blocks) /\ Len(first) = (IF already THEN 1 ELSE 0)
      /\ DOMAIN first = (IF already THEN {1} ELSE {}) /\ (already => first[1] = applied)
  <2>1. CASE first = <<>>
    <3>1. first \in Seq(Blocks) /\ Len(first) = 0 /\ DOMAIN first = {}
      BY <2>1
    <3>2. ~already
      BY <1>2, <2>1
    <3> QED BY <3>1, <3>2
  <2>2. CASE first = <<applied>>
    <3>1. first # <<>> /\ first \in Seq(Blocks) /\ Len(first) = 1 /\ DOMAIN first = {1} /\ first[1] = applied
      BY <1>3, <2>2
    <3> QED BY <1>2, <3>1
  <2> QED BY <2>1, <2>2
<1>6. /\ blocks \in Seq(Blocks) /\ Len(first) <= Len(blocks) /\ Len(blocks) <= Len(first) + 1
      /\ DOMAIN blocks = 1 .. Len(blocks)
      /\ \A b \in DOMAIN first : b \in DOMAIN blocks /\ blocks[b] = first[b]
      /\ \A b \in DOMAIN blocks \ DOMAIN first :
           /\ b = Len(blocks) /\ blocks[b].state = "proposed" /\ blocks[b].previous = Nothing
           /\ blocks[b].reference => blocks[b].day = BookedDay /\ BookedSlot \in blocks[b].slots
  <2>0. Len(first) \in Nat /\ DOMAIN first = 1 .. Len(first) /\ first \in Seq(Blocks)
    <3>1. first \in Seq(Blocks)
      BY <1>5
    <3> QED BY <3>1
  <2>1. CASE blocks = first
    BY <2>0, <2>1
  <2>2. CASE blocks # first
    <3>1. PICK d \in Days, slots \in Ranges :
            blocks = Append(first, NewBlock(d, slots, "proposed", Nothing, Answers(d, slots)))
      BY <1>1, <2>2
    <3>2. PICK row : row = NewBlock(d, slots, "proposed", Nothing, Answers(d, slots))
      OBVIOUS
    <3>3. /\ row \in Blocks /\ row.state = "proposed" /\ row.previous = Nothing
          /\ row.reference => row.day = BookedDay /\ BookedSlot \in row.slots
      BY <3>2, CalendarBlocksAssumption DEF NewBlock, Blocks, Answers
    <3>4. blocks = Append(first, row)
      BY <3>1, <3>2
    <3>5. /\ blocks \in Seq(Blocks) /\ Len(blocks) = Len(first) + 1 /\ blocks[Len(first) + 1] = row
          /\ \A b \in 1 .. Len(first) : blocks[b] = first[b]
      BY <2>0, <3>3, <3>4
    <3>6. DOMAIN blocks = 1 .. Len(blocks)
      BY <3>5
    <3> QED BY <2>0, <3>3, <3>5, <3>6
  <2> QED BY <2>1, <2>2
<1>7. rules \in [Days -> Hours]
      /\ \A d \in Days : rules[d] = IF already /\ d = BookedDay THEN Without(Usual, {BookedSlot}) ELSE Usual
  BY <1>1, <1>2, <1>3, JobTypes DEF Without, Hours, Usual
<1>8. /\ command = Nothing /\ doubt = {} /\ again = {} /\ today = 1 /\ work \in [Workers -> Jobs]
      /\ \A w \in Workers : work[w] = Idle
  BY JobTypes DEF BlocksInit
<1>9. BlocksTypeOK
  <2>1. Len(blocks) <= MaxBlocks
    BY <1>5, <1>6, CalendarBlocksAssumption
  <2>2. today \in 1 .. MaxDays /\ used \in [messages : 0..MaxMessages, faults : 0..MaxFaults]
    BY CalendarBlocksAssumption DEF BlocksInit
  <2>3. booking \in {"none", "awaiting", "declined", "approved"}
    BY DEF BlocksInit
  <2> QED BY <1>6, <1>7, <1>8, <2>1, <2>2, <2>3 DEF BlocksTypeOK
<1>10. already => 1 \in DOMAIN blocks /\ blocks[1] = applied
  BY <1>5, <1>6
<1>11. \A b \in DOMAIN blocks : blocks[b].state # "proposed" => already /\ b = 1
  BY <1>5, <1>6
<1>12. \A b \in DOMAIN blocks : blocks[b].state = "proposed" => blocks[b].previous = Nothing /\ b = Len(blocks)
  BY <1>3, <1>5, <1>6
<1>13. ASSUME NEW b \in DOMAIN blocks PROVE BlockFits(b)
  <2>1. CASE b \in DOMAIN first
    <3>1. blocks[b] = applied /\ applied.previous.open = Slots /\ applied.previous # Nothing
      BY <1>3, <1>5, <1>6, <2>1, JobTypes
    <3> QED BY <1>3, <3>1 DEF BlockFits
  <2>2. CASE b \notin DOMAIN first
    BY <1>6, <2>2 DEF BlockFits
  <2> QED BY <2>1, <2>2
<1>14. ASSUME NEW d \in Days PROVE DayFits(d)
  <2>1. \A b \in DOMAIN blocks : InForce(b, d) <=> (already /\ b = 1 /\ d = BookedDay)
    BY <1>3, <1>10, <1>11 DEF InForce
  <2>2. rules[d].open = IF already /\ d = BookedDay THEN Slots \ {BookedSlot} ELSE Slots
    <3>1. CASE already /\ d = BookedDay
      BY <1>7, <3>1, JobTypes DEF Without
    <3>2. CASE ~(already /\ d = BookedDay)
      BY <1>7, <3>2, JobTypes
    <3> QED BY <3>1, <3>2
  <2>3. Agree(d, rules[d].open, 0)
    <3>1. \A s \in rules[d].open, b \in DOMAIN blocks : InForce(b, d) => s \notin blocks[b].slots
      BY <1>3, <1>10, <2>1, <2>2
    <3>2. ASSUME NEW s \in Slots \ rules[d].open
          PROVE  \E b \in DOMAIN blocks : b # 0 /\ (InForce(b, d) \/ Perhaps(b, d)) /\ s \in blocks[b].slots
      <4>1. already /\ d = BookedDay /\ s = BookedSlot
        BY <2>2, <3>2
      <4> QED BY <1>3, <1>10, <2>1, <4>1
    <3> QED BY <3>1, <3>2 DEF Agree
  <2>4. OldestFits(d)
    <3>1. SUFFICES ASSUME AppliedOn(d) # {} PROVE OldestFits(d)
      BY DEF OldestFits
    <3>2. PICK b \in DOMAIN blocks : blocks[b].day = d /\ blocks[b].state = "applied"
      BY <3>1 DEF AppliedOn
    <3>3. already /\ AppliedOn(d) = {1} /\ blocks[1] = applied /\ applied.previous.open = Slots
      BY <1>3, <1>10, <1>11, <3>2, JobTypes DEF AppliedOn
    <3> QED BY <3>3 DEF OldestFits
  <2>5. ~rules[d].overridden => rules[d].open = Slots
    BY <1>7, JobTypes DEF Without
  <2> QED BY <2>3, <2>4, <2>5 DEF DayFits
<1>15. \A w \in Workers : JobFits(work[w])
  BY <1>8, JobTypes DEF JobFits, OnCalendar
<1> QED BY <1>8, <1>9, <1>13, <1>14, <1>15 DEF BlocksInv

-----------------------------------------------------------------------------
(***************************************************************************)
(* What is proved.                                                          *)
(***************************************************************************)

LEMMA NextKeepsBlocks == ASSUME OneWorker, BlocksInv, BlocksNext PROVE BlocksInv'
<1>1. ASSUME NEW w \in Workers, Handle(w) PROVE BlocksInv'
  <2>1. CASE Propose(w) \/ Cancel(w) \/ Apply(w) \/ Unblock(w) \/ Answer(w)
    BY <2>1, ProposeKeeps, CancelKeeps, ApplyKeeps, UnblockKeeps, AnswerTextKeeps
  <2>2. CASE Ask(w) \/ ProposeChange(w) \/ Confirm(w) \/ DaysDone(w) \/ BlockDay(w) \/ UnblockDay(w)
    BY <2>2, AskKeeps, ProposeChangeKeeps, ConfirmKeeps, DaysDoneKeeps, BlockDayKeeps, UnblockDayKeeps
  <2>3. CASE ReadRules(w) \/ WriteRules(w) \/ WriteFails(w) \/ LookAgain(w) \/ LookFails(w) \/ ReadFails(w)
    BY <2>3, ReadRulesKeeps, WriteRulesKeeps, WriteFailsKeeps, LookAgainKeeps, LookFailsKeeps, ReadFailsKeeps
  <2>4. CASE RecordChange(w)
    BY <2>4, RecordOpens, RecordCloses
  <2> QED BY <1>1, <2>1, <2>2, <2>3, <2>4 DEF Handle
<1>2. ASSUME NEW w \in Workers, Take(w) \/ Crash(w) PROVE BlocksInv'
  BY <1>2, TakeKeeps, CrashKeeps
<1>3. CASE ApproveBooking \/ Lapse \/ Midnight
  BY <1>3, ApproveBookingKeeps, LapseKeeps, MidnightKeeps
<1> QED BY <1>1, <1>2, <1>3 DEF BlocksNext

LEMMA StutterKeepsBlocks == ASSUME BlocksInv, UNCHANGED blocksVars PROVE BlocksInv'
<1>1. BlocksTypeOK'
  BY DEF blocksVars, BlocksInv, BlocksTypeOK
<1> QED BY <1>1, OutsideStep DEF blocksVars

\* Whatever is lost or fails, the records of a day and the calendar fit each other, and
\* what the one worker is about to do fits both.
THEOREM BlocksInvariance == ASSUME OneWorker PROVE BlocksSpec => []BlocksInv
<1>1. BlocksInit => BlocksInv
  BY InitBlocks
<1>2. BlocksInv /\ [BlocksNext]_blocksVars => BlocksInv'
  BY NextKeepsBlocks, StutterKeepsBlocks
<1> QED BY <1>1, <1>2, PTL DEF BlocksSpec

\* The variables of the calendar blocks keep their types.
THEOREM BlocksTypeCorrect == ASSUME OneWorker PROVE BlocksSpec => []BlocksTypeOK
<1>1. BlocksInv => BlocksTypeOK
  BY DEF BlocksInv
<1> QED BY <1>1, BlocksInvariance, PTL

\* A day beyond doubt is closed exactly where a block is in force, and perhaps where one
\* waits or was not confirmed, unless the worker has just opened it.
THEOREM CalendarSaysTheRecords == ASSUME OneWorker PROVE BlocksSpec => []CalendarAgrees
<1>1. ASSUME BlocksInv PROVE CalendarAgrees
  <2> SUFFICES ASSUME NEW d \in Days \ doubt
               PROVE  LET sure == {b \in AppliedOn(d) : blocks[b].sure}
                          maybe == {b \in DOMAIN blocks : /\ blocks[b].day = d
                                      /\ \/ blocks[b].state = "applied" /\ ~blocks[b].sure
                                         \/ blocks[b].state = "proposed" /\ blocks[b].previous # Nothing}
                      IN
                      \/ \E w \in Workers : Opening(work[w], d)
                      \/ /\ rules[d].open \subseteq Slots \ SlotsOf(sure)
                         /\ Slots \ SlotsOf(sure \cup maybe) \subseteq rules[d].open
    BY DEF CalendarAgrees, Opening
  <2> DEFINE sure == {b \in AppliedOn(d) : blocks[b].sure}
             maybe == {b \in DOMAIN blocks : Perhaps(b, d)}
  <2>1. Agree(d, rules[d].open, 0) \/ \E w \in Workers : Opening(work[w], d)
    BY <1>1, RowFacts DEF DayFits
  <2>2. rules[d].open \subseteq Slots /\ \A b \in DOMAIN blocks : b # 0
    BY <1>1, RowFacts DEF Hours
  <2>3. \A b \in DOMAIN blocks : InForce(b, d) <=> b \in sure
    BY DEF InForce, AppliedOn
  <2>4. sure \subseteq DOMAIN blocks
    BY DEF AppliedOn
  <2>5. ASSUME Agree(d, rules[d].open, 0)
        PROVE  /\ rules[d].open \subseteq Slots \ SlotsOf(sure)
               /\ Slots \ SlotsOf(sure \cup maybe) \subseteq rules[d].open
    <3>1. ASSUME NEW s \in rules[d].open, NEW b \in sure PROVE s \notin blocks[b].slots
      BY <2>2, <2>3, <2>4, <2>5 DEF Agree
    <3>2. ASSUME NEW s \in Slots \ rules[d].open
          PROVE  \E b \in sure \cup maybe : s \in blocks[b].slots
      BY <2>3, <2>5 DEF Agree
    <3> QED BY <2>2, <3>1, <3>2 DEF SlotsOf
  <2> QED BY <2>1, <2>5 DEF Perhaps
<1> QED BY <1>1, BlocksInvariance, PTL

\* The handler declines the booking request it was answering only once the calendar has
\* its slot closed: the rows were read, written or looked at, and nobody opened it since.
THEOREM DeclinedCannotBeBooked == ASSUME OneWorker PROVE BlocksSpec => DeclinedIsClosed
<1>1. ASSUME BlocksInv, BlocksNext, booking = "awaiting", booking' = "declined"
      PROVE  BookedSlot \notin rules[BookedDay].open
  <2>1. PICK w \in Workers : RecordChange(w)
    BY <1>1 DEF BlocksNext, Handle, Take, Crash, ApproveBooking, Lapse, Midnight, Propose, Cancel, Apply,
                Unblock, Answer, Ask, ProposeChange, Confirm, DaysDone, BlockDay, UnblockDay, ReadRules,
                WriteRules, WriteFails, LookAgain, LookFails, ReadFails
  <2>2. PICK job : job = work[w]
    OBVIOUS
  <2>3. PICK b : b = job.block
    OBVIOUS
  <2>4. job.stage = "record" /\ ~job.undo /\ blocks[b].reference
    BY <1>1, <2>1, <2>2, <2>3 DEF RecordChange, At
  <2>5. ClosingFits(job)
    BY <1>1, <2>2, <2>4, JobFacts DEF JobFits, OnCalendar
  <2>6. b \in DOMAIN blocks /\ blocks[b].day = job.day /\ rules[job.day].open \cap blocks[b].slots = {}
    BY <2>3, <2>4, <2>5 DEF ClosingFits
  <2>7. blocks[b].day = BookedDay /\ BookedSlot \in blocks[b].slots
    BY <1>1, <2>4, <2>6, RowFacts DEF BlockFits
  <2> QED BY <2>6, <2>7
<1>2. BlocksInv /\ [BlocksNext]_blocksVars
        => [booking = "awaiting" /\ booking' = "declined" => BookedSlot \notin rules[BookedDay].open]_blocksVars
  BY <1>1
<1> QED BY <1>2, BlocksInvariance, PTL DEF BlocksSpec, DeclinedIsClosed
=============================================================================
