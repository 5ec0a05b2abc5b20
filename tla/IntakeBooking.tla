---------------------------- MODULE IntakeBooking ----------------------------
(***************************************************************************)
(* Customer intake: a customer chats, picks a time, the owner approves or   *)
(* declines it, a worker arranges the booking at the calendar provider, and *)
(* the provider's webhooks tell what landed on the calendar.                *)
(*   application/intake.py, domain/intake.py, domain/owner_actions.py,      *)
(*   infrastructure/intake_repositories.py, infrastructure/calendly.        *)
(*                                                                         *)
(* All conversations are those of one customer (one e-mail address).  Chat  *)
(* turns, decisions and webhooks hold the lock of the row and are one step. *)
(* ArrangeIntakeBookingService reads the row without the lock and saves all *)
(* of its columns without a version, so each of its transactions is two     *)
(* steps, and what another commits between them is overwritten.             *)
(***************************************************************************)
EXTENDS Naturals, Sequences, FiniteSets

CONSTANTS
  Conversations,
  Portal,        \* the conversations held in a verified portal session
  Slots,         \* times the business may offer
  Workers,       \* processes that run arrange commands
  MaxRequests,   \* bound: requests put to the owner
  MaxEvents,     \* bound: events on the calendar
  MaxFaults,     \* bound: arrange commands cut short or reclaimed while they run
  Nothing        \* no slot, no conversation, no result

ASSUME IntakeAssumption ==
  /\ Portal \subseteq Conversations
  /\ Nothing \notin Conversations \cup Slots
  /\ MaxRequests \in Nat /\ MaxEvents \in Nat /\ MaxFaults \in Nat

VARIABLES
  conv,      \* the rows of the conversations
  mails,     \* what the owner was asked: the request with stamp n is mails[n]
  decided,   \* the requests that were decided
  approved,  \* the slots the owner has approved
  events,    \* the calendar: event n is events[n]
  cancels,   \* events a cancel command names
  bookingLinks,     \* scheduling links a conversation was sent and has not used
  arranges,  \* arrange commands of a conversation that nobody runs now
  work,      \* the arrange command each worker runs
  faults     \* the consumed part of the bound

ownerVars == <<mails, decided, approved>>
calendarVars == <<events, cancels, bookingLinks>>
arrangeVars == <<arranges, work, faults>>
intakeVars == <<conv, ownerVars, calendarVars, arrangeVars>>

NoEvent == 0
\* "ready" is COLLECTING with all the answers that are needed to offer times.
States == {"collecting", "ready", "proposing", "awaiting", "approved", "declined", "closed"}
Kinds == {"none", "booked", "link"}

\* What a request for a slot has come to: the columns that SupersededBooking
\* takes along.
Bookings == [slot : Slots \cup {Nothing}, event : Nat, kind : Kinds, attempted : BOOLEAN]
NoBooking == [slot |-> Nothing, event |-> NoEvent, kind |-> "none", attempted |-> FALSE]
Requested(s) == [NoBooking EXCEPT !.slot = s]

Rows == [state : States, booking : Bookings, custody : Bookings,
         choosing : BOOLEAN, proposed : SUBSET Slots, stamp : Nat]
NewRow == [state |-> "collecting", booking |-> NoBooking, custody |-> NoBooking,
           choosing |-> FALSE, proposed |-> {}, stamp |-> 0]

Mails == [conv : Conversations, slot : Slots]
\* Webhooks tell of an event whose request it is only if it was booked by a
\* link; the stamp of the request is known to the model alone.
Events == [slot : Slots, for : Conversations, stamp : Nat, linked : BOOLEAN, active : BOOLEAN]
Stages == {"idle", "mark", "find", "book", "answered", "store"}
\* A worker has the row in memory from a read to the save that follows it, and
\* the slot it asks the provider for from the first read on.
Jobs == [stage : Stages, conv : Conversations \cup {Nothing}, slot : Slots \cup {Nothing},
         stamp : Nat, row : Rows, result : Kinds]
Idle == [stage |-> "idle", conv |-> Nothing, slot |-> Nothing, stamp |-> 0,
         row |-> NewRow, result |-> "none"]

IntakeTypeOK ==
  /\ conv \in [Conversations -> Rows]
  /\ \A c \in Conversations : conv[c].booking.event \in {NoEvent} \cup DOMAIN events
  /\ mails \in Seq(Mails)
  /\ decided \subseteq DOMAIN mails
  /\ approved \subseteq Slots
  /\ events \in Seq(Events)
  /\ cancels \subseteq Nat
  /\ bookingLinks \in [Conversations -> Nat]
  /\ arranges \in [Conversations -> Nat]
  /\ work \in [Workers -> Jobs]
  /\ faults \in Nat

IntakeInit ==
  /\ conv = [c \in Conversations |-> NewRow]
  /\ mails = <<>>
  /\ decided = {}
  /\ approved = {}
  /\ events = <<>>
  /\ cancels = {}
  /\ bookingLinks = [c \in Conversations |-> 0]
  /\ arranges = [c \in Conversations |-> 0]
  /\ work = [w \in Workers |-> Idle]
  /\ faults = 0

Live(row) == row.state \notin {"declined", "closed"}
HasLiveBooking(row) == row.state \in {"awaiting", "approved"}
IsChoosingNewTime(row) == row.choosing /\ HasLiveBooking(row)
Choosing(row) == row.state = "proposing" \/ IsChoosingNewTime(row)

\* A time that is still to be booked, whatever the owner says (mutant).
ArrangeableUndecided(row) == row.booking.slot # Nothing /\ row.booking.kind = "none"

Arrangeable(row) ==
  row.state = "approved" /\ row.booking.slot # Nothing /\ row.booking.kind = "none"

\* available_slots: nothing is on the calendar then.
Free == {s \in Slots : \A n \in DOMAIN events : events[n].slot = s => ~events[n].active}

\* pick_offer_slots: of the free times the next ones on business days.  All of
\* Slots are, and they are fewer than the code offers at once.
Offered == Free

\* _live_booking_holder finds nobody.
NobodyHolds == \A d \in Conversations : ~HasLiveBooking(conv[d])

\* The request that is put to the owner, by a notice and by an e-mail.
Asked(c, s) == [conv |-> c, slot |-> s]

\* The signed link of a request names its conversation ...
LinkedConversation(n) == mails[n].conv

\* ... and acts while the conversation has the stamp the request was made with.
StillThatRequest(n, row) == row.stamp = n

\* The commands that cancel events at the provider: one for each event,
\* however often it is asked for.
Cancelling(ns) == cancels \cup (ns \ {NoEvent})

\* The command that arranges an approved booking: one for each decision.
Arranging(c) == [arranges EXCEPT ![c] = @ + 1]

\* A conversation that acts on its own booking, or on another's from a
\* verified session of the same customer.
Verified(c, holder) == c = holder \/ c \in Portal

-----------------------------------------------------------------------------
(***************************************************************************)
(* The customer's turns.                                                    *)
(***************************************************************************)

\* IntakeCollected.merge: the answers fill blanks and overwrite nothing.  The
\* model tells only whether there are enough of them to offer times.
TellDetails(c) ==
  /\ conv[c].state = "collecting"
  /\ conv' = [conv EXCEPT ![c].state = "ready"]
  /\ UNCHANGED <<ownerVars, calendarVars, arrangeVars>>

\* _offer_slots: times for a first request.  Nobody else of this customer may
\* hold a booking.
OfferSlots(c) ==
  /\ conv[c].state = "ready"
  /\ NobodyHolds
  /\ Offered # {}
  /\ conv' = [conv EXCEPT ![c].state = "proposing", ![c].proposed = Offered]
  /\ UNCHANGED <<ownerVars, calendarVars, arrangeVars>>

\* _offer_reschedule of one's own booking: it stands while one chooses.
OfferReschedule(c) ==
  /\ HasLiveBooking(conv[c])
  /\ Offered # {}
  /\ conv' = [conv EXCEPT ![c].choosing = TRUE, ![c].proposed = Offered]
  /\ UNCHANGED <<ownerVars, calendarVars, arrangeVars>>

\* The row a booking moves to, and the row it leaves.
Adopted(row, theirs, offered) ==
  [row EXCEPT !.state = "approved",
              !.booking = theirs.booking,
              !.choosing = row.choosing \/ offered # {},
              !.proposed = IF offered = {} THEN row.proposed ELSE offered]

HandedOver(row) ==
  [row EXCEPT !.state = "closed",
              !.booking.event = NoEvent,
              !.custody = NoBooking,
              !.choosing = FALSE]

\* _offer_reschedule of a booking another conversation holds: _adopt_booking
\* moves it here, whether or not there are times to offer then.
AdoptBooking(c, holder) ==
  /\ c # holder /\ Verified(c, holder)
  /\ Live(conv[c]) /\ ~HasLiveBooking(conv[c])
  /\ conv[holder].state = "approved"
  /\ \E offered \in {{}, Offered} :
       conv' = [conv EXCEPT ![c] = Adopted(conv[c], conv[holder], offered),
                            ![holder] = HandedOver(conv[holder])]
  /\ UNCHANGED <<ownerVars, calendarVars, arrangeVars>>

\* The booking a new request replaces: an approved one, or the one that an
\* earlier request of the same kind replaces already.
Superseded(row) == IF row.state = "approved" THEN row.booking ELSE row.custody

\* _handle_slot_pick.  The request is stored with the notice to the owner or
\* not at all.
HandleSlotPick(c, s) ==
  /\ Live(conv[c]) /\ Choosing(conv[c])
  /\ s \in conv[c].proposed
  /\ ~(IsChoosingNewTime(conv[c]) /\ conv[c].booking.slot = s)
  /\ Len(mails) < MaxRequests
  /\ conv' = [conv EXCEPT ![c].state = "awaiting",
                          ![c].booking = Requested(s),
                          ![c].custody = Superseded(conv[c]),
                          ![c].choosing = FALSE,
                          ![c].stamp = Len(mails) + 1]
  /\ mails' = Append(mails, Asked(c, s))
  /\ UNCHANGED <<decided, approved, calendarVars, arrangeVars>>

\* _cancel_booking of application/intake.py: only the recorded event is
\* cancelled.
CustomerCancels(c, holder) ==
  /\ Verified(c, holder) /\ Live(conv[c])
  /\ c # holder => ~HasLiveBooking(conv[c])
  /\ HasLiveBooking(conv[holder])
  /\ conv' = [conv EXCEPT ![holder].state = "closed"]
  /\ cancels' = Cancelling({conv[holder].booking.event})
  /\ UNCHANGED <<ownerVars, events, bookingLinks, arrangeVars>>

\* _refer_booking_change: a chat that only typed the e-mail of a booking asks to
\* cancel or move it.  The owner hears of it and nothing changes.
UnverifiedChange(c, holder) ==
  /\ ~Verified(c, holder) /\ Live(conv[c])
  /\ ~HasLiveBooking(conv[c]) /\ HasLiveBooking(conv[holder])
  /\ UNCHANGED intakeVars

\* post_message beyond the limit of messages.
ReachMessageLimit(c) ==
  /\ Live(conv[c])
  /\ conv' = [conv EXCEPT ![c].state = "closed"]
  /\ UNCHANGED <<ownerVars, calendarVars, arrangeVars>>

-----------------------------------------------------------------------------
(***************************************************************************)
(* The owner's decisions: decide_booking, for the channel, the dashboard    *)
(* and the links.                                                           *)
(***************************************************************************)

Approve(c) ==
  /\ conv[c].state = "awaiting"
  /\ conv' = [conv EXCEPT ![c].state = "approved",
                          ![c].custody = NoBooking,
                          ![c].choosing = FALSE]
  /\ approved' = approved \cup {conv[c].booking.slot}
  /\ cancels' = Cancelling({conv[c].custody.event})
  /\ arranges' = Arranging(c)
  /\ UNCHANGED <<mails, events, bookingLinks, work, faults>>

\* The booking that waited is in force again.
PutBack(row) ==
  [row EXCEPT !.state = "approved", !.booking = row.custody,
              !.custody = NoBooking, !.choosing = FALSE]

\* _decline_booking, and _decline_reschedule when an earlier booking waits.
Decline(c) ==
  /\ conv[c].state = "awaiting"
  /\ IF conv[c].custody.slot = Nothing
     THEN /\ conv' = [conv EXCEPT ![c].state = "declined"]
          /\ cancels' = Cancelling({conv[c].booking.event})
     ELSE /\ conv' = [conv EXCEPT ![c] = PutBack(@)]
          /\ UNCHANGED cancels
  /\ UNCHANGED <<mails, approved, events, bookingLinks, arrangeVars>>

Decide(c) ==
  /\ Approve(c) \/ Decline(c)
  /\ decided' = decided \cup {conv[c].stamp}

\* IntakeDecisionLinkService.decide: the link of request n acts on that
\* request only.
DecideByLink(n) ==
  LET c == LinkedConversation(n) IN
  /\ StillThatRequest(n, conv[c])
  /\ Decide(c)

\* _cancel_booking of domain/owner_actions.py.
OwnerCancels(c) ==
  /\ HasLiveBooking(conv[c])
  /\ conv' = [conv EXCEPT ![c].state = "closed",
                          ![c].custody = NoBooking,
                          ![c].choosing = FALSE]
  /\ cancels' = Cancelling({conv[c].booking.event, conv[c].custody.event})
  /\ UNCHANGED <<ownerVars, events, bookingLinks, arrangeVars>>

\* BookingDecisionHandler: what the owner texts.
OwnerDecides(c) == Decide(c) \/ OwnerCancels(c)

-----------------------------------------------------------------------------
(***************************************************************************)
(* ArrangeIntakeBookingService.arrange.                                     *)
(***************************************************************************)

\* An earlier attempt may have booked it: the provider is asked first.
MayBeBooked(row) == row.booking.attempted \/ row.booking.event # NoEvent

\* The first transaction reads the row, without a lock.
ArrangeRead(w, c) ==
  /\ work[w].stage = "idle"
  /\ arranges[c] > 0
  /\ arranges' = [arranges EXCEPT ![c] = @ - 1]
  /\ work' = [work EXCEPT ![w] =
       IF ~Arrangeable(conv[c]) THEN Idle
       ELSE LET job == [Idle EXCEPT !.conv = c, !.slot = conv[c].booking.slot,
                                    !.stamp = conv[c].stamp] IN
            IF MayBeBooked(conv[c])
            THEN [job EXCEPT !.stage = "find"]
            ELSE [job EXCEPT !.stage = "mark", !.row = conv[c]]]
  /\ UNCHANGED <<conv, ownerVars, calendarVars, faults>>

\* The row the marker is saved in is the one that was read: nothing is
\* marked (mutant).
Unmarked(row) == row

Marked(row) == [row EXCEPT !.booking.attempted = TRUE]

\* ... and saves it with the marker, before the provider is called.
ArrangeMark(w) ==
  /\ work[w].stage = "mark"
  /\ conv' = [conv EXCEPT ![work[w].conv] = Marked(work[w].row)]
  /\ work' = [work EXCEPT ![w].stage = "book", ![w].row = NewRow]
  /\ UNCHANGED <<ownerVars, calendarVars, arranges, faults>>

\* find_booking: an active event of the customer at the slot.
Answered(w, result) == [work EXCEPT ![w].stage = "answered", ![w].result = result]

ArrangeFind(w) ==
  /\ work[w].stage = "find"
  /\ work' = IF work[w].slot \notin Free
             THEN Answered(w, "booked")
             ELSE [work EXCEPT ![w].stage = "book"]
  /\ UNCHANGED <<conv, ownerVars, calendarVars, arranges, faults>>

\* _create_invitee: the event as it is on the calendar.
Invitee(job) ==
  [slot |-> job.slot, for |-> job.conv, stamp |-> job.stamp,
   linked |-> FALSE, active |-> TRUE]

\* book: directly, or, when the provider refuses, by a link to be sent.  It
\* must refuse a slot that is taken, and may refuse any.
ArrangeBook(w) ==
  LET s == work[w].slot IN
  /\ work[w].stage = "book"
  /\ \/ /\ s \in Free
        /\ Len(events) < MaxEvents
        /\ events' = Append(events, Invitee(work[w]))
        /\ work' = Answered(w, "booked")
     \/ /\ work' = Answered(w, "link")
        /\ UNCHANGED events
  /\ UNCHANGED <<conv, ownerVars, cancels, bookingLinks, arranges, faults>>

RowOf(job) == conv[job.conv]

\* The second transaction reads the row again, again without a lock.
ArrangeReload(w) ==
  LET row == RowOf(work[w]) IN
  /\ work[w].stage = "answered"
  /\ work' = [work EXCEPT ![w] =
       IF Arrangeable(row) THEN [@ EXCEPT !.stage = "store", !.row = row] ELSE Idle]
  /\ UNCHANGED <<conv, ownerVars, calendarVars, arranges, faults>>

\* The e-mail to the customer with a link to book by, if there is one.
LinkSent(c, result) == [bookingLinks EXCEPT ![c] = IF result = "link" THEN @ + 1 ELSE @]

\* ... and saves it with the result, and the message to the customer.
ArrangeStore(w) ==
  LET c == work[w].conv IN
  /\ work[w].stage = "store"
  /\ conv' = [conv EXCEPT ![c] = [work[w].row EXCEPT !.booking.kind = work[w].result]]
  /\ bookingLinks' = LinkSent(c, work[w].result)
  /\ work' = [work EXCEPT ![w] = Idle]
  /\ UNCHANGED <<ownerVars, events, cancels, arranges, faults>>

\* The provider fails or the process dies: the command is tried again.
ArrangeFails(w) ==
  /\ work[w].stage # "idle"
  /\ faults < MaxFaults
  /\ arranges' = [arranges EXCEPT ![work[w].conv] = @ + 1]
  /\ work' = [work EXCEPT ![w] = Idle]
  /\ faults' = faults + 1
  /\ UNCHANGED <<conv, ownerVars, calendarVars>>

\* The lease of the command ends while it runs: another worker may take it.
Reclaim(w) ==
  /\ work[w].stage # "idle"
  /\ faults < MaxFaults
  /\ arranges' = [arranges EXCEPT ![work[w].conv] = @ + 1]
  /\ faults' = faults + 1
  /\ UNCHANGED <<conv, ownerVars, calendarVars, work>>

-----------------------------------------------------------------------------
(***************************************************************************)
(* The provider: events that are made and cancelled there, and its          *)
(* webhooks, which come late, repeatedly and in any order.                   *)
(***************************************************************************)

\* The customer uses a link, at any time that is free.
BookByLink(c, s) ==
  /\ bookingLinks[c] > 0
  /\ s \in Free
  /\ Len(events) < MaxEvents
  /\ events' = Append(events, [slot |-> s, for |-> c, stamp |-> conv[c].stamp,
                              linked |-> TRUE, active |-> TRUE])
  /\ bookingLinks' = [bookingLinks EXCEPT ![c] = @ - 1]
  /\ UNCHANGED <<conv, ownerVars, cancels, arrangeVars>>

\* Somebody cancels an event at the provider, or a cancel command does.
EventCancelled(n) ==
  /\ events[n].active
  /\ events' = [events EXCEPT ![n].active = FALSE]
  /\ UNCHANGED <<conv, ownerVars, cancels, bookingLinks, arrangeVars>>

\* The conversation of the reference a link carries ...
ByReference(n, c) == events[n].linked /\ events[n].for = c

\* ... else a live one of the customer.  (The latest is taken, if type and day
\* agree; which one that is is left open, and so is whether there is one.)
ByEmail(n, c) == ~events[n].linked /\ HasLiveBooking(conv[c])

Matches(n, c) == ByReference(n, c) \/ ByEmail(n, c)

\* A booked time that was not the requested one keeps the stamp of the request
\* it replaces (mutant).
RerouteOnOldStamp(row, n) ==
  [row EXCEPT !.state = "awaiting",
              !.booking = [@ EXCEPT !.slot = events[n].slot, !.event = n, !.kind = "none"],
              !.choosing = FALSE]

\* _created at another time than the requested one: a new request.
Rerouted(row, n) ==
  [row EXCEPT !.state = "awaiting",
              !.booking = [@ EXCEPT !.slot = events[n].slot, !.event = n, !.kind = "none"],
              !.choosing = FALSE,
              !.stamp = Len(mails) + 1]

\* A webhook tells of an event that is new to the conversation.
HookCreated(n, c) ==
  /\ Matches(n, c)
  /\ conv[c].booking.event = NoEvent
  /\ conv[c].custody.event # n
  /\ IF events[n].slot = conv[c].booking.slot
     THEN /\ conv' = [conv EXCEPT ![c].booking.event = n,
                                  ![c].booking.kind = "booked",
                                  ![c].choosing = FALSE]
          /\ UNCHANGED mails
     ELSE /\ Len(mails) < MaxRequests
          /\ conv' = [conv EXCEPT ![c] = Rerouted(@, n)]
          /\ mails' = Append(mails, Asked(c, events[n].slot))
  /\ UNCHANGED <<decided, approved, calendarVars, arrangeVars>>

\* A webhook tells that the recorded event is gone: the booking it was to
\* replace is in force again, or the request is closed.
HookCancelled(n, c) ==
  /\ ~events[n].active
  /\ Matches(n, c)
  /\ conv[c].booking.event = n
  /\ conv' = [conv EXCEPT ![c] =
       IF @.custody.event # NoEvent
       THEN [@ EXCEPT !.state = "approved", !.booking = conv[c].custody, !.custody = NoBooking]
       ELSE [@ EXCEPT !.state = "closed"]]
  /\ UNCHANGED <<ownerVars, calendarVars, arrangeVars>>

\* The booking is dropped with its event (mutant).
CustodyDropped(row) == [row EXCEPT !.custody = NoBooking]

\* Its time is kept: the owner still decides whether it stands.
CustodyWithoutEvent(row) == [row EXCEPT !.custody.event = NoEvent]

\* A webhook tells that the event a new request would replace is gone.
HookSupersededCancelled(n, c) ==
  /\ ~events[n].active
  /\ Matches(n, c)
  /\ conv[c].booking.event # n
  /\ conv[c].custody.event = n
  /\ conv' = [conv EXCEPT ![c] = CustodyWithoutEvent(@)]
  /\ UNCHANGED <<ownerVars, calendarVars, arrangeVars>>

-----------------------------------------------------------------------------
CustomerTurn(c) ==
  \/ TellDetails(c)
  \/ OfferSlots(c)
  \/ OfferReschedule(c)
  \/ \E s \in Slots : HandleSlotPick(c, s)
  \/ \E holder \in Conversations :
       \/ AdoptBooking(c, holder) \/ CustomerCancels(c, holder)
       \/ UnverifiedChange(c, holder)
  \/ ReachMessageLimit(c)

Arrange(w) ==
  \/ \E c \in Conversations : ArrangeRead(w, c)
  \/ ArrangeMark(w) \/ ArrangeFind(w) \/ ArrangeBook(w)
  \/ ArrangeReload(w) \/ ArrangeStore(w)
  \/ ArrangeFails(w) \/ Reclaim(w)

Hook(n, c) ==
  HookCreated(n, c) \/ HookCancelled(n, c) \/ HookSupersededCancelled(n, c)

IntakeNext ==
  \/ \E c \in Conversations :
       \/ CustomerTurn(c) \/ OwnerDecides(c)
       \/ \E s \in Slots : BookByLink(c, s)
  \/ \E n \in DOMAIN mails : DecideByLink(n)
  \/ \E w \in Workers : Arrange(w)
  \/ \E n \in DOMAIN events :
       EventCancelled(n) \/ \E c \in Conversations : Hook(n, c)

IntakeSpec == IntakeInit /\ [][IntakeNext]_intakeVars

-----------------------------------------------------------------------------
(***************************************************************************)
(* Properties.                                                             *)
(***************************************************************************)

\* A link in the owner's mail decides the time the mail named, and no request
\* that was decided before: no turn, webhook or late save puts another time
\* under its stamp or a decided request back.
LinkDecidesWhatItSaid ==
  [][\A n \in DOMAIN mails :
       DecideByLink(n) => /\ mails[n].slot = conv[mails[n].conv].booking.slot
                          /\ n \notin decided]_intakeVars

\* What the application itself puts on the calendar, the owner approved,
\* however old the row that the worker works on.
BookedWasApproved ==
  \A n \in DOMAIN events : ~events[n].linked => events[n].slot \in approved

\* A booking that a new request is to replace is not lost while the owner has
\* not decided, whatever else the customer picks or books.
CustodyLastsUntilDecision ==
  [][\A c \in Conversations :
       (/\ conv[c].state = "awaiting" /\ conv'[c].state = "awaiting"
        /\ conv[c].custody.slot # Nothing)
       => conv'[c].custody.slot = conv[c].custody.slot]_intakeVars

\* arrange is safe to retry: the customer of a request that an earlier attempt
\* has booked is not sent a link to book once more.
RetryBooksOnce ==
  [][\A c \in Conversations :
       bookingLinks'[c] > bookingLinks[c] =>
         \A n \in DOMAIN events :
           (events[n].for = c /\ events[n].active /\ ~events[n].linked)
           => events[n].stamp # conv'[c].stamp]_intakeVars
=============================================================================
