# A TLA+ model of GVAS

GVAS (`src/src/gvas`) is a Python modular monolith for small trades businesses:
owners write to it over Slack or SMS, ask for quotes and dictate field notes;
customers book over the web, look at quotes and pay. It runs as a web service
and any number of outbox workers over one PostgreSQL database. This directory
holds TLA+ modules of its core, the TLC configurations that check them on small
instances, and proofs for TLAPS. Paths below are relative to `src/src/gvas`
unless they start with `docs/` or `tests/`, which are in `src/`.

## 1. Inventory

What everything has in common: a *unit of work* is one database transaction;
provider and AI calls happen outside of transactions; whatever must happen later
is a row in the `outbox_messages` table written by the same transaction as its
cause. Concurrency is between transactions: web requests, several workers, and
workers that were given up for dead but are not. There is no in-process locking
to speak of; exclusion is by leases with a fence, by version columns, by
conditional `UPDATE`s and by unique indexes.

| Component | State | Operations | Hard behaviour | What makes it correct |
| --- | --- | --- | --- | --- |
| Outbox (`application/outbox_service.py`, `SqlOutboxRepository`) | rows with status, attempts, `locked_by`, `locked_at`, `available_at` | enqueue, claim_batch, mark_succeeded, mark_failed | reclaim of a live worker's row, retries, dead letters | the newest claim is held once; older claimants write nothing; every command settles once |
| Worker (`composition/dispatcher.py`, `interfaces/worker.py`) | the batch in memory | run_once, loop, failure notices | crash or lost lease in mid-batch; slow handlers | no row is left behind; one notice per dead command |
| Ingestion and processing (`application/ingestion.py`, `processing.py`, `SqlWorkflowRunRepository`) | messages, workflow runs with a lease token, replies | ingest, process | the handler runs twice, side by side; results are stored late | replies of one run only; done means a result is stored |
| Reply delivery (`application/owner_reply_delivery.py`, `infrastructure/slack`, `telnyx`, `delivery_ledger.py`) | outbound rows, ledger of receipts | deliver | lost answers, crash between post and receipt | repeats only where no receipt could be had |
| Intent resolution (`composition/intents.py`) | none of its own | resolve | reads quote and field-note state another message is changing | a message reaches the workflow it is meant for |
| Quote workflow (`application/quotes.py`, `domain/quotes.py`) | quotes with a version | handle, deliver, text | replays, redrafts racing an approval, delivery racing the customer | the customer gets the approved draft, and gets it |
| Hosted quotes and checkout (`application/public_quotes.py`, `infrastructure/payment_repositories.py`, `stripe`) | customer status, checkout sessions, ledger, event ids | view, accept, decline, payment events | a provider call between two transactions; webhooks in any order, repeated | the status agrees with the ledger; nothing to pay on a dead quote |
| Manual payments (`application/owner.py`, `manual_payments.py`) | the same rows | mark_paid, mark_unpaid, plan payments | a check racing a card | both are kept, one counts |
| Subscriptions and plan payments (`public_quotes.py`, `owner.py`, `payment_repositories.py`) | subscriptions, plan payments, reminders | payments by hand, undoing, lifecycle events, nudges | read ledger, write total; events out of order; a card plan beside a manual one | what a plan is paid through is what its ledger adds up to |
| Invoices (`composition/owner_invoice_tools.py`, `domain/payments.py`) | invoices on quotes | make, send, replace, void, mark paid | they change between read-back and yes | nobody pays a voided one; sent once, as read back |
| Quote drafting (`infrastructure/quote_drafting.py`, `domain/quotes.py`) | none | read a structured or a free-text request | a model's reading is checked against the owner's words | no price the owner did not write |
| Intake and booking (`application/intake.py`, `domain/intake.py`, `infrastructure/calendly`) | conversations in a state machine, slots, decision links | pick, reschedule, cancel, decide, arrange, provider events | a provider call with an attempt marker; writers under a row lock and without | nothing is booked that was not approved; one event per approval |
| Field notes, transcription, review, reports (`application/field_*.py`, `completeness.py`, `report_*.py`, `composition/review.py`, `report_publication.py`) | cases, parts, leases, review rounds, report versions | intake, transcribe, coordinate, generate, approve, publish | leased provider calls, two-transaction hand-overs | a report leaves no open item; a published version was approved |
| Plan custody (`application/plan_custody.py`, `infrastructure/plan_repositories.py`) | uploads with a lease, versions, objects | register, copy | leased copy, same content twice | a version has its object, and one number |
| Customers, portal, owner sign-in (`portal.py`, `owner.py`, `infrastructure/customer_repositories.py`) | customers, login links, sessions, consent | upsert, link quotes, sign in, edit, answer about texts | reads before locks; edits racing sign-ins | a quote and a session belong to whoever reads the mail |
| Owner assistant (`owner_assistant.py`, `composition/owner_change_tools.py`) | one pending change per business | propose, confirm, cancel, follow up | replays, a yes handled twice, a stale read-back | one change after one yes |
| Calendar blocks (`calendar_blocks.py`) | blocks and opened hours | block, yes, no, unblock | writes to a provider whose answers are lost | the calendar is closed where the blocks say so |
| Usage ceilings (`domain/usage.py`) | counters | record, is_reached | check before, count after | only calls in flight pass the ceiling |

Interactions: ingress stores a message and enqueues `owner_message.process`; a
worker claims it and calls processing, which resolves the intent, calls a
workflow handler and stores its replies with one `owner_reply.deliver` command
each. An approved quote enqueues `quote.deliver`; that delivery gives the
customer a link to the hosted quote; the hosted quote opens a checkout at the
provider, whose webhooks settle it; closing a checkout is a command again. The
list of hazards, with the line where each bites, is in `PROJECT.json`.

## 2. Modules

| Module | Models | Composes |
| --- | --- | --- |
| `AtLeastOnceQueue` | what callers rely on when they enqueue a command | |
| `Outbox` | outbox table, workers, crashes, time; refines `AtLeastOnceQueue` | |
| `MessageProcessing` | ingestion and `process()` step by step inside a dispatch | `Outbox` |
| `ReplyDelivery` | delivery service, adapters and their ledger inside a dispatch | `Outbox` |
| `OutboxProofs` | TLAPS proofs about these three | `MessageProcessing`, `ReplyDelivery` |
| `QuoteDrafting` | what a request is read as, and why one is refused (no state) | |
| `QuoteWorkflow` | quote handler, delivery and text, over an outbox that promises no more than the abstract queue | `AtLeastOnceQueue`, `QuoteDrafting` |
| `QuoteWorkflowProofs` | TLAPS proofs about it | `QuoteWorkflow` |
| `Checkout` | customer, owner and provider on one delivered one-off quote | |
| `CheckoutCalendarProofs` | TLAPS proofs about it and about `CalendarBlocks` | `Checkout`, `CalendarBlocks` |
| `Plans` | manual and card plans on one quote, payments, undoing, reminders | |
| `PlansProofs` | TLAPS proofs about it | `Plans` |
| `IntakeBooking` | chats of one customer, the owner's decisions, arranging, webhooks | |
| `LeasedCall` | what a leased provider call promises | |
| `FieldNotes` | one case from note to published report; transcription refines `LeasedCall` | `LeasedCall` |
| `FieldNotesProofs` | TLAPS proofs about it | `FieldNotes` |
| `PlanCustody` | drawings from the thread into versions; copying refines `LeasedCall` | `AtLeastOnceQueue`, `LeasedCall` |
| `PlanCustodyProofs` | TLAPS proofs about it | `PlanCustody` |
| `Confirmation` | what the owner is promised about a change put to them | |
| `OwnerCommands` | the assistant's pending change over invoices; refines `Confirmation` | `Confirmation` |
| `OwnerCommandsProofs` | TLAPS proofs about it | `OwnerCommands` |
| `CalendarBlocks` | blocks by text against a calendar provider | |
| `Customers` | customer records, sign-in, linked quotes, consent | |
| `CustomersProofs` | TLAPS proofs about it and about `IntakeBooking` | `Customers`, `IntakeBooking` |
| `MC...` | the constants of TLC's instances | |

**State and steps.** A database row is a function from its key to its columns; a
step is a transaction, or a call out of the process, or what a process does in
memory between two of them where that matters. A transaction that reads
something, and later in the same transaction writes on the strength of it, is
split where read-committed isolation lets another commit come between
(`Checkout`); where the row is locked or the write is one conditional `UPDATE`
it is a single step (`Outbox`, `MessageProcessing`).

**Outbox.** `ClaimBatch` is `claim_batch`: any nonempty subset of the rows that
are due or stale, because other transactions' locked rows are skipped. The
generation of a claim is `attempts`; `Fenced` is the `WHERE` of `update()`.
`LoseLease` is `LostOutboxLeaseError`: neither `run_once` nor `run_worker`
catches it, so the process ends and its rows wait for their leases. `Notify`
follows `mark_failed` in another transaction. Time is what remains of a delay or
a lease; the code compares instants with the present one and nothing else.

**MessageProcessing.** The dispatch of a process command is refined into the
transactions of `process()`; a message is identified with its command, a reply
with its delivery command. The lease token (a fresh UUID per claim) is a number.
Ticks count down the leases of rows and runs together, in the same unit.

**ReplyDelivery.** The same for reply commands. A post that the provider
accepted and whose receipt does not reach the ledger is counted as a gap.

**QuoteWorkflow.** One conversation. A quote is named by the message that
started it (`new_quote` derives its id from the message key). The version is
kept, because the fence is what the properties are about. Drafts are model
values. Claims and the marking of commands are one step each, as in
`AtLeastOnceQueue`: a command may be claimed again after a failure, a crash, or
while its handler still runs.

The customer may open the hosted quote at any time after it was posted, which
raises the version that the delivery is saved against. A delivery that is
recorded enqueues the text; consent is read again when the text goes out.

**QuoteDrafting.** (It is written without recursion, over the numbers of the lines, so
that proofs can reach it. `PricesStandInTheirLines` says of the wordings an instance
gives that the price of a well-formed item line is one of the amounts of that line, as
the parser takes it from there; it is part of `QuoteAssumption`.) What `OpenAIQuoteInterpreter` and the structured parser make of
a request: words are told apart by what they say (a price, a count of an item),
and a *reading* is whatever a model might answer. `Draft` is the draft or the
reason for refusing, in the order of the code's checks.

**Checkout.** The version of the quote is not kept as a number: `stale` has the
requests whose copy was saved over, which is the same test and keeps the state
finite. Sessions are numbered by attempt: the idempotency key is the attempt's
number, so the same number is the same session. Which of two payments settled
first is not modelled; the ledger may keep either as the one that counts.

**Plans.** A manual plan, a card plan and the one quote under them. The ledger
says of each payment whether it counts; the months payments cover (`PaidMonths`) are
each paid by one of them, and the plan stores how many there are, in one transaction
under the lock of its row. What a request read before that lock, the quote above all, is
its own copy, and `stale` has those whose copy of the quote was saved over. Reminders are commands deduplicated by their
day.

**IntakeBooking.** A conversation is one row; requests that hold its lock are
one step, `arrange` reads it without the lock, calls the provider and saves the
whole row back, which are steps with the world in between. An attempt stamp
names the booking the provider may have made. The e-mailed links carry the
request they decide. What the chat model says is any legal action.

**FieldNotes.** One case with a typed note, a recording and a reply. A part has
its transcription lease; a review has rounds; the report is a leased call with
versions. Which checklist items a note answers is a constant; the evidence of a
review is what it read.

**PlanCustody.** A file is registered when its message is processed, for the case
open at that time; the copy reads the channel and writes the object store
between its two transactions. `Fenced` is `_lease_filter`; `WithContent` is the
lookup by digest under the plan set's lock.

**OwnerCommands.** The handler of a message is split at its transactions:
`_pending`, the claim, `apply`, `save`, the follow-up. A plan fixes what was read
back (`StillAsRead` is the comparison at apply). The payments of a reissue are
read in a step before the quote and the checkout.

**CalendarBlocks.** A day's hours at the provider, the block that waits for a yes,
and the hours a yes recorded before its write. A write lands, fails, or lands
without an answer.

**Customers.** Requests of the portal, the owner and the chat read rows in one
step and write them in another; inserts meet the unique index on the e-mail. A
quote is saved only at the version read (`moved`).

## 3. What is checked

Every run passes, each in under three minutes on two workers. Every property has
a mutant: a change to one mapped definition, such as a bug there might make,
under which TLC finds the property violated. Type invariants are not checked by
the runs; they hold on the same instances, and those of the modules with proofs
are proved.

| Run | Instance | States | Shows |
| --- | --- | --- | --- |
| `outbox` | 2 commands, 2 workers of one identity, batch 2, 2 attempts, 1 crash, 1 stall | 172 622 | `ExclusiveLease`, `RowReportsNewestClaim`, `OneNoticePerDeadCommand`; `ImplementsQueue` (refinement, with liveness) |
| `processing` | 1 message, 1 reply, 2 workers, 1 crash, 1 stall | 125 513 | `RepliesOfOneRun`, `DoneMeansProcessed`, `EveryMessageAnswered` (liveness) |
| `reply_delivery` | 1 reply, 2 workers, 3 attempts, 2 crashes, 2 stalls | 273 655 | `RepeatsOnlyInTheGap`, `DeliveredIsRecorded` |
| `quotes` | a request in free text or in the format, a second message (reject, correct or choose) and an approval; 2 workers, 1 crash or reclaim, a customer who looks | 1 990 000 | `CustomerGetsApprovedDraft`, `ApprovedIsBeingDelivered`, `DecisionIsFinal` |
| `checkout` | 2 requests at a time, 2 sessions, 1 check, one delayed payment | 776 675 | `PaidMeansCounted`, `OpenedOnlyWhileAccepted`, `WrittenOffIsClosed`, `PaidTwiceIsReported`, `AcknowledgedIsBooked` |
| `plans` | 2 requests at a time, payments of one and of two months, a card plan that completes or is deleted | 1 202 741 | `PlanAgrees`, `NudgeStands`, `OnlyStaleUndoKeepsPaid` |
| `intake` | a web chat and a portal chat, 2 times, 2 requests, 1 event, 1 worker, 1 crash | 1 621 731 | `BookedWasApproved`, `LinkDecidesWhatItSaid`, `CustodyLastsUntilDecision`, `RetryBooksOnce` |
| `field_notes` | a typed note, a recording, a reply; an item only the recording covers; 2 workers, 1 fault | 1 292 615 | `ReportCoversChecklist`, `PublishedWasApproved`, `ImplementsLeasedCall` (refinement) |
| `owner_commands` | 2 messages in either of 2 threads, 2 workers, 2 commands, 2 days, 1 fault or payment | 1 145 885 | `RepliesAreTrue`, `VoidTakesNoMoney`, `SentOnceAsDated`, `ImplementsConfirmation` (refinement) |
| `calendar` | 3 messages, 3 blocks, 2 days of 2 slots, 2 faults | 1 461 384 | `CalendarAgrees`, `DeclinedIsClosed` |
| `customers` | 2 tasks at a time, 1 quote, 2 e-mails, 2 customers, 1 link, 1 chat, 2 answers | 1 850 771 | `QuoteFollowsItsEmail`, `OneSessionPerLink`, `SessionsBelongToReaders`, `NewestAnswerStands` |
| `plan_custody` | 2 files of one content, 2 workers, 2 attempts, 1 fault | 55 519 | `CustodyIsReal`, `ImplementsLeasedCall` (refinement), `DrawingsEnd` (liveness) |

**Why these bounds.** Two workers that write the same `locked_by` are the worst
case for the fence: only the generation tells them apart. Two attempts are the
least in which a retry and a dead letter both occur; three are the shipped
value. Commands meet only in a batch, so two suffice. A lease of one tick and a
retry after one tick make every order of expiry, retry and completion possible.
Three messages about a quote are a request, something that interferes, and a
decision. Two sessions, two requests and one check are the least in which
sessions, requests and payments of both kinds can race each other. Two times and
two requests let a reschedule be asked for, declined and asked for again. One
item that only the recording covers makes the review wait for the transcription.
Two commands are a change and the one that is offered after it. One fault is one
crash, one reclaim of a running handler, or (in `OwnerCommands`) one thing the
world does in between; two faults of `CalendarBlocks` are a lost answer and a
worker that dies over its retry. Two customers and two e-mails are an account and
the address it might be given to. `MaxCrashes`, `MaxStalls`, `MaxFaults`,
`MaxRequests`, `MaxEvents`, `MaxApprovals`, `MaxCommands`, `MaxDays`,
`MaxMessages`, `MaxBlocks`, `MaxToday`, `MaxCustomers`, `MaxLinks`, `MaxPlans`,
`MaxNow` and `MaxSessions` are bounds of the models; `MaxAttempts` is a setting of
the code. Larger instances of `plan_custody`, three files with two contents
(370 299 states) and two cases with two files (398 000), were checked once for
their safety and are not kept as runs, since the proofs cover it.

**Fairness.** A worker that can take a step of its loop takes one: the loop polls
for ever (`run_worker`), handlers and providers are awaited under client
timeouts, and the platform restarts the process (`docs/deployment.md`). Time
passes. Nothing is assumed of owners, customers, crashes or of which row a claim
picks. Finitely many crashes and stalls are an assumption of the liveness
properties, made by the bounds. Only `ImplementsQueue`, `EveryMessageAnswered` and
`DrawingsEnd` need any fairness; their runs use no
symmetry.

`CHECK_DEADLOCK FALSE` is set everywhere because the system may come to rest:
every command settled, no fault left, nobody with anything to ask.

**Refinements.** `Outbox` implements `AtLeastOnceQueue` with its liveness;
`QuoteWorkflow` and `PlanCustody` use that abstract queue in place of the outbox,
so what holds of them holds over any queue that promises as little. `FieldNotes`
(its transcriptions) and `PlanCustody` (its copies) implement `LeasedCall`, whose
tokens are counted: an answer is stored under the newest lease or not at all.
`OwnerCommands` implements `Confirmation`: one change waits at a time, and only
one that was taken by a yes takes effect, once.

## 4. What is proved

The proofs are checked by TLAPS for all values of the constants that the named
assumptions allow: any sets of commands, workers, files, messages, sessions and
customers, any batch size, lease, delay and number of attempts, crashes and stalls
(`OutboxAssumption`, `ProcessingAssumption`, `PlanCustodyAssumption`,
`CheckoutAssumption`, `FieldNotesAssumption`, `OwnerCommandsAssumption`,
`CustomersAssumption`, `QuoteAssumption`, `PlansAssumption`). The assumptions say that sets
of names are apart, that bounds are natural numbers, (in `Checkout` and `Plans`) that there
are finitely many checks and forms, (in `Plans`) that a form covers 1 to 24 months, and (in
`QuoteWorkflow`) that the price of a well-formed line is written in it. Every
inductive invariant below was checked by TLC on the instance of the run before it was
proved.

- `OutboxProofs`. `TypeCorrect`, `LeaseIsExclusive`, `StaleClaimantsAreFencedOff`
  and `AtMostOneNotice` follow from the inductive invariant `IInv` of `Outbox`.
  None of the properties is inductive alone. That the row reports its newest
  claim needs to know that the worker which writes holds that claim
  (`ClaimsNotAhead`, `HandlesWhatItHolds`), that it remembers how its dispatch
  ended (`VerdictIsRemembered`), and that nobody holds the newest claim of a
  settled row, except the worker about to send its notice (`NewestClaimIsLive`,
  `NoticeIsDue`). Identities need not be distinct: the generation alone
  suffices. `QueueIsImplemented`: every step of `Outbox` is a step of
  `AtLeastOnceQueue` or leaves its variables alone, under `phase`. The delicate
  case is `MarkSucceeded`, where `OkMeansHandled` gives the guard of `Finish`.
  Of `MessageProcessing`: `ProcessingTypeCorrect`, `OneRunAnswers`,
  `DoneOnlyWhenStored` and `LeaseStaysExclusive` follow from `PInv`, which relates
  tokens to the workers that were granted them: a token is granted once, so a
  fenced write is that of the newest claimant, and an author of a reply is the
  token that finished the run.
  Of `ReplyDelivery`: `DeliveredMeansRecorded` (`DeliveredIsRecorded` of the run)
  follows from `DInv`: the place a worker has reached in `deliver()` tells what is
  already posted and stored (`DoneSoFar`), receipts and recorded rows only grow, so
  an `ok` verdict of the newest claim stays backed by both (`OkIsRecorded`), and the
  outbox's invariant says that a succeeded row reports that verdict.
  `RepeatsAreExplained` (`RepeatsOnlyInTheGap`) counts workers: those that still work on a
  reply under a claim that is not the newest one outlived a lease, and there are no more of
  them than stalls (`Slow`); with the newest claimant they are all that may post
  (`ConcernedAreFew`), and a post without receipt is a gap or is still in the hands of one
  of them (`PostsCounted`).
- `QuoteWorkflowProofs`. `CustomerGetsWhatWasApproved` (`CustomerGetsApprovedDraft`),
  `ApprovalIsNotForgotten` (`ApprovedIsBeingDelivered`) and `DecisionStands`
  (`DecisionIsFinal`) state the three properties of the run. A worker goes by the row it
  read, which may have been overtaken; `Fenced` says that a row which still has the version
  read has the status read, so no save starts from a status that was decided on. A delivery
  is not fenced that way, since the customer's look raises the version: what it holds is the
  draft of the row because an approved row changes to delivered only, with its draft
  (`Delivering`, `SentDraft`). That the prices are written goes back to the request of the
  revision (`Coherent`).
- `PlansProofs`. `PlanAgreesWithLedger` (`PlanAgrees`), `EveryEndIsReminded` (`NudgeStands`)
  and `MoneyStaysBehindThePaidQuote` (`OnlyStaleUndoKeepsPaid`). Whoever voids has read
  under the lock what still counts when it writes (`Locked`), and a payment adds its own
  months to what the others cover (`OneMorePayment`). A nudge names the payment it was
  queued for, and a payment is recorded once and undone once, so none that a change queues
  is there already (`NudgesNamePayments`). A card plan that keeps a quote paid was itself
  paid for (`CardPlanIsPaid`). That a paid quote has money behind it at all times does not
  hold: the attempt to prove it showed the step of section 5 ("A paid quote without a
  payment"), and the theorem says that no other step breaks it.
- `PlanCustodyProofs`. `StoredIsReal` (`CustodyIsReal` of the run) follows from
  `IInv` of `PlanCustody`: a worker at its last transaction has put the object
  (`WorkerKnows`), and a command is handled only when its upload is stored
  (`HandledIsStored`). `OneNumberPerContent` is the lemma about the lookup by
  digest: recording a content keeps all numbers and gives it exactly one.
  `LeasedCallIsImplemented`: every step of `PlanCustody` is a step of `LeasedCall`
  or does not show; a claim never starts from a stored upload because a stored
  upload points to a version (`StoredIsTerminal`).

- `CheckoutCalendarProofs`. `PaidIsCounted`, `SecondPaymentIsReported`, `CollectedIsBooked`,
  `WrittenOffIsBeingClosed` and `OpensOnlyWhileAccepted` state the five properties of
  the run, from `CInv`. Its `MemoryInv` says what a request may still rely on of what it
  read: whoever is not in `stale` read the quote as it is (`FreshIsCurrent`), a quote
  read as paid and unpaid now was undone (`PaidReadStands`), and a list of payments that
  was read never misses more than was recorded since (`ListsFit`). `LedgerInv` adds that
  a card payment is in the ledger exactly when its event was applied (`BookedByEvent`),
  and `SessionInv` what the provider still takes for each row. The proof of the second
  payment found a case that needs two checks (section 5), which the property now excepts;
  the instance of the run has one, where the exception cannot arise, and the one with
  two (3 080 974 states) was checked once.
- `CheckoutCalendarProofs`, second part: `BlocksSpec`, for one worker and any slots, days,
  messages, blocks and faults. The theorems have the hypothesis `OneWorker`: the provider
  takes all rules at once, so two workers may write back over each other what they read
  (`infrastructure/calendly/availability.py:392-420`).
  `CalendarSaysTheRecords` (`CalendarAgrees`) and `DeclinedCannotBeBooked`
  (`DeclinedIsClosed`), from `BlocksInv`. A record agrees with the calendar only after its job
  has written, so the invariant says what each of the others has to agree with: the hours
  kept with a yes are those of a calendar without that block (`BlockFits`); the oldest block
  in force was put on an open day, so going back to its hours opens the whole day
  (`OldestFits`); a job at the calendar aims at hours that agree with the records it is about
  to write (`ClosingFits`, `OpeningFits`), and what a fault or a crash leaves unanswered is
  in doubt.
- `FieldNotesProofs`. `VersionsCoverChecklist` (`ReportCoversChecklist`),
  `OnlyApprovedGoesOut` (`PublishedWasApproved`) and `LeasedCallImplemented`
  (`ImplementsLeasedCall`, the transcriptions as leased calls). Coverage travels: a worker
  that writes a report holds a source that is covered (`HoldsFit`), it took it from a
  review that is complete (`CompleteIsCovered`), and that review completed when its text
  and answers left nothing missing; texts stay and answers grow (`ReviewsGrow`).
  `PartIsHandled` keeps a recording from being taken in twice, which is why a
  transcript is never replaced.
- `OwnerCommandsProofs`. `OwnerIsToldTheTruth` (`RepliesAreTrue`), `VoidedTakesNoPayment`
  (`VoidTakesNoMoney`), `InvoiceSentOnce` (`SentOnceAsDated`) and
  `ConfirmationImplemented` (`ImplementsConfirmation`). A command that is applied is held
  by one worker (`OneHolder`) and one at most waits (`OneWaits`); what a worker is about to
  say is as true as what was said (`Told` in `Fits` and `RepliesTold`), and stays so because
  a step moves only a command that waits or its own (`Advance`).
- `CustomersProofs`. `QuotesFollowTheirEmail`, `LinksOpenOneSession`, `SessionsAreReaders`
  and `NewestStands` state the four properties of the run. `IdentityInv`: whatever a task
  read of an e-mail's customer is still so when it writes, since no step takes an e-mail
  from a row (`RowsKept`, from the condition of `add_email`), and a session used up its link
  (`UsedUp`). `AnswersInv`: all answers that are on their way or written have times of
  their own (`OneAnswerAtATime`), and a record carries the newest of those written
  (`RecordIsNewest`); so an answer that comes late is refused by its time alone.
- `CustomersProofs`, second part: `IntakeSpec`, for any conversations, times and workers (the
  run has two, two and one). `AppBooksOnlyApproved` (`BookedWasApproved`),
  `LinkDecidesItsRequest` (`LinkDecidesWhatItSaid`) and `CustodyOutlastsTheWait`
  (`CustodyLastsUntilDecision`). All copies of a row obey one predicate (`RowFits`): where it
  says approved, its time was approved, and so was that of the booking beside it. A worker's
  copy was approved when it was read (`WorkFits`), so a late save may lose a request but
  never makes an unapproved one look approved, nor puts a decided one back to wait. What
  awaits a decision has the stamp of the last mail, which named its time and is undecided
  (`AwaitsWhatWasAsked`); two rows never wait under one stamp (`DecisionIsOfOne`).
  `RetriesBookOnce` (`RetryBooksOnce`) has the hypothesis `OneArranges`, one worker, since
  two book side by side (section 5). Stamps only grow under that worker, but for a late save
  of its own, so what it made under the stamp of a row has the row's time, and the row, once
  approved, never waits again under that stamp and tells of the attempt (`RowTells`); a
  worker about to send a link has found nothing there (`NothingMade`).

Only model-checked: liveness and the fairness part of the refinements, which TLAPS does
not reach here (`EveryMessageAnswered`, `DrawingsEnd`, the temporal part of
`ImplementsQueue`). Every invariant and action property of the runs is stated by a
theorem, those of `CalendarBlocks` and `RetryBooksOnce` for one worker.

## 5. Where code and documents disagree

The models follow the code. Where a document, a comment or a message to the owner
promises more, the promise is not checked as a property; these are the places we
know of. A property named in parentheses is what holds instead.

- **A dead command without a notice.** The row is dead in one transaction and the
  notice is enqueued in another (`composition/dispatcher.py:493`, `:518-527`); a
  worker that dies in between leaves the owner untold. `docs/deployment.md:578`
  and `docs/composition.md:372` promise the notice (`OneNoticePerDeadCommand`).
- **Claims beyond `max_attempts`.** A command that kills its worker is reclaimed
  when its lease runs out, however often it was claimed
  (`infrastructure/repositories.py:1059`); `docs/architecture.md:148` bounds the
  attempts. Only a handler that raises uses them up.
- **A resolver fault is never retried.** With 3 attempts 30 s apart and a lease of
  300 s (`config.py:199-200`, `domain/outbox.py:9`), a run left running by the
  fault is busy (`application/processing.py:94`) until its command is dead;
  `docs/architecture.md:131` and `composition/intents.py:48-49` speak of a retry
  (`EveryMessageAnswered`).
- **A replayed correction is applied twice.** A message is recognised only while it
  is the last that changed its quote (`application/quotes.py:145`,
  `infrastructure/repositories.py:853`); README.md:3-4 and
  `docs/composition.md:107-108` promise replay safety (`DecisionIsFinal`).
- **One count for two items.** "2 mold" is found within "2 mold inspections", so one
  written count serves both (`infrastructure/quote_drafting.py:445-449`); the words
  of the model do not overlap.
- **Undo beside a card payment.** Undoing a manual payment goes by the payments read
  before (`application/owner.py:909`), so a card payment recorded meanwhile stays
  the duplicate of a voided one, against `:907-908` and
  `application/public_quotes.py:708-709` (`PaidMeansCounted` speaks of quotes never undone).
  The other way round: a card payment whose event read the quote as paid (`application/public_quotes.py:495`)
  saves no quote (`:559-563`), so it may be booked after an undo committed in between and count
  on a quote that is unpaid; a check recorded next, dated before it, counts in its place.
  Both are active and the owner was told of neither being the second, against "the ledger
  keeps one active payment per quote" (`application/owner.py:426-427`;
  `PaidTwiceIsReported` excepts it).
- **The sibling of a paid session stays payable.** It is closed in the database only
  (`application/public_quotes.py:492`), against the comment at `:489-491`
  (`PaidTwiceIsReported`).
- **A paid quote without a payment.** `void_plan_payment` reads the quote
  (`application/owner.py:711`) before it locks the plan (`:718`). If another request paid the
  quote in between, the undo of the last payment finds its own copy unpaid (`:776`), saves
  nothing and so compares no version: the plan ends and the quote stays paid, against
  "Voiding the last one ends the plan and puts the quote back where it was" (`:705-706`). It
  takes three payments, since the quote must first be unpaid beside a live plan (the next
  entry): with two, as in the run, `PaidHasMoney` itself holds; with three and no card TLC
  finds it violated in 20 s (`OnlyStaleUndoKeepsPaid`: no other step does this).
- **A plan on an unpaid quote.** `record_plan_payment` decides on a quote it read as
  paid (`application/owner.py:596-604`); an undo in between leaves a live plan without a notice,
  and a blind save (`infrastructure/payment_repositories.py:279`) may revive a card plan that has
  ended.
- **Bookings.** `arrange` saves the whole conversation as it read it
  (`application/intake.py:1197`, `:464-467`): a pick or an event of the meantime is lost
  (`infrastructure/intake_repositories.py:189`; `application/intake.py:1511-1513` says
  otherwise). An event
  that was re-routed is dropped by the next pick (`:985-991`), and a cancellation by
  the customer leaves a superseded event at the provider (`:772-807`). A declined
  reschedule restores an approval whose arranging was used up, and nothing arranges
  it (`domain/owner_actions.py:203-225`, against `:206-207`). Two arrange commands
  side by side both book, against `docs/deployment.md:189` (`RetryBooksOnce`, with
  one worker; attempt stamps are taken to be distinct).
- **Questions and replies of a review.** More than one question may be out
  (`application/completeness.py:310`, against `docs/composition.md:186`), replies are dropped
  (`composition/review.py:112`, against `:187`), a note may be added while a review is open, a
  retried report of an older revision becomes the newest version, and the
  fingerprint takes in what the model quoted (against `:209`)
  (`ReportCoversChecklist`, `PublishedWasApproved`).
- **A yes for what was not asked yet.** A yes that is processed again confirms the
  change that its first processing offered (`application/owner_assistant.py:770`, against
  `:751-752` and `domain/owner_commands.py:3-6`). A crash between claim and save
  leaves a change applying for ever, and the owner reads that nothing is waiting
  (`ImplementsConfirmation`).
- **"OK, nothing was blocked."** That answers a no after a yes whose write landed
  without an answer (`application/calendar_blocks.py:205-223`,
  `tests/test_calendar_blocks.py:220`,
  `docs/deployment.md:212-213`): the hours stay closed (`CalendarAgrees` counts them).
- **An edit is overwritten.** `upsert` fills what it read as blank without a lock
  (`infrastructure/customer_repositories.py:108-117`): an edit by the owner in between is lost,
  against `domain/customers.py:247-248` and `composition/owner_change_tools.py:1053`.
- **Drawings.** A message that is processed after its case was closed registers
  nothing (`composition/field_note_workflow.py:105-110`); numbers follow the order
  of the copies, not of the messages (`infrastructure/plan_repositories.py:452`).

## 6. What is not modelled

- Usage ceilings (`domain/usage.py`): a counter read before a call and raised after
  it; the class promises only that the call after the one that crosses the line is
  held back.
- Templates, demo sandboxes, channel ingress (signatures and the translation of
  provider events), and the front end in `site/`, which only calls the HTTP
  interface; evaluations and migrations.
- In `Checkout`: checkouts that collect nothing, which payment settled first, events
  for other deployments, and events that arrive before their session is stored
  (refused with 503 and repeated). The command that closes a session is taken to be
  tried and perhaps given up, without the detail of `Outbox`.
- In `Plans`: receipts, yearly intervals, notices of failed payments.
- In `QuoteWorkflow`: several conversations, quotes of the time before claim tokens,
  and conflicts between the two workflows of a conversation. In `QuoteDrafting`:
  notes, descriptions and the currency.
- In `IntakeBooking`: what the chat model says, e-mails, texts and escalation. A
  third pick in one conversation lies beyond `MaxRequests`.
- In `FieldNotes`: several cases, templates, the confirmation pass and ceilings.
- In `OwnerCommands`: tools other than those for invoices and contacts. In
  `Customers`: names, service requests, the billing portal, read-only views.
- Text: wording, parsing and formatting, except where `QuoteDrafting` says otherwise.

## 7. Plan

1. The confirmation pass of a review, and several cases of one conversation.
2. `IntakeBooking` with two workers and three picks, once its state is split into the
   request and the provider's calendar.
3. Usage ceilings, as calls in flight beyond a line.
