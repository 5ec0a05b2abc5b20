---------------------------- MODULE QuoteWorkflow ----------------------------
(***************************************************************************)
(* Quotes: the owner asks for one, sees a draft, corrects, rejects or       *)
(* approves it, and the approved draft is delivered to the customer.        *)
(*   application/quotes.py (QuoteWorkflowHandler,                           *)
(*   DeliverApprovedQuoteService), domain/quotes.py, SqlQuoteRepository,    *)
(*   composition/intents.py for the routing.                                *)
(*                                                                         *)
(* One conversation.  Its messages and the deliveries they lead to are       *)
(* commands on an outbox that promises no more than AtLeastOnceQueue does:  *)
(* a handler may run again after a failure or a crash, and beside a handler *)
(* that outlived its lease.  What the handler does of its own is not        *)
(* covered by any lease, only by the version of the quote's row.            *)
(***************************************************************************)
EXTENDS Naturals, Sequences, FiniteSets

CONSTANTS
  Messages,     \* the owner's messages, also the quotes they start: a quote's
                \* id is derived from the key of its first message
  Texts,        \* Texts[m]: what the owner may write in m
  Wording,      \* Wording[m]: the lines of m, the request it makes
  Readings,     \* what a model may read out of a request in free text
  Workers,      \* processes that dispatch commands
  MaxAttempts,
  MaxFaults,    \* bound: dispatches cut short by a crash, or reclaimed while
                \* their handler still runs
  None

Drafting == INSTANCE QuoteDrafting

\* The customer as the appointment has it, and as nobody named.
Customer(picked) == IF picked THEN "invitee" ELSE Drafting!Nothing
Rejected == Drafting!Rejected
Drafts ==
  {Drafting!DraftOf(Wording[m], Customer(p), r) : m \in Messages, p \in BOOLEAN, r \in Readings}
    \ {Rejected}

Kinds == {"quote", "approve", "reject", "correct", "choice", "other"}
OwnerCommands == {"approve", "reject", "correct"}
Commands == [of : Messages, does : {"process", "deliver", "text"}]
Process(m) == [of |-> m, does |-> "process"]
Deliver(q) == [of |-> q, does |-> "deliver"]
TextLink(q) == [of |-> q, does |-> "text"]

ASSUME QuoteAssumption ==
  /\ Texts \in [Messages -> SUBSET Kinds]
  /\ \A m \in Messages : Drafting!PricesStandInTheirLines(Wording[m])
  /\ None \notin Messages \cup Workers \cup Commands \cup Kinds
  /\ MaxAttempts \in Nat \ {0}
  /\ MaxFaults \in Nat

VARIABLES
  phase, handled,  \* the outbox
  attempts,        \* claims of a command
  newest,          \* the worker whose claim of the command is the newest
  text,            \* what the owner wrote
  quotes,          \* the rows of the quotes
  answered,        \* messages whose run has succeeded: their reply is stored
  routed,          \* messages whose failed run has the quote intent stored
  pc, job,         \* the step and the command of each worker
  subject, seen,   \* the quote a worker works on, as it has it in memory
  sent,            \* drafts the delivery provider was given for a quote
  texts,           \* quotes whose link the text provider was given
  faults           \* the consumed part of the bound

queueVars == <<phase, handled>>
claimVars == <<attempts, newest>>
messageVars == <<text, answered, routed>>
memory == <<job, subject, seen>>
vars == <<queueVars, claimVars, messageVars, quotes, pc, memory, sent, texts, faults>>

Queue == INSTANCE AtLeastOnceQueue WITH
           Commands <- Commands, phase <- phase, handled <- handled

Statuses == {"absent", "drafting", "selection", "awaiting", "approved", "rejected", "delivered"}
Rows == [status : Statuses, revision : Nat, last : Messages \cup {None},
         request : Messages \cup {None}, picked : BOOLEAN, draft : Drafts \cup {None},
         version : Nat, viewed : BOOLEAN]
NoRow == [status |-> "absent", revision |-> 0, last |-> None, request |-> None,
          picked |-> FALSE, draft |-> None, version |-> 0, viewed |-> FALSE]

Writes == {"approve", "reject", "correct", "select", "abandon", "ask", "apply"}
Steps == {"idle", "resolve", "lookup", "active", "add", "draft", "conflict", "reply",
          "read", "provider", "record", "recheck", "return", "text", "send", "raised",
          "error", "ok"} \cup Writes

TypeOK ==
  /\ Queue!TypeOK
  /\ attempts \in [Commands -> Nat]
  /\ newest \in [Commands -> Workers \cup {None}]
  /\ text \in [Messages -> Kinds \cup {None}]
  /\ quotes \in [Messages -> Rows]
  /\ answered \subseteq Messages
  /\ routed \subseteq Messages
  /\ pc \in [Workers -> Steps]
  /\ job \in [Workers -> Commands \cup {None}]
  /\ subject \in [Workers -> Messages \cup {None}]
  /\ seen \in [Workers -> Rows]
  /\ sent \in [Messages -> SUBSET Drafts]
  /\ texts \subseteq Messages
  /\ faults \in Nat

Init ==
  /\ Queue!Init
  /\ attempts = [c \in Commands |-> 0]
  /\ newest = [c \in Commands |-> None]
  /\ text = [m \in Messages |-> None]
  /\ quotes = [q \in Messages |-> NoRow]
  /\ answered = {}
  /\ routed = {}
  /\ pc = [w \in Workers |-> "idle"]
  /\ job = [w \in Workers |-> None]
  /\ subject = [w \in Workers |-> None]
  /\ seen = [w \in Workers |-> NoRow]
  /\ sent = [q \in Messages |-> {}]
  /\ texts = {}
  /\ faults = 0

-----------------------------------------------------------------------------
(***************************************************************************)
(* The quote.                                                              *)
(***************************************************************************)

\* is_active: it occupies its conversation.
Active(row) == row.status \notin {"absent", "rejected", "delivered"}

NewRow(m) == [NoRow EXCEPT !.status = "drafting", !.revision = 1, !.last = m,
                           !.request = m, !.version = 1]

\* reject
Dismissed(row) == [row EXCEPT !.status = "rejected"]

\* begin_correction: the next revision is drafted from the words of m.
Corrected(row, m) ==
  [row EXCEPT !.status = "drafting", !.revision = @ + 1, !.request = m, !.draft = None]

\* The row a write of message m saves, given the row it was read as.
Changed(write, row, m) ==
  LET next == [row EXCEPT !.last = m, !.version = @ + 1] IN
  CASE write = "approve" -> [next EXCEPT !.status = "approved"]
    [] write \in {"reject", "abandon"} -> Dismissed(next)
    [] write = "correct" -> Corrected(next, m)
    [] write = "select" -> [next EXCEPT !.status = "drafting", !.picked = TRUE]
    [] write = "ask" -> [next EXCEPT !.status = "selection", !.picked = FALSE]
    [] write = "apply" -> [next EXCEPT !.status = "awaiting"]

\* A save that is not fenced (mutant).
AnyVersion(w) == TRUE

\* The WHERE of save(): the row still has the version it was read with.
Current(w) == quotes[subject[w]].version = seen[w].version

Deliverable(row) == row.status = "approved"

\* A conflict taken for a delivery by another (mutant).
AnyRow(row) == TRUE

DeliveredByOther(row) == row.status = "delivered"

-----------------------------------------------------------------------------
(***************************************************************************)
(* Dispatching.                                                            *)
(***************************************************************************)

\* A message is stored once, whatever the channel repeats.
Unknown(m) == text[m] = None

Send(m) ==
  /\ Unknown(m)
  /\ \E k \in Texts[m] : text' = [text EXCEPT ![m] = k]
  /\ Queue!Submit(Process(m))
  /\ UNCHANGED <<claimVars, answered, routed, quotes, pc, memory, sent, texts, faults>>

Held(c) == \E v \in Workers : job[v] = c /\ newest[c] = v

\* A claim and the start of the dispatch.  A command still held is only claimed
\* again when its holder has outlived the lease.
Begin(w, c) ==
  /\ pc[w] = "idle"
  /\ phase[c] = "queued"
  /\ \/ ~Held(c) /\ faults' = faults
     \/ Held(c) /\ faults < MaxFaults /\ faults' = faults + 1
  /\ attempts' = [attempts EXCEPT ![c] = @ + 1]
  /\ newest' = [newest EXCEPT ![c] = w]
  /\ job' = [job EXCEPT ![w] = c]
  /\ pc' = [pc EXCEPT ![w] = CASE c.does = "deliver" -> "read"
                               [] c.does = "text" -> "text"
                               [] c.does = "process" /\ c.of \in answered -> "ok"
                               [] c.does = "process" /\ c.of \in routed -> "lookup"
                               [] OTHER -> "resolve"]
  /\ UNCHANGED <<queueVars, messageVars, quotes, subject, seen, sent, texts>>

Forget(w) ==
  /\ pc' = [pc EXCEPT ![w] = "idle"]
  /\ job' = [job EXCEPT ![w] = None]
  /\ subject' = [subject EXCEPT ![w] = None]
  /\ seen' = [seen EXCEPT ![w] = NoRow]

\* The command is marked, if the claim on it is still the newest.
End(w) ==
  LET c == job[w] IN
  /\ pc[w] \in {"ok", "error"}
  /\ \/ newest[c] # w /\ UNCHANGED <<queueVars, newest>>
     \/ /\ newest[c] = w
        /\ newest' = [newest EXCEPT ![c] = None]
        /\ \/ pc[w] = "ok" /\ Queue!Finish(c)
           \/ pc[w] = "error" /\ attempts[c] >= MaxAttempts /\ Queue!GiveUp(c)
           \/ pc[w] = "error" /\ attempts[c] < MaxAttempts /\ UNCHANGED queueVars
  /\ Forget(w)
  /\ UNCHANGED <<attempts, messageVars, quotes, sent, texts, faults>>

Crash(w) ==
  /\ pc[w] # "idle"
  /\ faults < MaxFaults
  /\ faults' = faults + 1
  /\ Forget(w)
  /\ UNCHANGED <<queueVars, claimVars, messageVars, quotes, sent, texts>>

-----------------------------------------------------------------------------
(***************************************************************************)
(* A message: resolve() and QuoteWorkflowHandler.handle().                  *)
(***************************************************************************)

Goto(w, step) == pc' = [pc EXCEPT ![w] = step]

Load(w, q) ==
  /\ subject' = [subject EXCEPT ![w] = q]
  /\ seen' = [seen EXCEPT ![w] = quotes[q]]

\* What a step of the handler that only reads leaves alone.
ReadsOnly == UNCHANGED <<queueVars, claimVars, messageVars, quotes, job, sent, texts, faults>>

ActiveQuotes == {q \in Messages : Active(quotes[q])}

\* Words that are not meant for a quote go to the handler of unmatched messages,
\* which answers them.
ForQuotes(kind) ==
  \/ kind = "quote"
  \/ \E q \in ActiveQuotes : quotes[q].status = "awaiting" => kind \in OwnerCommands

Resolve(w) ==
  /\ pc[w] = "resolve"
  /\ Goto(w, IF ForQuotes(text[job[w].of]) THEN "lookup" ELSE "reply")
  /\ ReadsOnly
  /\ UNCHANGED <<subject, seen>>

\* get_by_message: a quote this message has changed, and no message has since.
LookUp(w) ==
  LET mine == {q \in Messages : quotes[q].last = job[w].of} IN
  /\ pc[w] = "lookup"
  /\ \/ /\ mine = {}
        /\ Goto(w, "active")
        /\ UNCHANGED <<subject, seen>>
     \/ \E q \in mine :
          /\ Load(w, q)
          /\ Goto(w, IF quotes[q].status = "drafting" THEN "draft" ELSE "reply")
  /\ ReadsOnly

\* Commands for any quote that has a draft (mutant).
ReactionWhenDrafted(kind, status) ==
  IF status \in {"awaiting", "approved"} /\ kind \in OwnerCommands THEN kind ELSE "reply"

\* What a message of this kind does to the conversation's active quote.
Reaction(kind, status) ==
  CASE status = "selection" /\ kind = "reject" -> "abandon"
    [] status = "selection" /\ kind = "choice" -> "select"
    [] status = "awaiting" /\ kind \in OwnerCommands -> kind
    [] OTHER -> "reply"

\* get_active, in a transaction of its own.
ReadActive(w) ==
  LET m == job[w].of IN
  /\ pc[w] = "active"
  /\ \/ \E q \in ActiveQuotes :
          /\ Load(w, q)
          /\ Goto(w, Reaction(text[m], quotes[q].status))
     \/ /\ ActiveQuotes = {}
        /\ Goto(w, CASE text[m] \in OwnerCommands -> "reply"
                     [] text[m] = "quote" -> "add"
                     [] OTHER -> "raised")
        /\ UNCHANGED <<subject, seen>>
  /\ ReadsOnly

\* add(): refused when the quote exists or the conversation has an active one.
Add(w) ==
  LET m == job[w].of IN
  /\ pc[w] = "add"
  /\ \/ /\ quotes[m].status = "absent" /\ ActiveQuotes = {}
        /\ quotes' = [quotes EXCEPT ![m] = NewRow(m)]
        /\ subject' = [subject EXCEPT ![w] = m]
        /\ seen' = [seen EXCEPT ![w] = NewRow(m)]
        /\ Goto(w, "draft")
     \/ /\ quotes[m].status # "absent" \/ ActiveQuotes # {}
        /\ Goto(w, "raised")
        /\ UNCHANGED <<quotes, subject, seen>>
  /\ UNCHANGED <<queueVars, claimVars, messageVars, job, sent, texts, faults>>

\* The appointment is looked up while none is chosen and the request names no
\* customer.
LooksUpAppointment(w) ==
  ~seen[w].picked /\ ~Drafting!HasCustomerLine(Wording[seen[w].request])

\* The lookup fails, or finds several to choose from.
NoAppointment(w) ==
  /\ LooksUpAppointment(w)
  /\ \E write \in {"abandon", "ask"} : Goto(w, write)
  /\ seen' = seen

\* The drafting port is asked, with the customer of the appointment if one is
\* chosen or the only one found: it proposes a draft or refuses.
Proposed(w, picked) ==
  \E reading \in Readings :
    LET draft == Drafting!DraftOf(Wording[seen[w].request], Customer(picked), reading) IN
    IF draft = Rejected
    THEN Goto(w, "abandon") /\ seen' = [seen EXCEPT ![w].picked = picked]
    ELSE Goto(w, "apply") /\ seen' = [seen EXCEPT ![w].picked = picked, ![w].draft = draft]

Draft(w) ==
  /\ pc[w] = "draft"
  /\ \/ NoAppointment(w)
     \/ Proposed(w, seen[w].picked)
     \/ LooksUpAppointment(w) /\ Proposed(w, TRUE)
     \/ Goto(w, "raised") /\ seen' = seen
  /\ ReadsOnly
  /\ UNCHANGED subject

After(write) ==
  CASE write \in {"correct", "select"} -> "draft"
    [] OTHER -> "reply"

\* save() of the changed quote; an approval enqueues the delivery with it.
Write(w) ==
  LET q == subject[w]
      m == job[w].of
      row == Changed(pc[w], seen[w], m)
  IN
  /\ pc[w] \in Writes
  /\ Current(w)
  /\ quotes' = [quotes EXCEPT ![q] = row]
  /\ seen' = [seen EXCEPT ![w] = row]
  /\ Goto(w, After(pc[w]))
  /\ \/ pc[w] = "approve" /\ Queue!Submit(Deliver(q))
     \/ pc[w] # "approve" /\ UNCHANGED queueVars
  /\ UNCHANGED <<claimVars, messageVars, job, subject, sent, texts, faults>>

\* save() finds another version: the handler raises, except that the last save of
\* a draft first asks whether its message has been dealt with by another.
WriteConflicts(w) ==
  /\ pc[w] \in Writes
  /\ ~Current(w)
  /\ Goto(w, IF pc[w] = "apply" THEN "conflict" ELSE "raised")
  /\ ReadsOnly
  /\ UNCHANGED <<subject, seen>>

Reread(w) ==
  /\ pc[w] = "conflict"
  /\ Goto(w, IF \E q \in Messages : quotes[q].last = job[w].of THEN "reply" ELSE "raised")
  /\ ReadsOnly
  /\ UNCHANGED <<subject, seen>>

\* The run is finished with the handler's reply, unless another claimed it.
StoreReply(w) ==
  LET m == job[w].of IN
  /\ pc[w] = "reply"
  /\ \/ /\ newest[job[w]] = w
        /\ answered' = answered \cup {m}
        /\ Queue!Handle(job[w])
        /\ Goto(w, "ok")
     \/ /\ newest[job[w]] # w
        /\ Goto(w, "error")
        /\ UNCHANGED <<answered, queueVars>>
  /\ UNCHANGED <<claimVars, text, routed, quotes, memory, sent, texts, faults>>

\* _finish_failed: the failed run keeps the intent, for the next attempt.
FinishFailed(w) ==
  /\ pc[w] = "raised"
  /\ routed' = IF newest[job[w]] = w THEN routed \cup {job[w].of} ELSE routed
  /\ Goto(w, "error")
  /\ UNCHANGED <<queueVars, claimVars, text, answered, quotes, memory, sent, texts, faults>>

Handle(w) ==
  \/ Resolve(w) \/ LookUp(w) \/ ReadActive(w) \/ Add(w) \/ Draft(w) \/ Write(w)
  \/ WriteConflicts(w) \/ Reread(w) \/ StoreReply(w) \/ FinishFailed(w)

-----------------------------------------------------------------------------
(***************************************************************************)
(* A delivery: DeliverApprovedQuoteService.deliver().                       *)
(***************************************************************************)

\* Nothing is delivered but an approved quote; a delivered one is done with.  Its
\* claim token and its customer came with the approval, so the saves that make up
\* for those of older quotes are not needed.
ReadForDelivery(w) ==
  LET q == job[w].of IN
  /\ pc[w] = "read"
  /\ Load(w, q)
  /\ Goto(w, CASE quotes[q].status = "delivered" -> "ok"
               [] Deliverable(quotes[q]) -> "provider"
               [] OTHER -> "error")
  /\ IF quotes[q].status = "delivered" THEN Queue!Handle(job[w]) ELSE UNCHANGED queueVars
  /\ UNCHANGED <<claimVars, messageVars, quotes, job, sent, texts, faults>>

\* The customer's answer to being texted is read afresh each time: a customer may
\* change it at any moment.
Consented == BOOLEAN

\* quote_text_command, when the link goes to a phone whose owner agrees to texts.
EnqueueText(q) ==
  \E yes \in Consented : IF yes THEN Queue!Submit(TextLink(q)) ELSE UNCHANGED queueVars

\* The provider has the draft, and says so or not; or it never got it.
CallProvider(w) ==
  LET q == job[w].of IN
  /\ pc[w] = "provider"
  /\ \/ \E step \in {"record", "error"} :
          /\ sent' = [sent EXCEPT ![q] = @ \cup {seen[w].draft}]
          /\ Goto(w, step)
     \/ Goto(w, "error") /\ sent' = sent
  /\ UNCHANGED <<queueVars, claimVars, messageVars, quotes, memory, texts, faults>>

RecordDelivery(w) ==
  LET q == job[w].of IN
  /\ pc[w] = "record"
  /\ \/ /\ Current(w)
        /\ quotes' = [quotes EXCEPT ![q] =
                        [seen[w] EXCEPT !.status = "delivered", !.version = @ + 1]]
        /\ EnqueueText(q)
        /\ Goto(w, "return")
     \/ ~Current(w) /\ Goto(w, "recheck") /\ UNCHANGED <<quotes, queueVars>>
  /\ UNCHANGED <<claimVars, messageVars, memory, sent, texts, faults>>

\* Somebody changed the quote since it was read.
Recheck(w) ==
  LET done == DeliveredByOther(quotes[job[w].of]) IN
  /\ pc[w] = "recheck"
  /\ Goto(w, IF done THEN "ok" ELSE "error")
  /\ IF done THEN Queue!Handle(job[w]) ELSE UNCHANGED queueVars
  /\ UNCHANGED <<claimVars, messageVars, quotes, memory, sent, texts, faults>>

Return(w) ==
  /\ pc[w] = "return"
  /\ Queue!Handle(job[w])
  /\ Goto(w, "ok")
  /\ UNCHANGED <<claimVars, messageVars, quotes, memory, sent, texts, faults>>

DeliverQuote(w) ==
  ReadForDelivery(w) \/ CallProvider(w) \/ RecordDelivery(w) \/ Recheck(w) \/ Return(w)

-----------------------------------------------------------------------------
(***************************************************************************)
(* The text with the link: TextDeliveredQuoteService.text().                *)
(***************************************************************************)

\* The quote is delivered; its customer still agrees, or nothing is texted.
ReadForText(w) ==
  LET c == job[w] IN
  /\ pc[w] = "text"
  /\ quotes[c.of].status = "delivered"
  /\ \E yes \in Consented :
       \/ yes /\ Goto(w, "send") /\ UNCHANGED queueVars
       \/ ~yes /\ Goto(w, "ok") /\ Queue!Handle(c)
  /\ UNCHANGED <<claimVars, messageVars, quotes, memory, sent, texts, faults>>

\* The provider takes the text, which is recorded; or something fails, before or
\* after the text was sent.
SendText(w) ==
  LET c == job[w] IN
  /\ pc[w] = "send"
  /\ \/ Queue!Handle(c) /\ Goto(w, "ok") /\ texts' = texts \cup {c.of}
     \/ /\ Goto(w, "error")
        /\ texts' \in {texts, texts \cup {c.of}}
        /\ UNCHANGED queueVars
  /\ UNCHANGED <<claimVars, messageVars, quotes, memory, sent, faults>>

TextQuote(w) == ReadForText(w) \/ SendText(w)

-----------------------------------------------------------------------------
\* The customer opens the link that was sent: the quote's version moves on.
View(q) ==
  /\ sent[q] # {}
  /\ quotes[q].status \in {"approved", "delivered"}
  /\ ~quotes[q].viewed
  /\ quotes' = [quotes EXCEPT ![q].viewed = TRUE, ![q].version = @ + 1]
  /\ UNCHANGED <<queueVars, claimVars, messageVars, pc, memory, sent, texts, faults>>

-----------------------------------------------------------------------------
Work(w) == (\E c \in Commands : Begin(w, c)) \/ Handle(w) \/ DeliverQuote(w) \/ TextQuote(w)
           \/ End(w)

Next ==
  \/ \E m \in Messages : Send(m) \/ View(m)
  \/ \E w \in Workers : Work(w) \/ Crash(w)

SafeSpec == Init /\ [][Next]_vars

\* The outbox sees to it that a queued command is dispatched until it is settled.
Spec == SafeSpec /\ \A w \in Workers : WF_vars(Work(w))

-----------------------------------------------------------------------------
\* The owner's decision is final: no correction, redraft or late save of another
\* handler changes the draft of a decided quote, or takes the decision back.
DecisionIsFinal ==
  [][\A q \in Messages :
       quotes[q].status \in {"approved", "delivered", "rejected"} =>
         /\ quotes'[q].draft = quotes[q].draft
         /\ quotes'[q].status \in
              {quotes[q].status} \cup (IF quotes[q].status = "approved" THEN {"delivered"} ELSE {})
    ]_vars

\* The customer is sent nothing but the draft the owner approved, however the
\* messages about it and its delivery were retried or run side by side; and its
\* prices are amounts of the request it answers, whatever the model made of it.
CustomerGetsApprovedDraft ==
  \A q \in Messages :
    /\ sent[q] # {} =>
         quotes[q].status \in {"approved", "delivered"} /\ sent[q] = {quotes[q].draft}
    /\ quotes[q].status = "delivered" => sent[q] # {}
    /\ q \in texts => quotes[q].status = "delivered"
    /\ quotes[q].draft # None =>
         Drafting!PricesAreWritten(quotes[q].draft, Wording[quotes[q].request])

\* An approved quote is never forgotten: until it is delivered its delivery is on
\* the outbox, and is only given up there with its attempts, never reported done.
ApprovedIsBeingDelivered ==
  \A q \in Messages :
    quotes[q].status = "approved" => phase[Deliver(q)] \in {"queued", "dead"}
=============================================================================
