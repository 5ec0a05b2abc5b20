------------------------- MODULE QuoteWorkflowProofs -------------------------
(***************************************************************************)
(* Why the owner's decision stands and the customer gets what was approved. *)
(*                                                                         *)
(* A handler runs under no lease that would keep others away, and goes by   *)
(* the row it read.  What protects the row is its version: it grows with    *)
(* every save, so a row that still has the version a worker read has the    *)
(* status the worker read (Fenced), and no save is made from a status the   *)
(* owner has decided on.  A delivery needs no such luck: from approved a    *)
(* row only goes to delivered, with its draft, so what a delivery has in    *)
(* memory stays the draft of the row whatever its version (Delivering).     *)
(***************************************************************************)
EXTENDS QuoteWorkflow, TLAPS

\* The steps of a message, and those at which a worker goes by the row it read.
MessageSteps == {"resolve", "lookup", "active", "add", "draft", "conflict", "reply", "raised"}
                  \cup Writes
DeliverySteps == {"read", "provider", "record", "recheck", "return"}
Deliveries == {"provider", "record"}
GoingByRow == {"draft"} \cup Writes \cup Deliveries

\* The statuses a row can have been read with at a step.
Expected(step) ==
  CASE step \in {"draft", "ask", "apply"} -> {"drafting"}
    [] step = "abandon" -> {"drafting", "selection"}
    [] step = "select" -> {"selection"}
    [] step \in OwnerCommands -> {"awaiting"}
    [] step \in Deliveries -> {"approved"}
    [] OTHER -> Statuses

\* A row is of one piece: there is a request, a draft where one is shown, and the
\* prices of a draft are written in the request of its revision.
Coherent(row) ==
  /\ row.status = "absent" => row = NoRow
  /\ row.status # "absent" => row.request \in Messages
  /\ row.status \in {"awaiting", "approved", "delivered"} => row.draft \in Drafts
  /\ row.draft # None => Drafting!PricesAreWritten(row.draft, Wording[row.request])

RowsCoherent == \A q \in Messages : Coherent(quotes[q])

\* A worker is at a step of its command.
AtItsJob(w) ==
  /\ pc[w] # "idle" => job[w] \in Commands
  /\ pc[w] \in MessageSteps => job[w].does = "process"
  /\ pc[w] \in DeliverySteps => job[w].does = "deliver"
  /\ pc[w] \in {"text", "send"} => job[w].does = "text"
  /\ pc[w] \in GoingByRow => subject[w] \in Messages
  /\ pc[w] \in Deliveries => subject[w] = job[w].of

\* What a worker has in memory is a row that may have been overtaken since.
Remembers(w) ==
  /\ Coherent(seen[w])
  /\ pc[w] \in GoingByRow => seen[w].status \in Expected(pc[w])
  /\ pc[w] = "apply" => seen[w].draft \in Drafts

\* A row that has the version a worker read has the status it read.
Fenced(w) ==
  pc[w] \in GoingByRow =>
    /\ quotes[subject[w]].status # "absent"
    /\ seen[w].version <= quotes[subject[w]].version
    /\ Current(w) => quotes[subject[w]].status = seen[w].status

\* A delivery has the approved draft, and records it when it is sent.
Delivering(w) ==
  pc[w] \in Deliveries =>
    /\ quotes[subject[w]].status \in {"approved", "delivered"}
    /\ quotes[subject[w]].draft = seen[w].draft
    /\ pc[w] = "record" => sent[subject[w]] # {}

\* Steps that are taken for delivered quotes only.
AfterDelivery(w) ==
  pc[w] \in {"return", "send"} => quotes[job[w].of].status = "delivered"

\* What is sent is the draft of the row.
SentDraft(q) ==
  /\ sent[q] # {} =>
       quotes[q].status \in {"approved", "delivered"} /\ sent[q] = {quotes[q].draft}
  /\ quotes[q].status = "delivered" => sent[q] # {}
  /\ q \in texts => quotes[q].status = "delivered"

\* The delivery of an approved quote was submitted with the approval, and is only
\* done with when the quote is delivered.
DeliveryStands(q) ==
  /\ quotes[q].status = "approved" => phase[Deliver(q)] # "absent"
  /\ phase[Deliver(q)] = "done" => handled[Deliver(q)]
  /\ handled[Deliver(q)] => quotes[q].status = "delivered"

WorkerOK(w) ==
  AtItsJob(w) /\ Remembers(w) /\ Fenced(w) /\ Delivering(w) /\ AfterDelivery(w)
QuoteOK(q) == SentDraft(q) /\ DeliveryStands(q)

IInv ==
  /\ TypeOK
  /\ RowsCoherent
  /\ \A w \in Workers : WorkerOK(w)
  /\ \A q \in Messages : QuoteOK(q)

-----------------------------------------------------------------------------
(***************************************************************************)
(* The prices of a draft.                                                   *)
(***************************************************************************)

\* What is read out of a part of a request is read out of the request.
LEMMA RemainderIsWritten ==
  ASSUME NEW lines
  PROVE  Drafting!Amounts(Drafting!Remainder(lines)) \subseteq Drafting!Amounts(lines)
  BY DEF Drafting!Amounts, Drafting!Remainder

\* The items of the structured format carry the prices of their lines.
LEMMA StructuredPrices ==
  ASSUME NEW lines, NEW customer,
         Drafting!PricesStandInTheirLines(lines),
         Drafting!Structured(lines, customer) # Rejected
  PROVE  Drafting!PricesAreWritten(Drafting!Structured(lines, customer), lines)
<1> DEFINE draft == Drafting!Structured(lines, customer)
<1>1. draft.items = Drafting!Items(lines) /\ \A i \in DOMAIN lines : lines[i].ok
  BY DEF Drafting!Structured, Rejected, Drafting!Rejected
<1>2. ASSUME NEW i \in DOMAIN draft.items
      PROVE  draft.items[i].price \in Drafting!Amounts(lines)
  <2>1. i \in Drafting!LinesOf(lines, "item") /\ draft.items[i] = lines[i].value
    BY <1>1, <1>2 DEF Drafting!Items
  <2>2. i \in DOMAIN lines /\ lines[i].value.price \in lines[i].amounts
    BY <1>1, <2>1 DEF Drafting!LinesOf, Drafting!PricesStandInTheirLines
  <2> QED BY <2>1, <2>2 DEF Drafting!Amounts
<1> QED BY <1>2 DEF Drafting!PricesAreWritten

\* The items read by a model carry prices that were looked up in the text.
LEMMA FreeTextPrices ==
  ASSUME NEW lines, NEW customer, NEW reading,
         Drafting!FreeText(lines, customer, reading) # Rejected
  PROVE  Drafting!PricesAreWritten(Drafting!FreeText(lines, customer, reading), lines)
<1> DEFINE draft == Drafting!FreeText(lines, customer, reading)
           remainder == Drafting!Remainder(lines)
           read == Drafting!Read(reading)
           items == Drafting!PricedItems(remainder, read)
<1>1. draft.items = items /\ items # <<>>
  BY DEF Drafting!FreeText, Rejected, Drafting!Rejected
<1>2. /\ \A i \in DOMAIN read : Drafting!Priced(remainder, read[i])
      /\ items = [i \in DOMAIN read |-> [quantity |-> read[i].quantity, price |-> read[i].price]]
  BY <1>1 DEF Drafting!PricedItems
<1>3. ASSUME NEW i \in DOMAIN draft.items
      PROVE  draft.items[i].price \in Drafting!Amounts(lines)
  <2> HIDE DEF read, items, draft
  <2>1. i \in DOMAIN read /\ draft.items[i].price = read[i].price
    BY <1>1, <1>2, <1>3
  <2> QED BY <1>2, <2>1, RemainderIsWritten DEF Drafting!Priced
<1> QED BY <1>3 DEF Drafting!PricesAreWritten

\* Whatever the model reads, the prices of a draft are amounts of its request.
LEMMA DraftsAreWritten ==
  ASSUME NEW m \in Messages, NEW customer, NEW reading,
         Drafting!DraftOf(Wording[m], customer, reading) # Rejected
  PROVE  Drafting!PricesAreWritten(Drafting!DraftOf(Wording[m], customer, reading), Wording[m])
<1>1. Drafting!PricesStandInTheirLines(Wording[m])
  BY QuoteAssumption
<1>2. \/ /\ Drafting!DraftOf(Wording[m], customer, reading) = Drafting!Structured(Wording[m], customer)
         /\ Drafting!Structured(Wording[m], customer) # Rejected
      \/ Drafting!DraftOf(Wording[m], customer, reading)
           = Drafting!FreeText(Wording[m], customer, reading)
  BY DEF Drafting!DraftOf, Rejected
<1> QED BY <1>1, <1>2, StructuredPrices, FreeTextPrices
-----------------------------------------------------------------------------
(***************************************************************************)
(* Commands and rows.                                                       *)
(***************************************************************************)

LEMMA CommandTypes ==
  /\ \A q \in Messages : Process(q) \in Commands /\ Deliver(q) \in Commands /\ TextLink(q) \in Commands
  /\ \A c \in Commands : c.of \in Messages /\ c.does \in {"process", "deliver", "text"}
  /\ \A c \in Commands : c.does = "deliver" => c = Deliver(c.of)
  /\ None \notin Commands /\ None \notin Messages /\ None \notin Workers
  BY QuoteAssumption DEF Commands, Process, Deliver, TextLink

LEMMA SubmitCommand ==
  ASSUME Queue!TypeOK, NEW c \in Commands, Queue!Submit(c)
  PROVE  /\ Queue!TypeOK' /\ handled' = handled
         /\ phase'[c] = "queued"
         /\ \A d \in Commands : d # c => phase'[d] = phase[d]
  BY DEF Queue!TypeOK, Queue!Submit

LEMMA HandleCommand ==
  ASSUME Queue!TypeOK, NEW c \in Commands, Queue!Handle(c)
  PROVE  /\ Queue!TypeOK' /\ phase' = phase
         /\ \A d \in Commands : d # c => handled'[d] = handled[d]
  BY DEF Queue!TypeOK, Queue!Handle

LEMMA RowVersions ==
  ASSUME NEW row \in Rows
  PROVE  /\ row.version \in Nat /\ row.version + 1 \in Nat
         /\ row.revision \in Nat /\ row.revision + 1 \in Nat
  BY DEF Rows

\* Rows with the number of a later version, or of a later revision, in them.
LEMMA NumberedRow ==
  ASSUME NEW row \in Rows, NEW n \in Nat
  PROVE  /\ \A m \in Messages : [row EXCEPT !.last = m, !.version = n] \in Rows
         /\ [row EXCEPT !.status = "drafting", !.revision = n] \in Rows
         /\ [row EXCEPT !.status = "delivered", !.version = n] \in Rows
         /\ [row EXCEPT !.viewed = TRUE, !.version = n] \in Rows
  BY DEF Rows, Statuses

\* A save makes a row of a row, of the same piece.
LEMMA ChangedRow ==
  ASSUME NEW row \in Rows, NEW m \in Messages, NEW write \in Writes,
         Coherent(row), row.status \in Expected(write),
         write = "apply" => row.draft \in Drafts
  PROVE  /\ Changed(write, row, m) \in Rows
         /\ Coherent(Changed(write, row, m))
         /\ Changed(write, row, m).version = row.version + 1
         /\ Changed(write, row, m).last = m
         /\ Changed(write, row, m).status \notin {"absent", "delivered"}
         /\ Changed(write, row, m).status = "approved" => write = "approve"
         /\ write \in {"correct", "select"} => Changed(write, row, m).status = "drafting"
<1> DEFINE next == [row EXCEPT !.last = m, !.version = @ + 1]
           new == Changed(write, row, m)
<1>1. /\ next \in Rows /\ next.last = m /\ next.version = row.version + 1
      /\ next.status = row.status /\ next.draft = row.draft /\ next.request = row.request
  BY RowVersions, NumberedRow DEF Rows
<1>2. row.status # "absent"
  BY DEF Expected, Writes, OwnerCommands, Deliveries
<1>3. /\ row.request \in Messages
      /\ row.draft # None => Drafting!PricesAreWritten(row.draft, Wording[row.request])
  BY <1>2 DEF Coherent
<1>4. CASE write = "approve"
  <2>1. new = [next EXCEPT !.status = "approved"]
    BY <1>4 DEF Changed
  <2>2. row.draft \in Drafts
    BY <1>4 DEF Expected, Coherent, OwnerCommands, Deliveries
  <2> HIDE DEF next, new
  <2>3. /\ new \in Rows /\ new.last = m /\ new.version = row.version + 1
        /\ new.status = "approved" /\ new.draft = row.draft /\ new.request = row.request
    BY <1>1, <2>1 DEF Rows, Statuses
  <2> USE DEF new
  <2> QED BY <1>3, <1>4, <2>2, <2>3 DEF Coherent
<1>5. CASE write \in {"reject", "abandon"}
  <2>1. new = [next EXCEPT !.status = "rejected"]
    BY <1>5 DEF Changed, Dismissed
  <2> HIDE DEF next, new
  <2>2. /\ new \in Rows /\ new.last = m /\ new.version = row.version + 1
        /\ new.status = "rejected" /\ new.draft = row.draft /\ new.request = row.request
    BY <1>1, <2>1 DEF Rows, Statuses
  <2> USE DEF new
  <2> QED BY <1>3, <1>5, <2>2 DEF Coherent
<1>6. CASE write = "correct"
  <2> DEFINE begun == [next EXCEPT !.status = "drafting", !.revision = @ + 1]
  <2>1. new = [begun EXCEPT !.request = m, !.draft = None]
    BY <1>6 DEF Changed, Corrected
  <2> HIDE DEF next, new
  <2>2. /\ begun \in Rows /\ begun.last = m /\ begun.version = row.version + 1
        /\ begun.status = "drafting"
    BY <1>1, RowVersions, NumberedRow DEF Rows
  <2> HIDE DEF begun
  <2>3. /\ new \in Rows /\ new.last = m /\ new.version = row.version + 1
        /\ new.status = "drafting" /\ new.draft = None /\ new.request = m
    BY <2>1, <2>2 DEF Rows
  <2> USE DEF new
  <2> QED BY <1>6, <2>3 DEF Coherent
<1>7. CASE write = "select"
  <2>1. new = [next EXCEPT !.status = "drafting", !.picked = TRUE]
    BY <1>7 DEF Changed
  <2> HIDE DEF next, new
  <2>2. /\ new \in Rows /\ new.last = m /\ new.version = row.version + 1
        /\ new.status = "drafting" /\ new.draft = row.draft /\ new.request = row.request
    BY <1>1, <2>1 DEF Rows, Statuses
  <2> USE DEF new
  <2> QED BY <1>3, <1>7, <2>2 DEF Coherent
<1>8. CASE write = "ask"
  <2>1. new = [next EXCEPT !.status = "selection", !.picked = FALSE]
    BY <1>8 DEF Changed
  <2> HIDE DEF next, new
  <2>2. /\ new \in Rows /\ new.last = m /\ new.version = row.version + 1
        /\ new.status = "selection" /\ new.draft = row.draft /\ new.request = row.request
    BY <1>1, <2>1 DEF Rows, Statuses
  <2> USE DEF new
  <2> QED BY <1>3, <1>8, <2>2 DEF Coherent
<1>9. CASE write = "apply"
  <2>1. new = [next EXCEPT !.status = "awaiting"]
    BY <1>9 DEF Changed
  <2> HIDE DEF next, new
  <2>2. /\ new \in Rows /\ new.last = m /\ new.version = row.version + 1
        /\ new.status = "awaiting" /\ new.draft = row.draft /\ new.request = row.request
    BY <1>1, <2>1 DEF Rows, Statuses
  <2> USE DEF new
  <2> QED BY <1>3, <1>9, <2>2 DEF Coherent
<1> QED BY <1>4, <1>5, <1>6, <1>7, <1>8, <1>9 DEF Writes

LEMMA NewRowIsARow ==
  ASSUME NEW m \in Messages
  PROVE  /\ NoRow \in Rows /\ Coherent(NoRow)
         /\ NewRow(m) \in Rows /\ Coherent(NewRow(m))
         /\ NewRow(m).status = "drafting" /\ NewRow(m).version = 1
  BY CommandTypes DEF NoRow, NewRow, Rows, Statuses, Coherent

LEMMA NoRowIsARow == NoRow \in Rows /\ Coherent(NoRow)
  BY CommandTypes DEF NoRow, Rows, Statuses, Coherent

\* What a delivery records.
LEMMA DeliveredRow ==
  ASSUME NEW row \in Rows, Coherent(row), row.status = "approved",
         NEW new, new = [row EXCEPT !.status = "delivered", !.version = @ + 1]
  PROVE  /\ new \in Rows /\ Coherent(new)
         /\ new.status = "delivered" /\ new.version = row.version + 1 /\ new.draft = row.draft
<1>1. new \in Rows
  BY RowVersions, NumberedRow
<1>2. /\ new.status = "delivered" /\ new.version = row.version + 1
      /\ new.draft = row.draft /\ new.request = row.request
  BY DEF Rows
<1> QED BY <1>1, <1>2 DEF Coherent

LEMMA ViewedRow ==
  ASSUME NEW row \in Rows, Coherent(row), row.status # "absent",
         NEW new, new = [row EXCEPT !.viewed = TRUE, !.version = @ + 1]
  PROVE  /\ new \in Rows /\ Coherent(new)
         /\ new.status = row.status /\ new.version = row.version + 1 /\ new.draft = row.draft
<1>1. new \in Rows
  BY RowVersions, NumberedRow
<1>2. /\ new.status = row.status /\ new.version = row.version + 1
      /\ new.draft = row.draft /\ new.request = row.request
  BY DEF Rows
<1> QED BY <1>1, <1>2 DEF Coherent

-----------------------------------------------------------------------------
(***************************************************************************)
(* What another worker's step does to a worker and to a quote.              *)
(***************************************************************************)

\* A row stays, or is saved with a later version: from a decided status only on
\* to delivered, and with its draft.
Saved(old, new) ==
  /\ new.version > old.version
  /\ new.status # "absent"
  /\ old.status = "rejected" => new.status = "rejected"
  /\ old.status = "approved" => new.status \in {"approved", "delivered"}
  /\ old.status = "delivered" => new.status = "delivered"
  /\ old.status \in {"approved", "delivered", "rejected"} => new.draft = old.draft
Moves == \A q \in Messages : quotes'[q] = quotes[q] \/ Saved(quotes[q], quotes'[q])

Untouched(v) ==
  pc'[v] = pc[v] /\ job'[v] = job[v] /\ subject'[v] = subject[v] /\ seen'[v] = seen[v]

\* A worker that takes no step keeps what it knows.
LEMMA OthersStand ==
  ASSUME TypeOK, TypeOK', Moves, \A q \in Messages : sent[q] \subseteq sent'[q],
         NEW v \in Workers, WorkerOK(v), Untouched(v)
  PROVE  WorkerOK(v)'
<1>1. AtItsJob(v)' /\ Remembers(v)'
  BY DEF WorkerOK, AtItsJob, Remembers, Untouched, Coherent
<1>2. CASE pc[v] \in GoingByRow
  <2> DEFINE q == subject[v]
  <2>1. /\ q \in Messages /\ seen[v].version \in Nat
        /\ quotes[q].version \in Nat /\ quotes'[q].version \in Nat
    BY <1>2 DEF WorkerOK, AtItsJob, TypeOK, Rows
  <2>2. Fenced(v)'
    BY <1>2, <2>1 DEF Moves, Saved, Untouched, WorkerOK, Fenced, Current
  <2>3. Delivering(v)'
    BY <1>2, <2>1 DEF Moves, Saved, Untouched, WorkerOK, Delivering, Deliveries
  <2>4. AfterDelivery(v)'
    BY <1>2 DEF Untouched, AfterDelivery, GoingByRow, Writes, Deliveries
  <2> QED BY <1>1, <2>2, <2>3, <2>4 DEF WorkerOK
<1>3. CASE pc[v] \notin GoingByRow
  <2>1. Fenced(v)' /\ Delivering(v)'
    BY <1>3 DEF Untouched, Fenced, Delivering, GoingByRow
  <2>2. AfterDelivery(v)'
    <3> SUFFICES ASSUME pc[v] \in {"return", "send"} PROVE quotes'[job[v].of].status = "delivered"
      BY DEF AfterDelivery, Untouched
    <3>1. job[v].of \in Messages
      BY CommandTypes DEF WorkerOK, AtItsJob
    <3> QED BY <3>1 DEF WorkerOK, AfterDelivery, Moves, Saved
  <2> QED BY <1>1, <2>1, <2>2 DEF WorkerOK
<1> QED BY <1>2, <1>3

\* A worker that is not at a step where it goes by its row has little to keep.
LEMMA NotByRow ==
  ASSUME NEW v \in Workers, WorkerOK(v),
         pc'[v] \notin GoingByRow \cup {"return", "send"}, AtItsJob(v)', Coherent(seen'[v])
  PROVE  WorkerOK(v)'
  BY DEF WorkerOK, AtItsJob, Remembers, Fenced, Delivering, AfterDelivery, GoingByRow, Writes,
         Deliveries, Coherent

\* What is sent and texted stays the draft of a delivered quote.
LEMMA SentStands ==
  ASSUME NEW q \in Messages, SentDraft(q), sent'[q] = sent[q], q \in texts' => q \in texts,
         quotes'[q] = quotes[q] \/ Saved(quotes[q], quotes'[q]),
         quotes'[q].status = "delivered" => sent[q] # {}
  PROVE  SentDraft(q)'
  BY DEF SentDraft, Saved

\* A queue step that is not about the delivery of q, and no approval of q.
LEMMA DeliveryGoesOn ==
  ASSUME NEW q \in Messages, DeliveryStands(q),
         quotes'[q] = quotes[q] \/ Saved(quotes[q], quotes'[q]),
         quotes'[q].status = "approved" => quotes[q].status = "approved",
         phase'[Deliver(q)] = phase[Deliver(q)] \/ (phase[Deliver(q)] = "absent" /\ phase'[Deliver(q)] = "queued"),
         handled'[Deliver(q)] = handled[Deliver(q)]
  PROVE  DeliveryStands(q)'
  BY DEF DeliveryStands, Saved, Deliver

-----------------------------------------------------------------------------
(***************************************************************************)
(* Every step keeps IInv.  Of a step of worker w remains to be shown that    *)
(* types are kept, what w knows, and what is new about the quotes.           *)
(***************************************************************************)
OthersUntouched(w) == \A v \in Workers \ {w} : Untouched(v)

LEMMA StepKeeps ==
  ASSUME IInv, TypeOK', RowsCoherent', Moves, \A q \in Messages : sent[q] \subseteq sent'[q],
         NEW w \in Workers, OthersUntouched(w), WorkerOK(w)', \A q \in Messages : QuoteOK(q)'
  PROVE  IInv'
<1>1. ASSUME NEW v \in Workers, v # w
      PROVE  WorkerOK(v)'
  BY <1>1, OthersStand DEF IInv, OthersUntouched
<1> QED BY <1>1 DEF IInv

LEMMA QuotesKept ==
  ASSUME IInv, quotes' = quotes
  PROVE  RowsCoherent' /\ Moves
  BY DEF IInv, RowsCoherent, Coherent, Moves

LEMMA QueueStepKeeps ==
  ASSUME IInv, TypeOK', quotes' = quotes, sent' = sent, texts' = texts, handled' = handled,
         \A q \in Messages : phase'[Deliver(q)] = phase[Deliver(q)],
         NEW w \in Workers, OthersUntouched(w), WorkerOK(w)'
  PROVE  IInv'
<1>1. RowsCoherent' /\ Moves
  BY QuotesKept
<1>2. \A q \in Messages : QuoteOK(q)'
  BY DEF IInv, QuoteOK, SentDraft, DeliveryStands, Deliver
<1> QED BY <1>1, <1>2, StepKeeps

LEMMA ReadingKeeps ==
  ASSUME IInv, TypeOK', ReadsOnly, NEW w \in Workers, OthersUntouched(w), WorkerOK(w)'
  PROVE  IInv'
  BY QueueStepKeeps DEF ReadsOnly, queueVars

\* What a worker at a step knows of types.
LEMMA AtStep ==
  ASSUME IInv, NEW w \in Workers
  PROVE  /\ TypeOK /\ Queue!TypeOK /\ WorkerOK(w) /\ Coherent(seen[w]) /\ seen[w] \in Rows
         /\ pc[w] \in Steps
         /\ pc[w] # "idle" => job[w] \in Commands /\ job[w].of \in Messages
         /\ \A q \in Messages : quotes[q] \in Rows /\ Coherent(quotes[q]) /\ QuoteOK(q)
  BY CommandTypes DEF IInv, TypeOK, WorkerOK, AtItsJob, Remembers, RowsCoherent

\* A worker that only moves on to a step where its row does not matter.
LEMMA MovesOn ==
  ASSUME IInv, NEW w \in Workers, NEW step \in Steps,
         step \notin GoingByRow \cup {"return", "send", "idle"},
         pc' = [pc EXCEPT ![w] = step], job' = job,
         pc[w] # "idle",
         step \in MessageSteps => pc[w] \in MessageSteps,
         step \in DeliverySteps => pc[w] \in DeliverySteps,
         step # "text",
         UNCHANGED <<subject, seen>>
  PROVE  OthersUntouched(w) /\ WorkerOK(w)' /\ pc' \in [Workers -> Steps]
<1>1. pc'[w] = step /\ pc' \in [Workers -> Steps] /\ OthersUntouched(w)
  BY DEF IInv, TypeOK, OthersUntouched, Untouched
<1>2. AtItsJob(w)'
  BY <1>1, AtStep DEF WorkerOK, AtItsJob, GoingByRow
<1>3. Coherent(seen'[w])
  BY AtStep DEF Coherent
<1>4. pc'[w] \notin GoingByRow \cup {"return", "send"}
  BY <1>1
<1> QED BY <1>1, <1>2, <1>3, <1>4, AtStep, NotByRow

\* The row a worker reads is the current one.
LEMMA LoadedRow ==
  ASSUME IInv, NEW w \in Workers, NEW q \in Messages, Load(w, q), NEW step \in Steps,
         pc' = [pc EXCEPT ![w] = step], job' = job, quotes' = quotes, sent' = sent,
         pc[w] # "idle",
         step \in MessageSteps => pc[w] \in MessageSteps,
         step \in DeliverySteps => pc[w] \in DeliverySteps,
         step \in GoingByRow =>
           quotes[q].status # "absent" /\ quotes[q].status \in Expected(step) /\ step # "apply",
         step \in Deliveries => q = job[w].of /\ step = "provider",
         step \notin {"return", "send", "text", "idle"}
  PROVE  /\ OthersUntouched(w) /\ WorkerOK(w)' /\ pc' \in [Workers -> Steps]
         /\ subject' \in [Workers -> Messages \cup {None}] /\ seen' \in [Workers -> Rows]
<1>1. /\ pc'[w] = step /\ subject'[w] = q /\ seen'[w] = quotes[q] /\ job'[w] = job[w]
      /\ pc' \in [Workers -> Steps] /\ OthersUntouched(w)
      /\ subject' \in [Workers -> Messages \cup {None}] /\ seen' \in [Workers -> Rows]
  BY AtStep DEF TypeOK, OthersUntouched, Untouched, Load
<1>2. AtItsJob(w)'
  BY <1>1, AtStep DEF WorkerOK, AtItsJob
<1>3. Remembers(w)'
  <2>1. Coherent(seen'[w])
    BY <1>1, AtStep
  <2>2. step # "apply"
    BY DEF GoingByRow, Writes
  <2> QED BY <1>1, <2>1, <2>2 DEF Remembers, Coherent
<1>4. Fenced(w)'
  <2>1. quotes[q].version \in Nat
    BY AtStep DEF Rows
  <2> QED BY <1>1, <2>1 DEF Fenced, Current
<1>5. Delivering(w)'
  <2>1. step \in Deliveries => quotes[q].status = "approved" /\ step \in GoingByRow
    BY DEF Expected, Deliveries, GoingByRow, OwnerCommands
  <2> QED BY <1>1, <2>1 DEF Delivering
<1>6. AfterDelivery(w)'
  BY <1>1 DEF AfterDelivery
<1> QED BY <1>1, <1>2, <1>3, <1>4, <1>5, <1>6 DEF WorkerOK

-----------------------------------------------------------------------------
(***************************************************************************)
(* The steps of a message that only read.                                   *)
(***************************************************************************)
LEMMA ResolveKeeps ==
  ASSUME IInv, NEW w \in Workers, Resolve(w)
  PROVE  IInv'
<1>1. PICK step \in {"lookup", "reply"} : pc' = [pc EXCEPT ![w] = step]
  BY DEF Resolve, Goto
<1>2. OthersUntouched(w) /\ WorkerOK(w)' /\ pc' \in [Workers -> Steps]
  BY <1>1, MovesOn DEF Resolve, ReadsOnly, Steps, GoingByRow, Writes, Deliveries, DeliverySteps,
     MessageSteps
<1>3. TypeOK'
  BY <1>2, AtStep DEF TypeOK, Resolve, ReadsOnly, queueVars, claimVars, messageVars, Queue!TypeOK
<1> QED BY <1>2, <1>3, ReadingKeeps DEF Resolve

LEMMA LookUpKeeps ==
  ASSUME IInv, NEW w \in Workers, LookUp(w)
  PROVE  IInv'
<1>1. CASE pc' = [pc EXCEPT ![w] = "active"] /\ UNCHANGED <<subject, seen>>
  <2>1. OthersUntouched(w) /\ WorkerOK(w)' /\ pc' \in [Workers -> Steps]
    BY <1>1, MovesOn DEF LookUp, ReadsOnly, Steps, GoingByRow, Writes, Deliveries, DeliverySteps,
       MessageSteps
  <2>2. TypeOK'
    BY <1>1, <2>1, AtStep DEF TypeOK, LookUp, ReadsOnly, queueVars, claimVars, messageVars, Queue!TypeOK
  <2> QED BY <2>1, <2>2, ReadingKeeps DEF LookUp
<1>2. CASE \E q \in Messages : /\ quotes[q].last = job[w].of
                               /\ Load(w, q)
                               /\ Goto(w, IF quotes[q].status = "drafting" THEN "draft" ELSE "reply")
  <2>1. PICK q \in Messages : /\ quotes[q].last = job[w].of
                              /\ Load(w, q)
                              /\ Goto(w, IF quotes[q].status = "drafting" THEN "draft" ELSE "reply")
    BY <1>2
  <2>2. PICK step \in {"draft", "reply"} :
          /\ pc' = [pc EXCEPT ![w] = step]
          /\ step = "draft" => quotes[q].status = "drafting"
    BY <2>1 DEF Goto
  <2>3. quotes' = quotes /\ sent' = sent /\ job' = job /\ pc[w] = "lookup"
    BY DEF LookUp, ReadsOnly
  <2>4. /\ step \in Steps /\ step \notin {"return", "send", "text", "idle"}
        /\ step \notin DeliverySteps /\ step \notin Deliveries /\ pc[w] \in MessageSteps
        /\ step \in GoingByRow =>
             quotes[q].status # "absent" /\ quotes[q].status \in Expected(step) /\ step # "apply"
    <3>1. Expected("draft") = {"drafting"}
      BY DEF Expected, OwnerCommands, Deliveries
    <3> QED BY <2>2, <2>3, <3>1 DEF Steps, GoingByRow, Writes, Deliveries, DeliverySteps, MessageSteps
  <2>5. /\ OthersUntouched(w) /\ WorkerOK(w)' /\ pc' \in [Workers -> Steps]
        /\ subject' \in [Workers -> Messages \cup {None}] /\ seen' \in [Workers -> Rows]
    BY <2>1, <2>2, <2>3, <2>4, LoadedRow
  <2>6. TypeOK'
    BY <2>5, AtStep DEF TypeOK, LookUp, ReadsOnly, queueVars, claimVars, messageVars, Queue!TypeOK
  <2> QED BY <2>5, <2>6, ReadingKeeps DEF LookUp
<1> QED BY <1>1, <1>2 DEF LookUp, Goto

\* What a message does to the active quote fits its status.
LEMMA ReactionFits ==
  ASSUME NEW kind, NEW status \in Statuses
  PROVE  /\ Reaction(kind, status) \in {"abandon", "select", "reply"} \cup OwnerCommands
         /\ Reaction(kind, status) # "reply" => status \in Expected(Reaction(kind, status))
         /\ Reaction(kind, status) # "reply" => status # "absent"
  BY DEF Reaction, Expected, OwnerCommands, Deliveries, Statuses

LEMMA ReadActiveKeeps ==
  ASSUME IInv, NEW w \in Workers, ReadActive(w)
  PROVE  IInv'
<1> DEFINE m == job[w].of
<1>1. CASE \E q \in Messages : Load(w, q) /\ Goto(w, Reaction(text[m], quotes[q].status))
  <2>1. PICK q \in Messages : Load(w, q) /\ Goto(w, Reaction(text[m], quotes[q].status))
    BY <1>1
  <2> DEFINE step == Reaction(text[m], quotes[q].status)
  <2>2. pc' = [pc EXCEPT ![w] = step]
    BY <2>1 DEF Goto
  <2>3. quotes' = quotes /\ sent' = sent /\ job' = job /\ pc[w] = "active"
    BY DEF ReadActive, ReadsOnly
  <2>4. quotes[q].status \in Statuses
    BY AtStep DEF Rows
  <2>5. /\ step \in {"abandon", "select", "reply"} \cup OwnerCommands
        /\ step # "reply" => quotes[q].status \in Expected(step) /\ quotes[q].status # "absent"
    BY <2>4, ReactionFits
  <2> HIDE DEF step
  <2>6. /\ step \in Steps /\ step \notin {"return", "send", "text", "idle"}
        /\ step \notin DeliverySteps /\ step \notin Deliveries /\ pc[w] \in MessageSteps
        /\ step \in GoingByRow =>
             quotes[q].status # "absent" /\ quotes[q].status \in Expected(step) /\ step # "apply"
    BY <2>3, <2>5 DEF Steps, GoingByRow, Writes, Deliveries, DeliverySteps, MessageSteps,
       OwnerCommands
  <2>7. /\ OthersUntouched(w) /\ WorkerOK(w)' /\ pc' \in [Workers -> Steps]
        /\ subject' \in [Workers -> Messages \cup {None}] /\ seen' \in [Workers -> Rows]
    BY <2>1, <2>2, <2>3, <2>6, LoadedRow
  <2>8. TypeOK'
    BY <2>7, AtStep DEF TypeOK, ReadActive, ReadsOnly, queueVars, claimVars, messageVars, Queue!TypeOK
  <2> QED BY <2>7, <2>8, ReadingKeeps DEF ReadActive
<1>2. CASE /\ Goto(w, CASE text[m] \in OwnerCommands -> "reply"
                        [] text[m] = "quote" -> "add"
                        [] OTHER -> "raised")
           /\ UNCHANGED <<subject, seen>>
  <2> DEFINE chosen == CASE text[m] \in OwnerCommands -> "reply"
                         [] text[m] = "quote" -> "add"
                         [] OTHER -> "raised"
  <2>0. chosen \in {"reply", "add", "raised"}
    OBVIOUS
  <2>1. PICK step \in {"reply", "add", "raised"} : pc' = [pc EXCEPT ![w] = step]
    <3> HIDE DEF chosen
    <3>1. Goto(w, chosen)
      BY <1>2 DEF chosen
    <3> QED BY <2>0, <3>1 DEF Goto
  <2>2. OthersUntouched(w) /\ WorkerOK(w)' /\ pc' \in [Workers -> Steps]
    BY <1>2, <2>1, MovesOn DEF ReadActive, ReadsOnly, Steps, GoingByRow, Writes, Deliveries,
       DeliverySteps, MessageSteps
  <2>3. TypeOK'
    BY <1>2, <2>2, AtStep DEF TypeOK, ReadActive, ReadsOnly, queueVars, claimVars, messageVars, Queue!TypeOK
  <2> QED BY <2>2, <2>3, ReadingKeeps DEF ReadActive
<1> QED BY <1>1, <1>2 DEF ReadActive, ActiveQuotes

LEMMA WriteConflictsKeeps ==
  ASSUME IInv, NEW w \in Workers, WriteConflicts(w)
  PROVE  IInv'
<1>1. PICK step \in {"conflict", "raised"} : pc' = [pc EXCEPT ![w] = step]
  BY DEF WriteConflicts, Goto
<1>2. OthersUntouched(w) /\ WorkerOK(w)' /\ pc' \in [Workers -> Steps]
  BY <1>1, MovesOn DEF WriteConflicts, ReadsOnly, Steps, GoingByRow, Writes, Deliveries,
     DeliverySteps, MessageSteps
<1>3. TypeOK'
  BY <1>2, AtStep DEF TypeOK, WriteConflicts, ReadsOnly, queueVars, claimVars, messageVars, Queue!TypeOK
<1> QED BY <1>2, <1>3, ReadingKeeps DEF WriteConflicts

LEMMA RereadKeeps ==
  ASSUME IInv, NEW w \in Workers, Reread(w)
  PROVE  IInv'
<1>1. PICK step \in {"reply", "raised"} : pc' = [pc EXCEPT ![w] = step]
  BY DEF Reread, Goto
<1>2. OthersUntouched(w) /\ WorkerOK(w)' /\ pc' \in [Workers -> Steps]
  BY <1>1, MovesOn DEF Reread, ReadsOnly, Steps, GoingByRow, Writes, Deliveries, DeliverySteps,
     MessageSteps
<1>3. TypeOK'
  BY <1>2, AtStep DEF TypeOK, Reread, ReadsOnly, queueVars, claimVars, messageVars, Queue!TypeOK
<1> QED BY <1>2, <1>3, ReadingKeeps DEF Reread

\* A draft that is proposed is one of the drafts, with prices of its request.
LEMMA DraftingChanges ==
  ASSUME NEW row \in Rows, Coherent(row), row.status = "drafting", NEW picked \in BOOLEAN
  PROVE  /\ [row EXCEPT !.picked = picked] \in Rows
         /\ Coherent([row EXCEPT !.picked = picked])
         /\ [row EXCEPT !.picked = picked].status = "drafting"
         /\ [row EXCEPT !.picked = picked].version = row.version
         /\ \A reading \in Readings :
              LET draft == Drafting!DraftOf(Wording[row.request], Customer(picked), reading)
                  new == [row EXCEPT !.picked = picked, !.draft = draft] IN
              draft # Rejected =>
                /\ new \in Rows /\ Coherent(new) /\ new.draft \in Drafts
                /\ new.status = "drafting" /\ new.version = row.version
<1>1. row.request \in Messages
  BY DEF Coherent
<1>2. /\ [row EXCEPT !.picked = picked] \in Rows
      /\ [row EXCEPT !.picked = picked].status = "drafting"
      /\ [row EXCEPT !.picked = picked].version = row.version
      /\ [row EXCEPT !.picked = picked].draft = row.draft
      /\ [row EXCEPT !.picked = picked].request = row.request
  BY DEF Rows
<1>3. Coherent([row EXCEPT !.picked = picked])
  BY <1>1, <1>2 DEF Coherent
<1>4. ASSUME NEW reading \in Readings, NEW draft,
             draft = Drafting!DraftOf(Wording[row.request], Customer(picked), reading),
             draft # Rejected
      PROVE  LET new == [row EXCEPT !.picked = picked, !.draft = draft] IN
             /\ new \in Rows /\ Coherent(new) /\ new.draft \in Drafts
             /\ new.status = "drafting" /\ new.version = row.version
  <2> DEFINE new == [row EXCEPT !.picked = picked, !.draft = draft]
  <2>1. draft \in Drafts
    BY <1>1, <1>4 DEF Drafts
  <2>2. /\ new \in Rows /\ new.status = "drafting" /\ new.version = row.version
        /\ new.draft = draft /\ new.request = row.request
    BY <2>1 DEF Rows
  <2>3. Drafting!PricesAreWritten(draft, Wording[row.request])
    BY <1>1, <1>4, DraftsAreWritten
  <2> HIDE DEF new
  <2>4. Coherent(new)
    BY <1>1, <2>1, <2>2, <2>3 DEF Coherent
  <2> QED BY <2>1, <2>2, <2>4 DEF new
<1> QED BY <1>2, <1>3, <1>4

\* After a drafting, the fence is the one the drafting had.
LEMMA DraftedKeeps ==
  ASSUME IInv, NEW w \in Workers, pc[w] = "draft", ReadsOnly, UNCHANGED subject,
         NEW step \in {"abandon", "ask", "apply", "raised"}, pc' = [pc EXCEPT ![w] = step],
         NEW new \in Rows, seen' = [seen EXCEPT ![w] = new], Coherent(new),
         new.status = "drafting", new.version = seen[w].version,
         step = "apply" => new.draft \in Drafts
  PROVE  IInv'
<1>1. /\ pc'[w] = step /\ subject'[w] = subject[w] /\ seen'[w] = new /\ job'[w] = job[w]
      /\ pc' \in [Workers -> Steps] /\ seen' \in [Workers -> Rows] /\ OthersUntouched(w)
  BY AtStep DEF TypeOK, OthersUntouched, Untouched, ReadsOnly, Steps, Writes
<1>2. AtItsJob(w)'
  BY <1>1, AtStep DEF WorkerOK, AtItsJob, MessageSteps, DeliverySteps, Deliveries, GoingByRow, Writes
<1>3. /\ Expected("abandon") = {"drafting", "selection"}
      /\ Expected("ask") = {"drafting"} /\ Expected("apply") = {"drafting"}
      /\ Expected("draft") = {"drafting"}
  BY DEF Expected, OwnerCommands, Deliveries
<1>4. Remembers(w)'
  <2>1. Coherent(seen'[w])
    BY <1>1
  <2> QED BY <1>1, <1>3, <2>1 DEF Remembers, Coherent, GoingByRow, Writes, Deliveries
<1>5. Fenced(w)'
  <2>1. Fenced(w) /\ pc[w] \in GoingByRow /\ seen[w].status = "drafting"
    BY <1>3, AtStep DEF WorkerOK, Remembers, GoingByRow
  <2> QED BY <1>1, <2>1 DEF Fenced, Current, ReadsOnly
<1>6. Delivering(w)' /\ AfterDelivery(w)'
  BY <1>1 DEF Delivering, AfterDelivery, Deliveries
<1>7. WorkerOK(w)'
  BY <1>2, <1>4, <1>5, <1>6 DEF WorkerOK
<1>8. TypeOK'
  BY <1>1, AtStep DEF TypeOK, ReadsOnly, queueVars, claimVars, messageVars, Queue!TypeOK
<1> QED BY <1>1, <1>7, <1>8, ReadingKeeps

LEMMA DraftKeeps ==
  ASSUME IInv, NEW w \in Workers, Draft(w)
  PROVE  IInv'
<1>1. /\ pc[w] = "draft" /\ ReadsOnly /\ UNCHANGED subject
      /\ seen \in [Workers -> Rows] /\ seen[w] \in Rows /\ Coherent(seen[w])
  BY AtStep DEF Draft, TypeOK
<1>2. seen[w].status = "drafting"
  BY <1>1, AtStep DEF WorkerOK, Remembers, Expected, OwnerCommands, Deliveries, GoingByRow
<1>3. ASSUME NEW step \in {"abandon", "ask", "raised"}, Goto(w, step), seen' = seen
      PROVE  IInv'
  <2>1. seen' = [seen EXCEPT ![w] = seen[w]]
    BY <1>1, <1>3
  <2>2. pc' = [pc EXCEPT ![w] = step]
    BY <1>3 DEF Goto
  <2> QED BY <1>1, <1>2, <1>3, <2>1, <2>2, DraftedKeeps
<1>4. ASSUME NEW picked \in BOOLEAN, Proposed(w, picked)
      PROVE  IInv'
  <2>1. PICK reading \in Readings :
          LET draft == Drafting!DraftOf(Wording[seen[w].request], Customer(picked), reading) IN
          IF draft = Rejected
          THEN Goto(w, "abandon") /\ seen' = [seen EXCEPT ![w].picked = picked]
          ELSE Goto(w, "apply") /\ seen' = [seen EXCEPT ![w].picked = picked, ![w].draft = draft]
    BY <1>4 DEF Proposed
  <2> DEFINE draft == Drafting!DraftOf(Wording[seen[w].request], Customer(picked), reading)
  <2>2. CASE draft = Rejected
    <3> DEFINE new == [seen[w] EXCEPT !.picked = picked]
    <3>1. /\ pc' = [pc EXCEPT ![w] = "abandon"]
          /\ seen' = [seen EXCEPT ![w] = new]
      BY <2>1, <2>2 DEF Goto
    <3>2. new \in Rows /\ Coherent(new) /\ new.status = "drafting" /\ new.version = seen[w].version
      BY <1>1, <1>2, DraftingChanges
    <3> HIDE DEF new
    <3> QED BY <1>1, <3>1, <3>2, DraftedKeeps
  <2>3. CASE draft # Rejected
    <3> DEFINE new == [seen[w] EXCEPT !.picked = picked, !.draft = draft]
    <3>1. /\ pc' = [pc EXCEPT ![w] = "apply"]
          /\ seen' = [seen EXCEPT ![w].picked = picked, ![w].draft = draft]
      BY <2>1, <2>3 DEF Goto
    <3>2. seen' = [seen EXCEPT ![w] = new]
      BY <1>1, <3>1
    <3>3. /\ new \in Rows /\ Coherent(new) /\ new.draft \in Drafts
          /\ new.status = "drafting" /\ new.version = seen[w].version
      <4>1. \A r \in Readings :
              LET d == Drafting!DraftOf(Wording[seen[w].request], Customer(picked), r)
                  n == [seen[w] EXCEPT !.picked = picked, !.draft = d] IN
              d # Rejected =>
                /\ n \in Rows /\ Coherent(n) /\ n.draft \in Drafts
                /\ n.status = "drafting" /\ n.version = seen[w].version
        BY <1>1, <1>2, <1>4, DraftingChanges
      <4> QED BY <2>3, <4>1, Zenon
    <3> HIDE DEF new
    <3> QED BY <1>1, <3>1, <3>2, <3>3, DraftedKeeps
  <2> QED BY <2>2, <2>3
<1>5. seen[w].picked \in BOOLEAN
  BY <1>1 DEF Rows
<1> QED BY <1>3, <1>4, <1>5 DEF Draft, NoAppointment

-----------------------------------------------------------------------------
(***************************************************************************)
(* The steps of a message that save or answer.                              *)
(***************************************************************************)
LEMMA AddKeeps ==
  ASSUME IInv, NEW w \in Workers, Add(w)
  PROVE  IInv' /\ Moves
<1> DEFINE m == job[w].of
<1>1. pc[w] = "add" /\ m \in Messages /\ job[w] \in Commands
  BY AtStep DEF Add
<1>2. CASE /\ quotes[m].status = "absent"
           /\ quotes' = [quotes EXCEPT ![m] = NewRow(m)]
           /\ subject' = [subject EXCEPT ![w] = m]
           /\ seen' = [seen EXCEPT ![w] = NewRow(m)]
           /\ Goto(w, "draft")
  <2>1. /\ NewRow(m) \in Rows /\ Coherent(NewRow(m))
        /\ NewRow(m).status = "drafting" /\ NewRow(m).version = 1
    BY <1>1, NewRowIsARow
  <2>2. /\ pc'[w] = "draft" /\ subject'[w] = m /\ seen'[w] = NewRow(m) /\ job'[w] = job[w]
        /\ quotes'[m] = NewRow(m) /\ \A q \in Messages \ {m} : quotes'[q] = quotes[q]
        /\ OthersUntouched(w)
    BY <1>1, <1>2, AtStep DEF TypeOK, OthersUntouched, Untouched, Goto, Add, memory
  <2>3. TypeOK'
    BY <1>1, <1>2, <2>1, AtStep DEF TypeOK, Add, Goto, Steps, queueVars, claimVars, messageVars,
       Queue!TypeOK
  <2>4. quotes[m] = NoRow
    BY <1>1, <1>2, AtStep DEF Coherent
  <2>5. Moves
    BY <2>1, <2>2, <2>4 DEF Moves, Saved, NoRow
  <2>6. RowsCoherent'
    <3> SUFFICES ASSUME NEW q \in Messages PROVE Coherent(quotes'[q])
      BY DEF RowsCoherent, Coherent
    <3> QED BY <2>1, <2>2, AtStep
  <2>7. WorkerOK(w)'
    <3>1. AtItsJob(w)'
      BY <1>1, <2>2, AtStep DEF WorkerOK, AtItsJob, MessageSteps, DeliverySteps, Deliveries
    <3>2. Remembers(w)'
      <4>1. Coherent(seen'[w])
        BY <2>1, <2>2
      <4>2. Expected("draft") = {"drafting"}
        BY DEF Expected, OwnerCommands, Deliveries
      <4> QED BY <2>1, <2>2, <4>1, <4>2 DEF Remembers, Coherent
    <3>3. Fenced(w)'
      BY <2>1, <2>2 DEF Fenced, Current
    <3>4. Delivering(w)' /\ AfterDelivery(w)'
      BY <2>2 DEF Delivering, AfterDelivery, Deliveries
    <3> QED BY <3>1, <3>2, <3>3, <3>4 DEF WorkerOK
  <2>8. ASSUME NEW q \in Messages PROVE QuoteOK(q)'
    <3>1. /\ sent' = sent /\ texts' = texts /\ phase' = phase /\ handled' = handled
      BY DEF Add, queueVars
    <3>2. /\ quotes'[q].status \in {"approved", "delivered"} => quotes'[q] = quotes[q]
          /\ quotes'[q] = quotes[q] \/ Saved(quotes[q], quotes'[q])
      BY <2>1, <2>2, <2>5 DEF Moves
    <3>3. SentDraft(q)'
      BY <3>1, <3>2, AtStep, SentStands DEF QuoteOK, SentDraft
    <3>4. DeliveryStands(q)'
      BY <3>1, <3>2, AtStep, DeliveryGoesOn DEF QuoteOK
    <3> QED BY <3>3, <3>4 DEF QuoteOK
  <2>9. \A q \in Messages : sent[q] \subseteq sent'[q]
    BY DEF Add
  <2> QED BY <2>2, <2>3, <2>5, <2>6, <2>7, <2>8, <2>9, StepKeeps
<1>3. CASE Goto(w, "raised") /\ UNCHANGED <<quotes, subject, seen>>
  <2>1. OthersUntouched(w) /\ WorkerOK(w)' /\ pc' \in [Workers -> Steps]
    BY <1>1, <1>3, MovesOn DEF Add, Goto, Steps, GoingByRow, Writes, Deliveries, DeliverySteps,
       MessageSteps
  <2>2. TypeOK'
    BY <1>3, <2>1, AtStep DEF TypeOK, Add, queueVars, claimVars, messageVars, Queue!TypeOK
  <2> QED BY <1>3, <2>1, <2>2, QueueStepKeeps, QuotesKept DEF Add, queueVars
<1> QED BY <1>2, <1>3 DEF Add

LEMMA WriteKeeps ==
  ASSUME IInv, NEW w \in Workers, Write(w)
  PROVE  IInv' /\ Moves
<1> DEFINE q == subject[w]
           m == job[w].of
           new == Changed(pc[w], seen[w], m)
<1>1. /\ pc[w] \in Writes /\ pc[w] \in GoingByRow /\ pc[w] \in MessageSteps /\ pc[w] # "idle"
      /\ q \in Messages /\ m \in Messages /\ job[w] \in Commands /\ job[w].does = "process"
      /\ seen[w] \in Rows /\ Coherent(seen[w]) /\ seen[w].status \in Expected(pc[w])
      /\ pc[w] = "apply" => seen[w].draft \in Drafts
  BY AtStep DEF Write, GoingByRow, MessageSteps, WorkerOK, AtItsJob, Remembers, Writes
<1>2. /\ new \in Rows /\ Coherent(new) /\ new.version = seen[w].version + 1
      /\ new.status \notin {"absent", "delivered"}
      /\ new.status = "approved" => pc[w] = "approve"
      /\ pc[w] \in {"correct", "select"} => new.status = "drafting"
  BY <1>1, ChangedRow
<1>3. /\ quotes[q].version = seen[w].version /\ quotes[q].status = seen[w].status
      /\ seen[w].version \in Nat
  BY <1>1, AtStep DEF Write, Current, WorkerOK, Fenced, Rows
<1>4. quotes[q].status \in {"drafting", "selection", "awaiting"}
  BY <1>1, <1>3 DEF Expected, Writes, OwnerCommands, Deliveries
<1>5. PICK step \in {"draft", "reply"} :
        /\ pc' = [pc EXCEPT ![w] = step]
        /\ step = "draft" => pc[w] \in {"correct", "select"}
  BY DEF Write, Goto, After
<1> HIDE DEF new
<1>6. /\ quotes' = [quotes EXCEPT ![q] = new] /\ seen' = [seen EXCEPT ![w] = new]
      /\ job' = job /\ subject' = subject /\ sent' = sent /\ texts' = texts
  BY DEF Write, new
<1>7. /\ pc'[w] = step /\ subject'[w] = q /\ seen'[w] = new /\ job'[w] = job[w]
      /\ quotes'[q] = new /\ \A r \in Messages \ {q} : quotes'[r] = quotes[r]
      /\ OthersUntouched(w)
  BY <1>1, <1>5, <1>6, AtStep DEF TypeOK, OthersUntouched, Untouched
<1>8. /\ Queue!TypeOK' /\ handled' = handled
      /\ \A r \in Messages : \/ phase'[Deliver(r)] = phase[Deliver(r)]
                             \/ phase[Deliver(r)] = "absent" /\ phase'[Deliver(r)] = "queued"
      /\ pc[w] = "approve" => phase'[Deliver(q)] = "queued"
  <2>1. CASE pc[w] = "approve" /\ Queue!Submit(Deliver(q))
    <3>1. Deliver(q) \in Commands /\ phase[Deliver(q)] = "absent"
      BY <1>1, <2>1, CommandTypes DEF Queue!Submit
    <3> QED BY <2>1, <3>1, AtStep, SubmitCommand, CommandTypes
  <2>2. CASE pc[w] # "approve" /\ UNCHANGED queueVars
    BY <2>2, AtStep DEF queueVars, Queue!TypeOK
  <2> QED BY <2>1, <2>2 DEF Write
<1>9. TypeOK'
  <2>1. step \in Steps
    BY DEF Steps
  <2> QED BY <1>1, <1>2, <1>5, <1>6, <1>8, <2>1, AtStep DEF TypeOK, Write, claimVars, messageVars
<1>10. Moves
  BY <1>2, <1>3, <1>4, <1>7 DEF Moves, Saved
<1>11. RowsCoherent'
  <2> SUFFICES ASSUME NEW r \in Messages PROVE Coherent(quotes'[r])
    BY DEF RowsCoherent, Coherent
  <2> QED BY <1>2, <1>7, AtStep
<1>12. WorkerOK(w)'
  <2>1. AtItsJob(w)'
    BY <1>1, <1>7 DEF AtItsJob, MessageSteps, DeliverySteps, Deliveries
  <2>2. Remembers(w)'
    <3>1. Coherent(seen'[w])
      BY <1>2, <1>7
    <3>2. Expected("draft") = {"drafting"}
      BY DEF Expected, OwnerCommands, Deliveries
    <3> QED BY <1>2, <1>5, <1>7, <3>1, <3>2 DEF Remembers, Coherent, GoingByRow, Writes, Deliveries
  <2>3. Fenced(w)'
    <3>1. new.version \in Nat
      BY <1>2 DEF Rows
    <3> QED BY <1>2, <1>7, <3>1 DEF Fenced, Current
  <2>4. Delivering(w)' /\ AfterDelivery(w)'
    BY <1>7 DEF Delivering, AfterDelivery, Deliveries
  <2> QED BY <2>1, <2>2, <2>3, <2>4 DEF WorkerOK
<1>13. ASSUME NEW r \in Messages PROVE QuoteOK(r)'
  <2>1. SentDraft(r)'
    <3>1. /\ quotes'[r].status = "delivered" => sent[r] # {}
          /\ quotes'[r] = quotes[r] \/ Saved(quotes[r], quotes'[r])
      BY <1>2, <1>7, <1>10, AtStep DEF Moves, QuoteOK, SentDraft
    <3> QED BY <1>6, <3>1, AtStep, SentStands DEF QuoteOK
  <2>2. DeliveryStands(r)'
    <3>1. CASE r = q
      BY <1>2, <1>4, <1>7, <1>8, <3>1, AtStep DEF QuoteOK, DeliveryStands, Deliver
    <3>2. CASE r # q
      BY <1>7, <1>8, <3>2, AtStep, DeliveryGoesOn DEF QuoteOK
    <3> QED BY <3>1, <3>2
  <2> QED BY <2>1, <2>2 DEF QuoteOK
<1>14. \A r \in Messages : sent[r] \subseteq sent'[r]
  BY <1>6
<1> QED BY <1>7, <1>9, <1>10, <1>11, <1>12, <1>13, <1>14, StepKeeps

LEMMA StoreReplyKeeps ==
  ASSUME IInv, NEW w \in Workers, StoreReply(w)
  PROVE  IInv'
<1>1. /\ pc[w] = "reply" /\ job[w] \in Commands /\ job[w].does = "process" /\ job[w].of \in Messages
      /\ \A q \in Messages : job[w] # Deliver(q)
  BY AtStep DEF StoreReply, WorkerOK, AtItsJob, MessageSteps, Deliver
<1>2. PICK step \in {"ok", "error"} : pc' = [pc EXCEPT ![w] = step]
  BY DEF StoreReply, Goto
<1>3. OthersUntouched(w) /\ WorkerOK(w)' /\ pc' \in [Workers -> Steps]
  BY <1>1, <1>2, MovesOn DEF StoreReply, memory, Steps, GoingByRow, Writes, Deliveries,
     DeliverySteps, MessageSteps
<1>4. /\ Queue!TypeOK' /\ phase' = phase /\ \A q \in Messages : handled'[Deliver(q)] = handled[Deliver(q)]
  <2>1. CASE Queue!Handle(job[w])
    BY <1>1, <2>1, AtStep, HandleCommand, CommandTypes
  <2>2. CASE UNCHANGED queueVars
    BY <2>2, AtStep DEF queueVars, Queue!TypeOK
  <2> QED BY <2>1, <2>2 DEF StoreReply
<1>5. TypeOK'
  BY <1>1, <1>3, <1>4, AtStep DEF TypeOK, StoreReply, claimVars, memory
<1>6. RowsCoherent' /\ Moves /\ quotes' = quotes /\ sent' = sent /\ texts' = texts
  BY QuotesKept DEF StoreReply
<1>7. \A q \in Messages : QuoteOK(q)'
  BY <1>4, <1>6, AtStep DEF QuoteOK, SentDraft, DeliveryStands, Deliver
<1> QED BY <1>3, <1>5, <1>6, <1>7, StepKeeps

LEMMA FinishFailedKeeps ==
  ASSUME IInv, NEW w \in Workers, FinishFailed(w)
  PROVE  IInv'
<1>1. OthersUntouched(w) /\ WorkerOK(w)' /\ pc' \in [Workers -> Steps]
  BY MovesOn DEF FinishFailed, Goto, memory, Steps, GoingByRow, Writes, Deliveries,
     DeliverySteps, MessageSteps
<1>2. TypeOK'
  BY <1>1, AtStep DEF TypeOK, FinishFailed, queueVars, claimVars, memory, Queue!TypeOK
<1> QED BY <1>1, <1>2, QueueStepKeeps DEF FinishFailed, queueVars

-----------------------------------------------------------------------------
(***************************************************************************)
(* The steps of a delivery and of a text.                                   *)
(***************************************************************************)

\* A worker at a delivery has the command to deliver its quote.
LEMMA AtDelivery ==
  ASSUME IInv, NEW w \in Workers, pc[w] \in DeliverySteps
  PROVE  /\ job[w].of \in Messages /\ job[w] = Deliver(job[w].of) /\ job[w] \in Commands
         /\ \A q \in Messages : q # job[w].of => Deliver(q) # job[w]
         /\ pc[w] \in Deliveries => subject[w] = job[w].of
<1>1. job[w] \in Commands /\ job[w].of \in Messages /\ job[w].does = "deliver"
  BY AtStep DEF WorkerOK, AtItsJob, DeliverySteps
<1>2. job[w] = Deliver(job[w].of)
  BY <1>1, CommandTypes
<1>3. \A q \in Messages : q # job[w].of => Deliver(q) # job[w]
  BY <1>1 DEF Deliver
<1> QED BY <1>1, <1>2, <1>3, AtStep DEF WorkerOK, AtItsJob

\* The delivery of a delivered quote is reported handled.
LEMMA HandledKeeps ==
  ASSUME IInv, NEW w \in Workers, pc[w] \in DeliverySteps,
         quotes' = quotes, sent' = sent, texts' = texts,
         \/ Queue!Handle(job[w]) /\ quotes[job[w].of].status = "delivered"
         \/ UNCHANGED queueVars
  PROVE  /\ Queue!TypeOK' /\ \A q \in Messages : QuoteOK(q)'
<1>1. CASE Queue!Handle(job[w]) /\ quotes[job[w].of].status = "delivered"
  <2>1. /\ Queue!TypeOK' /\ phase' = phase
        /\ \A q \in Messages : q # job[w].of => handled'[Deliver(q)] = handled[Deliver(q)]
        /\ handled'[job[w]] = TRUE
    BY ZenonT(40), <1>1, AtStep, AtDelivery, HandleCommand, CommandTypes DEF Queue!Handle, Queue!TypeOK
  <2>2. ASSUME NEW q \in Messages PROVE QuoteOK(q)'
    <3>1. SentDraft(q)'
      BY AtStep DEF QuoteOK, SentDraft
    <3>2. DeliveryStands(q)'
      BY <1>1, <2>1, AtStep, AtDelivery DEF QuoteOK, DeliveryStands, Deliver
    <3> QED BY <3>1, <3>2 DEF QuoteOK
  <2> QED BY <2>1, <2>2
<1>2. CASE UNCHANGED queueVars
  BY <1>2, AtStep DEF queueVars, Queue!TypeOK, QuoteOK, SentDraft, DeliveryStands, Deliver
<1> QED BY <1>1, <1>2

LEMMA ReadForDeliveryKeeps ==
  ASSUME IInv, NEW w \in Workers, ReadForDelivery(w)
  PROVE  IInv'
<1> DEFINE q == job[w].of
           step == CASE quotes[q].status = "delivered" -> "ok"
                     [] Deliverable(quotes[q]) -> "provider"
                     [] OTHER -> "error"
<1>1. /\ pc[w] = "read" /\ pc[w] \in DeliverySteps /\ q \in Messages /\ Load(w, q)
      /\ quotes' = quotes /\ sent' = sent /\ texts' = texts /\ job' = job
  BY AtStep DEF ReadForDelivery, DeliverySteps
<1>2. pc' = [pc EXCEPT ![w] = step]
  BY DEF ReadForDelivery, Goto
<1>3. /\ step \in {"ok", "provider", "error"}
      /\ step = "provider" => quotes[q].status = "approved"
  BY DEF Deliverable
<1> HIDE DEF step
<1>4. /\ step \in Steps /\ step \notin {"return", "send", "text", "idle"}
      /\ step \notin MessageSteps
      /\ step \in GoingByRow =>
           quotes[q].status # "absent" /\ quotes[q].status \in Expected(step) /\ step # "apply"
      /\ step \in Deliveries => step = "provider"
  BY <1>3 DEF Steps, GoingByRow, Writes, Deliveries, MessageSteps, Expected, OwnerCommands
<1>5. /\ OthersUntouched(w) /\ WorkerOK(w)' /\ pc' \in [Workers -> Steps]
      /\ subject' \in [Workers -> Messages \cup {None}] /\ seen' \in [Workers -> Rows]
  BY <1>1, <1>2, <1>4, LoadedRow
<1>6. /\ Queue!TypeOK' /\ \A r \in Messages : QuoteOK(r)'
  BY <1>1, HandledKeeps DEF ReadForDelivery
<1>7. TypeOK'
  BY <1>1, <1>5, <1>6, AtStep DEF TypeOK, ReadForDelivery, claimVars, messageVars
<1>8. RowsCoherent' /\ Moves
  BY <1>1, QuotesKept
<1> QED BY <1>1, <1>5, <1>6, <1>7, <1>8, StepKeeps

LEMMA CallProviderKeeps ==
  ASSUME IInv, NEW w \in Workers, CallProvider(w)
  PROVE  IInv'
<1> DEFINE q == job[w].of
<1>1. /\ pc[w] = "provider" /\ q \in Messages /\ subject[w] = q /\ job[w] \in Commands
      /\ quotes' = quotes /\ texts' = texts /\ UNCHANGED queueVars /\ UNCHANGED memory
      /\ quotes[q].status \in {"approved", "delivered"} /\ quotes[q].draft = seen[w].draft
      /\ seen[w].draft \in Drafts
  <2>1. pc[w] = "provider" /\ pc[w] \in DeliverySteps /\ pc[w] \in Deliveries /\ pc[w] \in GoingByRow
    BY DEF CallProvider, DeliverySteps, Deliveries, GoingByRow
  <2>2. /\ quotes[q].status \in {"approved", "delivered"} /\ quotes[q].draft = seen[w].draft
        /\ q \in Messages /\ subject[w] = q
    BY <2>1, AtStep, AtDelivery DEF WorkerOK, Delivering
  <2>3. Coherent(quotes[q])
    BY <2>2, AtStep
  <2> QED BY <2>1, <2>2, <2>3, AtStep DEF CallProvider, Coherent
<1>2. PICK step \in {"record", "error"} :
        /\ pc' = [pc EXCEPT ![w] = step]
        /\ \/ sent' = [sent EXCEPT ![q] = @ \cup {seen[w].draft}]
           \/ sent' = sent /\ step = "error"
  BY DEF CallProvider, Goto
<1>3. /\ sent' \in [Messages -> SUBSET Drafts] /\ \A r \in Messages : sent[r] \subseteq sent'[r]
      /\ sent'[q] = {seen[w].draft} \/ (sent' = sent /\ step = "error")
      /\ \A r \in Messages \ {q} : sent'[r] = sent[r]
  BY <1>1, <1>2, AtStep DEF TypeOK, QuoteOK, SentDraft
<1>4. /\ pc'[w] = step /\ subject'[w] = q /\ seen'[w] = seen[w] /\ job'[w] = job[w]
      /\ pc' \in [Workers -> Steps] /\ OthersUntouched(w)
  BY <1>1, <1>2, AtStep DEF TypeOK, OthersUntouched, Untouched, memory, Steps
<1>5. WorkerOK(w)'
  <2>1. AtItsJob(w)'
    BY <1>1, <1>4, AtStep DEF WorkerOK, AtItsJob, MessageSteps, DeliverySteps, Deliveries,
       GoingByRow, Writes
  <2>2. Remembers(w)'
    <3>1. Coherent(seen'[w])
      BY <1>4, AtStep
    <3>2. Expected("record") = {"approved"} /\ Expected("provider") = {"approved"}
      BY DEF Expected, OwnerCommands, Deliveries
    <3>3. seen[w].status = "approved"
      BY <1>1, <3>2, AtStep DEF WorkerOK, Remembers, GoingByRow, Deliveries
    <3> QED BY <1>4, <3>1, <3>2, <3>3 DEF Remembers, Coherent, GoingByRow, Writes, Deliveries
  <2>3. Fenced(w)'
    BY <1>1, <1>4, AtStep DEF WorkerOK, Fenced, Current, GoingByRow, Deliveries
  <2>4. Delivering(w)'
    BY <1>1, <1>3, <1>4 DEF Delivering
  <2>5. AfterDelivery(w)'
    BY <1>4 DEF AfterDelivery
  <2> QED BY <2>1, <2>2, <2>3, <2>4, <2>5 DEF WorkerOK
<1>6. TypeOK'
  BY <1>1, <1>3, <1>4, AtStep DEF TypeOK, CallProvider, queueVars, claimVars, messageVars, memory,
     Queue!TypeOK
<1>7. RowsCoherent' /\ Moves
  BY <1>1, QuotesKept
<1>8. ASSUME NEW r \in Messages PROVE QuoteOK(r)'
  <2>1. SentDraft(r)'
    BY <1>1, <1>3, AtStep DEF QuoteOK, SentDraft
  <2>2. DeliveryStands(r)'
    BY <1>1, AtStep DEF QuoteOK, DeliveryStands, queueVars, Deliver
  <2> QED BY <2>1, <2>2 DEF QuoteOK
<1> QED BY <1>3, <1>4, <1>5, <1>6, <1>7, <1>8, StepKeeps

LEMMA RecordDeliveryKeeps ==
  ASSUME IInv, NEW w \in Workers, RecordDelivery(w)
  PROVE  IInv' /\ Moves
<1> DEFINE q == job[w].of
           new == [seen[w] EXCEPT !.status = "delivered", !.version = @ + 1]
<1>1. /\ pc[w] = "record" /\ q \in Messages /\ subject[w] = q /\ job[w] \in Commands
      /\ job[w].does = "deliver"
      /\ sent' = sent /\ texts' = texts /\ UNCHANGED memory
      /\ quotes[q].status \in {"approved", "delivered"} /\ quotes[q].draft = seen[w].draft
      /\ sent[q] # {} /\ seen[w].status = "approved" /\ Fenced(w)
      /\ seen[w] \in Rows /\ Coherent(seen[w]) /\ pc[w] \in GoingByRow
  <2>1. /\ pc[w] = "record" /\ pc[w] \in DeliverySteps /\ pc[w] \in Deliveries /\ pc[w] \in GoingByRow
        /\ Expected(pc[w]) = {"approved"}
    BY DEF RecordDelivery, DeliverySteps, Deliveries, GoingByRow, Expected, OwnerCommands
  <2> QED BY <2>1, AtStep, AtDelivery DEF RecordDelivery, WorkerOK, Delivering, AtItsJob, Remembers
<1>2. CASE /\ Current(w)
           /\ quotes' = [quotes EXCEPT ![q] = new]
           /\ EnqueueText(q)
           /\ Goto(w, "return")
  <2>1. /\ quotes[q].version = seen[w].version /\ quotes[q].status = "approved"
        /\ seen[w].version \in Nat
    BY <1>1, <1>2 DEF Fenced, Current, Rows
  <2>2. /\ new \in Rows /\ Coherent(new) /\ new.status = "delivered"
        /\ new.version = seen[w].version + 1 /\ new.draft = seen[w].draft
    BY <1>1, DeliveredRow
  <2> HIDE DEF new
  <2>3. /\ quotes'[q] = new /\ \A r \in Messages \ {q} : quotes'[r] = quotes[r]
        /\ pc'[w] = "return" /\ job'[w] = job[w] /\ seen'[w] = seen[w]
        /\ pc' \in [Workers -> Steps] /\ OthersUntouched(w)
    BY <1>1, <1>2, AtStep DEF TypeOK, Goto, OthersUntouched, Untouched, memory, Steps
  <2>4. /\ Queue!TypeOK' /\ handled' = handled
        /\ \A r \in Messages : phase'[Deliver(r)] = phase[Deliver(r)]
    <3>1. CASE Queue!Submit(TextLink(q))
      <4>1. TextLink(q) \in Commands /\ \A r \in Messages : Deliver(r) \in Commands
        BY <1>1, CommandTypes
      <4>2. \A r \in Messages : Deliver(r) # TextLink(q)
        BY DEF TextLink, Deliver
      <4> QED BY <3>1, <4>1, <4>2, AtStep, SubmitCommand
    <3>2. CASE UNCHANGED queueVars
      BY <3>2, AtStep DEF queueVars, Queue!TypeOK
    <3> QED BY <1>2, <3>1, <3>2 DEF EnqueueText
  <2>5. TypeOK'
    BY <1>1, <1>2, <2>2, <2>3, <2>4, AtStep DEF TypeOK, RecordDelivery, claimVars, messageVars, memory
  <2>6. Moves
    BY <1>1, <2>1, <2>2, <2>3 DEF Moves, Saved
  <2>7. RowsCoherent'
    <3> SUFFICES ASSUME NEW r \in Messages PROVE Coherent(quotes'[r])
      BY DEF RowsCoherent, Coherent
    <3> QED BY <2>2, <2>3, AtStep
  <2>8. WorkerOK(w)'
    <3>1. AtItsJob(w)'
      BY <1>1, <2>3 DEF AtItsJob, MessageSteps, DeliverySteps, Deliveries, GoingByRow, Writes
    <3>2. Remembers(w)'
      <4>1. Coherent(seen'[w])
        BY <1>1, <2>3
      <4> QED BY <2>3, <4>1 DEF Remembers, Coherent, GoingByRow, Writes, Deliveries
    <3>3. Fenced(w)' /\ Delivering(w)'
      BY <2>3 DEF Fenced, Delivering, GoingByRow, Writes, Deliveries
    <3>4. AfterDelivery(w)'
      BY <2>2, <2>3 DEF AfterDelivery
    <3> QED BY <3>1, <3>2, <3>3, <3>4 DEF WorkerOK
  <2>9. ASSUME NEW r \in Messages PROVE QuoteOK(r)'
    <3>1. SentDraft(r)'
      <4>1. /\ quotes'[r].status = "delivered" => sent[r] # {}
            /\ quotes'[r] = quotes[r] \/ Saved(quotes[r], quotes'[r])
        BY <1>1, <2>3, <2>6, AtStep DEF Moves, QuoteOK, SentDraft
      <4> QED BY <1>1, <4>1, AtStep, SentStands DEF QuoteOK
    <3>2. DeliveryStands(r)'
      BY <2>1, <2>2, <2>3, <2>4, AtStep DEF QuoteOK, DeliveryStands, Deliver
    <3> QED BY <3>1, <3>2 DEF QuoteOK
  <2>10. \A r \in Messages : sent[r] \subseteq sent'[r]
    BY <1>1
  <2> QED BY <2>3, <2>5, <2>6, <2>7, <2>8, <2>9, <2>10, StepKeeps
<1>3. CASE Goto(w, "recheck") /\ UNCHANGED <<quotes, queueVars>>
  <2>1. OthersUntouched(w) /\ WorkerOK(w)' /\ pc' \in [Workers -> Steps]
    BY <1>1, <1>3, MovesOn DEF Goto, memory, Steps, GoingByRow, Writes, Deliveries, DeliverySteps,
       MessageSteps
  <2>2. TypeOK'
    BY <1>1, <1>3, <2>1, AtStep DEF TypeOK, RecordDelivery, queueVars, claimVars, messageVars, memory,
       Queue!TypeOK
  <2> QED BY <1>1, <1>3, <2>1, <2>2, QueueStepKeeps, QuotesKept DEF queueVars
<1> QED BY <1>2, <1>3 DEF RecordDelivery

LEMMA RecheckKeeps ==
  ASSUME IInv, NEW w \in Workers, Recheck(w)
  PROVE  IInv'
<1>1. /\ pc[w] = "recheck" /\ pc[w] \in DeliverySteps /\ quotes' = quotes /\ sent' = sent
      /\ texts' = texts /\ UNCHANGED memory
  BY DEF Recheck, DeliverySteps
<1>2. PICK step \in {"ok", "error"} : pc' = [pc EXCEPT ![w] = step]
  BY DEF Recheck, Goto
<1>3. OthersUntouched(w) /\ WorkerOK(w)' /\ pc' \in [Workers -> Steps]
  BY <1>1, <1>2, MovesOn DEF memory, Steps, GoingByRow, Writes, Deliveries, DeliverySteps,
     MessageSteps
<1>4. /\ Queue!TypeOK' /\ \A q \in Messages : QuoteOK(q)'
  BY <1>1, HandledKeeps DEF Recheck, DeliveredByOther
<1>5. TypeOK'
  BY <1>1, <1>3, <1>4, AtStep DEF TypeOK, Recheck, claimVars, messageVars, memory
<1>6. RowsCoherent' /\ Moves
  BY <1>1, QuotesKept
<1> QED BY <1>1, <1>3, <1>4, <1>5, <1>6, StepKeeps

LEMMA ReturnKeeps ==
  ASSUME IInv, NEW w \in Workers, Return(w)
  PROVE  IInv'
<1>1. /\ pc[w] = "return" /\ pc[w] \in DeliverySteps /\ quotes' = quotes /\ sent' = sent
      /\ texts' = texts /\ UNCHANGED memory
  BY DEF Return, DeliverySteps
<1>2. quotes[job[w].of].status = "delivered"
  BY <1>1, AtStep DEF WorkerOK, AfterDelivery
<1>3. OthersUntouched(w) /\ WorkerOK(w)' /\ pc' \in [Workers -> Steps]
  BY <1>1, MovesOn DEF Return, Goto, memory, Steps, GoingByRow, Writes, Deliveries, DeliverySteps,
     MessageSteps
<1>4. /\ Queue!TypeOK' /\ \A q \in Messages : QuoteOK(q)'
  BY <1>1, <1>2, HandledKeeps DEF Return
<1>5. TypeOK'
  BY <1>1, <1>3, <1>4, AtStep DEF TypeOK, Return, claimVars, messageVars, memory
<1>6. RowsCoherent' /\ Moves
  BY <1>1, QuotesKept
<1> QED BY <1>1, <1>3, <1>4, <1>5, <1>6, StepKeeps

\* What a text handles is no delivery.
LEMMA TextHandled ==
  ASSUME IInv, NEW w \in Workers, pc[w] \in {"text", "send"},
         Queue!Handle(job[w]) \/ UNCHANGED queueVars
  PROVE  /\ Queue!TypeOK' /\ phase' = phase
         /\ \A q \in Messages : handled'[Deliver(q)] = handled[Deliver(q)]
<1>1. /\ job[w] \in Commands /\ \A q \in Messages : Deliver(q) \in Commands /\ Deliver(q) # job[w]
  BY AtStep, CommandTypes DEF WorkerOK, AtItsJob, Deliver
<1>2. CASE Queue!Handle(job[w])
  BY <1>1, <1>2, AtStep, HandleCommand
<1>3. CASE UNCHANGED queueVars
  BY <1>3, AtStep DEF queueVars, Queue!TypeOK
<1> QED BY <1>2, <1>3

LEMMA ReadForTextKeeps ==
  ASSUME IInv, NEW w \in Workers, ReadForText(w)
  PROVE  IInv'
<1>1. /\ pc[w] = "text" /\ quotes[job[w].of].status = "delivered" /\ job[w] \in Commands
      /\ job[w].does = "text"
      /\ quotes' = quotes /\ sent' = sent /\ texts' = texts /\ UNCHANGED memory
  BY AtStep DEF ReadForText, WorkerOK, AtItsJob
<1>2. PICK step \in {"send", "ok"} : pc' = [pc EXCEPT ![w] = step]
  BY DEF ReadForText, Goto
<1>3. /\ Queue!TypeOK' /\ phase' = phase
      /\ \A q \in Messages : handled'[Deliver(q)] = handled[Deliver(q)]
  BY <1>1, TextHandled DEF ReadForText
<1>4. /\ pc'[w] = step /\ job'[w] = job[w] /\ seen'[w] = seen[w]
      /\ pc' \in [Workers -> Steps] /\ OthersUntouched(w)
  BY <1>1, <1>2, AtStep DEF TypeOK, OthersUntouched, Untouched, memory, Steps
<1>5. WorkerOK(w)'
  <2>1. AtItsJob(w)'
    BY <1>1, <1>4 DEF AtItsJob, MessageSteps, DeliverySteps, Deliveries, GoingByRow, Writes
  <2>2. Coherent(seen'[w]) /\ pc'[w] \notin GoingByRow
    BY <1>4, AtStep DEF GoingByRow, Writes, Deliveries
  <2>3. Remembers(w)' /\ Fenced(w)' /\ Delivering(w)'
    BY <1>4, <2>2 DEF Remembers, Coherent, Fenced, Delivering, GoingByRow, Writes
  <2>4. AfterDelivery(w)'
    BY <1>1, <1>4 DEF AfterDelivery
  <2> QED BY <2>1, <2>3, <2>4 DEF WorkerOK
<1>6. TypeOK'
  BY <1>1, <1>3, <1>4, AtStep DEF TypeOK, ReadForText, claimVars, messageVars, memory
<1>7. RowsCoherent' /\ Moves
  BY <1>1, QuotesKept
<1>8. \A q \in Messages : QuoteOK(q)'
  BY <1>1, <1>3, AtStep DEF QuoteOK, SentDraft, DeliveryStands, Deliver
<1> QED BY <1>1, <1>4, <1>5, <1>6, <1>7, <1>8, StepKeeps

LEMMA SendTextKeeps ==
  ASSUME IInv, NEW w \in Workers, SendText(w)
  PROVE  IInv'
<1>1. /\ pc[w] = "send" /\ job[w] \in Commands /\ job[w].of \in Messages
      /\ quotes[job[w].of].status = "delivered"
      /\ quotes' = quotes /\ sent' = sent /\ UNCHANGED memory
      /\ texts' \in {texts, texts \cup {job[w].of}}
  BY AtStep DEF SendText, WorkerOK, AfterDelivery
<1>2. PICK step \in {"ok", "error"} : pc' = [pc EXCEPT ![w] = step]
  BY DEF SendText, Goto
<1>3. OthersUntouched(w) /\ WorkerOK(w)' /\ pc' \in [Workers -> Steps]
  BY <1>1, <1>2, MovesOn DEF memory, Steps, GoingByRow, Writes, Deliveries, DeliverySteps,
     MessageSteps
<1>4. /\ Queue!TypeOK' /\ phase' = phase
      /\ \A q \in Messages : handled'[Deliver(q)] = handled[Deliver(q)]
  BY <1>1, TextHandled DEF SendText
<1>5. TypeOK'
  BY <1>1, <1>3, <1>4, AtStep DEF TypeOK, SendText, claimVars, messageVars, memory
<1>6. RowsCoherent' /\ Moves
  BY <1>1, QuotesKept
<1>7. \A q \in Messages : QuoteOK(q)'
  BY <1>1, <1>4, AtStep DEF QuoteOK, SentDraft, DeliveryStands, Deliver
<1> QED BY <1>1, <1>3, <1>5, <1>6, <1>7, StepKeeps

-----------------------------------------------------------------------------
(***************************************************************************)
(* The channel, the customer and the outbox.                                *)
(***************************************************************************)

\* A step that no worker takes.
LEMMA OutsideKeeps ==
  ASSUME IInv, TypeOK', RowsCoherent', Moves, UNCHANGED <<pc, memory, sent>>,
         \A q \in Messages : QuoteOK(q)'
  PROVE  IInv'
<1>1. ASSUME NEW v \in Workers PROVE WorkerOK(v)'
  BY OthersStand DEF IInv, Untouched, memory
<1> QED BY <1>1 DEF IInv

LEMMA SendKeeps ==
  ASSUME IInv, NEW m \in Messages, Send(m)
  PROVE  IInv'
<1>1. TypeOK /\ Queue!TypeOK /\ Process(m) \in Commands
  BY CommandTypes DEF IInv, TypeOK
<1>2. /\ Queue!TypeOK' /\ handled' = handled
      /\ \A q \in Messages : phase'[Deliver(q)] = phase[Deliver(q)]
  <2>1. \A q \in Messages : Deliver(q) \in Commands /\ Deliver(q) # Process(m)
    BY CommandTypes DEF Deliver, Process
  <2> QED BY <1>1, <2>1, SubmitCommand DEF Send
<1>3. text' \in [Messages -> Kinds \cup {None}]
  BY <1>1, QuoteAssumption DEF Send, TypeOK
<1>4. TypeOK'
  BY <1>1, <1>2, <1>3 DEF TypeOK, Send, claimVars, memory
<1>5. RowsCoherent' /\ Moves
  BY QuotesKept DEF Send
<1>6. \A q \in Messages : QuoteOK(q)'
  BY <1>2 DEF IInv, Send, QuoteOK, SentDraft, DeliveryStands, Deliver
<1> QED BY <1>4, <1>5, <1>6, OutsideKeeps DEF Send

LEMMA ViewKeeps ==
  ASSUME IInv, NEW q \in Messages, View(q)
  PROVE  IInv' /\ Moves
<1> DEFINE new == [quotes[q] EXCEPT !.viewed = TRUE, !.version = @ + 1]
<1>1. /\ TypeOK /\ quotes[q] \in Rows /\ Coherent(quotes[q]) /\ quotes[q].version \in Nat
      /\ quotes \in [Messages -> Rows]
  BY DEF IInv, TypeOK, RowsCoherent, Rows
<1>2. quotes' = [quotes EXCEPT ![q] = new]
  BY <1>1 DEF View
<1>3. /\ new \in Rows /\ Coherent(new) /\ new.status = quotes[q].status
      /\ new.version = quotes[q].version + 1 /\ new.draft = quotes[q].draft
      /\ quotes[q].status \in {"approved", "delivered"}
  BY <1>1, ViewedRow DEF View
<1> HIDE DEF new
<1>4. quotes'[q] = new /\ \A r \in Messages \ {q} : quotes'[r] = quotes[r]
  BY <1>1, <1>2
<1>5. TypeOK'
  BY ZenonT(40), <1>1, <1>2, <1>3 DEF TypeOK, View, queueVars, claimVars, messageVars, memory, Queue!TypeOK
<1>6. Moves
  BY <1>1, <1>3, <1>4 DEF Moves, Saved
<1>7. RowsCoherent'
  <2> SUFFICES ASSUME NEW r \in Messages PROVE Coherent(quotes'[r])
    BY DEF RowsCoherent, Coherent
  <2> QED BY <1>3, <1>4 DEF IInv, RowsCoherent
<1>8. \A r \in Messages : QuoteOK(r)'
  BY ZenonT(40), <1>3, <1>4 DEF IInv, View, queueVars, QuoteOK, SentDraft, DeliveryStands, Deliver
<1> QED BY <1>5, <1>6, <1>7, <1>8, OutsideKeeps DEF View

LEMMA BeginKeeps ==
  ASSUME IInv, NEW w \in Workers, NEW c \in Commands, Begin(w, c)
  PROVE  IInv'
<1> DEFINE step == CASE c.does = "deliver" -> "read"
                     [] c.does = "text" -> "text"
                     [] c.does = "process" /\ c.of \in answered -> "ok"
                     [] c.does = "process" /\ c.of \in routed -> "lookup"
                     [] OTHER -> "resolve"
<1>1. /\ step \in {"read", "text", "ok", "lookup", "resolve"}
      /\ step = "read" => c.does = "deliver"
      /\ step = "text" => c.does = "text"
      /\ step \in {"lookup", "resolve"} => c.does = "process"
  BY CommandTypes
<1>2. pc' = [pc EXCEPT ![w] = step] /\ job' = [job EXCEPT ![w] = c]
  BY DEF Begin
<1> HIDE DEF step
<1>3. /\ pc'[w] = step /\ job'[w] = c /\ seen'[w] = seen[w]
      /\ pc' \in [Workers -> Steps] /\ OthersUntouched(w)
  BY <1>1, <1>2, AtStep DEF TypeOK, OthersUntouched, Untouched, Begin, Steps
<1>4. WorkerOK(w)'
  <2>1. AtItsJob(w)'
    BY <1>1, <1>3 DEF AtItsJob, MessageSteps, DeliverySteps, Deliveries, GoingByRow, Writes
  <2>2. Coherent(seen'[w]) /\ pc'[w] \notin GoingByRow \cup {"return", "send"}
    BY <1>1, <1>3, AtStep DEF GoingByRow, Writes, Deliveries
  <2> QED BY <2>1, <2>2, AtStep, NotByRow
<1>5. TypeOK'
  BY <1>2, <1>3, AtStep DEF TypeOK, Begin, queueVars, messageVars, Queue!TypeOK
<1> QED BY <1>3, <1>4, <1>5, QueueStepKeeps DEF Begin, queueVars

LEMMA ForgetForgets ==
  ASSUME IInv, NEW w \in Workers, Forget(w)
  PROVE  /\ WorkerOK(w)' /\ OthersUntouched(w)
         /\ pc' \in [Workers -> Steps] /\ job' \in [Workers -> Commands \cup {None}]
         /\ subject' \in [Workers -> Messages \cup {None}] /\ seen' \in [Workers -> Rows]
<1>1. /\ pc'[w] = "idle" /\ seen'[w] = NoRow /\ OthersUntouched(w)
      /\ pc' \in [Workers -> Steps] /\ job' \in [Workers -> Commands \cup {None}]
      /\ subject' \in [Workers -> Messages \cup {None}] /\ seen' \in [Workers -> Rows]
  BY AtStep, NoRowIsARow DEF TypeOK, OthersUntouched, Untouched, Forget, Steps
<1>2. AtItsJob(w)'
  BY <1>1 DEF AtItsJob, MessageSteps, DeliverySteps, Deliveries, GoingByRow, Writes
<1>3. Coherent(seen'[w]) /\ pc'[w] \notin GoingByRow \cup {"return", "send"}
  BY <1>1, NoRowIsARow DEF GoingByRow, Writes, Deliveries
<1> QED BY <1>1, <1>2, <1>3, AtStep, NotByRow

LEMMA EndKeeps ==
  ASSUME IInv, NEW w \in Workers, End(w)
  PROVE  IInv'
<1> DEFINE c == job[w]
<1>1. c \in Commands /\ Forget(w)
  BY AtStep DEF End
<1>2. /\ Queue!TypeOK' /\ handled' = handled /\ newest' \in [Commands -> Workers \cup {None}]
      /\ \A d \in Commands : \/ phase'[d] = phase[d]
                             \/ phase[d] = "queued" /\ phase'[d] = "dead"
                             \/ phase[d] = "queued" /\ handled[d] /\ phase'[d] = "done"
  BY <1>1, AtStep DEF End, TypeOK, queueVars, Queue!Finish, Queue!GiveUp, Queue!TypeOK
<1>3. TypeOK'
  BY <1>1, <1>2, ForgetForgets, AtStep DEF TypeOK, End, messageVars
<1>4. RowsCoherent' /\ Moves
  BY QuotesKept DEF End
<1>5. ASSUME NEW q \in Messages PROVE QuoteOK(q)'
  <2>1. SentDraft(q)'
    BY AtStep DEF End, QuoteOK, SentDraft
  <2>2. DeliveryStands(q)'
    <3>1. Deliver(q) \in Commands
      BY CommandTypes
    <3> QED BY <1>2, <3>1, AtStep DEF End, QuoteOK, DeliveryStands, Deliver
  <2> QED BY <2>1, <2>2 DEF QuoteOK
<1>6. \A q \in Messages : sent[q] \subseteq sent'[q]
  BY DEF End
<1> QED BY <1>1, <1>3, <1>4, <1>5, <1>6, ForgetForgets, StepKeeps

LEMMA CrashKeeps ==
  ASSUME IInv, NEW w \in Workers, Crash(w)
  PROVE  IInv'
<1>1. WorkerOK(w)' /\ OthersUntouched(w)
  BY ForgetForgets DEF Crash
<1>2. TypeOK'
  BY ForgetForgets, AtStep DEF TypeOK, Crash, queueVars, claimVars, messageVars, Queue!TypeOK
<1> QED BY <1>1, <1>2, QueueStepKeeps DEF Crash, queueVars

-----------------------------------------------------------------------------
LEMMA InitHolds == Init => IInv
<1> SUFFICES ASSUME Init PROVE IInv
  OBVIOUS
<1>1. TypeOK
  BY NoRowIsARow DEF Init, TypeOK, Queue!Init, Queue!TypeOK, Steps
<1>2. RowsCoherent
  BY NoRowIsARow DEF Init, RowsCoherent
<1>3. ASSUME NEW w \in Workers PROVE WorkerOK(w)
  BY NoRowIsARow DEF Init, WorkerOK, AtItsJob, Remembers, Fenced, Delivering, AfterDelivery,
     MessageSteps, DeliverySteps, Deliveries, GoingByRow, Writes
<1>4. ASSUME NEW q \in Messages PROVE QuoteOK(q)
  BY CommandTypes DEF Init, Queue!Init, QuoteOK, SentDraft, DeliveryStands, NoRow
<1> QED BY <1>1, <1>2, <1>3, <1>4 DEF IInv

LEMMA NextKeeps == IInv /\ [Next]_vars => IInv'
<1> SUFFICES ASSUME IInv, [Next]_vars PROVE IInv'
  OBVIOUS
<1>1. ASSUME NEW m \in Messages, Send(m) \/ View(m)
      PROVE  IInv'
  BY <1>1, SendKeeps, ViewKeeps
<1>2. ASSUME NEW w \in Workers, NEW c \in Commands, Begin(w, c)
      PROVE  IInv'
  BY <1>2, BeginKeeps
<1>3. ASSUME NEW w \in Workers, Handle(w)
      PROVE  IInv'
  BY <1>3, ResolveKeeps, LookUpKeeps, ReadActiveKeeps, AddKeeps, DraftKeeps, WriteKeeps,
     WriteConflictsKeeps, RereadKeeps, StoreReplyKeeps, FinishFailedKeeps DEF Handle
<1>4. ASSUME NEW w \in Workers, DeliverQuote(w)
      PROVE  IInv'
  BY <1>4, ReadForDeliveryKeeps, CallProviderKeeps, RecordDeliveryKeeps, RecheckKeeps,
     ReturnKeeps DEF DeliverQuote
<1>5. ASSUME NEW w \in Workers, TextQuote(w)
      PROVE  IInv'
  BY <1>5, ReadForTextKeeps, SendTextKeeps DEF TextQuote
<1>6. ASSUME NEW w \in Workers, End(w) \/ Crash(w)
      PROVE  IInv'
  BY <1>6, EndKeeps, CrashKeeps
<1>7. CASE UNCHANGED vars
  <2>1. TypeOK'
    BY <1>7 DEF IInv, TypeOK, Queue!TypeOK, vars, queueVars, claimVars, messageVars, memory
  <2>2. RowsCoherent' /\ Moves
    BY <1>7, QuotesKept DEF vars
  <2>3. \A q \in Messages : QuoteOK(q)'
    BY <1>7 DEF IInv, QuoteOK, SentDraft, DeliveryStands, Deliver, vars, queueVars
  <2> QED BY <1>7, <2>1, <2>2, <2>3, OutsideKeeps DEF vars
<1> QED BY <1>1, <1>2, <1>3, <1>4, <1>5, <1>6, <1>7 DEF Next, Work

\* The inductive invariant, for any messages, wordings, readings of the model,
\* workers, retries, crashes and lost leases.
THEOREM Invariance == SafeSpec => []IInv
  BY InitHolds, NextKeeps, PTL DEF SafeSpec

\* The type invariant of the quote workflow.
THEOREM TypeCorrect == SafeSpec => []TypeOK
<1>1. IInv => TypeOK
  BY DEF IInv
<1> QED BY <1>1, Invariance, PTL

\* The customer is sent the draft that was approved, and nothing else, and its
\* prices are amounts of the request: whoever handled its messages and its
\* delivery, and how often (DeliverApprovedQuoteService.deliver).
THEOREM CustomerGetsWhatWasApproved == SafeSpec => []CustomerGetsApprovedDraft
<1>1. IInv => CustomerGetsApprovedDraft
  BY DEF IInv, RowsCoherent, Coherent, QuoteOK, SentDraft, CustomerGetsApprovedDraft
<1> QED BY <1>1, Invariance, PTL

\* The delivery of an approved quote is on the outbox or dead there: it is never
\* reported done while the quote is not delivered.
THEOREM ApprovalIsNotForgotten == SafeSpec => []ApprovedIsBeingDelivered
<1>1. IInv => ApprovedIsBeingDelivered
  <2> SUFFICES ASSUME IInv, NEW q \in Messages, quotes[q].status = "approved"
               PROVE  phase[Deliver(q)] \in {"queued", "dead"}
    BY DEF ApprovedIsBeingDelivered
  <2>1. phase[Deliver(q)] \in {"absent", "queued", "done", "dead"} /\ DeliveryStands(q)
    BY CommandTypes DEF IInv, TypeOK, Queue!TypeOK, QuoteOK
  <2> QED BY <2>1 DEF DeliveryStands
<1> QED BY <1>1, Invariance, PTL

\* Every step leaves a row or saves it so.
LEMMA RowsMove == IInv /\ [Next]_vars => Moves
<1> SUFFICES ASSUME IInv, [Next]_vars PROVE Moves
  OBVIOUS
<1>1. ASSUME NEW m \in Messages, Send(m) \/ View(m)
      PROVE  Moves
  BY <1>1, ViewKeeps, QuotesKept DEF Send
<1>2. ASSUME NEW w \in Workers, Handle(w)
      PROVE  Moves
  BY <1>2, AddKeeps, WriteKeeps, QuotesKept DEF Handle, Resolve, LookUp, ReadActive, Draft,
     WriteConflicts, Reread, StoreReply, FinishFailed, ReadsOnly
<1>3. ASSUME NEW w \in Workers, DeliverQuote(w) \/ TextQuote(w)
      PROVE  Moves
  BY <1>3, RecordDeliveryKeeps, QuotesKept DEF DeliverQuote, ReadForDelivery, CallProvider,
     Recheck, Return, TextQuote, ReadForText, SendText
<1>4. ASSUME NEW w \in Workers, (\E c \in Commands : Begin(w, c)) \/ End(w) \/ Crash(w)
      PROVE  Moves
  BY <1>4, QuotesKept DEF Begin, End, Crash
<1>5. CASE UNCHANGED vars
  BY <1>5, QuotesKept DEF vars
<1> QED BY <1>1, <1>2, <1>3, <1>4, <1>5 DEF Next, Work

\* No step changes the draft of a decided quote or takes a decision back: every
\* save is made from the status its worker read (SqlQuoteRepository.save).
THEOREM DecisionStands == SafeSpec => DecisionIsFinal
<1> DEFINE Final(q) ==
      quotes[q].status \in {"approved", "delivered", "rejected"} =>
        /\ quotes'[q].draft = quotes[q].draft
        /\ quotes'[q].status \in
             {quotes[q].status} \cup (IF quotes[q].status = "approved" THEN {"delivered"} ELSE {})
<1>1. Moves => \A q \in Messages : Final(q)
  BY DEF Moves, Saved
<1>2. IInv /\ [Next]_vars => [\A q \in Messages : Final(q)]_vars
  BY <1>1, RowsMove
<1> QED BY <1>2, Invariance, PTL DEF SafeSpec, DecisionIsFinal
=============================================================================
