--------------------------- MODULE OwnerCommands ---------------------------
(***************************************************************************)
(* Changes by text: the owner asks, the assistant puts one change to them,   *)
(* and a plain YES in the same thread makes it.                              *)
(*   application/owner_assistant.py, unmatched_messages.py,                  *)
(*   domain/owner_commands.py, infrastructure/owner_command_repositories.py, *)
(*   composition/intents.py, owner_invoice_tools.py, owner_change_tools.py   *)
(*   (Mark paid), application/owner.py (mark_paid), the invoices of          *)
(*   domain/payments.py and infrastructure/payment_repositories.py.          *)
(*                                                                           *)
(* One business.  The tools are those that move money: a draft invoice is    *)
(* made, sent, voided and replaced, marked paid.  A message is handled by a  *)
(* worker until its run is stored, and again when the worker was lost; every *)
(* transaction of the handler is a step.                                     *)
(***************************************************************************)
EXTENDS Naturals, Sequences, FiniteSets

CONSTANTS
  Messages,     \* what the owner texts
  Threads,
  Texts,        \* what it can say: "yes", "more" (a yes and more), "no", "other"
  Workers,
  Routes,       \* ways to reach the customer
  MaxCommands,  \* bound: changes put to the owner
  MaxDays,      \* bound: days that pass
  MaxFaults,    \* bound: processes that die, leases outlived, calls that raise, and
                \* what happens outside: days, payments, edits
  None

ASSUME OwnerCommandsAssumption ==
  /\ Texts \subseteq {"yes", "more", "no", "other"}
  /\ None \notin Messages \cup Threads \cup Routes
  /\ MaxCommands \in Nat \ {0} /\ MaxDays \in Nat /\ MaxFaults \in Nat

VARIABLES
  messages,   \* each message, until the run that handled it is stored
  commands,   \* the rows of owner_commands, in the order they were made
  block,      \* whether a calendar block waits for a yes
  invoices,   \* the invoice command n makes is invoices[n]; 0 is an earlier one
  outbox,     \* invoices on their way to the customer
  route,      \* how the customer is reached now
  today,
  work,       \* what each worker is doing
  faults      \* the consumed part of the bound

worldVars == <<invoices, outbox>>
vars == <<messages, commands, block, worldVars, route, today, work, faults>>

CommandIds == 1..MaxCommands
InvoiceIds == 0..MaxCommands
States == {"proposed", "applying", "done", "failed", "cancelled", "expired"}
Tools == {"create", "send", "reissue", "mark_paid"}

\* What a plan fixes when it is read back to the owner.
Plans == [tool : Tools, invoice : InvoiceIds, route : Routes \cup {None}, day : 0..MaxDays]
NoPlan == [tool |-> None, invoice |-> 0, route |-> None, day |-> 0]

\* times counts what apply committed.
Command == [plan : Plans, thread : Threads, state : States, live : BOOLEAN,
            times : 0..1]

\* What a reply says of a command: it was cancelled, done or refused.
Notes == {"cancelled", "done", "refused"} \X CommandIds

Stages == {"idle", "resolve", "answer", "expire", "claim", "close", "ask", "propose",
           "apply", "void", "save", "follow", "block", "reply"}
Jobs == [stage : Stages, msg : Messages \cup {None}, late : BOOLEAN, cmd : 0..MaxCommands,
         plan : Plans \cup {NoPlan}, thread : Threads \cup {None},
         outcome : {"done", "failed", "refused"}, reply : SUBSET Notes]
Idle == [stage |-> "idle", msg |-> None, late |-> FALSE, cmd |-> 0, plan |-> NoPlan,
         thread |-> None, outcome |-> "failed", reply |-> {}]

NoInvoice == [made |-> FALSE, sent |-> FALSE, void |-> FALSE, quote |-> "none",
              checkout |-> "none", due |-> 0]
Invoice == [made : BOOLEAN, sent : BOOLEAN, void : BOOLEAN,
            quote : {"none", "accepted", "paid", "declined"},
            checkout : {"none", "open", "processing", "closed"}, due : 0..MaxDays]
Draft(day) == [NoInvoice EXCEPT !.made = TRUE, !.quote = "accepted", !.due = day]

TypeOK ==
  /\ messages \in [Messages -> [status : {"queued", "taken", "answered"},
                                text : Texts \cup {None}, thread : Threads \cup {None},
                                reply : SUBSET Notes]]
  /\ commands \in Seq(Command)
  /\ block \in BOOLEAN
  /\ invoices \in [InvoiceIds -> Invoice]
  /\ outbox \subseteq [cmd : CommandIds, invoice : InvoiceIds, route : Routes, due : 0..MaxDays]
  /\ route \in Routes /\ today \in 0..MaxDays
  /\ work \in [Workers -> Jobs]
  /\ faults \in 0..MaxFaults

Proposed(plan, thread) ==
  [plan |-> plan, thread |-> thread, state |-> "proposed", live |-> TRUE, times |-> 0]

\* The business has one invoice already, a draft or sent, and the owner may have
\* been asked about a change.
Init ==
  /\ messages = [m \in Messages |->
                   [status |-> "queued", text |-> None, thread |-> None, reply |-> {}]]
  /\ \/ commands = <<>>
     \/ \E tool \in {"create", "reissue", "mark_paid"}, thread \in Threads :
          commands = <<Proposed([NoPlan EXCEPT !.tool = tool], thread)>>
  /\ block = FALSE
  /\ \E sent \in BOOLEAN, status \in {"none", "open"} :
       /\ status = "open" => sent
       /\ invoices = [i \in InvoiceIds |->
                        IF i = 0 THEN [Draft(0) EXCEPT !.sent = sent, !.checkout = status]
                        ELSE NoInvoice]
  /\ outbox = {}
  /\ route \in Routes /\ today = 0
  /\ work = [w \in Workers |-> Idle]
  /\ faults = 0

-----------------------------------------------------------------------------
(***************************************************************************)
(* The repository of commands.                                              *)
(***************************************************************************)

Waiting == {c \in DOMAIN commands : commands[c].state = "proposed"}

\* latest_proposed: 0 when there is none.
LatestProposed == IF Waiting = {} THEN 0 ELSE CHOOSE c \in Waiting : \A d \in Waiting : d <= c

\* Claimed by its id alone (mutant).
ClaimableById(c) == TRUE

\* The WHERE of claim.
Claimable(c) == commands[c].state = "proposed" /\ commands[c].live

\* The UPDATE of close, on a row that is still proposed.
Closed(cs, c, state) ==
  [cs EXCEPT ![c].state = IF @ = "proposed" THEN state ELSE @]

\* Whatever waits is closed, whether or not its row was read as proposed.
Superseded(cs, other) == IF other = 0 THEN cs ELSE Closed(cs, other, "cancelled")

-----------------------------------------------------------------------------
(***************************************************************************)
(* A worker and its message.                                                *)
(***************************************************************************)

At(w, stage) == work[w].stage = stage
Text(w) == messages[work[w].msg].text
Thread(w) == messages[work[w].msg].thread

Become(w, job) == work' = [work EXCEPT ![w] = job]
Goto(w, stage) == Become(w, [work[w] EXCEPT !.stage = stage])

\* The handler returns; note is what it adds to what was said before.
Reply(w, note) == Become(w, [work[w] EXCEPT !.stage = "reply", !.reply = @ \cup note])

\* A message is taken from the outbox.  What it says, and where, is decided when
\* it is first looked at.
Take(w, m) ==
  /\ At(w, "idle") /\ messages[m].status = "queued"
  /\ \E text \in Texts, thread \in Threads :
       /\ messages[m].text # None => text = messages[m].text /\ thread = messages[m].thread
       /\ messages' = [messages EXCEPT ![m].status = "taken", ![m].text = text,
                                       ![m].thread = thread]
  /\ Become(w, [Idle EXCEPT !.stage = "resolve", !.msg = m])
  /\ UNCHANGED <<commands, block, worldVars, route, today, faults>>

\* The run is stored with the reply, unless the message was taken from the
\* worker.
Finish(w) ==
  /\ At(w, "reply")
  /\ messages' =
       IF work[w].late THEN messages
       ELSE [messages EXCEPT ![work[w].msg].status = "answered",
                             ![work[w].msg].reply = work[w].reply]
  /\ Become(w, Idle)
  /\ UNCHANGED <<commands, block, worldVars, route, today, faults>>

\* The process dies: whatever was not committed is gone, and the message is
\* handled again from the start.
Crash(w) ==
  /\ ~At(w, "idle") /\ faults < MaxFaults
  /\ messages' = IF work[w].late THEN messages
                 ELSE [messages EXCEPT ![work[w].msg].status = "queued"]
  /\ Become(w, Idle)
  /\ faults' = faults + 1
  /\ UNCHANGED <<commands, block, worldVars, route, today>>

\* The worker is slower than its lease: the message is handled beside it.
OutliveLease(w) ==
  /\ ~At(w, "idle") /\ ~work[w].late /\ faults < MaxFaults
  /\ messages' = [messages EXCEPT ![work[w].msg].status = "queued"]
  /\ Become(w, [work[w] EXCEPT !.late = TRUE])
  /\ faults' = faults + 1
  /\ UNCHANGED <<commands, block, worldVars, route, today>>

\* The resolver looks at what waits, in transactions of its own.
Resolve(w) ==
  /\ At(w, "resolve")
  /\ Goto(w, IF /\ \A c \in Waiting : ~commands[c].live
                /\ Text(w) \in {"yes", "no"} /\ block
             THEN "block" ELSE "answer")
  /\ UNCHANGED <<messages, commands, block, worldVars, route, today, faults>>

-----------------------------------------------------------------------------
(***************************************************************************)
(* OwnerAssistant.answer.                                                   *)
(***************************************************************************)

\* _pending, and the branch it decides.
Answer(w) ==
  LET c == LatestProposed
      confirms == Text(w) \in {"yes", "more"} /\ commands[c].thread = Thread(w)
      next == CASE c = 0 -> IF Text(w) = "yes" THEN "reply" ELSE "ask"
                [] c # 0 /\ ~commands[c].live -> "expire"
                [] c # 0 /\ commands[c].live /\ ~confirms -> "close"
                [] OTHER -> IF Text(w) = "yes" THEN "claim" ELSE "reply"
  IN
  /\ At(w, "answer")
  /\ Become(w, [work[w] EXCEPT !.stage = next, !.cmd = c])
  /\ UNCHANGED <<messages, commands, block, worldVars, route, today, faults>>

\* A proposal past its time is closed, and nothing waits for the yes.
Expire(w) ==
  /\ At(w, "expire")
  /\ commands' = Closed(commands, work[w].cmd, "expired")
  /\ Goto(w, IF Text(w) = "yes" THEN "reply" ELSE "ask")
  /\ UNCHANGED <<messages, block, worldVars, route, today, faults>>

\* The reply says it was cancelled, whether or not it was (mutant).
CloseUnread(w) ==
  LET c == work[w].cmd IN
  /\ At(w, "close")
  /\ commands' = Closed(commands, c, "cancelled")
  /\ Become(w, [work[w] EXCEPT
       !.stage = IF Text(w) \in {"yes", "no"} THEN "reply" ELSE "ask",
       !.reply = {<<"cancelled", c>>}])
  /\ UNCHANGED <<messages, block, worldVars, route, today, faults>>

\* Any other message cancels it, unless a yes claimed it meanwhile.
Close(w) ==
  LET c == work[w].cmd IN
  /\ At(w, "close")
  /\ commands' = Closed(commands, c, "cancelled")
  /\ Become(w, [work[w] EXCEPT
       !.stage = IF Text(w) \in {"yes", "no"} THEN "reply" ELSE "ask",
       !.reply = IF c \in Waiting THEN {<<"cancelled", c>>} ELSE {}])
  /\ UNCHANGED <<messages, block, worldVars, route, today, faults>>

\* The first transaction of _confirm.
Claim(w) ==
  LET c == work[w].cmd IN
  /\ At(w, "claim")
  /\ IF Claimable(c)
     THEN /\ commands' = [commands EXCEPT ![c].state = "applying"]
          /\ Goto(w, "apply")
     ELSE Reply(w, {}) /\ UNCHANGED commands
  /\ UNCHANGED <<messages, block, worldVars, route, today, faults>>

-----------------------------------------------------------------------------
(***************************************************************************)
(* What the tools read when the change is put together.                     *)
(***************************************************************************)

IsOpen(i) == invoices[i].made /\ ~invoices[i].void

\* send_plan: the message names the due date and goes where the customer is
\* reached now.
SendPlans == {[tool |-> "send", invoice |-> i, route |-> route, day |-> today] :
                i \in {j \in InvoiceIds : IsOpen(j) /\ ~invoices[j].sent}}

\* Every plan prepare can return.
Prepared ==
  {[NoPlan EXCEPT !.tool = "create"]}
  \cup SendPlans
  \cup {[NoPlan EXCEPT !.tool = "reissue", !.invoice = i] :
          i \in {j \in InvoiceIds : IsOpen(j) /\ invoices[j].quote # "paid"}}
  \cup {[NoPlan EXCEPT !.tool = "mark_paid", !.invoice = i] :
          i \in {j \in InvoiceIds : IsOpen(j) /\ invoices[j].quote = "accepted"}}

\* _ask: the model answers in words, fails, or stages one change.
Ask(w) ==
  /\ At(w, "ask")
  /\ \/ Reply(w, {})
     \/ Len(commands) < MaxCommands /\ \E plan \in Prepared :
          Become(w, [work[w] EXCEPT !.stage = "propose", !.plan = plan, !.thread = Thread(w)])
  /\ UNCHANGED <<messages, commands, block, worldVars, route, today, faults>>

\* _propose: what waits is closed, a calendar block too, and the new command
\* takes its place.  Only one row may be proposed: when another transaction added
\* one after this one looked, all of it is rolled back and the owner asks again.
Propose(w) ==
  /\ At(w, "propose") /\ Len(commands) < MaxCommands
  /\ \/ /\ commands' = Append(Superseded(commands, LatestProposed),
                               Proposed(work[w].plan, work[w].thread))
        /\ block' = FALSE
     \/ /\ Waiting # {} /\ \E v \in Workers \ {w} : ~At(v, "idle")
        /\ UNCHANGED <<commands, block>>
  /\ Reply(w, {})
  /\ UNCHANGED <<messages, worldVars, route, today, faults>>

-----------------------------------------------------------------------------
(***************************************************************************)
(* The rest of _confirm.                                                    *)
(***************************************************************************)

Applying(w, tool) == At(w, "apply") /\ commands[work[w].cmd].plan.tool = tool
Planned(w) == commands[work[w].cmd].plan

Applied(w) ==
  /\ commands' = [commands EXCEPT ![work[w].cmd].times = @ + 1]
  /\ Become(w, [work[w] EXCEPT !.stage = "save", !.outcome = "done"])
Refused(w) ==
  /\ Become(w, [work[w] EXCEPT !.stage = "save", !.outcome = "refused"])
  /\ UNCHANGED <<commands, worldVars>>

\* The draft is made of the owner's accepted quote.
ApplyCreate(w) ==
  /\ Applying(w, "create")
  /\ Applied(w)
  /\ invoices' = [invoices EXCEPT ![work[w].cmd] = Draft(today)]
  /\ UNCHANGED <<messages, block, outbox, route, today, faults>>

\* The due date is not looked at again (mutant).
StillAsReadWithoutDay(plan) == plan.route = route

\* What the owner read has to be so still.
StillAsRead(plan) == plan.route = route /\ plan.day = today

ApplySend(w) ==
  LET plan == Planned(w) IN
  /\ Applying(w, "send")
  /\ IF StillAsRead(plan) /\ IsOpen(plan.invoice) /\ ~invoices[plan.invoice].sent
     THEN /\ invoices' = [invoices EXCEPT ![plan.invoice].sent = TRUE,
                                          ![plan.invoice].due = plan.day]
          /\ outbox' = outbox \cup {[cmd |-> work[w].cmd, invoice |-> plan.invoice,
                                     route |-> plan.route, due |-> plan.day]}
          /\ Applied(w)
     ELSE Refused(w)
  /\ UNCHANGED <<messages, block, route, today, faults>>

\* The reissue looks for payments first.
ApplyReissue(w) ==
  /\ Applying(w, "reissue")
  /\ IF invoices[Planned(w).invoice].quote = "paid" THEN Refused(w)
     ELSE Goto(w, "void") /\ UNCHANGED <<commands, worldVars>>
  /\ UNCHANGED <<messages, block, route, today, faults>>

\* The old invoice as the reissue leaves it: its link takes no payment.
VoidedOnly(inv) == [inv EXCEPT !.void = TRUE]

Voided(inv) ==
  [inv EXCEPT !.void = TRUE,
              !.checkout = IF @ = "open" THEN "closed" ELSE @,
              !.quote = IF @ = "accepted" THEN "declined" ELSE @]

\* Then it reads the quote and the checkout, voids and replaces; a card payment
\* that is going through stops it.
ReplaceInvoice(w) ==
  LET old == Planned(w).invoice IN
  /\ At(w, "void")
  /\ IF IsOpen(old) /\ invoices[old].checkout # "processing"
     THEN /\ invoices' = [invoices EXCEPT ![old] = Voided(@), ![work[w].cmd] = Draft(today)]
          /\ Applied(w)
          /\ UNCHANGED outbox
     ELSE Refused(w)
  /\ UNCHANGED <<messages, block, route, today, faults>>

\* OwnerService.mark_paid: an invoice that is not a draft, on a quote the
\* customer neither paid nor declined.
Payable(i) == invoices[i].quote = "accepted" /\ invoices[i].sent
Paid(inv) ==
  [inv EXCEPT !.quote = "paid",
              !.checkout = IF @ \in {"open", "processing"} THEN "closed" ELSE @]

ApplyMarkPaid(w) ==
  LET i == Planned(w).invoice IN
  /\ Applying(w, "mark_paid")
  /\ IF Payable(i)
     THEN /\ invoices' = [invoices EXCEPT ![i] = Paid(@)]
          /\ Applied(w)
          /\ UNCHANGED outbox
     ELSE Refused(w)
  /\ UNCHANGED <<messages, block, route, today, faults>>

\* Anything else apply raises: nothing is committed, and the owner reads that it
\* may not be done.
ApplyRaises(w) ==
  /\ (At(w, "apply") \/ At(w, "void")) /\ faults < MaxFaults
  /\ Become(w, [work[w] EXCEPT !.stage = "save", !.outcome = "failed"])
  /\ faults' = faults + 1
  /\ UNCHANGED <<messages, commands, block, worldVars, route, today>>

\* The row is written back as a whole; making an invoice goes on to offer
\* sending it.
Save(w) ==
  LET c == work[w].cmd
      done == work[w].outcome = "done"
      offers == done /\ Planned(w).tool \in {"create", "reissue"}
      said == CASE done -> {<<"done", c>>}
                [] work[w].outcome = "refused" -> {<<"refused", c>>}
                [] OTHER -> {}
  IN
  /\ At(w, "save")
  /\ commands' = [commands EXCEPT ![c].state = IF done THEN "done" ELSE "failed"]
  /\ Become(w, [work[w] EXCEPT !.stage = IF offers THEN "follow" ELSE "reply",
                               !.reply = @ \cup said])
  /\ UNCHANGED <<messages, block, worldVars, route, today, faults>>

\* _follow_up: the next change is put to the owner at once, in the thread of
\* the first.
FollowUp(w) ==
  LET plans == {plan \in SendPlans : plan.invoice = work[w].cmd} IN
  /\ At(w, "follow")
  /\ IF plans = {} THEN Reply(w, {})
     ELSE \E plan \in plans :
            Become(w, [work[w] EXCEPT !.stage = "propose", !.plan = plan,
                                      !.thread = commands[work[w].cmd].thread])
  /\ UNCHANGED <<messages, commands, block, worldVars, route, today, faults>>

-----------------------------------------------------------------------------
(***************************************************************************)
(* Everyone else.                                                           *)
(***************************************************************************)

\* CalendarBlockHandler: a request to block time replaces the change that
\* waits, a yes or no settles it.
ProposeBlock(w) ==
  /\ At(w, "resolve") /\ Text(w) = "other"
  /\ commands' = Superseded(commands, LatestProposed)
  /\ block' = TRUE
  /\ Reply(w, {})
  /\ UNCHANGED <<messages, worldVars, route, today, faults>>

AnswerBlock(w) ==
  /\ At(w, "block")
  /\ block' = FALSE
  /\ Reply(w, {})
  /\ UNCHANGED <<messages, commands, worldVars, route, today, faults>>

Disturb == faults < MaxFaults /\ faults' = faults + 1

\* The customer opens a card payment from the link they were sent, and pays, at
\* once or with a method that takes days.
OpenCheckout(i) ==
  /\ Payable(i) /\ invoices[i].checkout = "none"
  /\ \E status \in {"open", "processing"} :
       invoices' = [invoices EXCEPT ![i].checkout = status]
  /\ Disturb
  /\ UNCHANGED <<messages, commands, block, outbox, route, today, work>>

PayByCard(i) ==
  /\ invoices[i].checkout \in {"open", "processing"} /\ invoices[i].quote = "accepted"
  /\ invoices' = [invoices EXCEPT ![i] = Paid(@)]
  /\ Disturb
  /\ UNCHANGED <<messages, commands, block, outbox, route, today, work>>

\* The customer's details change in the dashboard.
EditContact ==
  /\ \E r \in Routes \ {route} : route' = r
  /\ Disturb
  /\ UNCHANGED <<messages, commands, block, worldVars, today, work>>

\* Time: a day passes, a proposal outlives OWNER_COMMAND_TTL.
NextDay ==
  /\ today < MaxDays /\ today' = today + 1
  /\ Disturb
  /\ UNCHANGED <<messages, commands, block, worldVars, route, work>>

Lapse(c) ==
  /\ c \in Waiting /\ commands[c].live
  /\ commands' = [commands EXCEPT ![c].live = FALSE]
  /\ Disturb
  /\ UNCHANGED <<messages, block, worldVars, route, today, work>>

Handle(w) ==
  \/ Resolve(w) \/ Answer(w) \/ Expire(w) \/ Close(w) \/ Claim(w) \/ Ask(w)
  \/ Propose(w)
  \/ ApplyCreate(w) \/ ApplySend(w) \/ ApplyReissue(w) \/ ReplaceInvoice(w)
  \/ ApplyMarkPaid(w) \/ ApplyRaises(w) \/ Save(w) \/ FollowUp(w)
  \/ ProposeBlock(w) \/ AnswerBlock(w)

World ==
  \/ \E i \in InvoiceIds : OpenCheckout(i) \/ PayByCard(i)
  \/ EditContact \/ NextDay
  \/ \E c \in DOMAIN commands : Lapse(c)

Next ==
  \/ \E w \in Workers :
       \/ \E m \in Messages : Take(w, m)
       \/ Handle(w) \/ Finish(w) \/ Crash(w) \/ OutliveLease(w)
  \/ World

Spec == Init /\ [][Next]_vars

-----------------------------------------------------------------------------
(***************************************************************************)
(* Properties.                                                             *)
(***************************************************************************)

\* What the owner may think of a change in this state.
StandingOf(state) ==
  CASE state = "proposed" -> "waiting"
    [] state \in {"cancelled", "expired"} -> "dropped"
    [] state = "applying" -> "taken"
    [] state \in {"done", "failed"} -> "settled"

standing == [c \in CommandIds |->
  IF c \in DOMAIN commands THEN StandingOf(commands[c].state) ELSE "absent"]

effects == [c \in CommandIds |-> IF c \in DOMAIN commands THEN commands[c].times ELSE 0]

Promise == INSTANCE Confirmation WITH
             Changes <- CommandIds, standing <- standing, effects <- effects

\* A change is made once, after a yes took it while it waited; one that was
\* cancelled, replaced or ran out is never made, whichever messages are handled
\* side by side or again.
ImplementsConfirmation == Promise!Spec

\* What the owner reads is so: a change that is said to be cancelled is not made
\* later, one that is said to be done was made, and one said to have changed
\* nothing did not.
RepliesAreTrue ==
  \A m \in Messages : \A note \in messages[m].reply :
    LET c == commands[note[2]] IN
    /\ note[1] = "cancelled" => c.state = "cancelled"
    /\ note[1] = "done" => c.state = "done" /\ c.times = 1
    /\ note[1] = "refused" => c.times = 0

\* The customer gets an invoice once, and with the due date that counts: the day
\* it was sent, even if the owner said yes to it on another.
SentOnceAsDated ==
  [][\A e \in outbox' \ outbox :
       /\ e.route = route /\ e.due = today
       /\ \A a \in outbox : a.invoice # e.invoice]_vars

\* "The old quote's link must no longer take a payment."
VoidTakesNoMoney ==
  \A i \in InvoiceIds : invoices[i].void =>
    invoices[i].quote # "accepted" /\ invoices[i].checkout # "open"
=============================================================================
