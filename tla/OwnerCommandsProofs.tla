------------------------- MODULE OwnerCommandsProofs -------------------------
(***************************************************************************)
(* Changes by text, for any messages, threads, workers and bounds: a change  *)
(* is made once, by the worker whose yes took it while it waited, and what   *)
(* the owner reads of it is so.                                              *)
(***************************************************************************)
EXTENDS OwnerCommands, SequenceTheorems, TLAPS

\* A worker that took the command, and has not written its end yet.
Holds(w, c) == work[w].stage \in {"apply", "void", "save"} /\ work[w].cmd = c

OneHolder ==
  \A v, w \in Workers : \A c \in CommandIds : Holds(v, c) /\ Holds(w, c) => v = w

OneWaits == \A c, d \in Waiting : c = d

Told(note) ==
  LET c == commands[note[2]] IN
  /\ note[2] \in DOMAIN commands
  /\ note[1] = "cancelled" => c.state = "cancelled"
  /\ note[1] = "done" => c.state = "done" /\ c.times = 1
  /\ note[1] = "refused" => c.state = "failed" /\ c.times = 0

\* What a worker knows between two of its transactions.
Fits(job) ==
  /\ job.stage # "idle" =>
       /\ job.msg \in Messages
       /\ messages[job.msg].text \in Texts /\ messages[job.msg].thread \in Threads
  /\ job.stage \in {"expire", "close", "claim", "apply", "void", "save", "follow"} =>
       job.cmd \in DOMAIN commands
  /\ job.stage = "propose" => job.plan \in Plans /\ job.thread \in Threads
  /\ job.stage \in {"apply", "void", "save"} =>
       /\ commands[job.cmd].state = "applying"
       /\ commands[job.cmd].times = (IF job.stage = "save" /\ job.outcome = "done" THEN 1 ELSE 0)
  /\ \A note \in job.reply : Told(note)

WorkersFit == \A w \in Workers : Fits(work[w])

RepliesTold == \A m \in Messages : \A note \in messages[m].reply : Told(note)

\* Nothing is committed of a command that nobody took.
CommandsFit ==
  /\ Len(commands) <= MaxCommands
  /\ \A c \in DOMAIN commands :
       /\ commands[c].state \notin {"applying", "done"} => commands[c].times = 0
       /\ commands[c].state = "done" => commands[c].times = 1

\* An invoice is the work of the command it is named for.
InvoicesFit ==
  /\ \A c \in CommandIds : invoices[c].made => c \in DOMAIN commands /\ commands[c].times = 1
  /\ \A i \in InvoiceIds : invoices[i].sent => invoices[i].made

\* What goes out is an invoice that was sent.
OutboxFits == \A e \in outbox : invoices[e.invoice].sent

IInv ==
  /\ TypeOK /\ WorkersFit /\ OneHolder /\ OneWaits /\ RepliesTold /\ CommandsFit
  /\ InvoicesFit /\ OutboxFits /\ VoidTakesNoMoney

-----------------------------------------------------------------------------
(***************************************************************************)
(* The rows of owner_commands.                                             *)
(***************************************************************************)

LEMMA CommandsType ==
  ASSUME TypeOK
  PROVE  /\ Len(commands) \in Nat /\ DOMAIN commands = 1..Len(commands)
         /\ \A c \in DOMAIN commands : commands[c] \in Command
  BY DEF TypeOK

LEMMA IdsFit ==
  ASSUME TypeOK, CommandsFit
  PROVE  DOMAIN commands \subseteq CommandIds /\ CommandIds \subseteq InvoiceIds
  BY CommandsType, OwnerCommandsAssumption DEF CommandsFit, CommandIds, InvoiceIds

\* The newest proposal is the one that waits.
LEMMA TheOneThatWaits ==
  ASSUME TypeOK, OneWaits
  PROVE  /\ Waiting = {} => LatestProposed = 0
         /\ Waiting # {} => LatestProposed \in Waiting /\ Waiting = {LatestProposed}
<1>1. CASE Waiting = {}
  BY <1>1 DEF LatestProposed
<1>2. CASE Waiting # {}
  <2>1. PICK c \in Waiting : Waiting = {c}
    BY <1>2 DEF OneWaits
  <2>2. c \in Nat
    BY <2>1, CommandsType DEF Waiting
  <2>3. \A d \in Waiting : d <= c
    BY <2>1, <2>2
  <2>4. LatestProposed \in Waiting
    BY <2>1, <2>3 DEF LatestProposed
  <2>5. QED
    BY <2>1, <2>4
<1>3. QED
  BY <1>1, <1>2

\* Closing changes a row that waits, and its state only.
LEMMA ClosedFacts ==
  ASSUME TypeOK, NEW c, NEW state \in {"cancelled", "expired"}
  PROVE  /\ Closed(commands, c, state) \in Seq(Command)
         /\ Len(Closed(commands, c, state)) = Len(commands)
         /\ \A d \in DOMAIN commands :
              Closed(commands, c, state)[d] =
                IF d = c /\ d \in Waiting THEN [commands[d] EXCEPT !.state = state]
                ELSE commands[d]
<1> DEFINE cs == Closed(commands, c, state)
<1>1. /\ DOMAIN cs = DOMAIN commands
      /\ \A d \in DOMAIN commands :
           cs[d] = IF d = c THEN [commands[d] EXCEPT !.state = IF @ = "proposed" THEN state ELSE @]
                   ELSE commands[d]
  BY DEF Closed
<1>2. \A d \in DOMAIN commands :
        cs[d] = IF d = c /\ d \in Waiting THEN [commands[d] EXCEPT !.state = state] ELSE commands[d]
  BY <1>1, CommandsType DEF Waiting, Command
<1>3. \A d \in DOMAIN commands : cs[d] \in Command
  BY ZenonT(40), <1>2, CommandsType DEF Command, States
<1>4. cs \in Seq(Command) /\ Len(cs) = Len(commands)
  <2>1. cs = [d \in 1..Len(commands) |-> cs[d]]
    BY <1>1, CommandsType DEF Closed
  <2>2. cs \in [1..Len(commands) -> Command]
    BY <1>3, <2>1, CommandsType
  <2>3. QED
    BY <2>2, CommandsType
<1>5. QED
  BY <1>2, <1>4

LEMMA SupersededFacts ==
  ASSUME TypeOK, OneWaits
  PROVE  LET cs == Superseded(commands, LatestProposed) IN
         /\ cs \in Seq(Command) /\ Len(cs) = Len(commands)
         /\ \A d \in DOMAIN commands :
              cs[d] = IF d \in Waiting THEN [commands[d] EXCEPT !.state = "cancelled"]
                      ELSE commands[d]
<1>1. CASE Waiting = {}
  BY <1>1, TheOneThatWaits, CommandsType DEF Superseded, TypeOK
<1>2. CASE Waiting # {}
  <2>1. Waiting = {LatestProposed} /\ LatestProposed \in DOMAIN commands
    BY <1>2, TheOneThatWaits DEF Waiting
  <2>2. LatestProposed # 0
    BY <2>1, CommandsType
  <2>3. Superseded(commands, LatestProposed) = Closed(commands, LatestProposed, "cancelled")
    BY <2>2 DEF Superseded
  <2>4. QED
    BY <2>1, <2>3, ClosedFacts
<1>3. QED
  BY <1>1, <1>2

\* A step of the rows: one that waits may change, one of those in own is applied
\* or settled, the others stay.
Advance(own) ==
  /\ commands' \in Seq(Command)
  /\ Len(commands) <= Len(commands') /\ Len(commands') <= MaxCommands
  /\ \A c \in DOMAIN commands :
       /\ \/ commands[c].state = "proposed"
          \/ c \in own /\ commands[c].state = "applying"
          \/ commands'[c].state = commands[c].state /\ commands'[c].times = commands[c].times
       /\ commands[c].times = 1 => commands'[c].times = 1

LEMMA StandsStill ==
  ASSUME IInv, UNCHANGED commands
  PROVE  Advance({})
  BY CommandsType DEF Advance, IInv, TypeOK, CommandsFit

LEMMA Grows ==
  ASSUME TypeOK, NEW own, Advance(own)
  PROVE  DOMAIN commands \subseteq DOMAIN commands'
<1>1. DOMAIN commands' = 1..Len(commands') /\ Len(commands') \in Nat
  BY DEF Advance
<1>2. QED
  BY <1>1, CommandsType DEF Advance

\* What was told of a change stays so.
LEMMA ToldStays ==
  ASSUME IInv, NEW own, Advance(own), NEW note, Told(note)
  PROVE  Told(note)'
<1>1. note[2] \in DOMAIN commands /\ note[2] \in DOMAIN commands'
  BY Grows DEF IInv, Told
<1>2. QED
  BY <1>1 DEF Told, Advance

\* A worker is not disturbed by what another one does.
LEMMA FitStays ==
  ASSUME IInv, NEW v \in Workers, UNCHANGED work[v],
         NEW own, Advance(own), \A c \in own : ~Holds(v, c),
         \A m \in Messages :
           /\ messages[m].text \in Texts => messages'[m].text \in Texts
           /\ messages[m].thread \in Threads => messages'[m].thread \in Threads
  PROVE  Fits(work[v])'
<1>1. Fits(work[v]) /\ DOMAIN commands \subseteq DOMAIN commands'
  BY Grows DEF IInv, WorkersFit
<1>2. \A note \in work[v].reply : Told(note)'
  BY <1>1, ToldStays DEF Fits
<1>3. work[v].stage \in {"apply", "void", "save"} =>
        /\ commands'[work[v].cmd].state = commands[work[v].cmd].state
        /\ commands'[work[v].cmd].times = commands[work[v].cmd].times
  BY <1>1 DEF Advance, Holds, Fits
<1>4. QED
  BY <1>1, <1>2, <1>3 DEF Fits

\* The parts of the invariant that a step of worker w keeps by the way it moves.
LEMMA WorkerMoves ==
  ASSUME IInv, NEW w \in Workers, NEW job \in Jobs, Become(w, job), Fits(work[w])',
         \A c \in CommandIds : Holds(w, c)' => Holds(w, c) \/ commands[c].state # "applying",
         NEW own, Advance(own), \A c \in own : Holds(w, c),
         \A m \in Messages :
           /\ messages[m].text \in Texts => messages'[m].text \in Texts
           /\ messages[m].thread \in Threads => messages'[m].thread \in Threads
  PROVE  work' \in [Workers -> Jobs] /\ WorkersFit' /\ OneHolder'
<1>1. /\ work' \in [Workers -> Jobs]
      /\ \A v \in Workers \ {w} : UNCHANGED work[v]
  BY DEF Become, IInv, TypeOK
<1>2. \A v \in Workers \ {w} : \A c \in own : ~Holds(v, c)
  <2>1. \A c \in own : c \in CommandIds
    BY IdsFit DEF Holds, IInv, WorkersFit, Fits
  <2>2. QED
    BY <2>1 DEF IInv, OneHolder
<1>3. WorkersFit'
  <2>1. \A v \in Workers \ {w} : Fits(work[v])'
    BY <1>1, <1>2, FitStays
  <2>2. QED
    BY <2>1 DEF WorkersFit
<1>4. OneHolder'
  <2>1. \A v \in Workers \ {w} : \A c \in CommandIds : Holds(v, c)' <=> Holds(v, c)
    BY <1>1 DEF Holds
  <2>2. \A v \in Workers : \A c \in CommandIds : Holds(v, c) => commands[c].state = "applying"
    BY DEF Holds, IInv, WorkersFit, Fits
  <2>3. QED
    BY <2>1, <2>2 DEF IInv, OneHolder
<1>5. QED
  BY <1>1, <1>3, <1>4

LEMMA CommandsStay ==
  ASSUME IInv, UNCHANGED commands
  PROVE  CommandsFit' /\ OneWaits'
  BY DEF IInv, CommandsFit, OneWaits, Waiting

LEMMA InvoicesStay ==
  ASSUME IInv, NEW own, Advance(own), UNCHANGED worldVars
  PROVE  InvoicesFit' /\ OutboxFits' /\ VoidTakesNoMoney'
<1>1. InvoicesFit'
  BY Grows DEF worldVars, Advance, IInv, InvoicesFit
<1>2. OutboxFits' /\ VoidTakesNoMoney'
  BY DEF worldVars, IInv, OutboxFits, VoidTakesNoMoney
<1>3. QED
  BY <1>1, <1>2

LEMMA RepliesStay ==
  ASSUME IInv, NEW own, Advance(own), UNCHANGED messages
  PROVE  RepliesTold'
  BY ToldStays DEF IInv, RepliesTold

\* A step of a worker that neither writes a command nor an invoice.
LEMMA Quiet ==
  ASSUME IInv, NEW w \in Workers, NEW job \in Jobs, Become(w, job), Fits(work[w])',
         \A c \in CommandIds : Holds(w, c)' => Holds(w, c),
         UNCHANGED <<messages, commands, worldVars, route, today>>,
         block' \in BOOLEAN, faults' \in 0..MaxFaults
  PROVE  IInv'
<1>1. Advance({})
  BY StandsStill
<1>2. work' \in [Workers -> Jobs] /\ WorkersFit' /\ OneHolder'
  BY <1>1, WorkerMoves
<1>3. TypeOK'
  BY <1>2 DEF IInv, TypeOK, worldVars
<1>4. QED
  BY <1>1, <1>2, <1>3, CommandsStay, InvoicesStay, RepliesStay DEF IInv

\* A step of a worker that writes commands, but no invoice.
LEMMA Writes ==
  ASSUME IInv, NEW w \in Workers, NEW job \in Jobs, Become(w, job), Fits(work[w])',
         \A c \in CommandIds : Holds(w, c)' => Holds(w, c) \/ commands[c].state # "applying",
         NEW own, Advance(own), \A c \in own : Holds(w, c), CommandsFit', OneWaits',
         UNCHANGED <<messages, worldVars, route, today, faults>>, block' \in BOOLEAN
  PROVE  IInv'
<1>1. work' \in [Workers -> Jobs] /\ WorkersFit' /\ OneHolder'
  BY WorkerMoves
<1>2. commands' \in Seq(Command)
  BY DEF Advance
<1>3. TypeOK'
  BY <1>1, <1>2 DEF IInv, TypeOK, worldVars
<1>4. QED
  BY <1>1, <1>3, InvoicesStay, RepliesStay DEF IInv

\* What a worker goes on with.
LEMMA JobTypes ==
  ASSUME NEW j \in Jobs, NEW stage \in Stages
  PROVE  /\ [j EXCEPT !.stage = stage] \in Jobs
         /\ [j EXCEPT !.late = TRUE] \in Jobs
         /\ \A cmd \in 0..MaxCommands : [j EXCEPT !.stage = stage, !.cmd = cmd] \in Jobs
         /\ \A outcome \in {"done", "failed", "refused"} :
              [j EXCEPT !.stage = stage, !.outcome = outcome] \in Jobs
         /\ \A reply \in SUBSET Notes : [j EXCEPT !.stage = stage, !.reply = reply] \in Jobs
         /\ \A plan \in Plans, thread \in Threads :
              [j EXCEPT !.stage = stage, !.plan = plan, !.thread = thread] \in Jobs
<1> USE DEF Jobs
<1>1. [j EXCEPT !.stage = stage] \in Jobs /\ [j EXCEPT !.late = TRUE] \in Jobs
  OBVIOUS
<1>2. ASSUME NEW cmd \in 0..MaxCommands
      PROVE  [j EXCEPT !.stage = stage, !.cmd = cmd] \in Jobs
  OBVIOUS
<1>3. ASSUME NEW outcome \in {"done", "failed", "refused"}
      PROVE  [j EXCEPT !.stage = stage, !.outcome = outcome] \in Jobs
  OBVIOUS
<1>4. ASSUME NEW reply \in SUBSET Notes
      PROVE  [j EXCEPT !.stage = stage, !.reply = reply] \in Jobs
  OBVIOUS
<1>5. ASSUME NEW plan \in Plans, NEW thread \in Threads
      PROVE  [j EXCEPT !.stage = stage, !.plan = plan, !.thread = thread] \in Jobs
  OBVIOUS
<1>6. QED
  BY <1>1, <1>2, <1>3, <1>4, <1>5

LEMMA IdleJob ==
  ASSUME NEW m \in Messages
  PROVE  /\ Idle \in Jobs /\ Idle.stage = "idle" /\ Idle.reply = {}
         /\ [Idle EXCEPT !.stage = "resolve", !.msg = m] \in Jobs
<1>1. Idle \in Jobs
  <2>1. {} \in SUBSET Notes /\ 0 \in 0..MaxCommands
    BY OwnerCommandsAssumption
  <2>2. QED
    BY <2>1 DEF Idle, Jobs, Stages
<1>2. [Idle EXCEPT !.stage = "resolve", !.msg = m] \in Jobs
  BY <1>1 DEF Jobs, Stages
<1>3. QED
  BY <1>1, <1>2 DEF Idle

LEMMA WorkerFacts ==
  ASSUME IInv, NEW w \in Workers
  PROVE  /\ work[w] \in Jobs /\ Fits(work[w])
         /\ ~At(w, "idle") => work[w].msg \in Messages /\ Text(w) \in Texts /\ Thread(w) \in Threads
  BY DEF IInv, TypeOK, WorkersFit, Fits, At, Text, Thread

LEMMA Becomes ==
  ASSUME IInv, NEW w \in Workers, NEW job, Become(w, job)
  PROVE  work'[w] = job
  BY DEF IInv, TypeOK, Become

\* The handler goes on in the same transaction's results.
LEMMA GotoQuiet ==
  ASSUME IInv, NEW w \in Workers, NEW stage \in {"resolve", "answer", "ask", "block", "reply"},
         ~At(w, "idle"), Goto(w, stage),
         UNCHANGED <<messages, commands, worldVars, route, today, faults>>, block' \in BOOLEAN
  PROVE  IInv'
<1> DEFINE job == [work[w] EXCEPT !.stage = stage]
<1>1. job \in Jobs
  BY WorkerFacts, JobTypes DEF Stages
<1>2. work'[w] = job /\ Become(w, job)
  BY Becomes DEF Goto
<1>3. Fits(work[w])'
  BY <1>2, WorkerFacts DEF Fits, At, Told, Jobs
<1>4. \A c \in CommandIds : ~Holds(w, c)'
  BY <1>2, WorkerFacts DEF Holds, Jobs
<1>5. QED
  <2> HIDE DEF job
  <2>1. QED
    BY <1>1, <1>2, <1>3, <1>4, Quiet DEF IInv, TypeOK

LEMMA NothingToAdd ==
  ASSUME NEW w
  PROVE  Reply(w, {}) <=> Goto(w, "reply")
<1>1. work[w].reply \cup {} = work[w].reply
  OBVIOUS
<1>2. [work[w] EXCEPT !.stage = "reply", !.reply = @ \cup {}] = [work[w] EXCEPT !.stage = "reply"]
  BY <1>1
<1>3. QED
  BY <1>2 DEF Reply, Goto

-----------------------------------------------------------------------------
(***************************************************************************)
(* The worker's message.                                                   *)
(***************************************************************************)

MessageRow == [status : {"queued", "taken", "answered"}, text : Texts \cup {None},
               thread : Threads \cup {None}, reply : SUBSET Notes]
MessageRows == [Messages -> MessageRow]

\* How the row of a message is written.
LEMMA RowTypes ==
  ASSUME NEW row \in MessageRow, NEW status \in {"queued", "taken", "answered"}
  PROVE  /\ [row EXCEPT !.status = status] \in MessageRow
         /\ \A text \in Texts, thread \in Threads :
              [row EXCEPT !.status = status, !.text = text, !.thread = thread] \in MessageRow
         /\ \A reply \in SUBSET Notes :
              [row EXCEPT !.status = status, !.reply = reply] \in MessageRow
<1> USE DEF MessageRow
<1>1. [row EXCEPT !.status = status] \in MessageRow
  OBVIOUS
<1>2. ASSUME NEW text \in Texts, NEW thread \in Threads
      PROVE  [row EXCEPT !.status = status, !.text = text, !.thread = thread] \in MessageRow
  OBVIOUS
<1>3. ASSUME NEW reply \in SUBSET Notes
      PROVE  [row EXCEPT !.status = status, !.reply = reply] \in MessageRow
  OBVIOUS
<1>4. QED
  BY <1>1, <1>2, <1>3

\* A step of a worker on its message; what was said in the thread stays.
LEMMA HandlesMessage ==
  ASSUME IInv, NEW w \in Workers, NEW job \in Jobs, Become(w, job), Fits(work[w])',
         \A c \in CommandIds : Holds(w, c)' => Holds(w, c),
         UNCHANGED <<commands, block, worldVars, route, today>>, faults' \in 0..MaxFaults,
         messages' \in MessageRows, RepliesTold',
         \A m \in Messages :
           /\ messages[m].text \in Texts => messages'[m].text \in Texts
           /\ messages[m].thread \in Threads => messages'[m].thread \in Threads
  PROVE  IInv'
<1>1. Advance({})
  BY StandsStill
<1>2. work' \in [Workers -> Jobs] /\ WorkersFit' /\ OneHolder'
  BY <1>1, WorkerMoves
<1>3. TypeOK'
  BY <1>2 DEF IInv, TypeOK, worldVars, MessageRows, MessageRow
<1>4. QED
  BY <1>1, <1>2, <1>3, CommandsStay, InvoicesStay DEF IInv

\* Replies are as they were, or one of them is what a worker has to say.
LEMMA RepliesKept ==
  ASSUME IInv, UNCHANGED commands,
         \A m \in Messages : \/ messages'[m].reply = messages[m].reply
                             \/ \E w \in Workers : messages'[m].reply = work[w].reply
  PROVE  RepliesTold'
<1>1. \A w \in Workers : \A note \in work[w].reply : Told(note)
  BY WorkerFacts DEF Fits
<1>2. \A note : Told(note)' <=> Told(note)
  BY DEF Told
<1>3. QED
  BY <1>1, <1>2 DEF IInv, RepliesTold

Requeued(m) == messages' = [messages EXCEPT ![m].status = "queued"]
Answered(m, reply) ==
  messages' = [messages EXCEPT ![m].status = "answered", ![m].reply = reply]

LEMMA MessageUpdates ==
  ASSUME IInv, NEW m \in Messages, NEW reply \in SUBSET Notes
  PROVE  /\ messages' = messages \/ Requeued(m) \/ Answered(m, reply) =>
              /\ messages' \in MessageRows
              /\ \A n \in Messages :
                   /\ messages'[n].text = messages[n].text
                   /\ messages'[n].thread = messages[n].thread
                   /\ messages'[n].reply = messages[n].reply \/ messages'[n].reply = reply
         /\ Requeued(m) => \A n \in Messages : messages'[n].reply = messages[n].reply
<1>1. messages \in MessageRows
  BY DEF IInv, TypeOK, MessageRows, MessageRow
<1> DEFINE queued == [messages[m] EXCEPT !.status = "queued"]
           answered == [messages[m] EXCEPT !.status = "answered", !.reply = reply]
<1>2. queued \in MessageRow /\ answered \in MessageRow
  BY <1>1, RowTypes DEF MessageRows
<1>3. /\ queued.text = messages[m].text /\ queued.thread = messages[m].thread
      /\ queued.reply = messages[m].reply
      /\ answered.text = messages[m].text /\ answered.thread = messages[m].thread
      /\ answered.reply = reply
  BY <1>1 DEF MessageRows, MessageRow
<1>4. /\ Requeued(m) => messages' = [messages EXCEPT ![m] = queued]
      /\ Answered(m, reply) => messages' = [messages EXCEPT ![m] = answered]
  BY <1>1 DEF Requeued, Answered, MessageRows
<1> HIDE DEF queued, answered
<1>5. QED
  BY <1>1, <1>2, <1>3, <1>4 DEF MessageRows

LEMMA TakeSafe ==
  ASSUME IInv, NEW w \in Workers, NEW m \in Messages, Take(w, m)
  PROVE  IInv'
<1> DEFINE job == [Idle EXCEPT !.stage = "resolve", !.msg = m]
<1>1. PICK text \in Texts, thread \in Threads :
        messages' = [messages EXCEPT ![m].status = "taken", ![m].text = text,
                                     ![m].thread = thread]
  BY DEF Take
<1>2. /\ messages' \in MessageRows
      /\ messages'[m].text = text /\ messages'[m].thread = thread
      /\ \A n \in Messages : /\ messages'[n].reply = messages[n].reply
                             /\ n # m => messages'[n] = messages[n]
  <2>1. messages \in MessageRows
    BY DEF IInv, TypeOK, MessageRows, MessageRow
  <2>2. [messages[m] EXCEPT !.status = "taken", !.text = text, !.thread = thread] \in MessageRow
    BY <2>1, RowTypes DEF MessageRows
  <2>3. messages' = [messages EXCEPT ![m] =
          [messages[m] EXCEPT !.status = "taken", !.text = text, !.thread = thread]]
    BY <1>1, <2>1 DEF MessageRows, MessageRow
  <2>4. messages' \in MessageRows /\ \A n \in Messages : n # m => messages'[n] = messages[n]
    BY <2>1, <2>2, <2>3 DEF MessageRows
  <2>5. messages'[m] = [messages[m] EXCEPT !.status = "taken", !.text = text, !.thread = thread]
    BY <2>1, <2>3 DEF MessageRows
  <2>6. /\ messages'[m].text = text /\ messages'[m].thread = thread
        /\ messages'[m].reply = messages[m].reply
    BY <2>1, <2>5 DEF MessageRows, MessageRow
  <2>7. QED
    BY <2>4, <2>6
<1>3. job \in Jobs /\ Become(w, job) /\ work'[w] = job
  BY IdleJob, Becomes DEF Take
<1>4. job.stage = "resolve" /\ job.msg = m /\ job.reply = {}
  BY DEF Idle
<1> HIDE DEF job
<1>5. Fits(work[w])' /\ \A c \in CommandIds : ~Holds(w, c)'
  BY <1>2, <1>3, <1>4 DEF Fits, Holds
<1>6. UNCHANGED <<commands, block, worldVars, route, today, faults>> /\ faults \in 0..MaxFaults
  BY DEF Take, IInv, TypeOK
<1>7. RepliesTold'
  BY <1>2, <1>6, RepliesKept
<1>8. QED
  BY <1>2, <1>3, <1>5, <1>6, <1>7, HandlesMessage

\* The worker is done with the message, or was lost.
LEMMA LetsGo ==
  ASSUME IInv, NEW w \in Workers, Finish(w) \/ Crash(w)
  PROVE  IInv'
<1>1. Idle \in Jobs /\ Idle.stage = "idle" /\ Idle.reply = {}
  <2>1. work[w].msg \in Messages
    BY WorkerFacts DEF Finish, Crash, At
  <2>2. QED
    BY <2>1, IdleJob
<1>2. Become(w, Idle) /\ work'[w] = Idle
  BY Becomes DEF Finish, Crash
<1>3. Fits(work[w])' /\ \A c \in CommandIds : ~Holds(w, c)'
  BY <1>1, <1>2 DEF Fits, Holds
<1>4. UNCHANGED <<commands, block, worldVars, route, today>> /\ faults' \in 0..MaxFaults
  BY OwnerCommandsAssumption DEF Finish, Crash, IInv, TypeOK
<1>5. work[w].reply \in SUBSET Notes
  BY WorkerFacts DEF Jobs
<1>6. /\ messages' \in MessageRows
      /\ \A n \in Messages :
           /\ messages'[n].text = messages[n].text /\ messages'[n].thread = messages[n].thread
           /\ messages'[n].reply = messages[n].reply \/ messages'[n].reply = work[w].reply
  <2>1. messages' = messages \/ Requeued(work[w].msg) \/ Answered(work[w].msg, work[w].reply)
    BY DEF Finish, Crash, Requeued, Answered
  <2>2. work[w].msg \in Messages
    BY WorkerFacts DEF Finish, Crash, At
  <2>3. QED
    BY <1>5, <2>1, <2>2, MessageUpdates
<1>7. RepliesTold'
  BY <1>4, <1>6, RepliesKept
<1>8. QED
  BY <1>1, <1>2, <1>3, <1>4, <1>6, <1>7, HandlesMessage

LEMMA OutliveLeaseSafe ==
  ASSUME IInv, NEW w \in Workers, OutliveLease(w)
  PROVE  IInv'
<1> DEFINE job == [work[w] EXCEPT !.late = TRUE]
<1>1. job \in Jobs /\ Become(w, job) /\ work'[w] = job
  BY WorkerFacts, JobTypes, Becomes DEF OutliveLease, Stages
<1>2. /\ messages' \in MessageRows
      /\ \A n \in Messages :
           /\ messages'[n].text = messages[n].text /\ messages'[n].thread = messages[n].thread
           /\ messages'[n].reply = messages[n].reply
  <2>1. work[w].msg \in Messages /\ Requeued(work[w].msg)
    BY WorkerFacts DEF OutliveLease, At, Requeued
  <2>2. QED
    BY <2>1, MessageUpdates
<1>3. UNCHANGED <<commands, block, worldVars, route, today>> /\ faults' \in 0..MaxFaults
  BY OwnerCommandsAssumption DEF OutliveLease, IInv, TypeOK
<1>4. /\ job.stage = work[w].stage /\ job.msg = work[w].msg /\ job.cmd = work[w].cmd
      /\ job.plan = work[w].plan /\ job.thread = work[w].thread
      /\ job.outcome = work[w].outcome /\ job.reply = work[w].reply
  BY WorkerFacts DEF Jobs
<1> HIDE DEF job
<1>5. Fits(work[w])'
  BY <1>1, <1>2, <1>3, <1>4, WorkerFacts DEF Fits, Told
<1>6. \A c \in CommandIds : Holds(w, c)' => Holds(w, c)
  BY <1>1, <1>4 DEF Holds
<1>7. RepliesTold'
  BY <1>2, <1>3, RepliesKept
<1>8. QED
  BY <1>1, <1>2, <1>3, <1>5, <1>6, <1>7, HandlesMessage

-----------------------------------------------------------------------------
(***************************************************************************)
(* Before the yes: what waits is closed, claimed or replaced.              *)
(***************************************************************************)

LEMMA Closing ==
  ASSUME IInv, NEW c, NEW state \in {"cancelled", "expired"},
         commands' = Closed(commands, c, state)
  PROVE  /\ Advance({}) /\ CommandsFit' /\ OneWaits'
         /\ Len(commands') = Len(commands) /\ DOMAIN commands' = DOMAIN commands
         /\ c \in Waiting => commands'[c].state = state
<1>1. /\ commands' \in Seq(Command) /\ Len(commands') = Len(commands)
      /\ DOMAIN commands' = DOMAIN commands
      /\ \A d \in DOMAIN commands :
           /\ d = c /\ d \in Waiting => /\ commands'[d].state = state
                                        /\ commands'[d].times = commands[d].times
           /\ ~(d = c /\ d \in Waiting) => commands'[d] = commands[d]
  <2>1. /\ commands' \in Seq(Command) /\ Len(commands') = Len(commands)
        /\ \A d \in DOMAIN commands :
             commands'[d] = IF d = c /\ d \in Waiting THEN [commands[d] EXCEPT !.state = state]
                            ELSE commands[d]
    BY ClosedFacts DEF IInv
  <2>2. DOMAIN commands' = DOMAIN commands
    BY <2>1, CommandsType DEF IInv
  <2>3. \A d \in DOMAIN commands : /\ [commands[d] EXCEPT !.state = state].state = state
                                  /\ [commands[d] EXCEPT !.state = state].times = commands[d].times
    BY CommandsType DEF IInv, Command
  <2>4. QED
    BY <2>1, <2>2, <2>3
<1>2. Advance({})
  BY <1>1 DEF Advance, Waiting, IInv, CommandsFit
<1>3. CommandsFit'
  BY <1>1 DEF Waiting, IInv, CommandsFit
<1>4. OneWaits'
  BY <1>1 DEF Waiting, IInv, OneWaits
<1>5. QED
  BY <1>1, <1>2, <1>3, <1>4 DEF Waiting

LEMMA ResolveSafe ==
  ASSUME IInv, NEW w \in Workers, Resolve(w)
  PROVE  IInv'
  BY GotoQuiet DEF Resolve, At, IInv, TypeOK

LEMMA AnswerSafe ==
  ASSUME IInv, NEW w \in Workers, Answer(w)
  PROVE  IInv'
<1> DEFINE c == LatestProposed
           confirms == Text(w) \in {"yes", "more"} /\ commands[c].thread = Thread(w)
           next == CASE c = 0 -> IF Text(w) = "yes" THEN "reply" ELSE "ask"
                     [] c # 0 /\ ~commands[c].live -> "expire"
                     [] c # 0 /\ commands[c].live /\ ~confirms -> "close"
                     [] OTHER -> IF Text(w) = "yes" THEN "claim" ELSE "reply"
           job == [work[w] EXCEPT !.stage = next, !.cmd = c]
<1>1. c = 0 \/ c \in DOMAIN commands
  BY TheOneThatWaits DEF IInv, Waiting
<1>2. c \in 0..MaxCommands
  BY <1>1, IdsFit, OwnerCommandsAssumption DEF IInv, CommandIds
<1>3. /\ next \in {"reply", "ask", "expire", "close", "claim"}
      /\ next \in {"expire", "close", "claim"} => c # 0
  OBVIOUS
<1> HIDE DEF c, next
<1>4. next \in Stages
  BY <1>3 DEF Stages
<1>5. job \in Jobs
  BY <1>2, <1>4, WorkerFacts, JobTypes
<1>6. /\ job.stage = next /\ job.cmd = c /\ job.msg = work[w].msg /\ job.reply = work[w].reply
  BY WorkerFacts DEF Jobs
<1>7. Become(w, job) /\ work'[w] = job
  BY Becomes DEF Answer, c, next
<1> HIDE DEF job
<1>8. Fits(work[w])'
  BY <1>1, <1>3, <1>6, <1>7, WorkerFacts DEF Fits, Told, Answer, At
<1>9. \A d \in CommandIds : ~Holds(w, d)'
  BY <1>3, <1>6, <1>7 DEF Holds
<1>10. QED
  BY <1>5, <1>7, <1>8, <1>9, Quiet DEF Answer, IInv, TypeOK

LEMMA ExpireSafe ==
  ASSUME IInv, NEW w \in Workers, Expire(w)
  PROVE  IInv'
<1> DEFINE stage == IF Text(w) = "yes" THEN "reply" ELSE "ask"
           job == [work[w] EXCEPT !.stage = stage]
<1>1. /\ Advance({}) /\ CommandsFit' /\ OneWaits'
  BY Closing DEF Expire
<1>2. job \in Jobs
  BY WorkerFacts, JobTypes DEF Stages
<1>3. /\ job.stage \in {"reply", "ask"} /\ job.msg = work[w].msg /\ job.reply = work[w].reply
  BY WorkerFacts DEF Jobs
<1>4. Become(w, job) /\ work'[w] = job
  BY Becomes DEF Expire, Goto
<1> HIDE DEF job
<1>5. \A note \in work[w].reply : Told(note)'
  BY <1>1, WorkerFacts, ToldStays DEF Fits
<1>6. Fits(work[w])'
  BY <1>3, <1>4, <1>5, WorkerFacts DEF Fits, Expire, At
<1>7. \A d \in CommandIds : ~Holds(w, d)'
  BY <1>3, <1>4 DEF Holds
<1>8. QED
  BY <1>1, <1>2, <1>4, <1>6, <1>7, Writes DEF Expire, IInv, TypeOK

LEMMA CloseSafe ==
  ASSUME IInv, NEW w \in Workers, Close(w)
  PROVE  IInv'
<1> DEFINE c == work[w].cmd
           stage == IF Text(w) \in {"yes", "no"} THEN "reply" ELSE "ask"
           reply == IF c \in Waiting THEN {<<"cancelled", c>>} ELSE {}
           job == [work[w] EXCEPT !.stage = stage, !.reply = reply]
<1>1. /\ Advance({}) /\ CommandsFit' /\ OneWaits'
      /\ DOMAIN commands' = DOMAIN commands
      /\ c \in Waiting => commands'[c].state = "cancelled"
  BY Closing DEF Close
<1>2. c \in DOMAIN commands /\ c \in CommandIds
  BY WorkerFacts, IdsFit DEF Close, At, Fits, IInv
<1>3. reply \in SUBSET Notes
  BY <1>2 DEF Notes
<1>4. \A note \in reply : Told(note)'
  BY <1>1, <1>2 DEF Told
<1> HIDE DEF reply
<1>5. job \in Jobs
  BY <1>3, WorkerFacts, JobTypes DEF Stages
<1>6. /\ job.stage \in {"reply", "ask"} /\ job.msg = work[w].msg /\ job.reply = reply
  BY WorkerFacts DEF Jobs
<1>7. Become(w, job) /\ work'[w] = job
  BY Becomes DEF Close, reply
<1> HIDE DEF job
<1>8. Fits(work[w])'
  BY <1>4, <1>6, <1>7, WorkerFacts DEF Fits, Close, At
<1>9. \A d \in CommandIds : ~Holds(w, d)'
  BY <1>6, <1>7 DEF Holds
<1>10. QED
  BY <1>1, <1>5, <1>7, <1>8, <1>9, Writes DEF Close, IInv, TypeOK

\* A yes takes the change while it waits, so that nobody else holds it.
LEMMA ClaimSafe ==
  ASSUME IInv, NEW w \in Workers, Claim(w)
  PROVE  IInv'
<1> DEFINE c == work[w].cmd
           job == [work[w] EXCEPT !.stage = "apply"]
<1>1. CASE ~Claimable(c)
  BY <1>1, NothingToAdd, GotoQuiet DEF Claim, At, IInv, TypeOK
<1>2. CASE Claimable(c)
  <2>1. c \in DOMAIN commands /\ commands[c] \in Command
    BY WorkerFacts, CommandsType DEF Claim, At, Fits, IInv
  <2>2. commands' = [commands EXCEPT ![c].state = "applying"] /\ commands[c].state = "proposed"
    BY <1>2 DEF Claim, Claimable
  <2>3. [commands[c] EXCEPT !.state = "applying"] \in Command
    BY <2>1 DEF Command, States
  <2>4. /\ commands' \in Seq(Command) /\ Len(commands') = Len(commands)
        /\ DOMAIN commands' = DOMAIN commands
        /\ commands'[c].state = "applying" /\ commands'[c].times = commands[c].times
        /\ \A d \in DOMAIN commands : d # c => commands'[d] = commands[d]
    BY <2>1, <2>2, <2>3, CommandsType DEF IInv, TypeOK, Command
  <2>5. commands[c].times = 0
    BY <2>1, <2>2 DEF IInv, CommandsFit
  <2>6. Advance({})
    BY <2>2, <2>4, <2>5 DEF Advance, IInv, CommandsFit
  <2>7. CommandsFit'
    BY <2>4 DEF IInv, CommandsFit
  <2>8. OneWaits'
    BY <2>4 DEF IInv, OneWaits, Waiting
  <2>9. job \in Jobs /\ Become(w, job) /\ work'[w] = job
    BY <1>2, WorkerFacts, JobTypes, Becomes DEF Claim, Goto, Stages
  <2>10. /\ job.stage = "apply" /\ job.cmd = c /\ job.msg = work[w].msg
         /\ job.reply = work[w].reply
    BY WorkerFacts DEF Jobs
  <2> HIDE DEF job
  <2>11. \A note \in work[w].reply : Told(note)'
    BY <2>6, WorkerFacts, ToldStays DEF Fits
  <2>12. Fits(work[w])'
    BY <2>1, <2>4, <2>5, <2>9, <2>10, <2>11, WorkerFacts DEF Fits, Claim, At
  <2>13. \A d \in CommandIds : Holds(w, d)' => commands[d].state # "applying"
    BY <2>2, <2>9, <2>10 DEF Holds
  <2>14. QED
    BY <2>6, <2>7, <2>8, <2>9, <2>12, <2>13, Writes DEF Claim, IInv, TypeOK
<1>3. QED
  BY <1>1, <1>2

\* The plans that the tools make.
LEMMA PlansFit ==
  ASSUME IInv
  PROVE  Prepared \subseteq Plans /\ SendPlans \subseteq Plans
<1>1. 0 \in 0..MaxDays /\ 0 \in InvoiceIds /\ None \in Routes \cup {None}
  BY OwnerCommandsAssumption DEF InvoiceIds
<1>2. SendPlans \subseteq Plans
  BY DEF SendPlans, Plans, Tools, IInv, TypeOK
<1>3. \A tool \in Tools, i \in InvoiceIds :
        /\ [NoPlan EXCEPT !.tool = tool] \in Plans
        /\ [NoPlan EXCEPT !.tool = tool, !.invoice = i] \in Plans
  BY <1>1 DEF NoPlan, Plans
<1>4. [NoPlan EXCEPT !.tool = "create"] \in Plans
  BY <1>1, <1>3 DEF Tools
<1>5. \A i \in InvoiceIds : /\ [NoPlan EXCEPT !.tool = "reissue", !.invoice = i] \in Plans
                           /\ [NoPlan EXCEPT !.tool = "mark_paid", !.invoice = i] \in Plans
  BY <1>3 DEF Tools
<1>6. QED
  BY <1>2, <1>4, <1>5 DEF Prepared

\* A worker puts a change together.
LEMMA StagesChange ==
  ASSUME IInv, NEW w \in Workers, ~At(w, "idle"), NEW plan \in Plans, NEW thread \in Threads,
         Become(w, [work[w] EXCEPT !.stage = "propose", !.plan = plan, !.thread = thread]),
         UNCHANGED <<messages, commands, block, worldVars, route, today, faults>>
  PROVE  IInv'
<1> DEFINE job == [work[w] EXCEPT !.stage = "propose", !.plan = plan, !.thread = thread]
<1>1. job \in Jobs /\ work'[w] = job
  BY WorkerFacts, JobTypes, Becomes DEF Stages
<1>2. /\ job.stage = "propose" /\ job.plan = plan /\ job.thread = thread
      /\ job.msg = work[w].msg /\ job.reply = work[w].reply
  BY WorkerFacts DEF Jobs
<1> HIDE DEF job
<1>3. Fits(work[w])'
  BY <1>1, <1>2, WorkerFacts DEF Fits, Told, At
<1>4. \A d \in CommandIds : ~Holds(w, d)'
  BY <1>1, <1>2 DEF Holds
<1>5. QED
  BY <1>1, <1>3, <1>4, Quiet DEF IInv, TypeOK, job

LEMMA AskSafe ==
  ASSUME IInv, NEW w \in Workers, Ask(w)
  PROVE  IInv'
<1>1. CASE Reply(w, {})
  BY <1>1, NothingToAdd, GotoQuiet DEF Ask, At, IInv, TypeOK
<1>2. ASSUME NEW plan \in Prepared,
             Become(w, [work[w] EXCEPT !.stage = "propose", !.plan = plan, !.thread = Thread(w)])
      PROVE  IInv'
  <2>1. ~At(w, "idle") /\ Thread(w) \in Threads /\ plan \in Plans
    BY <1>2, WorkerFacts, PlansFit DEF Ask, At
  <2>2. QED
    BY <1>2, <2>1, StagesChange DEF Ask
<1>3. QED
  BY <1>1, <1>2 DEF Ask

LEMMA FollowUpSafe ==
  ASSUME IInv, NEW w \in Workers, FollowUp(w)
  PROVE  IInv'
<1>1. CASE Reply(w, {})
  BY <1>1, NothingToAdd, GotoQuiet DEF FollowUp, At, IInv, TypeOK
<1>2. ASSUME NEW plan \in SendPlans,
             Become(w, [work[w] EXCEPT !.stage = "propose", !.plan = plan,
                                       !.thread = commands[work[w].cmd].thread])
      PROVE  IInv'
  <2>1. commands[work[w].cmd] \in Command
    BY WorkerFacts, CommandsType DEF FollowUp, At, Fits, IInv
  <2>2. ~At(w, "idle") /\ commands[work[w].cmd].thread \in Threads /\ plan \in Plans
    BY <2>1, PlansFit DEF FollowUp, At, Command
  <2>3. QED
    BY <1>2, <2>2, StagesChange DEF FollowUp
<1>3. QED
  BY <1>1, <1>2 DEF FollowUp

\* The change that waited is replaced.
LEMMA Replacing ==
  ASSUME IInv, commands' = Superseded(commands, LatestProposed)
  PROVE  /\ Advance({}) /\ CommandsFit' /\ OneWaits'
         /\ Len(commands') = Len(commands) /\ DOMAIN commands' = DOMAIN commands
         /\ \A d \in DOMAIN commands :
              /\ d \in Waiting => commands'[d].state = "cancelled" /\ commands'[d].times = 0
              /\ d \notin Waiting => commands'[d] = commands[d]
<1>1. /\ commands' \in Seq(Command) /\ Len(commands') = Len(commands)
      /\ \A d \in DOMAIN commands :
           commands'[d] = IF d \in Waiting THEN [commands[d] EXCEPT !.state = "cancelled"]
                          ELSE commands[d]
  BY SupersededFacts DEF IInv
<1>2. DOMAIN commands' = DOMAIN commands
  BY <1>1, CommandsType DEF IInv
<1>3. \A d \in DOMAIN commands :
        d \in Waiting => commands'[d].state = "cancelled" /\ commands'[d].times = 0
  <2>1. ASSUME NEW d \in Waiting
        PROVE  commands'[d].state = "cancelled" /\ commands'[d].times = 0
    <3>1. /\ d \in DOMAIN commands /\ commands[d] \in Command /\ commands[d].times = 0
          /\ commands'[d] = [commands[d] EXCEPT !.state = "cancelled"]
      BY <1>1, CommandsType DEF Waiting, IInv, CommandsFit
    <3>2. QED
      BY <3>1 DEF Command
  <2>2. QED
    BY <2>1
<1>4. CommandsFit'
  BY <1>1, <1>2, <1>3 DEF IInv, CommandsFit
<1>5. Advance({})
  <2>1. Len(commands) <= Len(commands') /\ Len(commands') <= MaxCommands
    BY <1>1, <1>4, CommandsType DEF IInv, CommandsFit
  <2>2. \A d \in Waiting : commands[d].state = "proposed" /\ commands[d].times = 0
    BY DEF Waiting, IInv, CommandsFit
  <2>3. \A d \in DOMAIN commands \ Waiting : commands'[d] = commands[d]
    BY <1>1
  <2>4. QED
    BY <1>1, <2>1, <2>2, <2>3 DEF Advance
<1>6. Waiting' = {}
  BY <1>1, <1>2, <1>3 DEF Waiting
<1>7. OneWaits'
  BY <1>6 DEF OneWaits
<1>8. QED
  BY <1>1, <1>2, <1>3, <1>4, <1>5, <1>7

LEMMA Proposing ==
  ASSUME IInv, NEW plan \in Plans, NEW thread \in Threads, Len(commands) < MaxCommands,
         commands' = Append(Superseded(commands, LatestProposed), Proposed(plan, thread))
  PROVE  /\ Advance({}) /\ CommandsFit' /\ OneWaits'
         /\ LET c == Len(commands) + 1 IN
            /\ DOMAIN commands' = DOMAIN commands \cup {c} /\ c \notin DOMAIN commands
            /\ c \in CommandIds /\ commands'[c].state = "proposed" /\ commands'[c].times = 0
         /\ \A d \in DOMAIN commands :
              /\ d \in Waiting => commands'[d].state = "cancelled" /\ commands'[d].times = 0
              /\ d \notin Waiting => commands'[d] = commands[d]
<1> DEFINE old == Superseded(commands, LatestProposed)
           new == Proposed(plan, thread)
           c == Len(commands) + 1
<1>1. /\ old \in Seq(Command) /\ Len(old) = Len(commands)
      /\ \A d \in DOMAIN commands :
           old[d] = IF d \in Waiting THEN [commands[d] EXCEPT !.state = "cancelled"]
                    ELSE commands[d]
  BY SupersededFacts DEF IInv
<1>2. new \in Command /\ new.state = "proposed" /\ new.times = 0
  BY DEF Proposed, Command, States
<1> HIDE DEF old, new
<1>3. commands' = Append(old, new)
  BY DEF old, new
<1>4. /\ Len(commands) \in Nat /\ DOMAIN commands = 1..Len(commands)
      /\ commands' \in Seq(Command) /\ Len(commands') = c /\ DOMAIN commands' = 1..c
      /\ commands'[c] = new /\ \A d \in DOMAIN commands : commands'[d] = old[d]
  BY <1>1, <1>2, <1>3, CommandsType DEF IInv
<1>5. /\ DOMAIN commands' = DOMAIN commands \cup {c} /\ c \notin DOMAIN commands
      /\ c \in CommandIds
  BY <1>4, OwnerCommandsAssumption DEF CommandIds
<1>6. \A d \in DOMAIN commands :
        d \in Waiting => commands'[d].state = "cancelled" /\ commands'[d].times = 0
  <2>1. ASSUME NEW d \in Waiting
        PROVE  commands'[d].state = "cancelled" /\ commands'[d].times = 0
    <3>1. /\ d \in DOMAIN commands /\ commands[d] \in Command /\ commands[d].times = 0
          /\ commands'[d] = [commands[d] EXCEPT !.state = "cancelled"]
      BY <1>1, <1>4, CommandsType DEF Waiting, IInv, CommandsFit
    <3>2. QED
      BY <3>1 DEF Command
  <2>2. QED
    BY <2>1
<1>7. \A d \in DOMAIN commands : d \notin Waiting => commands'[d] = commands[d]
  BY <1>1, <1>4
<1>8. CommandsFit'
  BY <1>2, <1>4, <1>5, <1>6, <1>7, OwnerCommandsAssumption DEF IInv, CommandsFit
<1>9. Advance({})
  BY <1>4, <1>6, <1>7, OwnerCommandsAssumption DEF Advance, Waiting, IInv, CommandsFit
<1>10. Waiting' \subseteq {c}
  BY <1>5, <1>6, <1>7 DEF Waiting
<1>11. OneWaits'
  BY <1>10 DEF OneWaits
<1>12. QED
  BY <1>2, <1>4, <1>5, <1>6, <1>7, <1>8, <1>9, <1>11

\* A worker that writes commands and then has only its reply to give.
LEMMA WritesAndReplies ==
  ASSUME IInv, NEW w \in Workers, ~At(w, "idle"), Reply(w, {}),
         Advance({}), CommandsFit', OneWaits',
         UNCHANGED <<messages, worldVars, route, today, faults>>, block' \in BOOLEAN
  PROVE  IInv'
<1> DEFINE job == [work[w] EXCEPT !.stage = "reply"]
<1>1. Become(w, job) /\ job \in Jobs /\ work'[w] = job
  BY NothingToAdd, WorkerFacts, JobTypes, Becomes DEF Stages, Goto
<1>2. /\ job.stage = "reply" /\ job.msg = work[w].msg /\ job.reply = work[w].reply
  BY WorkerFacts DEF Jobs
<1> HIDE DEF job
<1>3. \A note \in work[w].reply : Told(note)'
  BY WorkerFacts, ToldStays DEF Fits
<1>4. Fits(work[w])'
  BY <1>1, <1>2, <1>3, WorkerFacts DEF Fits, At
<1>5. \A d \in CommandIds : ~Holds(w, d)'
  BY <1>1, <1>2 DEF Holds
<1>6. QED
  BY <1>1, <1>4, <1>5, Writes

LEMMA ProposeSafe ==
  ASSUME IInv, NEW w \in Workers, Propose(w)
  PROVE  IInv'
<1>1. ~At(w, "idle") /\ block' \in BOOLEAN
  BY DEF Propose, At, IInv, TypeOK
<1>2. work[w].plan \in Plans /\ work[w].thread \in Threads
  BY WorkerFacts DEF Propose, At, Fits
<1>3. Advance({}) /\ CommandsFit' /\ OneWaits'
  BY <1>2, Proposing, StandsStill, CommandsStay DEF Propose
<1>4. QED
  BY <1>1, <1>3, WritesAndReplies DEF Propose

LEMMA ProposeBlockSafe ==
  ASSUME IInv, NEW w \in Workers, ProposeBlock(w)
  PROVE  IInv'
  BY Replacing, WritesAndReplies DEF ProposeBlock, At

LEMMA AnswerBlockSafe ==
  ASSUME IInv, NEW w \in Workers, AnswerBlock(w)
  PROVE  IInv'
  BY NothingToAdd, GotoQuiet DEF AnswerBlock, At

-----------------------------------------------------------------------------
(***************************************************************************)
(* After the yes: the change is made by the worker that holds it.          *)
(***************************************************************************)

LEMMA HeldFacts ==
  ASSUME IInv, NEW w \in Workers, work[w].stage \in {"apply", "void", "save"}
  PROVE  LET c == work[w].cmd IN
         /\ c \in DOMAIN commands /\ c \in CommandIds /\ c \in InvoiceIds
         /\ commands[c] \in Command /\ commands[c].plan \in Plans
         /\ commands[c].state = "applying" /\ Holds(w, c) /\ ~At(w, "idle")
         /\ At(w, "apply") \/ At(w, "void") => commands[c].times = 0
  BY WorkerFacts, CommandsType, IdsFit DEF IInv, Fits, Holds, At, Command

\* The change is committed, and the worker goes on to say so.
LEMMA Committed ==
  ASSUME IInv, NEW w \in Workers, At(w, "apply") \/ At(w, "void"), Applied(w)
  PROVE  LET c == work[w].cmd IN
         /\ Advance({c}) /\ CommandsFit' /\ OneWaits'
         /\ DOMAIN commands' = DOMAIN commands
         /\ commands'[c].state = "applying" /\ commands'[c].times = 1
         /\ \A d \in DOMAIN commands : d # c => commands'[d] = commands[d]
<1> DEFINE c == work[w].cmd
           row == [commands[c] EXCEPT !.times = 1]
<1>1. /\ c \in DOMAIN commands /\ commands[c] \in Command
      /\ commands[c].state = "applying" /\ commands[c].times = 0
  BY HeldFacts DEF At
<1>2. commands' = [commands EXCEPT ![c] = row]
  BY <1>1 DEF Applied
<1>3. row \in Command /\ row.state = "applying" /\ row.times = 1
  BY <1>1 DEF Command
<1> HIDE DEF c, row
<1>4. /\ commands' \in Seq(Command) /\ Len(commands') = Len(commands)
      /\ DOMAIN commands' = DOMAIN commands
      /\ commands'[c].state = "applying" /\ commands'[c].times = 1
      /\ \A d \in DOMAIN commands : d # c => commands'[d] = commands[d]
  BY <1>1, <1>2, <1>3, CommandsType DEF IInv, TypeOK
<1>5. Advance({c})
  BY <1>1, <1>4, CommandsType DEF Advance, IInv, CommandsFit
<1>6. CommandsFit'
  BY <1>4 DEF IInv, CommandsFit
<1>7. OneWaits'
  BY <1>4 DEF IInv, OneWaits, Waiting
<1>8. QED
  BY <1>4, <1>5, <1>6, <1>7 DEF c

LEMMA AppliedSafe ==
  ASSUME IInv, NEW w \in Workers, At(w, "apply") \/ At(w, "void"), Applied(w),
         UNCHANGED <<messages, block, route, today, faults>>,
         invoices' \in [InvoiceIds -> Invoice],
         outbox' \subseteq [cmd : CommandIds, invoice : InvoiceIds, route : Routes, due : 0..MaxDays],
         InvoicesFit', OutboxFits', VoidTakesNoMoney'
  PROVE  IInv'
<1> DEFINE c == work[w].cmd
           job == [work[w] EXCEPT !.stage = "save", !.outcome = "done"]
<1>1. /\ Advance({c}) /\ CommandsFit' /\ OneWaits' /\ DOMAIN commands' = DOMAIN commands
      /\ commands'[c].state = "applying" /\ commands'[c].times = 1
  BY Committed
<1>2. c \in DOMAIN commands /\ c \in CommandIds /\ Holds(w, c)
  BY HeldFacts DEF At
<1>3. job \in Jobs /\ Become(w, job) /\ work'[w] = job
  BY WorkerFacts, JobTypes, Becomes DEF Applied, Stages
<1>4. /\ job.stage = "save" /\ job.outcome = "done" /\ job.cmd = c
      /\ job.msg = work[w].msg /\ job.reply = work[w].reply
  BY WorkerFacts DEF Jobs
<1> HIDE DEF job
<1>5. \A note \in work[w].reply : Told(note)'
  BY <1>1, WorkerFacts, ToldStays DEF Fits
<1>6. Fits(work[w])'
  BY <1>1, <1>2, <1>3, <1>4, <1>5, WorkerFacts DEF Fits, At
<1>7. \A d \in CommandIds : Holds(w, d)' => Holds(w, d)
  BY <1>2, <1>3, <1>4 DEF Holds
<1>8. \A d \in {c} : Holds(w, d)
  BY <1>2
<1>9. work' \in [Workers -> Jobs] /\ WorkersFit' /\ OneHolder' /\ RepliesTold'
  <2> HIDE DEF c
  <2>1. QED
    BY <1>1, <1>3, <1>6, <1>7, <1>8, WorkerMoves, RepliesStay
<1>10. TypeOK'
  BY <1>1, <1>9 DEF IInv, TypeOK, Advance
<1>11. QED
  BY <1>1, <1>9, <1>10 DEF IInv

\* The change is refused, or what makes it raises: nothing is committed.
LEMMA NotApplied ==
  ASSUME IInv, NEW w \in Workers, At(w, "apply") \/ At(w, "void"),
         NEW outcome \in {"refused", "failed"},
         Become(w, [work[w] EXCEPT !.stage = "save", !.outcome = outcome]),
         UNCHANGED <<messages, block, commands, worldVars, route, today>>,
         faults' \in 0..MaxFaults
  PROVE  IInv'
<1> DEFINE job == [work[w] EXCEPT !.stage = "save", !.outcome = outcome]
<1>1. job \in Jobs /\ Become(w, job) /\ work'[w] = job
  BY WorkerFacts, JobTypes, Becomes DEF Stages
<1>2. /\ job.stage = "save" /\ job.outcome = outcome /\ job.cmd = work[w].cmd
      /\ job.msg = work[w].msg /\ job.reply = work[w].reply
  BY WorkerFacts DEF Jobs
<1> HIDE DEF job
<1>3. Fits(work[w])'
  BY <1>1, <1>2, WorkerFacts DEF Fits, Told, At
<1>4. \A d \in CommandIds : Holds(w, d)' => Holds(w, d)
  BY <1>1, <1>2 DEF Holds, At
<1>5. QED
  BY <1>1, <1>3, <1>4, Quiet DEF IInv, TypeOK

LEMMA RefusedSafe ==
  ASSUME IInv, NEW w \in Workers, At(w, "apply") \/ At(w, "void"), Refused(w),
         UNCHANGED <<messages, block, route, today, faults>>
  PROVE  IInv'
  BY NotApplied DEF Refused, IInv, TypeOK

LEMMA ApplyRaisesSafe ==
  ASSUME IInv, NEW w \in Workers, ApplyRaises(w)
  PROVE  IInv'
<1>1. faults' \in 0..MaxFaults
  BY OwnerCommandsAssumption DEF ApplyRaises, IInv, TypeOK
<1>2. QED
  BY <1>1, NotApplied DEF ApplyRaises

\* The end of the change is written over the row that the worker holds.
LEMMA SaveSafe ==
  ASSUME IInv, NEW w \in Workers, Save(w)
  PROVE  IInv'
<1> DEFINE c == work[w].cmd
           done == work[w].outcome = "done"
           offers == done /\ Planned(w).tool \in {"create", "reissue"}
           said == CASE done -> {<<"done", c>>}
                     [] work[w].outcome = "refused" -> {<<"refused", c>>}
                     [] OTHER -> {}
           state == IF done THEN "done" ELSE "failed"
           row == [commands[c] EXCEPT !.state = state]
           stage == IF offers THEN "follow" ELSE "reply"
           reply == work[w].reply \cup said
           job == [work[w] EXCEPT !.stage = stage, !.reply = reply]
<1>1. /\ c \in DOMAIN commands /\ c \in CommandIds /\ commands[c] \in Command
      /\ commands[c].state = "applying" /\ Holds(w, c) /\ ~At(w, "idle")
  BY HeldFacts DEF Save, At
<1>2. commands[c].times = IF done THEN 1 ELSE 0
  BY WorkerFacts DEF Save, At, Fits
<1>3. row \in Command /\ row.state = state /\ row.times = commands[c].times
  BY <1>1 DEF Command, States
<1>4. commands' = [commands EXCEPT ![c] = row]
  BY <1>1 DEF Save
<1>5. said \subseteq {<<"done", c>>, <<"refused", c>>}
  OBVIOUS
<1>6. reply \in SUBSET Notes
  BY <1>1, <1>5, WorkerFacts DEF Notes, Jobs
<1>7. /\ <<"done", c>> \in said => done
      /\ <<"refused", c>> \in said => ~done
  OBVIOUS
<1> HIDE DEF row, said
<1>8. /\ commands' \in Seq(Command) /\ Len(commands') = Len(commands)
      /\ DOMAIN commands' = DOMAIN commands
      /\ commands'[c].state = state /\ commands'[c].times = commands[c].times
      /\ \A d \in DOMAIN commands : d # c => commands'[d] = commands[d]
  <2> HIDE DEF c, state
  <2>1. QED
    BY <1>1, <1>3, <1>4, CommandsType DEF IInv, TypeOK
<1>9. Advance({c})
  BY <1>1, <1>8, CommandsType DEF Advance, IInv, CommandsFit
<1>10. CommandsFit'
  BY <1>2, <1>8 DEF IInv, CommandsFit
<1>11. OneWaits'
  BY <1>8 DEF IInv, OneWaits, Waiting
<1>12. job \in Jobs /\ Become(w, job) /\ work'[w] = job
  <2>1. job \in Jobs
    <3>1. stage \in Stages
      BY DEF Stages
    <3> HIDE DEF stage, reply
    <3>2. QED
      BY <1>6, <3>1, WorkerFacts, JobTypes
  <2>2. QED
    BY <2>1, Becomes DEF Save, said
<1>13. /\ job.stage \in {"follow", "reply"} /\ job.cmd = c
       /\ job.msg = work[w].msg /\ job.reply = reply
  BY WorkerFacts DEF Jobs
<1>14. \A note \in work[w].reply : Told(note)'
  BY <1>9, WorkerFacts, ToldStays DEF Fits
<1>15. \A note \in said : Told(note)'
  <2> SUFFICES ASSUME NEW note \in said PROVE Told(note)'
    OBVIOUS
  <2>1. /\ note[2] = c
        /\ (note[1] = "done" /\ done) \/ (note[1] = "refused" /\ ~done)
    BY <1>5, <1>7
  <2>2. QED
    BY <1>1, <1>2, <1>8, <2>1 DEF Told
<1> HIDE DEF job
<1>16. Fits(work[w])'
  BY <1>1, <1>8, <1>12, <1>13, <1>14, <1>15, WorkerFacts DEF Fits, Save, At
<1>17. \A d \in CommandIds : ~Holds(w, d)'
  BY <1>12, <1>13 DEF Holds
<1>18. \A d \in {c} : Holds(w, d)
  BY <1>1
<1>19. QED
  <2> HIDE DEF c
  <2>1. QED
    BY <1>9, <1>10, <1>11, <1>12, <1>16, <1>17, <1>18, Writes DEF Save, IInv, TypeOK

-----------------------------------------------------------------------------
(***************************************************************************)
(* The tools that move money, and everyone else.                           *)
(***************************************************************************)

\* How the row of an invoice is written.
LEMMA InvoiceTypes ==
  ASSUME NEW inv \in Invoice, NEW day \in 0..MaxDays
  PROVE  /\ Voided(inv) \in Invoice /\ Paid(inv) \in Invoice /\ Draft(day) \in Invoice
         /\ [inv EXCEPT !.sent = TRUE, !.due = day] \in Invoice
         /\ \A status \in {"open", "processing"} : [inv EXCEPT !.checkout = status] \in Invoice
<1>1. Voided(inv) \in Invoice /\ Paid(inv) \in Invoice
  BY DEF Voided, Paid, Invoice
<1>2. Draft(day) \in Invoice
  BY OwnerCommandsAssumption DEF Draft, NoInvoice, Invoice
<1>3. [inv EXCEPT !.sent = TRUE, !.due = day] \in Invoice
  BY DEF Invoice
<1>4. \A status \in {"open", "processing"} : [inv EXCEPT !.checkout = status] \in Invoice
  BY DEF Invoice
<1>5. QED
  BY <1>1, <1>2, <1>3, <1>4

LEMMA InvoiceFields ==
  ASSUME NEW inv \in Invoice, NEW day \in 0..MaxDays
  PROVE  /\ LET old == Voided(inv) IN
            /\ old.made = inv.made /\ old.sent = inv.sent
            /\ old.quote # "accepted" /\ (inv.checkout # "processing" => old.checkout # "open")
         /\ LET paid == Paid(inv) IN
            /\ paid.made = inv.made /\ paid.sent = inv.sent /\ paid.void = inv.void
            /\ paid.quote = "paid" /\ paid.checkout # "open"
         /\ LET draft == Draft(day) IN draft.made /\ ~draft.sent /\ ~draft.void
<1>1. inv = [made |-> inv.made, sent |-> inv.sent, void |-> inv.void, quote |-> inv.quote,
             checkout |-> inv.checkout, due |-> inv.due]
  BY DEF Invoice
<1>2. QED
  BY <1>1 DEF Voided, Paid, Draft, NoInvoice, Invoice

\* The invoice of a change that was not committed was not made.
LEMMA NotMadeYet ==
  ASSUME IInv, NEW w \in Workers, At(w, "apply") \/ At(w, "void")
  PROVE  ~invoices[work[w].cmd].made /\ ~invoices[work[w].cmd].sent
  BY HeldFacts DEF At, IInv, InvoicesFit

LEMMA InvoicesWritten ==
  ASSUME IInv, NEW w \in Workers, At(w, "apply") \/ At(w, "void"), Applied(w),
         \A i \in InvoiceIds :
           /\ invoices'[i].made => invoices[i].made \/ i = work[w].cmd
           /\ invoices'[i].sent => invoices'[i].made
  PROVE  InvoicesFit'
<1> DEFINE c == work[w].cmd
<1>1. /\ Advance({c}) /\ DOMAIN commands' = DOMAIN commands /\ commands'[c].times = 1
  BY Committed
<1>2. c \in DOMAIN commands
  BY HeldFacts DEF At
<1>3. CommandIds \subseteq InvoiceIds
  BY IdsFit DEF IInv
<1> HIDE DEF c
<1>4. ASSUME NEW i \in CommandIds, invoices'[i].made
      PROVE  i \in DOMAIN commands' /\ commands'[i].times = 1
  <2>1. invoices[i].made \/ i = c
    BY <1>3, <1>4 DEF c
  <2>2. QED
    BY <1>1, <1>2, <2>1 DEF Advance, IInv, InvoicesFit
<1>5. QED
  BY <1>4 DEF InvoicesFit

LEMMA ApplyCreateSafe ==
  ASSUME IInv, NEW w \in Workers, ApplyCreate(w)
  PROVE  IInv'
<1> DEFINE c == work[w].cmd
<1>1. c \in InvoiceIds /\ invoices \in [InvoiceIds -> Invoice] /\ today \in 0..MaxDays
  BY HeldFacts DEF ApplyCreate, Applying, At, IInv, TypeOK
<1>2. /\ invoices' \in [InvoiceIds -> Invoice]
      /\ invoices'[c] = Draft(today)
      /\ \A i \in InvoiceIds \ {c} : invoices'[i] = invoices[i]
  BY <1>1, InvoiceTypes DEF ApplyCreate
<1>3. /\ At(w, "apply") /\ Applied(w) /\ UNCHANGED <<messages, block, outbox, route, today, faults>>
      /\ ~invoices[c].sent
  BY NotMadeYet DEF ApplyCreate, Applying
<1> HIDE DEF c
<1>4. Draft(today).made /\ ~Draft(today).sent /\ ~Draft(today).void
  BY <1>1, InvoiceFields
<1>5. InvoicesFit'
  BY <1>1, <1>2, <1>3, <1>4, InvoicesWritten DEF c, IInv, InvoicesFit
<1>6. OutboxFits'
  BY <1>2, <1>3 DEF IInv, TypeOK, OutboxFits
<1>7. VoidTakesNoMoney'
  BY <1>2, <1>4 DEF IInv, VoidTakesNoMoney
<1>8. outbox' \subseteq [cmd : CommandIds, invoice : InvoiceIds, route : Routes, due : 0..MaxDays]
  BY <1>3 DEF IInv, TypeOK
<1>9. QED
  BY <1>2, <1>3, <1>5, <1>6, <1>7, <1>8, AppliedSafe

LEMMA ApplySendSafe ==
  ASSUME IInv, NEW w \in Workers, ApplySend(w)
  PROVE  IInv'
<1> DEFINE plan == Planned(w)
           i == plan.invoice
           sent == [invoices[i] EXCEPT !.sent = TRUE, !.due = plan.day]
           email == [cmd |-> work[w].cmd, invoice |-> i, route |-> plan.route, due |-> plan.day]
<1>1. At(w, "apply") /\ UNCHANGED <<messages, block, route, today, faults>>
  BY DEF ApplySend, Applying
<1>2. plan \in Plans /\ work[w].cmd \in CommandIds
  BY <1>1, HeldFacts DEF At, Planned
<1> HIDE DEF plan
<1>3. CASE StillAsRead(plan) /\ IsOpen(i) /\ ~invoices[i].sent
  <2>1. /\ Applied(w) /\ outbox' = outbox \cup {email}
        /\ invoices' = [invoices EXCEPT ![i].sent = TRUE, ![i].due = plan.day]
    BY <1>3 DEF ApplySend, plan
  <2>2. i \in InvoiceIds /\ plan.day \in 0..MaxDays /\ plan.route \in Routes
    BY <1>2, <1>3 DEF Plans, StillAsRead, IInv, TypeOK
  <2>3. invoices \in [InvoiceIds -> Invoice] /\ invoices[i] \in Invoice /\ invoices[i].made
    BY <1>3, <2>2 DEF IInv, TypeOK, IsOpen
  <2>4. sent \in Invoice /\ sent.made /\ sent.sent /\ sent.void = invoices[i].void
        /\ sent.quote = invoices[i].quote /\ sent.checkout = invoices[i].checkout
    <3> DEFINE inv == invoices[i]
               day == plan.day
    <3>1. inv \in Invoice /\ day \in 0..MaxDays /\ inv.made
      BY <2>2, <2>3
    <3> HIDE DEF inv, day
    <3>2. [inv EXCEPT !.sent = TRUE, !.due = day] \in Invoice
      BY <3>1, InvoiceTypes
    <3>3. LET s == [inv EXCEPT !.sent = TRUE, !.due = day] IN
          /\ s.made = inv.made /\ s.sent /\ s.void = inv.void
          /\ s.quote = inv.quote /\ s.checkout = inv.checkout
      BY <3>1 DEF Invoice
    <3>4. QED
      BY <3>1, <3>2, <3>3 DEF inv, day
  <2>5. invoices' = [invoices EXCEPT ![i] = sent]
    BY <2>1, <2>3
  <2> HIDE DEF i, sent
  <2>6. /\ invoices' \in [InvoiceIds -> Invoice] /\ invoices'[i] = sent
        /\ \A j \in InvoiceIds \ {i} : invoices'[j] = invoices[j]
    BY <2>2, <2>3, <2>4, <2>5
  <2>7. InvoicesFit'
    BY <1>1, <2>1, <2>3, <2>4, <2>6, InvoicesWritten DEF IInv, InvoicesFit
  <2>8. OutboxFits'
    BY <2>1, <2>2, <2>4, <2>6 DEF IInv, TypeOK, OutboxFits
  <2>9. VoidTakesNoMoney'
    BY <2>4, <2>6 DEF IInv, VoidTakesNoMoney
  <2>10. outbox' \subseteq [cmd : CommandIds, invoice : InvoiceIds, route : Routes, due : 0..MaxDays]
    BY <1>2, <2>1, <2>2 DEF IInv, TypeOK
  <2>11. QED
    BY <1>1, <2>1, <2>6, <2>7, <2>8, <2>9, <2>10, AppliedSafe
<1>4. CASE ~(StillAsRead(plan) /\ IsOpen(i) /\ ~invoices[i].sent)
  BY <1>1, <1>4, RefusedSafe DEF ApplySend, plan
<1>5. QED
  BY <1>3, <1>4

\* A payment that is looked for first: the worker goes on, or the change is refused.
LEMMA ApplyReissueSafe ==
  ASSUME IInv, NEW w \in Workers, ApplyReissue(w)
  PROVE  IInv'
<1>1. CASE Refused(w)
  BY <1>1, RefusedSafe DEF ApplyReissue, Applying
<1>2. CASE Goto(w, "void") /\ UNCHANGED <<commands, worldVars>>
  <2> DEFINE job == [work[w] EXCEPT !.stage = "void"]
  <2>1. job \in Jobs /\ Become(w, job) /\ work'[w] = job
    BY <1>2, WorkerFacts, JobTypes, Becomes DEF Goto, Stages
  <2>2. /\ job.stage = "void" /\ job.cmd = work[w].cmd
        /\ job.msg = work[w].msg /\ job.reply = work[w].reply
    BY WorkerFacts DEF Jobs
  <2> HIDE DEF job
  <2>3. At(w, "apply") /\ UNCHANGED <<messages, commands, block, worldVars, route, today, faults>>
    BY <1>2 DEF ApplyReissue, Applying
  <2>4. Fits(work[w])'
    BY <2>1, <2>2, <2>3, WorkerFacts DEF Fits, Told, At
  <2>5. \A d \in CommandIds : Holds(w, d)' => Holds(w, d)
    BY <2>1, <2>2, <2>3 DEF Holds, At
  <2>6. QED
    BY <2>1, <2>3, <2>4, <2>5, Quiet DEF IInv, TypeOK
<1>3. QED
  BY <1>1, <1>2 DEF ApplyReissue

LEMMA ReplaceInvoiceSafe ==
  ASSUME IInv, NEW w \in Workers, ReplaceInvoice(w)
  PROVE  IInv'
<1> DEFINE c == work[w].cmd
           old == Planned(w).invoice
           void == Voided(invoices[old])
           draft == Draft(today)
<1>1. At(w, "void") /\ UNCHANGED <<messages, block, route, today, faults>>
  BY DEF ReplaceInvoice
<1>2. c \in InvoiceIds /\ old \in InvoiceIds
  BY <1>1, HeldFacts DEF At, Planned, Plans
<1>3. CASE IsOpen(old) /\ invoices[old].checkout # "processing"
  <2>1. /\ Applied(w) /\ UNCHANGED outbox
        /\ invoices' = [invoices EXCEPT ![old] = void, ![c] = draft]
    BY <1>3 DEF ReplaceInvoice
  <2>2. invoices \in [InvoiceIds -> Invoice] /\ invoices[old] \in Invoice /\ today \in 0..MaxDays
    BY <1>2 DEF IInv, TypeOK
  <2>3. void \in Invoice /\ draft \in Invoice
    BY <2>2, InvoiceTypes
  <2>4. /\ void.made = invoices[old].made /\ void.sent = invoices[old].sent
        /\ void.quote # "accepted" /\ void.checkout # "open"
    BY <1>3, <2>2, InvoiceFields
  <2>5. draft.made /\ ~draft.sent /\ ~draft.void
    BY <2>2, InvoiceFields
  <2>6. ~invoices[c].sent
    BY <1>1, NotMadeYet
  <2> HIDE DEF c, old, void, draft
  <2>7. /\ invoices' \in [InvoiceIds -> Invoice] /\ invoices'[c] = draft
        /\ old # c => invoices'[old] = void
        /\ \A i \in InvoiceIds \ {old, c} : invoices'[i] = invoices[i]
    BY <1>2, <2>1, <2>2, <2>3
  <2>8. InvoicesFit'
    <3>1. \A i \in InvoiceIds :
            /\ invoices'[i].made => invoices[i].made \/ i = c
            /\ invoices'[i].sent => invoices'[i].made
      BY <2>4, <2>5, <2>7 DEF IInv, InvoicesFit
    <3>2. QED
      BY <1>1, <2>1, <3>1, InvoicesWritten DEF c
  <2>9. OutboxFits'
    BY <2>1, <2>4, <2>6, <2>7 DEF IInv, TypeOK, OutboxFits
  <2>10. VoidTakesNoMoney'
    BY <2>4, <2>5, <2>7 DEF IInv, VoidTakesNoMoney
  <2>11. outbox' \subseteq [cmd : CommandIds, invoice : InvoiceIds, route : Routes, due : 0..MaxDays]
    BY <2>1 DEF IInv, TypeOK
  <2>12. QED
    BY <1>1, <2>1, <2>7, <2>8, <2>9, <2>10, <2>11, AppliedSafe
<1>4. CASE ~(IsOpen(old) /\ invoices[old].checkout # "processing")
  BY <1>1, <1>4, RefusedSafe DEF ReplaceInvoice
<1>5. QED
  BY <1>3, <1>4

\* An invoice that is paid stays what it was otherwise.
LEMMA PaidInvoice ==
  ASSUME IInv, NEW i \in InvoiceIds, invoices' = [invoices EXCEPT ![i] = Paid(@)]
  PROVE  /\ invoices' \in [InvoiceIds -> Invoice]
         /\ \A j \in InvoiceIds : /\ invoices'[j].made = invoices[j].made
                                  /\ invoices'[j].sent = invoices[j].sent
         /\ VoidTakesNoMoney'
<1> DEFINE paid == Paid(invoices[i])
<1>1. invoices \in [InvoiceIds -> Invoice] /\ invoices[i] \in Invoice /\ 0 \in 0..MaxDays
  BY OwnerCommandsAssumption DEF IInv, TypeOK
<1>2. paid \in Invoice
  BY <1>1, InvoiceTypes
<1>3. /\ paid.made = invoices[i].made /\ paid.sent = invoices[i].sent
      /\ paid.void = invoices[i].void /\ paid.quote = "paid" /\ paid.checkout # "open"
  BY <1>1, InvoiceFields
<1> HIDE DEF paid
<1>4. /\ invoices' \in [InvoiceIds -> Invoice] /\ invoices'[i] = paid
      /\ \A j \in InvoiceIds \ {i} : invoices'[j] = invoices[j]
  BY <1>1, <1>2 DEF paid
<1>5. QED
  BY <1>3, <1>4 DEF IInv, VoidTakesNoMoney

LEMMA ApplyMarkPaidSafe ==
  ASSUME IInv, NEW w \in Workers, ApplyMarkPaid(w)
  PROVE  IInv'
<1> DEFINE i == Planned(w).invoice
<1>1. At(w, "apply") /\ UNCHANGED <<messages, block, route, today, faults>>
  BY DEF ApplyMarkPaid, Applying
<1>2. i \in InvoiceIds
  BY <1>1, HeldFacts DEF At, Planned, Plans
<1>3. CASE Payable(i)
  <2>1. /\ Applied(w) /\ UNCHANGED outbox /\ invoices' = [invoices EXCEPT ![i] = Paid(@)]
    BY <1>3 DEF ApplyMarkPaid
  <2> HIDE DEF i
  <2>2. /\ invoices' \in [InvoiceIds -> Invoice] /\ VoidTakesNoMoney'
        /\ \A j \in InvoiceIds : /\ invoices'[j].made = invoices[j].made
                                 /\ invoices'[j].sent = invoices[j].sent
    BY <1>2, <2>1, PaidInvoice
  <2>3. InvoicesFit'
    BY <1>1, <2>1, <2>2, InvoicesWritten DEF IInv, InvoicesFit
  <2>4. OutboxFits'
    BY <2>1, <2>2 DEF IInv, TypeOK, OutboxFits
  <2>5. outbox' \subseteq [cmd : CommandIds, invoice : InvoiceIds, route : Routes, due : 0..MaxDays]
    BY <2>1 DEF IInv, TypeOK
  <2>6. QED
    BY <1>1, <2>1, <2>2, <2>3, <2>4, <2>5, AppliedSafe
<1>4. CASE ~Payable(i)
  BY <1>1, <1>4, RefusedSafe DEF ApplyMarkPaid
<1>5. QED
  BY <1>3, <1>4

\* What happens outside leaves the workers where they are.
LEMMA WorkersStay ==
  ASSUME IInv, UNCHANGED <<messages, work>>, Advance({})
  PROVE  WorkersFit' /\ OneHolder' /\ RepliesTold'
<1>1. WorkersFit'
  BY FitStays DEF WorkersFit
<1>2. OneHolder'
  BY DEF IInv, OneHolder, Holds
<1>3. QED
  BY <1>1, <1>2, RepliesStay

\* The customer opens a card payment, or pays.
LEMMA CustomerSafe ==
  ASSUME IInv, NEW i \in InvoiceIds, OpenCheckout(i) \/ PayByCard(i)
  PROVE  IInv'
<1>1. UNCHANGED <<messages, commands, block, outbox, route, today, work>> /\ faults' \in 0..MaxFaults
  BY OwnerCommandsAssumption DEF OpenCheckout, PayByCard, Disturb, IInv, TypeOK
<1>2. /\ invoices' \in [InvoiceIds -> Invoice] /\ VoidTakesNoMoney'
      /\ \A j \in InvoiceIds : /\ invoices'[j].made = invoices[j].made
                               /\ invoices'[j].sent = invoices[j].sent
  <2>1. CASE OpenCheckout(i)
    <3>1. PICK status \in {"open", "processing"} :
            invoices' = [invoices EXCEPT ![i].checkout = status]
      BY <2>1 DEF OpenCheckout
    <3>2. invoices[i] \in Invoice /\ ~invoices[i].void
      BY <2>1 DEF OpenCheckout, Payable, IInv, TypeOK, VoidTakesNoMoney
    <3> DEFINE open == [invoices[i] EXCEPT !.checkout = status]
    <3>3. open \in Invoice /\ open.made = invoices[i].made /\ open.sent = invoices[i].sent /\ ~open.void
      BY <3>2 DEF Invoice
    <3>4. invoices \in [InvoiceIds -> Invoice] /\ invoices' = [invoices EXCEPT ![i] = open]
      BY <3>1 DEF IInv, TypeOK
    <3> HIDE DEF open
    <3>5. /\ invoices' \in [InvoiceIds -> Invoice] /\ invoices'[i] = open
          /\ \A j \in InvoiceIds \ {i} : invoices'[j] = invoices[j]
      BY <3>3, <3>4
    <3>6. QED
      BY <3>3, <3>5 DEF IInv, VoidTakesNoMoney
  <2>2. CASE PayByCard(i)
    BY <2>2, PaidInvoice DEF PayByCard
  <2>3. QED
    BY <2>1, <2>2
<1>3. Advance({}) /\ CommandsFit' /\ OneWaits'
  BY <1>1, StandsStill, CommandsStay
<1>4. InvoicesFit' /\ OutboxFits'
  <2>1. InvoicesFit'
    BY <1>1, <1>2, IdsFit DEF IInv, InvoicesFit
  <2>2. OutboxFits'
    BY <1>1, <1>2 DEF IInv, TypeOK, OutboxFits
  <2>3. QED
    BY <2>1, <2>2
<1>5. TypeOK'
  BY <1>1, <1>2 DEF IInv, TypeOK
<1>6. QED
  BY <1>1, <1>2, <1>3, <1>4, <1>5, WorkersStay DEF IInv

LEMMA TimePasses ==
  ASSUME IInv, EditContact \/ NextDay
  PROVE  IInv'
<1>1. UNCHANGED <<messages, commands, block, worldVars, work>> /\ faults' \in 0..MaxFaults
  BY OwnerCommandsAssumption DEF EditContact, NextDay, Disturb, IInv, TypeOK
<1>2. route' \in Routes /\ today' \in 0..MaxDays
  BY OwnerCommandsAssumption DEF EditContact, NextDay, IInv, TypeOK
<1>3. Advance({}) /\ CommandsFit' /\ OneWaits'
  BY <1>1, StandsStill, CommandsStay
<1>4. TypeOK'
  BY <1>1, <1>2 DEF IInv, TypeOK, worldVars
<1>5. QED
  BY <1>1, <1>3, <1>4, WorkersStay, InvoicesStay DEF IInv

LEMMA LapseSafe ==
  ASSUME IInv, NEW c \in DOMAIN commands, Lapse(c)
  PROVE  IInv'
<1> DEFINE row == [commands[c] EXCEPT !.live = FALSE]
<1>1. commands[c] \in Command /\ commands' = [commands EXCEPT ![c] = row]
  BY CommandsType DEF Lapse, IInv
<1>2. /\ row \in Command /\ row.state = commands[c].state /\ row.times = commands[c].times
  BY <1>1 DEF Command
<1> HIDE DEF row
<1>3. /\ commands' \in Seq(Command) /\ Len(commands') = Len(commands)
      /\ DOMAIN commands' = DOMAIN commands
      /\ \A d \in DOMAIN commands : /\ commands'[d].state = commands[d].state
                                    /\ commands'[d].times = commands[d].times
  BY <1>1, <1>2, CommandsType DEF IInv, TypeOK
<1>4. Advance({}) /\ CommandsFit'
  BY <1>3, CommandsType DEF Advance, IInv, CommandsFit
<1>5. OneWaits'
  BY <1>3 DEF IInv, OneWaits, Waiting
<1>6. UNCHANGED <<messages, block, worldVars, route, today, work>> /\ faults' \in 0..MaxFaults
  BY OwnerCommandsAssumption DEF Lapse, Disturb, IInv, TypeOK
<1>7. TypeOK'
  BY <1>3, <1>6 DEF IInv, TypeOK, worldVars
<1>8. QED
  BY <1>4, <1>5, <1>6, <1>7, WorkersStay, InvoicesStay DEF IInv

-----------------------------------------------------------------------------
(***************************************************************************)
(* The invariant, and what follows from it.                                *)
(***************************************************************************)

\* One invoice from before, and perhaps one change that waits.
LEMMA InitIInv == Init => IInv
<1> SUFFICES ASSUME Init PROVE IInv
  OBVIOUS
<1>1. \/ commands = <<>>
      \/ \E row \in Command : row.state = "proposed" /\ row.times = 0 /\ commands = <<row>>
  <2>1. \A tool \in Tools : [NoPlan EXCEPT !.tool = tool] \in Plans
    BY OwnerCommandsAssumption DEF NoPlan, Plans, InvoiceIds
  <2>2. \A plan \in Plans, thread \in Threads :
          /\ Proposed(plan, thread) \in Command
          /\ Proposed(plan, thread).state = "proposed" /\ Proposed(plan, thread).times = 0
    BY DEF Proposed, Command, States
  <2>3. \A tool \in {"create", "reissue", "mark_paid"} : [NoPlan EXCEPT !.tool = tool] \in Plans
    BY <2>1 DEF Tools
  <2>4. QED
    BY <2>2, <2>3 DEF Init
<1>2. /\ commands \in Seq(Command) /\ Len(commands) <= MaxCommands /\ DOMAIN commands \subseteq {1}
      /\ \A c \in DOMAIN commands : commands[c].state = "proposed" /\ commands[c].times = 0
  <2>1. CASE commands = <<>>
    BY <2>1, OwnerCommandsAssumption
  <2>2. CASE commands # <<>>
    <3>1. PICK row \in Command : row.state = "proposed" /\ row.times = 0 /\ commands = <<row>>
      BY <1>1, <2>2
    <3>2. commands \in Seq(Command) /\ Len(commands) = 1 /\ commands[1] = row
          /\ DOMAIN commands = {1}
      BY <3>1
    <3>3. QED
      BY <3>1, <3>2, OwnerCommandsAssumption
  <2>3. QED
    BY <2>1, <2>2
<1>3. /\ invoices \in [InvoiceIds -> Invoice]
      /\ 0 \in InvoiceIds /\ invoices[0].made /\ ~invoices[0].void
      /\ \A i \in InvoiceIds \ {0} : ~invoices[i].made /\ ~invoices[i].sent /\ ~invoices[i].void
  <2>1. PICK sent \in BOOLEAN, status \in {"none", "open"} :
          invoices = [i \in InvoiceIds |->
                        IF i = 0 THEN [Draft(0) EXCEPT !.sent = sent, !.checkout = status]
                        ELSE NoInvoice]
    BY DEF Init
  <2> DEFINE first == [Draft(0) EXCEPT !.sent = sent, !.checkout = status]
  <2>2. first \in Invoice /\ first.made /\ ~first.void
    <3> DEFINE draft == Draft(0)
    <3>1. NoInvoice \in Invoice /\ 0 \in 0..MaxDays
      BY OwnerCommandsAssumption DEF NoInvoice, Invoice
    <3>2. draft \in Invoice /\ draft.made /\ ~draft.void
      BY <3>1, InvoiceTypes, InvoiceFields
    <3> HIDE DEF draft
    <3>3. LET inv == [draft EXCEPT !.sent = sent, !.checkout = status] IN
          inv \in Invoice /\ inv.made /\ ~inv.void
      BY <3>2 DEF Invoice
    <3>4. QED
      BY <3>3 DEF draft
  <2>3. NoInvoice \in Invoice /\ ~NoInvoice.made /\ ~NoInvoice.sent /\ ~NoInvoice.void
    BY OwnerCommandsAssumption DEF NoInvoice, Invoice
  <2>4. 0 \in InvoiceIds
    BY OwnerCommandsAssumption DEF InvoiceIds
  <2> HIDE DEF first
  <2>5. invoices = [i \in InvoiceIds |-> IF i = 0 THEN first ELSE NoInvoice]
    BY <2>1 DEF first
  <2>6. QED
    BY <2>2, <2>3, <2>4, <2>5
<1>4. \A w \in Workers : work[w] = Idle /\ Idle.stage = "idle" /\ Idle.reply = {}
  BY DEF Init, Idle
<1>5. Idle \in Jobs
  <2>1. {} \in SUBSET Notes /\ 0 \in 0..MaxCommands
    BY OwnerCommandsAssumption
  <2>2. QED
    BY <2>1 DEF Idle, Jobs, Stages
<1>6. messages \in MessageRows /\ \A m \in Messages : messages[m].reply = {}
  BY DEF Init, MessageRows, MessageRow
<1>7. outbox = {} /\ faults = 0 /\ today = 0 /\ route \in Routes /\ block = FALSE
      /\ work = [w \in Workers |-> Idle]
  BY DEF Init
<1>8. TypeOK
  <2>1. faults \in 0..MaxFaults /\ today \in 0..MaxDays
    BY <1>7, OwnerCommandsAssumption
  <2>2. /\ work \in [Workers -> Jobs] /\ route \in Routes /\ block \in BOOLEAN
        /\ outbox \subseteq [cmd : CommandIds, invoice : InvoiceIds, route : Routes, due : 0..MaxDays]
    BY <1>5, <1>7
  <2>3. QED
    BY <1>2, <1>3, <1>6, <2>1, <2>2 DEF TypeOK, MessageRows, MessageRow
<1>9. WorkersFit /\ OneHolder /\ RepliesTold
  BY <1>4, <1>6 DEF WorkersFit, Fits, OneHolder, Holds, RepliesTold
<1>10. OneWaits /\ CommandsFit
  BY <1>2 DEF OneWaits, Waiting, CommandsFit
<1>11. InvoicesFit /\ OutboxFits /\ VoidTakesNoMoney
  <2>1. \A c \in CommandIds : c \in InvoiceIds \ {0}
    BY DEF CommandIds, InvoiceIds
  <2>2. QED
    BY <1>3, <1>7, <2>1 DEF InvoicesFit, OutboxFits, VoidTakesNoMoney
<1>12. QED
  BY <1>8, <1>9, <1>10, <1>11 DEF IInv

LEMMA NextIInv == IInv /\ [Next]_vars => IInv'
<1> SUFFICES ASSUME IInv, [Next]_vars PROVE IInv'
  OBVIOUS
<1>1. CASE UNCHANGED vars
  BY <1>1, StandsStill, CommandsStay, WorkersStay, InvoicesStay
     DEF vars, worldVars, IInv, TypeOK
<1>2. ASSUME NEW w \in Workers, \E m \in Messages : Take(w, m)
      PROVE  IInv'
  BY <1>2, TakeSafe
<1>3. ASSUME NEW w \in Workers, Handle(w)
      PROVE  IInv'
  BY <1>3, ResolveSafe, AnswerSafe, ExpireSafe, CloseSafe, ClaimSafe, AskSafe, ProposeSafe,
     ApplyCreateSafe, ApplySendSafe, ApplyReissueSafe, ReplaceInvoiceSafe, ApplyMarkPaidSafe,
     ApplyRaisesSafe, SaveSafe, FollowUpSafe, ProposeBlockSafe, AnswerBlockSafe DEF Handle
<1>4. ASSUME NEW w \in Workers, Finish(w) \/ Crash(w) \/ OutliveLease(w)
      PROVE  IInv'
  BY <1>4, LetsGo, OutliveLeaseSafe
<1>5. CASE World
  BY <1>5, CustomerSafe, TimePasses, LapseSafe DEF World
<1>6. QED
  BY <1>1, <1>2, <1>3, <1>4, <1>5 DEF Next

\* The invariant that the theorems below follow from.
THEOREM Invariance == Spec => []IInv
  BY InitIInv, NextIInv, PTL DEF Spec

\* Every variable keeps its type.
THEOREM TypeCorrect == Spec => []TypeOK
<1>1. IInv => TypeOK
  BY DEF IInv
<1>2. QED
  BY <1>1, Invariance, PTL

\* What a stored reply says of a change is so, and stays so: Close reports only
\* what it read as waiting, and a row that was settled is not written again.
THEOREM OwnerIsToldTheTruth == Spec => []RepliesAreTrue
<1>1. IInv => RepliesAreTrue
  BY DEF IInv, RepliesTold, Told, RepliesAreTrue
<1>2. QED
  BY <1>1, Invariance, PTL

\* A voided invoice has neither a quote to pay nor an open card payment.
THEOREM VoidedTakesNoPayment == Spec => []VoidTakesNoMoney
<1>1. IInv => VoidTakesNoMoney
  BY DEF IInv
<1>2. QED
  BY <1>1, Invariance, PTL

\* Only sending an invoice puts one on its way.
LEMMA OnlySendingSends ==
  ASSUME Next
  PROVE  UNCHANGED outbox \/ \E w \in Workers : ApplySend(w)
<1>1. ASSUME NEW w \in Workers, Handle(w), ~ApplySend(w)
      PROVE  UNCHANGED outbox
  BY <1>1 DEF Handle, worldVars, Resolve, Answer, Expire, Close, Claim, Ask, Propose, ApplyCreate,
     ApplyReissue, ReplaceInvoice, ApplyMarkPaid, ApplyRaises, Save, FollowUp, ProposeBlock,
     AnswerBlock, Refused
<1>2. ASSUME NEW w \in Workers, \/ \E m \in Messages : Take(w, m)
                                \/ Finish(w) \/ Crash(w) \/ OutliveLease(w)
      PROVE  UNCHANGED outbox
  BY <1>2 DEF Take, Finish, Crash, OutliveLease, worldVars
<1>3. CASE World
  BY <1>3 DEF World, OpenCheckout, PayByCard, EditContact, NextDay, Lapse, worldVars
<1>4. QED
  BY <1>1, <1>2, <1>3 DEF Next

\* An invoice goes out once, the way the customer is reached and with the day it
\* was sent: the yes is refused when what the owner read is not so any more.
THEOREM InvoiceSentOnce == Spec => SentOnceAsDated
<1>1. IInv /\ [Next]_vars =>
        [\A e \in outbox' \ outbox :
           /\ e.route = route /\ e.due = today
           /\ \A a \in outbox : a.invoice # e.invoice]_vars
  <2> SUFFICES ASSUME IInv, Next, NEW e \in outbox' \ outbox
               PROVE  /\ e.route = route /\ e.due = today
                      /\ \A a \in outbox : a.invoice # e.invoice
    OBVIOUS
  <2>1. PICK w \in Workers : ApplySend(w)
    BY OnlySendingSends
  <2>2. StillAsRead(Planned(w)) /\ ~invoices[Planned(w).invoice].sent
    BY <2>1 DEF ApplySend, Refused, worldVars
  <2>3. e = [cmd |-> work[w].cmd, invoice |-> Planned(w).invoice,
             route |-> Planned(w).route, due |-> Planned(w).day]
    BY <2>1, <2>2 DEF ApplySend, Refused, worldVars
  <2>4. QED
    BY <2>2, <2>3 DEF StillAsRead, IInv, OutboxFits
<1>2. QED
  BY <1>1, Invariance, PTL DEF Spec, SentOnceAsDated

-----------------------------------------------------------------------------
(***************************************************************************)
(* The commands keep the promise of Confirmation.                          *)
(***************************************************************************)

LEMMA Standings ==
  /\ StandingOf("proposed") = "waiting" /\ StandingOf("applying") = "taken"
  /\ StandingOf("cancelled") = "dropped" /\ StandingOf("expired") = "dropped"
  /\ StandingOf("done") = "settled" /\ StandingOf("failed") = "settled"
  BY DEF StandingOf

\* How a change stands, before and after a step.
LEMMA StandingFacts ==
  ASSUME NEW c \in CommandIds
  PROVE  /\ c \in DOMAIN commands => /\ standing[c] = StandingOf(commands[c].state)
                                     /\ effects[c] = commands[c].times
         /\ c \notin DOMAIN commands => standing[c] = "absent" /\ effects[c] = 0
         /\ c \in DOMAIN commands' => /\ standing'[c] = StandingOf(commands'[c].state)
                                      /\ effects'[c] = commands'[c].times
         /\ c \notin DOMAIN commands' => standing'[c] = "absent" /\ effects'[c] = 0
  BY DEF standing, effects

LEMMA StandingIsFunction ==
  /\ standing = [c \in CommandIds |-> standing[c]] /\ effects = [c \in CommandIds |-> effects[c]]
  /\ standing' = [c \in CommandIds |-> standing'[c]]
  /\ effects' = [c \in CommandIds |-> effects'[c]]
  BY DEF standing, effects

\* Only change c stands differently, or takes effect.
LEMMA OneStands ==
  ASSUME NEW c \in CommandIds, NEW s, NEW n, standing'[c] = s, effects'[c] = n,
         \A d \in CommandIds \ {c} : standing'[d] = standing[d] /\ effects'[d] = effects[d]
  PROVE  standing' = [standing EXCEPT ![c] = s] /\ effects' = [effects EXCEPT ![c] = n]
  BY StandingIsFunction

LEMMA SameEffects ==
  ASSUME NEW c \in CommandIds
  PROVE  /\ [standing EXCEPT ![c] = standing[c]] = standing
         /\ [effects EXCEPT ![c] = effects[c]] = effects
  BY StandingIsFunction

\* The rows change in state or in times, at one command at most.
LEMMA OneRow ==
  ASSUME IInv, NEW c \in DOMAIN commands, DOMAIN commands' = DOMAIN commands,
         \A d \in DOMAIN commands \ {c} :
           commands'[d].state = commands[d].state /\ commands'[d].times = commands[d].times
  PROVE  /\ standing' = [standing EXCEPT ![c] = StandingOf(commands'[c].state)]
         /\ effects' = [effects EXCEPT ![c] = commands'[c].times]
<1>1. c \in CommandIds
  BY IdsFit DEF IInv
<1>2. standing'[c] = StandingOf(commands'[c].state) /\ effects'[c] = commands'[c].times
  BY <1>1, StandingFacts
<1>3. \A d \in CommandIds \ {c} : standing'[d] = standing[d] /\ effects'[d] = effects[d]
  BY StandingFacts
<1>4. QED
  BY <1>1, <1>2, <1>3, OneStands

\* A step that leaves every row in its state and with its effects.
LEMMA NobodyStands ==
  ASSUME DOMAIN commands' = DOMAIN commands,
         \A d \in DOMAIN commands :
           commands'[d].state = commands[d].state /\ commands'[d].times = commands[d].times
  PROVE  UNCHANGED Promise!confirmationVars
<1>1. \A c \in CommandIds : standing'[c] = standing[c] /\ effects'[c] = effects[c]
  BY StandingFacts
<1>2. standing' = standing /\ effects' = effects
  BY <1>1, StandingIsFunction
<1>3. QED
  BY <1>2 DEF Promise!confirmationVars

LEMMA SameCommands ==
  ASSUME UNCHANGED commands
  PROVE  UNCHANGED Promise!confirmationVars
  BY NobodyStands

\* What is closed was waiting, or nothing changes.
LEMMA ClosingDrops ==
  ASSUME IInv, NEW c \in DOMAIN commands, NEW state \in {"cancelled", "expired"},
         commands' = Closed(commands, c, state)
  PROVE  Promise!Drop(c) \/ UNCHANGED Promise!confirmationVars
<1>1. /\ DOMAIN commands' = DOMAIN commands
      /\ \A d \in DOMAIN commands :
           commands'[d] = IF d = c /\ d \in Waiting THEN [commands[d] EXCEPT !.state = state]
                          ELSE commands[d]
  BY Closing, ClosedFacts DEF IInv
<1>2. CASE c \in Waiting
  <2>1. /\ commands[c].state = "proposed" /\ commands'[c].state = state
        /\ commands'[c].times = commands[c].times /\ c \in CommandIds
    BY <1>1, <1>2, CommandsType, IdsFit DEF IInv, Command, Waiting
  <2>2. /\ standing' = [standing EXCEPT ![c] = StandingOf(state)]
        /\ effects' = [effects EXCEPT ![c] = commands[c].times]
    BY <1>1, <2>1, OneRow
  <2>3. StandingOf(state) = "dropped" /\ standing[c] = "waiting" /\ effects[c] = commands[c].times
    BY <2>1, Standings, StandingFacts
  <2>4. effects' = effects
    BY <2>1, <2>2, <2>3, SameEffects
  <2>5. QED
    BY <2>2, <2>3, <2>4 DEF Promise!Drop
<1>3. CASE c \notin Waiting
  BY <1>1, <1>3, NobodyStands
<1>4. QED
  BY <1>2, <1>3

LEMMA InitImplements == Init => Promise!Init
<1> SUFFICES ASSUME Init PROVE Promise!Init
  OBVIOUS
<1>1. IInv
  BY InitIInv
<1>2. effects = [c \in CommandIds |-> 0]
  <2>1. \A c \in CommandIds : effects[c] = 0
    BY <1>1, StandingFacts DEF Init, IInv, CommandsFit, Proposed
  <2>2. QED
    BY <2>1, StandingIsFunction
<1>3. CASE commands = <<>>
  <2>1. \A c \in CommandIds : standing[c] = "absent"
    BY <1>3, StandingFacts
  <2>2. standing = Promise!Absent
    BY <2>1, StandingIsFunction DEF Promise!Absent
  <2>3. QED
    BY <1>2, <2>2 DEF Promise!Init
<1>4. CASE commands # <<>>
  <2>1. PICK row : commands = <<row>> /\ row.state = "proposed"
    BY <1>4 DEF Init, Proposed
  <2>2. DOMAIN commands = {1} /\ commands[1].state = "proposed" /\ 1 \in CommandIds
    BY <2>1, OwnerCommandsAssumption DEF CommandIds
  <2>3. standing[1] = "waiting" /\ \A c \in CommandIds \ {1} : standing[c] = "absent"
    BY <2>2, Standings, StandingFacts
  <2>4. standing = [Promise!Absent EXCEPT ![1] = "waiting"]
    BY <2>2, <2>3, StandingIsFunction DEF Promise!Absent
  <2>5. QED
    BY <1>2, <2>2, <2>4 DEF Promise!Init
<1>5. QED
  BY <1>3, <1>4

\* A claim takes the change that waits.
LEMMA ClaimTakes ==
  ASSUME IInv, NEW w \in Workers, Claim(w)
  PROVE  Promise!Take(work[w].cmd) \/ UNCHANGED Promise!confirmationVars
<1> DEFINE c == work[w].cmd
<1>1. c \in DOMAIN commands /\ c \in CommandIds /\ commands[c] \in Command
  BY WorkerFacts, CommandsType, IdsFit DEF Claim, At, Fits, IInv
<1> HIDE DEF c
<1>2. CASE ~Claimable(c)
  BY <1>2, SameCommands DEF Claim, c
<1>3. CASE Claimable(c)
  <2> DEFINE row == [commands[c] EXCEPT !.state = "applying"]
  <2>1. commands' = [commands EXCEPT ![c] = row] /\ commands[c].state = "proposed"
    BY <1>1, <1>3 DEF Claim, Claimable, c
  <2>2. row.state = "applying" /\ row.times = commands[c].times
    BY <1>1 DEF Command
  <2> HIDE DEF row
  <2>3. /\ DOMAIN commands' = DOMAIN commands /\ commands'[c] = row
        /\ \A d \in DOMAIN commands \ {c} : commands'[d] = commands[d]
    BY <1>1, <2>1
  <2>4. /\ standing' = [standing EXCEPT ![c] = "taken"]
        /\ effects' = [effects EXCEPT ![c] = commands[c].times]
    BY <1>1, <2>2, <2>3, OneRow, Standings
  <2>5. standing[c] = "waiting" /\ effects[c] = commands[c].times
    BY <1>1, <2>1, StandingFacts, Standings
  <2>6. effects' = effects
    BY <1>1, <2>4, <2>5, SameEffects
  <2>7. QED
    BY <2>4, <2>5, <2>6 DEF Promise!Take, c
<1>4. QED
  BY <1>2, <1>3

\* What commits under a claim takes effect once.
LEMMA AppliedTakesEffect ==
  ASSUME IInv, NEW w \in Workers, At(w, "apply") \/ At(w, "void"), Applied(w)
  PROVE  Promise!TakeEffect(work[w].cmd)
<1> DEFINE c == work[w].cmd
<1>1. /\ c \in DOMAIN commands /\ c \in CommandIds
      /\ commands[c].state = "applying" /\ commands[c].times = 0
  BY HeldFacts DEF At
<1>2. /\ DOMAIN commands' = DOMAIN commands
      /\ commands'[c].state = "applying" /\ commands'[c].times = 1
      /\ \A d \in DOMAIN commands : d # c => commands'[d] = commands[d]
  BY Committed
<1> HIDE DEF c
<1>3. standing' = [standing EXCEPT ![c] = "taken"] /\ effects' = [effects EXCEPT ![c] = 1]
  BY <1>1, <1>2, OneRow, Standings
<1>4. standing[c] = "taken" /\ effects[c] = 0
  BY <1>1, StandingFacts, Standings
<1>5. standing' = standing
  BY <1>1, <1>3, <1>4, SameEffects
<1>6. QED
  BY <1>3, <1>4, <1>5 DEF Promise!TakeEffect, c

LEMMA SaveSettles ==
  ASSUME IInv, NEW w \in Workers, Save(w)
  PROVE  Promise!Settle(work[w].cmd)
<1> DEFINE c == work[w].cmd
           state == IF work[w].outcome = "done" THEN "done" ELSE "failed"
           row == [commands[c] EXCEPT !.state = state]
<1>1. /\ c \in DOMAIN commands /\ c \in CommandIds /\ commands[c] \in Command
      /\ commands[c].state = "applying"
  BY HeldFacts DEF Save, At
<1>2. commands' = [commands EXCEPT ![c] = row]
  BY <1>1 DEF Save
<1>3. row.state = state /\ row.times = commands[c].times
  BY <1>1 DEF Command
<1>4. StandingOf(state) = "settled"
  BY Standings
<1> HIDE DEF c, row, state
<1>5. /\ DOMAIN commands' = DOMAIN commands /\ commands'[c] = row
      /\ \A d \in DOMAIN commands \ {c} : commands'[d] = commands[d]
  BY <1>1, <1>2
<1>6. /\ standing' = [standing EXCEPT ![c] = "settled"]
      /\ effects' = [effects EXCEPT ![c] = commands[c].times]
  BY <1>1, <1>3, <1>4, <1>5, OneRow
<1>7. standing[c] = "taken" /\ effects[c] = commands[c].times
  BY <1>1, StandingFacts, Standings
<1>8. effects' = effects
  BY <1>1, <1>6, <1>7, SameEffects
<1>9. QED
  BY <1>6, <1>7, <1>8 DEF Promise!Settle, c

\* A new change waits where the old one did.
LEMMA ProposeWaits ==
  ASSUME IInv, NEW w \in Workers, Propose(w)
  PROVE  \/ \E c \in CommandIds : Promise!Propose(c)
         \/ UNCHANGED Promise!confirmationVars
<1>1. CASE UNCHANGED commands
  BY <1>1, SameCommands
<1>2. CASE commands' = Append(Superseded(commands, LatestProposed),
                              Proposed(work[w].plan, work[w].thread))
  <2> DEFINE c == Len(commands) + 1
  <2>1. /\ DOMAIN commands' = DOMAIN commands \cup {c} /\ c \notin DOMAIN commands
        /\ c \in CommandIds /\ commands'[c].state = "proposed" /\ commands'[c].times = 0
        /\ \A d \in DOMAIN commands :
             /\ d \in Waiting => commands'[d].state = "cancelled" /\ commands'[d].times = 0
             /\ d \notin Waiting => commands'[d] = commands[d]
    <3>1. work[w].plan \in Plans /\ work[w].thread \in Threads
      BY WorkerFacts DEF Propose, At, Fits
    <3>2. QED
      BY <1>2, <3>1, Proposing DEF Propose
  <2> HIDE DEF c
  <2>2. standing[c] = "absent" /\ effects[c] = 0 /\ standing'[c] = "waiting" /\ effects'[c] = 0
    BY <2>1, StandingFacts, Standings
  <2>3. ASSUME NEW d \in CommandIds \ {c}
        PROVE  standing'[d] = Promise!Dropped(standing[d]) /\ effects'[d] = effects[d]
    <3>1. CASE d \notin DOMAIN commands
      BY <2>1, <3>1, StandingFacts DEF Promise!Dropped
    <3>2. CASE d \in Waiting
      <4>1. d \in DOMAIN commands /\ commands[d].state = "proposed" /\ commands[d].times = 0
        BY <3>2 DEF Waiting, IInv, CommandsFit
      <4>2. QED
        BY <2>1, <3>2, <4>1, StandingFacts, Standings DEF Promise!Dropped
    <3>3. CASE d \in DOMAIN commands \ Waiting
      <4>1. standing'[d] = standing[d] /\ effects'[d] = effects[d]
        BY <2>1, <3>3, StandingFacts
      <4>2. commands[d].state \in States \ {"proposed"}
        BY <3>3, CommandsType DEF IInv, Waiting, Command
      <4>3. standing[d] # "waiting"
        BY <3>3, <4>2, StandingFacts, Standings DEF States
      <4>4. QED
        BY <4>1, <4>3 DEF Promise!Dropped
    <3>4. QED
      BY <3>1, <3>2, <3>3
  <2>4. standing' = [[d \in CommandIds |-> Promise!Dropped(standing[d])] EXCEPT ![c] = "waiting"]
    BY <2>1, <2>2, <2>3, StandingIsFunction
  <2>5. effects' = effects
    BY <2>1, <2>2, <2>3, StandingIsFunction
  <2>6. QED
    BY <2>1, <2>2, <2>4, <2>5 DEF Promise!Propose
<1>3. QED
  BY <1>1, <1>2 DEF Propose

\* A request to block time drops the change that waits.
LEMMA ProposeBlockDrops ==
  ASSUME IInv, NEW w \in Workers, ProposeBlock(w)
  PROVE  \/ \E c \in CommandIds : Promise!Drop(c)
         \/ UNCHANGED Promise!confirmationVars
<1> DEFINE c == LatestProposed
<1>1. commands' = Superseded(commands, c)
  BY DEF ProposeBlock
<1>2. CASE c = 0
  BY <1>1, <1>2, SameCommands DEF Superseded
<1>3. CASE c # 0
  <2>1. c \in DOMAIN commands /\ c \in CommandIds
    BY <1>3, TheOneThatWaits, IdsFit DEF IInv, Waiting
  <2>2. commands' = Closed(commands, c, "cancelled")
    BY <1>1, <1>3 DEF Superseded
  <2> HIDE DEF c
  <2>3. QED
    BY <2>1, <2>2, ClosingDrops
<1>4. QED
  BY <1>2, <1>3

LEMMA HandleImplements ==
  ASSUME IInv, NEW w \in Workers, Handle(w)
  PROVE  Promise!Next \/ UNCHANGED Promise!confirmationVars
<1>1. CASE UNCHANGED commands
  BY <1>1, SameCommands
<1>2. CASE Expire(w) \/ Close(w)
  <2>1. work[w].cmd \in DOMAIN commands /\ DOMAIN commands \subseteq CommandIds
    BY <1>2, WorkerFacts, IdsFit DEF Expire, Close, At, Fits, IInv
  <2>2. Promise!Drop(work[w].cmd) \/ UNCHANGED Promise!confirmationVars
    BY <1>2, <2>1, ClosingDrops DEF Expire, Close
  <2>3. QED
    BY <2>1, <2>2 DEF Promise!Next
<1>3. CASE Claim(w)
  <2>1. work[w].cmd \in CommandIds
    BY <1>3, WorkerFacts, IdsFit DEF Claim, At, Fits, IInv
  <2>2. QED
    BY <1>3, <2>1, ClaimTakes DEF Promise!Next
<1>4. CASE Propose(w)
  BY <1>4, ProposeWaits DEF Promise!Next
<1>5. CASE (At(w, "apply") \/ At(w, "void")) /\ Applied(w)
  <2>1. work[w].cmd \in CommandIds
    BY <1>5, HeldFacts DEF At
  <2>2. QED
    BY <1>5, <2>1, AppliedTakesEffect DEF Promise!Next
<1>6. CASE Save(w)
  <2>1. work[w].cmd \in CommandIds
    BY <1>6, HeldFacts DEF Save, At
  <2>2. QED
    BY <1>6, <2>1, SaveSettles DEF Promise!Next
<1>7. CASE ProposeBlock(w)
  BY <1>7, ProposeBlockDrops DEF Promise!Next
<1>8. CASE ApplyCreate(w) \/ ApplySend(w) \/ ReplaceInvoice(w) \/ ApplyMarkPaid(w)
  BY <1>1, <1>5, <1>8 DEF ApplyCreate, ApplySend, ReplaceInvoice, ApplyMarkPaid, Applying, Refused
<1>9. CASE \/ Resolve(w) \/ Answer(w) \/ Ask(w) \/ ApplyReissue(w) \/ ApplyRaises(w)
           \/ FollowUp(w) \/ AnswerBlock(w)
  BY <1>1, <1>9 DEF Resolve, Answer, Ask, ApplyReissue, ApplyRaises, FollowUp, AnswerBlock, Refused
<1>10. QED
  BY <1>2, <1>3, <1>4, <1>6, <1>7, <1>8, <1>9 DEF Handle

LEMMA NextImplements == IInv /\ [Next]_vars => [Promise!Next]_Promise!confirmationVars
<1> SUFFICES ASSUME IInv, [Next]_vars
             PROVE  Promise!Next \/ UNCHANGED Promise!confirmationVars
  BY DEF Promise!confirmationVars
<1>1. CASE UNCHANGED vars
  BY <1>1, SameCommands DEF vars
<1>2. ASSUME NEW w \in Workers, Handle(w)
      PROVE  Promise!Next \/ UNCHANGED Promise!confirmationVars
  BY <1>2, HandleImplements
<1>3. ASSUME NEW w \in Workers, \/ \E m \in Messages : Take(w, m)
                                \/ Finish(w) \/ Crash(w) \/ OutliveLease(w)
      PROVE  UNCHANGED Promise!confirmationVars
  BY <1>3, SameCommands DEF Take, Finish, Crash, OutliveLease
<1>4. CASE World
  <2>1. ASSUME NEW c \in DOMAIN commands, Lapse(c)
        PROVE  UNCHANGED Promise!confirmationVars
    <3> DEFINE row == [commands[c] EXCEPT !.live = FALSE]
    <3>1. commands[c] \in Command /\ commands' = [commands EXCEPT ![c] = row]
      BY <2>1, CommandsType DEF Lapse, IInv
    <3>2. row.state = commands[c].state /\ row.times = commands[c].times
      BY <3>1 DEF Command
    <3> HIDE DEF row
    <3>3. QED
      BY <3>1, <3>2, NobodyStands
  <2>2. ASSUME ~\E c \in DOMAIN commands : Lapse(c)
        PROVE  UNCHANGED commands
    BY <1>4, <2>2 DEF World, OpenCheckout, PayByCard, EditContact, NextDay
  <2>3. QED
    BY <2>1, <2>2, SameCommands
<1>5. QED
  BY <1>1, <1>2, <1>3, <1>4 DEF Next

\* A change that is put to the owner waits until it is dropped or taken, only one
\* waits at a time, and it takes effect once, after it was taken, whichever
\* messages are handled side by side, again, or by a worker that is lost.
THEOREM ConfirmationImplemented == Spec => ImplementsConfirmation
<1>1. Init => Promise!Init
  BY InitImplements
<1>2. IInv /\ [Next]_vars => [Promise!Next]_Promise!confirmationVars
  BY NextImplements
<1>3. QED
  BY <1>1, <1>2, Invariance, PTL DEF Spec, ImplementsConfirmation, Promise!Spec
=============================================================================
