--------------------------- MODULE CalendarBlocks ---------------------------
(***************************************************************************)
(* The owner blocks time on the booking calendar and opens it again, by a    *)
(* text of its own ("unavailable 8-12", yes, no, "unblock tue") or by a      *)
(* change the assistant puts to them.                                        *)
(*   application/calendar_blocks.py, domain/calendar_blocks.py,              *)
(*   infrastructure/calendar_block_repositories.py, the calendar tools of    *)
(*   composition/owner_change_tools.py, the schedule of                      *)
(*   infrastructure/calendly/availability.py, composition/intents.py         *)
(*                                                                           *)
(* One business.  Its calendar gives hours by the weekday, and by the date   *)
(* where a date has a rule of its own; a rule is changed by reading all of   *)
(* them and writing all of them back.  Hours are sets of slots.  A message   *)
(* is handled again when its worker was lost.                                *)
(***************************************************************************)
EXTENDS Naturals, Sequences, FiniteSets

CONSTANTS
  Workers,
  Slots,        \* the bookable hours of a usual day
  Ranges,       \* the times of day the owner names
  MaxDays,      \* bound: days 1..MaxDays
  MaxMessages,  \* bound: messages of the owner
  MaxBlocks,    \* bound: blocks asked for
  MaxFaults,    \* bound: workers lost, calendar calls that fail, and what happens outside:
                \* proposals that lapse, a midnight, an approval
  Nothing

ASSUME CalendarBlocksAssumption ==
  /\ Nothing \notin Workers /\ Slots # {} /\ Ranges \subseteq (SUBSET Slots) \ {{}}
  /\ Nothing \notin [open : SUBSET Slots, overridden : BOOLEAN]
  /\ MaxDays \in Nat \ {0} /\ MaxMessages \in Nat /\ MaxFaults \in Nat
  /\ MaxBlocks \in Nat \ {0, 1}  \* the two that BlocksInit may start with

VARIABLES
  rules,    \* the hours of each day at the calendar
  blocks,   \* the rows of calendar_blocks, in the order of created_at
  command,  \* the change of the assistant that waits for a yes
  booking,  \* the booking request that waits for the owner
  again,    \* messages to be handled once more
  today,
  work,     \* what each worker is doing
  doubt,    \* days whose records a failure left behind what the calendar says
  used      \* the consumed part of the bounds

blocksVars == <<rules, blocks, command, booking, again, today, work, doubt, used>>

Days == 1..MaxDays
BlockIds == 1..MaxBlocks

\* The booking request is for the first slot of the first day.
BookedDay == 1
BookedSlot == CHOOSE s \in Slots : TRUE

\* DayHours.
Hours == [open : SUBSET Slots, overridden : BOOLEAN]
Usual == [open |-> Slots, overridden |-> FALSE]

\* sure: the calendar was seen to have the block; it is not a column.
Blocks == [day : Days, slots : SUBSET Slots, state : {"proposed", "applied", "cancelled", "removed"},
           previous : Hours \cup {Nothing}, live : BOOLEAN, reference : BOOLEAN, sure : BOOLEAN]

\* The arguments of the two tools: named are the blocks that were read back.
Plans == [tool : {"block", "unblock"}, days : SUBSET Days, slots : SUBSET Slots,
          named : SUBSET BlockIds]

\* What a text can be read as; a text that names no day, or no one range, is asked
\* about and changes nothing.
Unavailable == [kind : {"unavailable"}, day : Days, slots : Ranges]
Unblocks == [kind : {"unblock"}, day : Days]
Confirmations == [kind : {"yes", "no"}]
Texts == Unavailable \cup Unblocks \cup Confirmations \cup [kind : {"other"}]

\* by: who asked for the change of a day, a text or a tool.
Stages == {"idle", "resolve", "ask", "propose", "day", "read", "write", "check", "record"}
Jobs == [stage : Stages, text : Texts \cup {Nothing}, by : {"text", "tool"}, undo : BOOLEAN,
         day : Days, block : 0..MaxBlocks, named : SUBSET BlockIds, target : Hours,
         rules : [Days -> Hours] \cup {Nothing}, plan : Plans \cup {Nothing}, todo : SUBSET Days]
Idle == [stage |-> "idle", text |-> Nothing, by |-> "text", undo |-> FALSE, day |-> 1, block |-> 0,
         named |-> {}, target |-> Usual, rules |-> Nothing, plan |-> Nothing, todo |-> {}]

BlocksTypeOK ==
  /\ rules \in [Days -> Hours]
  /\ blocks \in Seq(Blocks) /\ Len(blocks) <= MaxBlocks
  /\ command \in Plans \cup {Nothing}
  /\ booking \in {"none", "awaiting", "declined", "approved"}
  /\ again \subseteq Texts
  /\ today \in 1..MaxDays
  /\ work \in [Workers -> Jobs]
  /\ doubt \subseteq Days
  /\ used \in [messages : 0..MaxMessages, faults : 0..MaxFaults]

-----------------------------------------------------------------------------
(***************************************************************************)
(* The repository.                                                          *)
(***************************************************************************)

\* latest_proposed: 0 when none waits.
LatestProposed ==
  LET waiting == {b \in DOMAIN blocks : blocks[b].state = "proposed"} IN
  IF waiting = {} THEN 0 ELSE CHOOSE b \in waiting : \A c \in waiting : c <= b

AppliedOn(d) == {b \in DOMAIN blocks : blocks[b].day = d /\ blocks[b].state = "applied"}
Oldest(bs) == CHOOSE b \in bs : \A c \in bs : b <= c

\* What waits is cancelled.  A yes to it may have reached the calendar.
Dropped(b) == IF b = 0 THEN blocks ELSE [blocks EXCEPT ![b].state = "cancelled"]
DoubtOfDropped(b) ==
  IF b # 0 /\ blocks[b].previous # Nothing THEN doubt \cup {blocks[b].day} ELSE doubt

NewBlock(d, slots, state, previous, reference) ==
  [day |-> d, slots |-> slots, state |-> state, previous |-> previous, live |-> TRUE,
   reference |-> reference, sure |-> FALSE]

-----------------------------------------------------------------------------
(***************************************************************************)
(* A worker and its message.                                                *)
(***************************************************************************)

At(w, stage) == work[w].stage = stage
Become(w, job) == work' = [work EXCEPT ![w] = job]
Goto(w, stage) == Become(w, [work[w] EXCEPT !.stage = stage])

\* The reply; the run of the message is stored with it.
Reply(w) == Become(w, Idle)

\* One day of a change is done with; the tools go on with the next.
DayDone(w) ==
  IF work[w].by = "tool"
  THEN Become(w, [work[w] EXCEPT !.stage = "day", !.todo = work[w].todo \ {work[w].day}, !.rules = Nothing])
  ELSE Reply(w)

Fault == used.faults < MaxFaults /\ used' = [used EXCEPT !.faults = @ + 1]

Take(w) ==
  /\ At(w, "idle")
  /\ \/ \E text \in again :
          /\ Become(w, [Idle EXCEPT !.stage = "resolve", !.text = text])
          /\ again' = again \ {text}
          /\ UNCHANGED used
     \/ /\ used.messages < MaxMessages
        /\ \E text \in Texts : Become(w, [Idle EXCEPT !.stage = "resolve", !.text = text])
        /\ used' = [used EXCEPT !.messages = @ + 1]
        /\ UNCHANGED again
  /\ UNCHANGED <<rules, blocks, command, booking, today, doubt>>

\* An unblock that reached the calendar and is not recorded.
LeavesBehind(w) ==
  IF work[w].undo /\ work[w].stage \in {"check", "record"} /\ rules[work[w].day] = work[w].target
  THEN doubt \cup {work[w].day} ELSE doubt

Crash(w) ==
  /\ ~At(w, "idle") /\ Fault
  /\ again' = again \cup {work[w].text}
  /\ doubt' = LeavesBehind(w)
  /\ Become(w, Idle)
  /\ UNCHANGED <<rules, blocks, command, booking, today>>

-----------------------------------------------------------------------------
(***************************************************************************)
(* The handler of the texts.                                                *)
(***************************************************************************)

\* A change of the assistant that waits has every message.
Texted(w, kind) == At(w, "resolve") /\ command = Nothing /\ work[w].text.kind = kind

\* A block that misses the booking answers it (mutant).
AnswersAnything(d, slots) == booking = "awaiting"

\* overlaps, of the one request that waits.
Answers(d, slots) == booking = "awaiting" /\ d = BookedDay /\ BookedSlot \in slots

Propose(w) ==
  LET text == work[w].text IN
  /\ Texted(w, "unavailable")
  /\ IF text.day < today THEN UNCHANGED <<blocks, doubt>>
     ELSE /\ Len(blocks) < MaxBlocks
          /\ blocks' = Append(Dropped(LatestProposed),
                         NewBlock(text.day, text.slots, "proposed", Nothing,
                                  Answers(text.day, text.slots)))
          /\ doubt' = DoubtOfDropped(LatestProposed)
  /\ Reply(w)
  /\ UNCHANGED <<rules, command, booking, again, today, used>>

\* "no", and a yes that comes too late.
Cancel(w) ==
  LET b == LatestProposed IN
  /\ Texted(w, "no") \/ (Texted(w, "yes") /\ b # 0 /\ ~blocks[b].live)
  /\ b # 0
  /\ blocks' = Dropped(b)
  /\ doubt' = DoubtOfDropped(b)
  /\ Reply(w)
  /\ UNCHANGED <<rules, command, booking, again, today, used>>

\* The hours to go back to are read again (mutant).
PreviousReread(b) == rules[blocks[b].day]

\* The hours before the first yes, also when it is tried again.
Previous(b) == IF blocks[b].previous = Nothing THEN rules[blocks[b].day] ELSE blocks[b].previous

Without(hours, slots) == [open |-> hours.open \ slots, overridden |-> TRUE]

Apply(w) ==
  LET b == LatestProposed IN
  /\ Texted(w, "yes") /\ b # 0 /\ blocks[b].live
  /\ blocks' = [blocks EXCEPT ![b].previous = Previous(b)]
  /\ Become(w, [work[w] EXCEPT !.stage = "read", !.day = blocks[b].day, !.block = b,
                               !.target = Without(Previous(b), blocks[b].slots)])
  /\ UNCHANGED <<rules, command, booking, again, today, doubt, used>>

\* The hours of the oldest block in force; a day that had no rule of its own gets
\* its weekday's hours back.
Restored(bs) ==
  LET previous == blocks[Oldest(bs)].previous IN
  IF previous.overridden THEN previous ELSE Usual

Unblock(w) ==
  LET d == work[w].text.day
      bs == AppliedOn(d)
  IN
  /\ Texted(w, "unblock")
  /\ IF d < today \/ bs = {} THEN Reply(w)
     ELSE Become(w, [work[w] EXCEPT !.stage = "read", !.undo = TRUE, !.day = d, !.named = bs,
                                    !.target = Restored(bs)])
  /\ UNCHANGED <<rules, blocks, command, booking, again, today, doubt, used>>

\* Nothing waits for a yes or a no: the message is the assistant's.
Answer(w) ==
  /\ At(w, "resolve")
  /\ \/ command = Nothing /\ (work[w].text.kind = "other"
                           \/ (work[w].text.kind \in {"yes", "no"} /\ LatestProposed = 0))
     \/ command # Nothing /\ work[w].text.kind # "yes"
  /\ command' = Nothing
  /\ IF work[w].text.kind = "yes" \/ (work[w].text.kind = "no" /\ command # Nothing)
     THEN Reply(w) ELSE Goto(w, "ask")
  /\ UNCHANGED <<rules, blocks, booking, again, today, doubt, used>>

-----------------------------------------------------------------------------
(***************************************************************************)
(* The tools of the assistant.                                              *)
(***************************************************************************)

FromToday == {d \in Days : d >= today}

\* What prepare of each tool can return: the days on which there is something to
\* do.
Prepared ==
  LET closes(slots) == {d \in FromToday : rules[d].open \cap slots # {}}
      opens == {d \in FromToday : AppliedOn(d) # {}}
  IN
  {p \in [tool : {"block"}, days : (SUBSET Days) \ {{}}, slots : Ranges, named : {{}}] :
     p.days \subseteq closes(p.slots)}
  \cup {[tool |-> "unblock", days |-> ds, slots |-> {}, named |-> UNION {AppliedOn(d) : d \in ds}] :
          ds \in (SUBSET opens) \ {{}}}

\* The model answers in words or stages one change.
Ask(w) ==
  /\ At(w, "ask")
  /\ \/ Reply(w)
     \/ \E plan \in Prepared :
          Become(w, [work[w] EXCEPT !.stage = "propose", !.plan = plan])
  /\ UNCHANGED <<rules, blocks, command, booking, again, today, doubt, used>>

\* A block that waits is replaced.
ProposeChange(w) ==
  /\ At(w, "propose")
  /\ command' = work[w].plan
  /\ blocks' = Dropped(LatestProposed)
  /\ doubt' = DoubtOfDropped(LatestProposed)
  /\ Reply(w)
  /\ UNCHANGED <<rules, booking, again, today, used>>

\* The yes claims the change: if this worker is lost, it is not made again.
Confirm(w) ==
  /\ At(w, "resolve") /\ command # Nothing /\ work[w].text.kind = "yes"
  /\ Become(w, [work[w] EXCEPT !.stage = "day", !.by = "tool", !.plan = command,
                               !.undo = command.tool = "unblock", !.todo = command.days])
  /\ command' = Nothing
  /\ UNCHANGED <<rules, blocks, booking, again, today, doubt, used>>

NextDayOf(w) == CHOOSE d \in work[w].todo : \A e \in work[w].todo : d <= e

DaysDone(w) ==
  /\ At(w, "day") /\ work[w].todo = {}
  /\ Reply(w)
  /\ UNCHANGED <<rules, blocks, command, booking, again, today, doubt, used>>

Skip(w, d) ==
  /\ Become(w, [work[w] EXCEPT !.todo = work[w].todo \ {d}])
  /\ UNCHANGED blocks

\* BlockTimeTool._block: the block is saved, with the hours it replaces, before
\* the calendar is touched.
BlockDay(w) ==
  LET d == NextDayOf(w)
      slots == work[w].plan.slots
  IN
  /\ At(w, "day") /\ work[w].todo # {} /\ ~work[w].undo
  /\ IF d < today \/ rules[d].open \cap slots = {} THEN Skip(w, d)
     ELSE /\ Len(blocks) < MaxBlocks
          /\ blocks' = Append(blocks, NewBlock(d, slots, "applied", rules[d], FALSE))
          /\ Become(w, [work[w] EXCEPT !.stage = "read", !.day = d, !.block = Len(blocks) + 1,
                                       !.target = Without(rules[d], slots)])
  /\ UNCHANGED <<rules, command, booking, again, today, doubt, used>>

\* The blocks in force are those that were read back.
AsReadBack(bs, named) == bs # {} /\ bs = named

\* UnblockDayTool._unblock.
UnblockDay(w) ==
  LET d == NextDayOf(w)
      bs == AppliedOn(d)
      named == {b \in work[w].plan.named : blocks[b].day = d}
  IN
  /\ At(w, "day") /\ work[w].todo # {} /\ work[w].undo
  /\ IF AsReadBack(bs, named)
     THEN /\ Become(w, [work[w] EXCEPT !.stage = "read", !.day = d, !.named = bs,
                                       !.target = Restored(bs)])
          /\ UNCHANGED blocks
     ELSE Skip(w, d)
  /\ UNCHANGED <<rules, command, booking, again, today, doubt, used>>

-----------------------------------------------------------------------------
(***************************************************************************)
(* The calendar.                                                            *)
(***************************************************************************)

\* set_day_hours reads every rule.
ReadRules(w) ==
  /\ At(w, "read")
  /\ Become(w, [work[w] EXCEPT !.stage = "write", !.rules = rules])
  /\ UNCHANGED <<rules, blocks, command, booking, again, today, doubt, used>>

\* Every rule as it was read, but for the one of the day.
Rewritten(job) == [job.rules EXCEPT ![job.day] = job.target]

WriteRules(w) ==
  /\ At(w, "write")
  /\ rules' = Rewritten(work[w])
  /\ Become(w, [work[w] EXCEPT !.stage = "record", !.rules = Nothing])
  /\ UNCHANGED <<blocks, command, booking, again, today, doubt, used>>

\* The answer to the write is lost, or the calendar refuses it.  A text is
\* answered at once; the tools look at the day again.
WriteFails(w) ==
  LET job == work[w] IN
  /\ At(w, "write") /\ Fault
  /\ rules' \in {rules, Rewritten(job)}
  /\ IF job.by = "text"
     THEN /\ Reply(w)
          /\ doubt' = IF job.undo /\ rules'[job.day] = job.target THEN doubt \cup {job.day} ELSE doubt
     ELSE /\ Become(w, [job EXCEPT !.stage = "check", !.rules = Nothing])
          /\ UNCHANGED doubt
  /\ UNCHANGED <<blocks, command, booking, again, today>>

\* The day as the calendar has it now: closed, or open again, is as good as an
\* answer.
LookAgain(w) ==
  LET job == work[w]
      done == CASE ~job.undo -> rules[job.day].open \cap blocks[job.block].slots = {}
                [] job.undo /\ job.target.overridden -> rules[job.day].open = job.target.open
                [] OTHER -> ~rules[job.day].overridden
  IN
  /\ At(w, "check")
  /\ IF done THEN Goto(w, "record") /\ UNCHANGED blocks
     ELSE /\ DayDone(w)
          /\ blocks' = IF job.undo THEN blocks ELSE [blocks EXCEPT ![job.block].state = "removed"]
  /\ UNCHANGED <<rules, command, booking, again, today, doubt, used>>

\* It cannot be reached either: the owner reads that it is not sure.
LookFails(w) ==
  /\ At(w, "check") /\ Fault
  /\ doubt' = LeavesBehind(w)
  /\ DayDone(w)
  /\ UNCHANGED <<rules, blocks, command, booking, again, today>>

\* A read before the write fails: nothing was changed.
ReadFails(w) ==
  /\ Fault
  /\ \/ /\ At(w, "read")
        /\ IF work[w].by = "tool" THEN Goto(w, "check") ELSE Reply(w)
     \/ /\ At(w, "resolve") /\ command = Nothing
        /\ work[w].text.kind \in {"unavailable", "yes", "unblock"}
        /\ Reply(w)
     \/ /\ At(w, "day") /\ work[w].todo # {} /\ ~work[w].undo
        /\ Skip(w, NextDayOf(w))
  /\ UNCHANGED <<rules, blocks, command, booking, again, today, doubt>>

\* The last transaction.  A text's block is applied and the booking it answers is
\* declined; an unblock removes what it found, though a yes that was recorded for
\* the day goes back to the hours before it.
RecordChange(w) ==
  LET job == work[w]
      b == job.block
  IN
  /\ At(w, "record")
  /\ blocks' = IF job.undo
               THEN [c \in DOMAIN blocks |->
                       IF c \in job.named THEN [blocks[c] EXCEPT !.state = "removed"] ELSE blocks[c]]
               ELSE [blocks EXCEPT ![b].state = "applied", ![b].sure = TRUE]
  /\ booking' = IF ~job.undo /\ blocks[b].reference /\ booking = "awaiting" THEN "declined"
                ELSE booking
  /\ doubt' = IF job.undo /\ \E c \in DOMAIN blocks :
                    /\ blocks[c].day = job.day /\ blocks[c].state = "proposed"
                    /\ blocks[c].previous # Nothing
              THEN doubt \cup {job.day} ELSE doubt
  /\ DayDone(w)
  /\ UNCHANGED <<rules, command, again, today, used>>

-----------------------------------------------------------------------------
(***************************************************************************)
(* Everyone else.                                                           *)
(***************************************************************************)

\* The owner approves the request by its link or its reference.
ApproveBooking ==
  /\ booking = "awaiting" /\ Fault
  /\ booking' = "approved"
  /\ UNCHANGED <<rules, blocks, command, again, today, work, doubt>>

\* BLOCK_PROPOSAL_TTL and OWNER_COMMAND_TTL.
Lapse ==
  /\ Fault
  /\ \/ /\ LatestProposed # 0 /\ blocks[LatestProposed].live
        /\ blocks' = [blocks EXCEPT ![LatestProposed].live = FALSE]
        /\ UNCHANGED command
     \/ command # Nothing /\ command' = Nothing /\ UNCHANGED blocks
  /\ UNCHANGED <<rules, booking, again, today, work, doubt>>

Midnight ==
  /\ today < MaxDays /\ Fault
  /\ today' = today + 1
  /\ UNCHANGED <<rules, blocks, command, booking, again, work, doubt>>

\* One block may be in force and another be waiting for its yes.
InForceAlready == [NewBlock(BookedDay, {BookedSlot}, "applied", Usual, FALSE) EXCEPT !.sure = TRUE]

BlocksInit ==
  /\ booking \in {"none", "awaiting"}
  /\ \E before \in {<<>>, <<InForceAlready>>} :
       /\ \/ blocks = before
          \/ \E d \in Days, slots \in Ranges :
               blocks = Append(before, NewBlock(d, slots, "proposed", Nothing, Answers(d, slots)))
       /\ rules = [d \in Days |-> IF before # <<>> /\ d = BookedDay
                                  THEN Without(Usual, {BookedSlot}) ELSE Usual]
  /\ command = Nothing
  /\ again = {}
  /\ today = 1
  /\ work = [w \in Workers |-> Idle]
  /\ doubt = {}
  /\ used = [messages |-> 0, faults |-> 0]

Handle(w) ==
  \/ Propose(w) \/ Cancel(w) \/ Apply(w) \/ Unblock(w) \/ Answer(w)
  \/ Ask(w) \/ ProposeChange(w) \/ Confirm(w) \/ DaysDone(w) \/ BlockDay(w) \/ UnblockDay(w)
  \/ ReadRules(w) \/ WriteRules(w) \/ WriteFails(w) \/ LookAgain(w) \/ LookFails(w)
  \/ ReadFails(w) \/ RecordChange(w)

BlocksNext ==
  \/ \E w \in Workers : Take(w) \/ Handle(w) \/ Crash(w)
  \/ ApproveBooking \/ Lapse \/ Midnight

BlocksSpec == BlocksInit /\ [][BlocksNext]_blocksVars

-----------------------------------------------------------------------------
(***************************************************************************)
(* Properties.                                                             *)
(***************************************************************************)

SlotsOf(bs) == UNION {blocks[b].slots : b \in bs}

\* The calendar says what the records say: with one worker, whatever is lost or
\* fails, a day is closed exactly where a block is in force, and perhaps where
\* one waits or was not confirmed.  The exceptions are the days of doubt: a yes
\* that failed was dropped or outlived an unblock, or an unblock went unanswered.
CalendarAgrees ==
  \A d \in Days \ doubt :
    LET sure == {b \in AppliedOn(d) : blocks[b].sure}
        maybe == {b \in DOMAIN blocks : /\ blocks[b].day = d
                                        /\ \/ blocks[b].state = "applied" /\ ~blocks[b].sure
                                           \/ blocks[b].state = "proposed" /\ blocks[b].previous # Nothing}
    IN
    \/ \E w \in Workers : work[w].undo /\ work[w].day = d /\ work[w].stage \in {"record", "check"}
    \/ /\ rules[d].open \subseteq Slots \ SlotsOf(sure)
       /\ Slots \ SlotsOf(sure \cup maybe) \subseteq rules[d].open

\* The customer is sent to pick another time only when nobody can book theirs.
DeclinedIsClosed ==
  [][booking = "awaiting" /\ booking' = "declined" =>
       BookedSlot \notin rules[BookedDay].open]_blocksVars
=============================================================================
