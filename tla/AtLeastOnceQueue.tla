------------------------- MODULE AtLeastOnceQueue -------------------------
(***************************************************************************)
(* What the rest of GVAS relies on when it puts a command on the outbox:   *)
(* the command is stored once, its handler is run at least once before the *)
(* command is reported done, and the command is settled exactly once, as   *)
(* done or as dead.  Nothing is promised about how often, how concurrently *)
(* or how late the handler runs; consumers have to be replay safe.         *)
(***************************************************************************)
CONSTANT Commands

VARIABLES phase,    \* phase[c]: what an observer of the queue knows of c
          handled   \* handled[c]: some run of the handler of c returned normally

vars == <<phase, handled>>

TypeOK ==
  /\ phase \in [Commands -> {"absent", "queued", "done", "dead"}]
  /\ handled \in [Commands -> BOOLEAN]

Init ==
  /\ phase = [c \in Commands |-> "absent"]
  /\ handled = [c \in Commands |-> FALSE]

Submit(c) ==
  /\ phase[c] = "absent"
  /\ phase' = [phase EXCEPT ![c] = "queued"]
  /\ UNCHANGED handled

\* A handler may still be running, and return, after the command was settled.
Handle(c) ==
  /\ phase[c] # "absent"
  /\ handled' = [handled EXCEPT ![c] = TRUE]
  /\ UNCHANGED phase

Finish(c) ==
  /\ phase[c] = "queued"
  /\ handled[c]
  /\ phase' = [phase EXCEPT ![c] = "done"]
  /\ UNCHANGED handled

GiveUp(c) ==
  /\ phase[c] = "queued"
  /\ phase' = [phase EXCEPT ![c] = "dead"]
  /\ UNCHANGED handled

Settle(c) == Finish(c) \/ GiveUp(c)

Next == \E c \in Commands : Submit(c) \/ Handle(c) \/ Settle(c)

SafeSpec == Init /\ [][Next]_vars

Spec == SafeSpec /\ \A c \in Commands : WF_vars(Settle(c))
===========================================================================
