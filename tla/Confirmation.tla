---------------------------- MODULE Confirmation ----------------------------
(***************************************************************************)
(* What the owner is promised about a change that is put to them: it waits  *)
(* until it is dropped or taken, only one waits at a time, and only one      *)
(* that was taken changes anything, once.                                   *)
(***************************************************************************)
EXTENDS Naturals

CONSTANT Changes

VARIABLES
  standing,  \* "absent", "waiting", "dropped", "taken" or "settled"
  effects    \* how often each change took effect

confirmationVars == <<standing, effects>>

Absent == [c \in Changes |-> "absent"]

\* One change may wait from before.
Init ==
  /\ \/ standing = Absent
     \/ \E c \in Changes : standing = [Absent EXCEPT ![c] = "waiting"]
  /\ effects = [c \in Changes |-> 0]

Dropped(s) == IF s = "waiting" THEN "dropped" ELSE s

\* A new change takes the place of the one that waits.
Propose(c) ==
  /\ standing[c] = "absent"
  /\ standing' = [[d \in Changes |-> Dropped(standing[d])] EXCEPT ![c] = "waiting"]
  /\ UNCHANGED effects

Drop(c) ==
  /\ standing[c] = "waiting"
  /\ standing' = [standing EXCEPT ![c] = "dropped"]
  /\ UNCHANGED effects

Take(c) ==
  /\ standing[c] = "waiting"
  /\ standing' = [standing EXCEPT ![c] = "taken"]
  /\ UNCHANGED effects

TakeEffect(c) ==
  /\ standing[c] = "taken" /\ effects[c] = 0
  /\ effects' = [effects EXCEPT ![c] = 1]
  /\ UNCHANGED standing

Settle(c) ==
  /\ standing[c] = "taken"
  /\ standing' = [standing EXCEPT ![c] = "settled"]
  /\ UNCHANGED effects

Next == \E c \in Changes : Propose(c) \/ Drop(c) \/ Take(c) \/ TakeEffect(c) \/ Settle(c)

Spec == Init /\ [][Next]_confirmationVars
=============================================================================
