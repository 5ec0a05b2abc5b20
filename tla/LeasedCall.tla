----------------------------- MODULE LeasedCall -----------------------------
(***************************************************************************)
(* What every leased provider call of the workers promises, whether it      *)
(* transcribes a recording, writes a report or copies a drawing: a claim    *)
(* takes a new lease, the provider is called outside of any transaction,    *)
(* and the answer is stored under the newest lease or not at all.  Some     *)
(* things are settled for good once they are done, others can be claimed    *)
(* again.                                                                   *)
(***************************************************************************)
EXTENDS Naturals

CONSTANTS
  Things,    \* what is worked on under a lease
  Settled    \* those that are never claimed again once they are done

VARIABLES
  phase,     \* "open", "leased", "done" or "failed"
  lease,     \* the newest lease, counted
  stored     \* the lease under which the last answer was stored

leasedVars == <<phase, lease, stored>>

Init ==
  /\ phase = [t \in Things |-> "open"]
  /\ lease = [t \in Things |-> 0]
  /\ stored = [t \in Things |-> 0]

\* A lease that nobody has finished can be taken over.
Claim(t) ==
  /\ phase[t] = "done" => t \notin Settled
  /\ phase' = [phase EXCEPT ![t] = "leased"]
  /\ lease' = [lease EXCEPT ![t] = @ + 1]
  /\ UNCHANGED stored

Store(t) ==
  /\ phase[t] = "leased"
  /\ phase' = [phase EXCEPT ![t] = "done"]
  /\ stored' = [stored EXCEPT ![t] = lease[t]]
  /\ UNCHANGED lease

Fail(t) ==
  /\ phase[t] = "leased"
  /\ phase' = [phase EXCEPT ![t] = "failed"]
  /\ UNCHANGED <<lease, stored>>

Next == \E t \in Things : Claim(t) \/ Store(t) \/ Fail(t)

Spec == Init /\ [][Next]_leasedVars
=============================================================================
