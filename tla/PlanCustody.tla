----------------------------- MODULE PlanCustody -----------------------------
(***************************************************************************)
(* Plan sets: a PDF or image that the owner posts in the thread of a field-  *)
(* note case is registered for the case, copied from the channel into        *)
(* managed storage, and becomes a version of the case's plan set.            *)
(*   application/plan_custody.py, domain/plans.py,                           *)
(*   infrastructure/plan_repositories.py, object_storage.py, and             *)
(*   composition/field_note_workflow.py, dispatcher.py for the two ends.     *)
(*                                                                           *)
(* The copy is a command of an outbox that promises no more than             *)
(* AtLeastOnceQueue does.  Each transaction is a step, and so is each call   *)
(* of the channel and of the object store between two of them.               *)
(***************************************************************************)
EXTENDS Naturals, Sequences, FiniteSets

CONSTANTS
  Files,        \* attachments of the owner's messages
  Cases,        \* field-note cases of the conversation, each its own site with
                \* the one plan set
  Contents,     \* what may be in a file, told apart by its digest
  Content,      \* Content[f]
  Workers,
  MaxAttempts,  \* claims of a command before it is dead
  MaxFaults,    \* bound: processes that die, leases outlived, messages that are
                \* processed again
  None

ASSUME PlanCustodyAssumption ==
  /\ Content \in [Files -> Contents]
  /\ None \notin Files \cup Cases \cup Contents \cup Workers
  /\ MaxAttempts \in Nat \ {0}
  /\ MaxFaults \in Nat

\* The identity of an upload is derived from the plan set and the file, and the
\* identity of its command from the upload.
Uploads == Files \X Cases
FileOf(u) == u[1]
PlanSet(u) == u[2]

VARIABLES
  phase, handled,   \* the copy commands on the outbox
  attempts, holder, \* claims of a command, and the worker whose claim is newest
  active, opened,   \* the conversation's open case, and those ever opened
  mail, target,     \* how far the message of a file is, and the case it is for
  sites, planSets,  \* the cases with a row as a site, and with a plan set
  status, lease,    \* of the uploads' rows
  version,          \* the version a stored upload points to
  stored,           \* the lease under which it was stored
  versions,         \* the versions of each plan set, in the order of their numbers
  objects,          \* what is in the object store
  stage, job, token, \* of each worker: its next step, its upload and its lease
  faults            \* the consumed part of the bound

queueVars == <<phase, handled>>
claimVars == <<attempts, holder>>
threadVars == <<active, opened, mail, target>>
siteVars == <<sites, planSets>>
registryVars == <<threadVars, siteVars>>
rowVars == <<status, lease, version, stored>>
workVars == <<stage, job, token>>
vars == <<queueVars, claimVars, registryVars, rowVars, versions, objects, workVars, faults>>

Queue == INSTANCE AtLeastOnceQueue WITH
           Commands <- Uploads, phase <- phase, handled <- handled

Statuses == {"none", "pending", "copying", "stored", "failed"}
Stages == {"idle", "claim", "fetch", "put", "record", "failure", "ok", "error"}

TypeOK ==
  /\ Queue!TypeOK
  /\ attempts \in [Uploads -> Nat]
  /\ holder \in [Uploads -> Workers \cup {None}]
  /\ active \in opened \cup {None} /\ opened \subseteq Cases
  /\ mail \in [Files -> {"due", "routed", "registered"}]
  /\ target \in [Files -> Cases \cup {None}]
  /\ planSets \subseteq sites /\ sites \subseteq opened
  /\ status \in [Uploads -> Statuses]
  /\ lease \in [Uploads -> Nat] /\ version \in [Uploads -> Nat]
  /\ stored \in [Uploads -> Nat]
  /\ versions \in [Cases -> Seq(Contents)]
  /\ objects \subseteq Cases \X Contents
  /\ stage \in [Workers -> Stages]
  /\ job \in [Workers -> Uploads \cup {None}] /\ token \in [Workers -> Nat]
  /\ faults \in Nat

Init ==
  /\ Queue!Init
  /\ attempts = [u \in Uploads |-> 0]
  /\ holder = [u \in Uploads |-> None]
  /\ active = None /\ opened = {}
  /\ mail = [f \in Files |-> "due"] /\ target = [f \in Files |-> None]
  /\ sites = {} /\ planSets = {}
  /\ status = [u \in Uploads |-> "none"]
  /\ lease = [u \in Uploads |-> 0] /\ version = [u \in Uploads |-> 0]
  /\ stored = [u \in Uploads |-> 0]
  /\ versions = [c \in Cases |-> <<>>]
  /\ objects = {}
  /\ stage = [w \in Workers |-> "idle"]
  /\ job = [w \in Workers |-> None] /\ token = [w \in Workers |-> 0]
  /\ faults = 0

Fault == faults < MaxFaults /\ faults' = faults + 1

-----------------------------------------------------------------------------
(***************************************************************************)
(* The thread.  A message is processed after it was received, by another     *)
(* process, and again when its run was not stored.                           *)
(***************************************************************************)

CopyUntouched == UNCHANGED <<claimVars, versions, objects, workVars>>

OpenCase(c) ==
  /\ active = None /\ c \notin opened
  /\ active' = c /\ opened' = opened \cup {c}
  /\ UNCHANGED <<queueVars, mail, target, siteVars, rowVars, faults>> /\ CopyUntouched

ClearActive == active' = None

CloseCase ==
  /\ active # None
  /\ ClearActive
  /\ UNCHANGED <<queueVars, opened, mail, target, siteVars, rowVars, faults>> /\ CopyUntouched

\* plan_set_attachments and _active_case_id: the open case is read in a
\* transaction of its own, when the message of the file is processed.  Without one
\* nothing is registered.
Route(f) ==
  /\ mail[f] = "due" /\ active # None
  /\ target' = [target EXCEPT ![f] = active]
  /\ mail' = [mail EXCEPT ![f] = "routed"]
  /\ UNCHANGED <<queueVars, active, opened, siteVars, rowVars, faults>> /\ CopyUntouched

\* get_or_create: a case gets its site once, and a site its plan set.
WithSite(c) == sites \cup {c}
WithPlanSet(c) == planSets \cup {c}

\* A new row; a file that is registered again keeps the one it has.
Pending(u) == IF status[u] = "none" THEN "pending" ELSE status[u]

\* plan_set_copy_command: one for an upload, whatever has become of it.
EnqueueCopy(u) ==
  \/ phase[u] = "absent" /\ Queue!Submit(u)
  \/ phase[u] # "absent" /\ UNCHANGED queueVars

\* register_for_case: the site, its plan set, the upload and its command, in one
\* transaction, all of them only when they are not there yet.
Register(f) ==
  LET u == <<f, target[f]>> IN
  /\ mail[f] = "routed"
  /\ sites' = WithSite(PlanSet(u))
  /\ planSets' = WithPlanSet(PlanSet(u))
  /\ status' = [status EXCEPT ![u] = Pending(u)]
  /\ EnqueueCopy(u)
  /\ mail' = [mail EXCEPT ![f] = "registered"]
  /\ UNCHANGED <<active, opened, target, lease, version, stored, faults>> /\ CopyUntouched

\* The run of the message was not stored, or another handler runs beside it.
ProcessAgain(f) ==
  /\ mail[f] \in {"routed", "registered"}
  /\ Fault
  /\ mail' = [mail EXCEPT ![f] = "due"]
  /\ UNCHANGED <<queueVars, active, opened, target, siteVars, rowVars>> /\ CopyUntouched

-----------------------------------------------------------------------------
(***************************************************************************)
(* The copy: OutboxCommandDispatcher._copy_plan_set and                      *)
(* CopyPlanSetIntoCustodyService.copy.                                       *)
(***************************************************************************)

Goto(w, s) == stage' = [stage EXCEPT ![w] = s]

\* A command that is held is claimed again only when its holder has outlived the
\* lease on it.
Begin(w, u) ==
  /\ stage[w] = "idle" /\ phase[u] = "queued"
  /\ IF holder[u] = None THEN UNCHANGED faults ELSE Fault
  /\ attempts' = [attempts EXCEPT ![u] = @ + 1]
  /\ holder' = [holder EXCEPT ![u] = w]
  /\ job' = [job EXCEPT ![w] = u]
  /\ Goto(w, "claim")
  /\ UNCHANGED <<queueVars, registryVars, rowVars, versions, objects, token>>

\* TERMINAL: the upload is stored and its version is there.
AlreadyStored(u) == status[u] = "stored" /\ version[u] # 0

\* BUSY: another lease on the upload has not run out yet.
Busy(w) ==
  /\ stage[w] = "claim" /\ status[job[w]] = "copying"
  /\ Goto(w, "error")
  /\ UNCHANGED <<queueVars, claimVars, registryVars, rowVars, versions, objects, job, token, faults>>

Terminal(w) ==
  /\ stage[w] = "claim" /\ AlreadyStored(job[w])
  /\ Queue!Handle(job[w])
  /\ Goto(w, "ok")
  /\ UNCHANGED <<claimVars, registryVars, rowVars, versions, objects, job, token, faults>>

\* ACQUIRED: a new upload, one whose copy failed, or one whose lease ran out.
Acquire(w) ==
  LET u == job[w] IN
  /\ stage[w] = "claim" /\ status[u] # "none" /\ ~AlreadyStored(u)
  /\ status' = [status EXCEPT ![u] = "copying"]
  /\ lease' = [lease EXCEPT ![u] = @ + 1]
  /\ token' = [token EXCEPT ![w] = lease[u] + 1]
  /\ Goto(w, "fetch")
  /\ UNCHANGED <<queueVars, claimVars, registryVars, version, stored, versions, objects, job, faults>>

\* The channel hands out the file, or does not.
Fetch(w) ==
  /\ stage[w] = "fetch"
  /\ \E next \in {"put", "failure"} : Goto(w, next)
  /\ UNCHANGED <<queueVars, claimVars, registryVars, rowVars, versions, objects, job, token, faults>>

\* Where the object lies follows from the plan set and the digest.
ObjectOf(u) == <<PlanSet(u), Content[FileOf(u)]>>

\* The object is stored and the store says so or not, or it is not stored.
Put(w) ==
  /\ stage[w] = "put"
  /\ \/ \E next \in {"record", "failure"} :
          objects' = objects \cup {ObjectOf(job[w])} /\ Goto(w, next)
     \/ Goto(w, "failure") /\ UNCHANGED objects
  /\ UNCHANGED <<queueVars, claimVars, registryVars, rowVars, versions, job, token, faults>>

\* A fence on the status alone (mutant).
FencedByStatus(w) == status[job[w]] = "copying"

\* _lease_filter: the WHERE of both updates at the end of a copy.
Fenced(w) == status[job[w]] = "copying" /\ lease[job[w]] = token[w]

\* list_for_plan_set, in the order of the numbers.
NumbersOf(set, content) == {n \in DOMAIN versions[set] : versions[set][n] = content}

\* Every copy is a version (mutant).
WithCopy(set, content) == Append(versions[set], content)

\* The versions of a plan set once it has one with this content.  A plan set is
\* locked meanwhile: no content gets a second version.
WithContent(set, content) ==
  IF NumbersOf(set, content) # {} THEN versions[set] ELSE Append(versions[set], content)

NumberIn(series, content) == CHOOSE n \in DOMAIN series : series[n] = content

\* What a unit of work leaves behind that is closed without a commit.
RolledBack == UNCHANGED <<queueVars, status, version, stored, versions>>

\* record_stored; without the lease it is rolled back, the version with it.
RecordStored(w) ==
  LET u == job[w]
      set == PlanSet(u)
      content == Content[FileOf(u)]
      series == WithContent(set, content)
  IN
  /\ stage[w] = "record" /\ set \in planSets
  /\ \/ /\ Fenced(w)
        /\ versions' = [versions EXCEPT ![set] = series]
        /\ status' = [status EXCEPT ![u] = "stored"]
        /\ version' = [version EXCEPT ![u] = NumberIn(series, content)]
        /\ stored' = [stored EXCEPT ![u] = token[w]]
        /\ Queue!Handle(u)
        /\ Goto(w, "ok")
     \/ /\ ~Fenced(w)
        /\ Goto(w, "error")
        /\ RolledBack
  /\ UNCHANGED <<claimVars, registryVars, lease, objects, job, token, faults>>

\* record_failure, under the same fence.
RecordFailure(w) ==
  /\ stage[w] = "failure"
  /\ status' = IF Fenced(w) THEN [status EXCEPT ![job[w]] = "failed"] ELSE status
  /\ Goto(w, "error")
  /\ UNCHANGED <<queueVars, claimVars, registryVars, lease, version, stored, versions, objects, job, token, faults>>

Forget(w) ==
  /\ Goto(w, "idle")
  /\ job' = [job EXCEPT ![w] = None] /\ token' = [token EXCEPT ![w] = 0]

\* The command is marked by the worker whose claim is the newest.  The dead one
\* is reported in the thread.
Marked(w) ==
  LET u == job[w] IN
  \/ stage[w] = "ok" /\ Queue!Finish(u)
  \/ stage[w] = "error" /\ attempts[u] >= MaxAttempts /\ Queue!GiveUp(u)
  \/ stage[w] = "error" /\ attempts[u] < MaxAttempts /\ UNCHANGED queueVars

\* A failed command stays with the worker it failed in (mutant).
EndHolding(w) ==
  LET u == job[w] IN
  /\ stage[w] \in {"ok", "error"}
  /\ IF holder[u] = w
     THEN /\ Marked(w)
          /\ holder' = IF stage[w] = "ok" THEN [holder EXCEPT ![u] = None] ELSE holder
     ELSE UNCHANGED <<queueVars, holder>>
  /\ Forget(w)
  /\ UNCHANGED <<attempts, registryVars, rowVars, versions, objects, faults>>

End(w) ==
  LET u == job[w] IN
  /\ stage[w] \in {"ok", "error"}
  /\ IF holder[u] = w
     THEN Marked(w) /\ holder' = [holder EXCEPT ![u] = None]
     ELSE UNCHANGED <<queueVars, holder>>
  /\ Forget(w)
  /\ UNCHANGED <<attempts, registryVars, rowVars, versions, objects, faults>>

Crash(w) ==
  /\ stage[w] # "idle"
  /\ Fault
  /\ holder' = [holder EXCEPT ![job[w]] = IF @ = w THEN None ELSE @]
  /\ Forget(w)
  /\ UNCHANGED <<queueVars, attempts, registryVars, rowVars, versions, objects>>

Copy(w) ==
  \/ Busy(w) \/ Terminal(w) \/ Acquire(w) \/ Fetch(w) \/ Put(w)
  \/ RecordStored(w) \/ RecordFailure(w) \/ End(w)

-----------------------------------------------------------------------------
Thread ==
  \/ \E c \in Cases : OpenCase(c)
  \/ CloseCase
  \/ \E f \in Files : Route(f) \/ Register(f) \/ ProcessAgain(f)

Next ==
  \/ Thread
  \/ \E w \in Workers : (\E u \in Uploads : Begin(w, u)) \/ Copy(w) \/ Crash(w)

Spec == Init /\ [][Next]_vars

\* Workers poll for ever, and every call they make has a timeout.
FairSpec ==
  Spec /\ \A w \in Workers : WF_vars((\E u \in Uploads : Begin(w, u)) \/ Copy(w))

-----------------------------------------------------------------------------
\* Rows, numbers and objects agree, however often a file is posted, registered
\* and copied: a copy that is reported done is stored; what is stored points to
\* the version with the file's content; a version has its object in the store and
\* an upload that was stored as it; and no content is two versions of a plan set.
CustodyIsReal ==
  /\ \A u \in Uploads :
       /\ phase[u] = "done" => status[u] = "stored"
       /\ status[u] = "stored" => version[u] \in NumbersOf(PlanSet(u), Content[FileOf(u)])
  /\ \A c \in Cases : \A n \in DOMAIN versions[c] :
       /\ <<c, versions[c][n]>> \in objects
       /\ NumbersOf(c, versions[c][n]) = {n}
       /\ \E u \in Uploads : PlanSet(u) = c /\ status[u] = "stored" /\ version[u] = n

\* A copy is done under a lease, is stored under the newest one or not at all, and
\* is never started again once it is stored.
PhaseOf(s) ==
  CASE s \in {"none", "pending"} -> "open"
    [] s = "copying" -> "leased"
    [] s = "stored" -> "done"
    [] s = "failed" -> "failed"

Leased == INSTANCE LeasedCall WITH
  Things <- Uploads, Settled <- Uploads,
  phase <- [u \in Uploads |-> PhaseOf(status[u])]

ImplementsLeasedCall == Leased!Spec

\* A drawing that was registered is stored in the end, or the owner is told that it
\* is not: a lease left behind by a worker that died, and the claims used up by
\* finding it, do not leave it pending for ever.
DrawingsEnd ==
  \A u \in Uploads : status[u] = "pending" ~> (status[u] = "stored" \/ phase[u] = "dead")

-----------------------------------------------------------------------------
(***************************************************************************)
(* The inductive invariant of PlanCustodyProofs.                             *)
(***************************************************************************)

\* What a worker knows at its next step: whose copy it makes, that the object is
\* there when it records it, and that the handler has returned when it is done.
WorkerKnows ==
  \A w \in Workers : stage[w] # "idle" =>
    /\ job[w] \in Uploads
    /\ stage[w] = "record" => ObjectOf(job[w]) \in objects
    /\ stage[w] = "ok" => handled[job[w]]

\* A copy is reported done only when a handler returned, and none returns before
\* the upload is stored, which it stays.
HandledIsStored ==
  \A u \in Uploads :
    /\ phase[u] = "done" => handled[u]
    /\ handled[u] => status[u] = "stored"

\* A message is only registered for the case it was routed to.
RoutedToCase == \A f \in Files : mail[f] = "routed" => target[f] \in opened

IInv == TypeOK /\ RoutedToCase /\ WorkerKnows /\ HandledIsStored /\ CustodyIsReal
=============================================================================
