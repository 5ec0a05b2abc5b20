-------------------------- MODULE PlanCustodyProofs --------------------------
(***************************************************************************)
(* Safety of plan-set custody for any files, cases, contents and workers,    *)
(* any number of attempts, and any number of crashes, outlived leases and    *)
(* replayed messages: what is reported done is in the store, and every copy  *)
(* keeps the promise of a leased call.                                       *)
(***************************************************************************)
EXTENDS PlanCustody, TLAPS

\* Nothing is registered, copied or stored at first.
LEMMA InitIInv == Init => IInv
  BY PlanCustodyAssumption
  DEF Init, IInv, TypeOK, RoutedToCase, WorkerKnows, HandledIsStored, CustodyIsReal, Statuses, Stages,
      Queue!Init, Queue!TypeOK, NumbersOf

\* A stored upload points to a version, so it is terminal for whoever claims it.
LEMMA StoredIsTerminal ==
  ASSUME IInv, NEW u \in Uploads, status[u] = "stored"
  PROVE  AlreadyStored(u)
<1>1. version[u] \in DOMAIN versions[PlanSet(u)]
  BY DEF IInv, CustodyIsReal, NumbersOf
<1>2. PlanSet(u) \in Cases
  BY DEF PlanSet, Uploads
<1>3. QED
  BY <1>1, <1>2 DEF IInv, TypeOK, AlreadyStored

\* What is stored stays as it is when the rows only change where nothing is
\* stored, the versions do not change and no object is lost.
LEMMA CustodyUntouched ==
  ASSUME IInv,
         \A u \in Uploads : status'[u] = "stored" <=> status[u] = "stored",
         version' = version, versions' = versions, objects \subseteq objects',
         \A u \in Uploads : phase'[u] = "done" => phase[u] = "done" \/ handled[u]
  PROVE  CustodyIsReal'
<1>1. \A u \in Uploads :
        /\ phase'[u] = "done" => status'[u] = "stored"
        /\ status'[u] = "stored" => version'[u] \in NumbersOf(PlanSet(u), Content[FileOf(u)])'
  BY DEF IInv, CustodyIsReal, HandledIsStored, NumbersOf
<1>2. \A c \in Cases : \A n \in DOMAIN versions'[c] :
        /\ <<c, versions'[c][n]>> \in objects'
        /\ NumbersOf(c, versions[c][n])' = {n}
        /\ \E u \in Uploads : PlanSet(u) = c /\ status'[u] = "stored" /\ version'[u] = n
  BY DEF IInv, CustodyIsReal, NumbersOf
<1>3. QED
  BY <1>1, <1>2 DEF CustodyIsReal

\* Opening and closing a case, and taking up a message, touch no upload.
LEMMA ThreadKeeps ==
  ASSUME IInv,
         \/ \E c \in Cases : OpenCase(c)
         \/ CloseCase
         \/ \E f \in Files : Route(f) \/ ProcessAgain(f)
  PROVE  IInv'
<1> USE DEF queueVars, claimVars, siteVars, rowVars, workVars, CopyUntouched
<1>1. UNCHANGED <<queueVars, claimVars, siteVars, rowVars, versions, objects, workVars>>
  BY DEF OpenCase, CloseCase, Route, ProcessAgain
<1>2. /\ active' \in opened' \cup {None} /\ opened' \subseteq Cases
      /\ opened \subseteq opened'
      /\ mail' \in [Files -> {"due", "routed", "registered"}]
      /\ target' \in [Files -> Cases \cup {None}]
      /\ faults' \in Nat
      /\ RoutedToCase'
  <2>1. CASE \E c \in Cases : OpenCase(c)
    BY <2>1 DEF IInv, TypeOK, RoutedToCase, OpenCase
  <2>2. CASE CloseCase
    BY <2>2 DEF IInv, TypeOK, RoutedToCase, CloseCase, ClearActive
  <2>3. CASE \E f \in Files : Route(f)
    BY <2>3 DEF IInv, TypeOK, RoutedToCase, Route
  <2>4. CASE \E f \in Files : ProcessAgain(f)
    BY <2>4 DEF IInv, TypeOK, RoutedToCase, ProcessAgain, Fault
  <2>5. QED
    BY <2>1, <2>2, <2>3, <2>4
<1>3. TypeOK'
  <2>1. Queue!TypeOK'
    BY <1>1 DEF IInv, TypeOK, Queue!TypeOK
  <2>2. QED
    BY <1>1, <1>2, <2>1 DEF IInv, TypeOK
<1>4. WorkerKnows' /\ HandledIsStored'
  BY <1>1 DEF IInv, WorkerKnows, HandledIsStored, ObjectOf
<1>5. CustodyIsReal'
  BY <1>1, CustodyUntouched
<1>6. QED
  BY <1>2, <1>3, <1>4, <1>5 DEF IInv

\* A file that is registered again keeps its row and its command.
LEMMA RegisterKeeps ==
  ASSUME IInv, NEW f \in Files, Register(f)
  PROVE  IInv'
<1> DEFINE u == <<f, target[f]>>
<1> USE DEF queueVars, claimVars, workVars, CopyUntouched
<1>0. u \in Uploads /\ PlanSet(u) \in opened /\ opened \subseteq Cases
  BY DEF Register, IInv, TypeOK, RoutedToCase, Uploads, PlanSet
<1>1. /\ sites' = sites \cup {PlanSet(u)}
      /\ planSets' = planSets \cup {PlanSet(u)}
      /\ status' = [status EXCEPT ![u] = Pending(u)]
      /\ EnqueueCopy(u)
      /\ mail' = [mail EXCEPT ![f] = "registered"]
      /\ UNCHANGED <<active, opened, target, lease, version, stored, faults,
                     claimVars, versions, objects, workVars>>
  BY DEF Register, WithSite, WithPlanSet
<1>2. /\ Queue!TypeOK'
      /\ handled' = handled
      /\ \A v \in Uploads : phase'[v] = "done" => phase[v] = "done"
  BY <1>0, <1>1 DEF EnqueueCopy, Queue!Submit, IInv, TypeOK, Queue!TypeOK
<1>3. /\ status' \in [Uploads -> Statuses]
      /\ \A v \in Uploads : status'[v] = "stored" <=> status[v] = "stored"
  BY <1>0, <1>1 DEF Pending, IInv, TypeOK, Statuses
<1>4. TypeOK'
  BY <1>0, <1>1, <1>2, <1>3 DEF IInv, TypeOK
<1>5. RoutedToCase'
  BY <1>1 DEF IInv, TypeOK, RoutedToCase
<1>6. WorkerKnows'
  BY <1>1, <1>2 DEF IInv, WorkerKnows, ObjectOf
<1>7. HandledIsStored'
  BY <1>2, <1>3 DEF IInv, HandledIsStored
<1>8. CustodyIsReal'
  BY <1>1, <1>2, <1>3, CustodyUntouched
<1>9. QED
  BY <1>4, <1>5, <1>6, <1>7, <1>8 DEF IInv

\* Claiming the command again, and finding the upload leased to another or stored
\* already, change no row.
LEMMA ClaimKeeps ==
  ASSUME IInv, NEW w \in Workers,
         \/ \E u \in Uploads : Begin(w, u)
         \/ Busy(w) \/ Terminal(w)
  PROVE  IInv'
<1> USE DEF registryVars, threadVars, siteVars, rowVars
<1>1. /\ UNCHANGED <<registryVars, rowVars, phase, versions, objects, token>>
      /\ \A u \in Uploads : handled[u] => handled'[u]
      /\ \A u \in Uploads : handled'[u] => handled[u] \/ status[u] = "stored"
      /\ Queue!TypeOK'
  <2>1. CASE (\E u \in Uploads : Begin(w, u)) \/ Busy(w)
    BY <2>1 DEF Begin, Busy, queueVars, IInv, TypeOK, Queue!TypeOK
  <2>2. CASE Terminal(w)
    <3>1. job[w] \in Uploads
      BY <2>2 DEF Terminal, IInv, WorkerKnows
    <3>2. QED
      BY <2>2, <3>1 DEF Terminal, AlreadyStored, Queue!Handle, IInv, TypeOK, Queue!TypeOK
  <2>3. QED
    BY <2>1, <2>2
<1>2. /\ attempts' \in [Uploads -> Nat]
      /\ holder' \in [Uploads -> Workers \cup {None}]
      /\ stage' \in [Workers -> Stages]
      /\ job' \in [Workers -> Uploads \cup {None}]
      /\ faults' \in Nat
      /\ \A v \in Workers :
            \/ stage'[v] = stage[v] /\ job'[v] = job[v]
            \/ /\ job'[v] \in Uploads
               /\ stage'[v] \in {"claim", "error", "ok"}
               /\ stage'[v] = "ok" => handled'[job'[v]]
  <2>1. CASE \E u \in Uploads : Begin(w, u)
    <3>1. PICK u \in Uploads : Begin(w, u)
      BY <2>1
    <3>2. faults' \in Nat
      BY <3>1 DEF Begin, Fault, IInv, TypeOK
    <3>3. QED
      BY <3>1, <3>2 DEF Begin, Goto, IInv, TypeOK, Stages
  <2>2. CASE Busy(w)
    BY <2>2 DEF Busy, Goto, claimVars, IInv, TypeOK, WorkerKnows, Stages
  <2>3. CASE Terminal(w)
    <3>1. job[w] \in Uploads
      BY <2>3 DEF Terminal, IInv, WorkerKnows
    <3>2. handled'[job[w]]
      BY <2>3, <3>1 DEF Terminal, Queue!Handle, IInv, TypeOK, Queue!TypeOK
    <3>3. QED
      BY <2>3, <3>1, <3>2 DEF Terminal, Goto, claimVars, IInv, TypeOK, Stages
  <2>4. QED
    BY <2>1, <2>2, <2>3
<1>3. TypeOK'
  BY <1>1, <1>2 DEF IInv, TypeOK
<1>4. RoutedToCase'
  BY <1>1 DEF IInv, RoutedToCase
<1>5. WorkerKnows'
  <2> SUFFICES ASSUME NEW v \in Workers, stage'[v] # "idle"
               PROVE  /\ job'[v] \in Uploads
                      /\ stage'[v] = "record" => ObjectOf(job'[v]) \in objects'
                      /\ stage'[v] = "ok" => handled'[job'[v]]
    BY DEF WorkerKnows, ObjectOf
  <2>1. QED
    BY <1>1, <1>2 DEF IInv, WorkerKnows
<1>6. HandledIsStored'
  BY <1>1 DEF IInv, HandledIsStored
<1>7. CustodyIsReal'
  BY <1>1, CustodyUntouched
<1>8. QED
  BY <1>3, <1>4, <1>5, <1>6, <1>7 DEF IInv

\* A lease is taken on an upload that is not stored.
LEMMA AcquireKeeps ==
  ASSUME IInv, NEW w \in Workers, Acquire(w)
  PROVE  IInv'
<1> DEFINE u == job[w]
<1> USE DEF queueVars, claimVars, registryVars, threadVars, siteVars
<1>1. u \in Uploads /\ status[u] # "stored"
  BY StoredIsTerminal DEF Acquire, IInv, WorkerKnows
<1>2. TypeOK'
  <2>1. Queue!TypeOK'
    BY DEF Acquire, IInv, TypeOK, Queue!TypeOK
  <2>2. /\ status' \in [Uploads -> Statuses]
        /\ lease' \in [Uploads -> Nat]
        /\ token' \in [Workers -> Nat]
        /\ stage' \in [Workers -> Stages]
    BY <1>1 DEF Acquire, Goto, IInv, TypeOK, Statuses, Stages
  <2>3. QED
    BY <2>1, <2>2 DEF Acquire, IInv, TypeOK
<1>3. \A v \in Uploads : status'[v] = "stored" <=> status[v] = "stored"
  BY <1>1 DEF Acquire, IInv, TypeOK
<1>4. RoutedToCase'
  BY DEF Acquire, IInv, RoutedToCase
<1>5. WorkerKnows'
  BY DEF Acquire, Goto, IInv, TypeOK, WorkerKnows, ObjectOf
<1>6. HandledIsStored'
  BY <1>3 DEF Acquire, IInv, HandledIsStored
<1>7. CustodyIsReal'
  BY <1>3, CustodyUntouched DEF Acquire
<1>8. QED
  BY <1>2, <1>4, <1>5, <1>6, <1>7 DEF IInv

\* The calls of the channel and of the store can add an object.
LEMMA CallKeeps ==
  ASSUME IInv, NEW w \in Workers, Fetch(w) \/ Put(w)
  PROVE  IInv'
<1> USE DEF queueVars, claimVars, registryVars, threadVars, siteVars, rowVars
<1>0. job[w] \in Uploads
  BY DEF Fetch, Put, IInv, WorkerKnows
<1>1. UNCHANGED <<queueVars, claimVars, registryVars, rowVars, versions, job, token, faults>>
  BY DEF Fetch, Put
<1>2. /\ objects \subseteq objects'
      /\ objects' \subseteq Cases \X Contents
      /\ stage' \in [Workers -> Stages]
      /\ \A v \in Workers :
            \/ stage'[v] = stage[v]
            \/ v = w /\ stage'[v] \in {"put", "failure"}
            \/ v = w /\ stage'[v] = "record" /\ ObjectOf(job[v]) \in objects'
  <2>1. CASE Fetch(w)
    BY <2>1 DEF Fetch, Goto, IInv, TypeOK, Stages
  <2>2. CASE Put(w)
    <3>1. ObjectOf(job[w]) \in Cases \X Contents
      BY <1>0, PlanCustodyAssumption DEF ObjectOf, PlanSet, FileOf, Uploads
    <3>2. QED
      BY ZenonT(40), <2>2, <3>1 DEF Put, Goto, IInv, TypeOK, Stages
  <2>3. QED
    BY <2>1, <2>2
<1>3. TypeOK'
  <2>1. Queue!TypeOK'
    BY <1>1 DEF IInv, TypeOK, Queue!TypeOK
  <2>2. QED
    BY <1>1, <1>2, <2>1 DEF IInv, TypeOK
<1>4. RoutedToCase' /\ HandledIsStored'
  BY <1>1 DEF IInv, RoutedToCase, HandledIsStored
<1>5. WorkerKnows'
  BY <1>0, <1>1, <1>2 DEF IInv, WorkerKnows, ObjectOf
<1>6. CustodyIsReal'
  BY <1>1, <1>2, CustodyUntouched
<1>7. QED
  BY <1>3, <1>4, <1>5, <1>6 DEF IInv

\* What a worker knows is not lost by a step that moves one worker to a stage
\* where it only needs to know its job.
LEMMA KnowledgeKept ==
  ASSUME IInv, NEW w \in Workers, NEW next \in {"idle", "error", "fetch"},
         job[w] \in Uploads,
         stage' = [stage EXCEPT ![w] = next],
         \/ job' = job
         \/ next = "idle" /\ job' = [job EXCEPT ![w] = None],
         handled' = handled, objects' = objects
  PROVE  WorkerKnows'
<1> SUFFICES ASSUME NEW v \in Workers, stage'[v] # "idle"
             PROVE  /\ job'[v] \in Uploads
                    /\ stage'[v] = "record" => ObjectOf(job'[v]) \in objects'
                    /\ stage'[v] = "ok" => handled'[job'[v]]
  BY DEF WorkerKnows, ObjectOf
<1>1. CASE v = w
  BY <1>1 DEF IInv, TypeOK
<1>2. CASE v # w
  <2>1. stage'[v] = stage[v] /\ job'[v] = job[v]
    BY <1>2 DEF IInv, TypeOK
  <2>2. QED
    BY <2>1 DEF IInv, WorkerKnows
<1>3. QED
  BY <1>1, <1>2

\* The versions with a content once it is recorded: those that were there keep
\* their numbers, and the content has exactly one.
LEMMA OneNumberPerContent ==
  ASSUME IInv, NEW set \in Cases, NEW content \in Contents,
         NEW series, series = WithContent(set, content)
  PROVE  /\ series \in Seq(Contents)
         /\ DOMAIN versions[set] \subseteq DOMAIN series
         /\ \A n \in DOMAIN versions[set] : series[n] = versions[set][n]
         /\ \A n \in DOMAIN series : n \in DOMAIN versions[set] \/ series[n] = content
         /\ NumberIn(series, content) \in DOMAIN series
         /\ series[NumberIn(series, content)] = content
         /\ \A m, n \in DOMAIN series : series[m] = series[n] => m = n
<1>0. /\ versions[set] \in Seq(Contents)
      /\ \A m, n \in DOMAIN versions[set] : versions[set][m] = versions[set][n] => m = n
  <2>1. versions[set] \in Seq(Contents)
    BY DEF IInv, TypeOK
  <2>2. ASSUME NEW m \in DOMAIN versions[set], NEW n \in DOMAIN versions[set],
               versions[set][m] = versions[set][n]
        PROVE  m = n
    <3>1. NumbersOf(set, versions[set][n]) = {n}
      BY DEF IInv, CustodyIsReal
    <3>2. m \in NumbersOf(set, versions[set][n])
      BY <2>2 DEF NumbersOf
    <3>3. QED
      BY <3>1, <3>2
  <2>3. QED
    BY <2>1, <2>2
<1>1. CASE NumbersOf(set, content) # {}
  <2>1. series = versions[set] /\ \E n \in DOMAIN series : series[n] = content
    BY <1>1 DEF WithContent, NumbersOf
  <2>2. QED
    BY <1>0, <2>1 DEF NumberIn
<1>2. CASE NumbersOf(set, content) = {}
  <2>1. series = Append(versions[set], content)
    BY <1>2 DEF WithContent
  <2>2. /\ series \in Seq(Contents) /\ Len(series) = Len(versions[set]) + 1
        /\ series[Len(series)] = content
        /\ \A n \in 1 .. Len(versions[set]) : series[n] = versions[set][n]
    BY <1>0, <2>1
  <2>3. /\ DOMAIN series = 1 .. Len(series)
        /\ DOMAIN versions[set] = 1 .. Len(versions[set])
        /\ Len(versions[set]) \in Nat
    BY <1>0, <2>2
  <2>4. /\ DOMAIN versions[set] \subseteq DOMAIN series
        /\ Len(series) \in DOMAIN series
        /\ \A n \in DOMAIN series : n \in DOMAIN versions[set] \/ n = Len(series)
    BY <2>2, <2>3
  <2>5. \A n \in DOMAIN versions[set] : versions[set][n] # content
    BY <1>2 DEF NumbersOf
  <2>6. NumberIn(series, content) \in DOMAIN series /\ series[NumberIn(series, content)] = content
    BY <2>2, <2>4 DEF NumberIn
  <2>7. \A m, n \in DOMAIN series : series[m] = series[n] => m = n
    BY <1>0, <2>2, <2>3, <2>4, <2>5
  <2>8. QED
    BY <2>2, <2>3, <2>4, <2>6, <2>7
<1>3. QED
  BY <1>1, <1>2

\* A copy that holds the newest lease is stored with its version; any other
\* leaves nothing behind.
LEMMA RecordStoredKeeps ==
  ASSUME IInv, NEW w \in Workers, RecordStored(w)
  PROVE  IInv'
<1> DEFINE u == job[w]
           set == PlanSet(u)
           content == Content[FileOf(u)]
           series == WithContent(set, content)
           number == NumberIn(series, content)
<1> USE DEF claimVars, registryVars, threadVars, siteVars
<1>0. /\ u \in Uploads /\ set \in Cases /\ content \in Contents
      /\ <<set, content>> \in objects
  BY PlanCustodyAssumption
  DEF RecordStored, IInv, WorkerKnows, ObjectOf, Uploads, PlanSet, FileOf
<1>1. UNCHANGED <<claimVars, registryVars, lease, objects, job, token, faults>>
  BY DEF RecordStored
<1>2. CASE ~Fenced(w)
  <2>1. UNCHANGED <<queueVars, status, version, stored, versions>> /\ stage' = [stage EXCEPT ![w] = "error"]
    BY <1>2 DEF RecordStored, RolledBack, Goto
  <2>2. TypeOK'
    <3>1. Queue!TypeOK'
      BY <2>1 DEF queueVars, IInv, TypeOK, Queue!TypeOK
    <3>2. QED
      BY <1>1, <2>1, <3>1 DEF IInv, TypeOK, Stages
  <2>3. RoutedToCase' /\ HandledIsStored'
    BY <1>1, <2>1 DEF queueVars, IInv, RoutedToCase, HandledIsStored
  <2>4. WorkerKnows'
    BY <1>0, <1>1, <2>1, KnowledgeKept DEF queueVars
  <2>5. CustodyIsReal'
    BY <1>1, <2>1, CustodyUntouched DEF queueVars
  <2>6. QED
    BY <2>2, <2>3, <2>4, <2>5 DEF IInv
<1>3. CASE Fenced(w)
  <2>1. /\ status[u] = "copying"
        /\ versions' = [versions EXCEPT ![set] = series]
        /\ status' = [status EXCEPT ![u] = "stored"]
        /\ version' = [version EXCEPT ![u] = number]
        /\ stored' = [stored EXCEPT ![u] = token[w]]
        /\ phase' = phase /\ handled' = [handled EXCEPT ![u] = TRUE]
        /\ stage' = [stage EXCEPT ![w] = "ok"]
    BY <1>3 DEF RecordStored, Fenced, Goto, Queue!Handle
  <2>2. /\ series \in Seq(Contents)
        /\ DOMAIN versions[set] \subseteq DOMAIN series
        /\ \A n \in DOMAIN versions[set] : series[n] = versions[set][n]
        /\ \A n \in DOMAIN series : n \in DOMAIN versions[set] \/ series[n] = content
        /\ number \in DOMAIN series /\ series[number] = content
        /\ \A m, n \in DOMAIN series : series[m] = series[n] => m = n
    <3> HIDE DEF u, set, content, series, number
    <3>1. series = WithContent(set, content) /\ number = NumberIn(series, content)
      BY DEF series, number
    <3>2. QED
      BY SMTT(40), <1>0, <3>1, OneNumberPerContent
  <2>3. /\ versions' \in [Cases -> Seq(Contents)]
        /\ versions'[set] = series
        /\ \A c \in Cases : c # set => versions'[c] = versions[c]
    BY <1>0, <2>1, <2>2 DEF IInv, TypeOK
  <2>4. number \in Nat
    BY <2>2
  <2>5. /\ status'[u] = "stored" /\ version'[u] = number
        /\ \A v \in Uploads : v # u => status'[v] = status[v] /\ version'[v] = version[v]
        /\ status[u] # "stored"
    BY <1>0, <2>1 DEF IInv, TypeOK
  <2>6. TypeOK'
    <3>1. Queue!TypeOK'
      BY <2>1 DEF IInv, TypeOK, Queue!TypeOK
    <3>2. status' \in [Uploads -> Statuses] /\ version' \in [Uploads -> Nat]
      BY <2>1, <2>4 DEF IInv, TypeOK, Statuses
    <3>3. stage' \in [Workers -> Stages] /\ stored' \in [Uploads -> Nat]
      BY <2>1 DEF IInv, TypeOK, Stages
    <3>4. QED
      BY <1>1, <2>3, <3>1, <3>2, <3>3 DEF IInv, TypeOK
  <2>7. RoutedToCase'
    BY <1>1 DEF IInv, RoutedToCase
  <2>8. WorkerKnows'
    BY <1>0, <1>1, <2>1 DEF IInv, TypeOK, Queue!TypeOK, WorkerKnows, ObjectOf
  <2>9. HandledIsStored'
    BY <1>0, <2>1, <2>5 DEF IInv, TypeOK, Queue!TypeOK, HandledIsStored
  <2>10. CustodyIsReal'
    <3>1. ASSUME NEW v \in Uploads
          PROVE  /\ phase'[v] = "done" => status'[v] = "stored"
                 /\ status'[v] = "stored" =>
                      /\ version'[v] \in DOMAIN versions'[PlanSet(v)]
                      /\ versions'[PlanSet(v)][version'[v]] = Content[FileOf(v)]
      <4>1. CASE v = u
        BY <2>2, <2>3, <2>5, <4>1
      <4>2. CASE v # u
        <5>1. PlanSet(v) \in Cases
          BY DEF PlanSet, Uploads
        <5>2. phase'[v] = "done" => status'[v] = "stored"
          BY <2>1, <2>5, <4>2 DEF IInv, CustodyIsReal
        <5>3. ASSUME status'[v] = "stored"
              PROVE  /\ version[v] \in DOMAIN versions[PlanSet(v)]
                     /\ versions[PlanSet(v)][version[v]] = Content[FileOf(v)]
          BY <2>5, <4>2, <5>3 DEF IInv, CustodyIsReal, NumbersOf
        <5>4. QED
          BY <2>2, <2>3, <2>5, <4>2, <5>1, <5>2, <5>3
      <4>3. QED
        BY <4>1, <4>2
    <3>2. ASSUME NEW c \in Cases, NEW n \in DOMAIN versions'[c]
          PROVE  /\ <<c, versions'[c][n]>> \in objects'
                 /\ \A m \in DOMAIN versions'[c] : versions'[c][m] = versions'[c][n] => m = n
                 /\ \E v \in Uploads : PlanSet(v) = c /\ status'[v] = "stored" /\ version'[v] = n
      <4>1. CASE c # set
        <5>1. versions'[c] = versions[c] /\ n \in DOMAIN versions[c]
          BY <2>3, <4>1
        <5>2. PICK v \in Uploads : PlanSet(v) = c /\ status[v] = "stored" /\ version[v] = n
          BY <5>1 DEF IInv, CustodyIsReal
        <5>3. status'[v] = "stored" /\ version'[v] = n
          BY <2>5, <5>2
        <5>4. <<c, versions[c][n]>> \in objects /\ NumbersOf(c, versions[c][n]) = {n}
          BY <5>1 DEF IInv, CustodyIsReal
        <5>5. ASSUME NEW m \in DOMAIN versions[c], versions[c][m] = versions[c][n]
              PROVE  m = n
          <6>1. m \in NumbersOf(c, versions[c][n])
            BY <5>5 DEF NumbersOf
          <6>2. QED
            BY <5>4, <6>1
        <5>6. QED
          BY <1>1, <5>1, <5>2, <5>3, <5>4, <5>5
      <4>2. CASE c = set /\ n \in DOMAIN versions[set]
        <5>1. PICK v \in Uploads : PlanSet(v) = c /\ status[v] = "stored" /\ version[v] = n
          BY <4>2 DEF IInv, CustodyIsReal
        <5>2. <<c, versions[c][n]>> \in objects
          BY <4>2 DEF IInv, CustodyIsReal
        <5>3. versions'[c] = series /\ series[n] = versions[c][n]
          BY <2>2, <2>3, <4>2
        <5>4. status'[v] = "stored" /\ version'[v] = n
          BY <2>5, <5>1
        <5>5. \A m \in DOMAIN series : series[m] = series[n] => m = n
          BY <2>2, <4>2
        <5>6. QED
          BY <1>1, <5>1, <5>2, <5>3, <5>4, <5>5
      <4>3. CASE c = set /\ n \notin DOMAIN versions[set]
        <5>1. series[n] = content /\ n = number
          BY <2>2, <2>3, <4>3
        <5>2. QED
          BY <1>0, <1>1, <2>2, <2>3, <2>5, <4>3, <5>1
      <4>4. QED
        BY <4>1, <4>2, <4>3
    <3>3. ASSUME NEW c \in Cases, NEW n \in DOMAIN versions'[c]
          PROVE  NumbersOf(c, versions[c][n])' = {n}
      <4>1. NumbersOf(c, versions[c][n])' =
              {m \in DOMAIN versions'[c] : versions'[c][m] = versions'[c][n]}
        BY DEF NumbersOf
      <4>2. \A m \in DOMAIN versions'[c] : versions'[c][m] = versions'[c][n] <=> m = n
        BY <3>2
      <4>3. QED
        BY <4>1, <4>2, Zenon
    <3>4. QED
      BY <3>1, <3>2, <3>3 DEF CustodyIsReal, NumbersOf
  <2>11. QED
    BY <2>6, <2>7, <2>8, <2>9, <2>10 DEF IInv
<1>4. QED
  BY <1>2, <1>3

\* Only a copy that holds the newest lease fails its upload.
LEMMA RecordFailureKeeps ==
  ASSUME IInv, NEW w \in Workers, RecordFailure(w)
  PROVE  IInv'
<1> USE DEF queueVars, claimVars, registryVars, threadVars, siteVars
<1>0. job[w] \in Uploads
  BY DEF RecordFailure, IInv, WorkerKnows
<1>1. UNCHANGED <<queueVars, claimVars, registryVars, lease, version, stored, versions,
                  objects, job, token, faults>>
  BY DEF RecordFailure
<1>2. /\ status' \in [Uploads -> Statuses]
      /\ \A v \in Uploads : status'[v] = "stored" <=> status[v] = "stored"
  BY <1>0 DEF RecordFailure, Fenced, IInv, TypeOK, Statuses
<1>3. stage' = [stage EXCEPT ![w] = "error"]
  BY DEF RecordFailure, Goto
<1>4. TypeOK'
  <2>1. Queue!TypeOK'
    BY <1>1 DEF IInv, TypeOK, Queue!TypeOK
  <2>2. stage' \in [Workers -> Stages]
    BY <1>3 DEF IInv, TypeOK, Stages
  <2>3. QED
    BY <1>1, <1>2, <2>1, <2>2 DEF IInv, TypeOK
<1>5. RoutedToCase' /\ HandledIsStored'
  BY <1>1, <1>2 DEF IInv, RoutedToCase, HandledIsStored
<1>6. WorkerKnows'
  BY <1>0, <1>1, <1>3, KnowledgeKept
<1>7. CustodyIsReal'
  BY <1>1, <1>2, CustodyUntouched
<1>8. QED
  BY <1>4, <1>5, <1>6, <1>7 DEF IInv

\* A command is done only when its handler returned; a worker that is gone knows
\* nothing.
LEMMA EndKeeps ==
  ASSUME IInv, NEW w \in Workers, End(w) \/ Crash(w)
  PROVE  IInv'
<1> USE DEF registryVars, threadVars, siteVars, rowVars
<1>0. job[w] \in Uploads
  BY DEF End, Crash, IInv, WorkerKnows
<1>1. /\ UNCHANGED <<attempts, registryVars, rowVars, versions, objects, handled>>
      /\ stage' = [stage EXCEPT ![w] = "idle"]
      /\ job' = [job EXCEPT ![w] = None]
      /\ token' = [token EXCEPT ![w] = 0]
      /\ holder' \in [Uploads -> Workers \cup {None}]
      /\ faults' \in Nat
  <2>1. CASE End(w)
    <3>1. handled' = handled
      BY <2>1 DEF End, Marked, queueVars, Queue!Finish, Queue!GiveUp
    <3>2. holder' \in [Uploads -> Workers \cup {None}]
      BY <2>1 DEF End, IInv, TypeOK
    <3>3. /\ UNCHANGED <<attempts, registryVars, rowVars, versions, objects, faults>>
          /\ Forget(w)
      BY <2>1 DEF End
    <3>4. faults' \in Nat
      BY <3>3 DEF IInv, TypeOK
    <3>5. QED
      BY <3>1, <3>2, <3>3, <3>4 DEF Forget, Goto
  <2>2. CASE Crash(w)
    <3>1. /\ UNCHANGED <<attempts, registryVars, rowVars, versions, objects, handled>>
          /\ Forget(w) /\ Fault
      BY <2>2 DEF Crash, queueVars
    <3>2. holder' \in [Uploads -> Workers \cup {None}]
      BY <2>2 DEF Crash, IInv, TypeOK
    <3>3. faults' \in Nat
      BY <3>1 DEF Fault, IInv, TypeOK
    <3>4. QED
      BY <3>1, <3>2, <3>3 DEF Forget, Goto
  <2>3. QED
    BY <2>1, <2>2
<1>2. /\ phase' \in [Uploads -> {"absent", "queued", "done", "dead"}]
      /\ \A u \in Uploads : phase'[u] = "done" => phase[u] = "done" \/ handled[u]
  BY ZenonT(40), <1>0
  DEF End, Crash, Marked, queueVars, Queue!Finish, Queue!GiveUp, IInv, TypeOK, Queue!TypeOK
<1>3. TypeOK'
  <2>1. Queue!TypeOK'
    BY <1>1, <1>2 DEF IInv, TypeOK, Queue!TypeOK
  <2>2. /\ stage' \in [Workers -> Stages] /\ token' \in [Workers -> Nat]
        /\ job' \in [Workers -> Uploads \cup {None}]
    BY <1>1 DEF IInv, TypeOK, Stages
  <2>3. QED
    BY <1>1, <2>1, <2>2 DEF IInv, TypeOK
<1>4. RoutedToCase' /\ HandledIsStored'
  BY <1>1, <1>2 DEF IInv, RoutedToCase, HandledIsStored
<1>5. WorkerKnows'
  BY <1>0, <1>1, KnowledgeKept
<1>6. CustodyIsReal'
  BY <1>1, <1>2, CustodyUntouched
<1>7. QED
  BY <1>3, <1>4, <1>5, <1>6 DEF IInv

\* The inductive invariant holds in every reachable state.
THEOREM Invariance == Spec => []IInv
<1>1. IInv /\ [Next]_vars => IInv'
  <2> SUFFICES ASSUME IInv, [Next]_vars
               PROVE  IInv'
    OBVIOUS
  <2>1. CASE Thread
    BY <2>1, ThreadKeeps, RegisterKeeps DEF Thread
  <2>2. ASSUME NEW w \in Workers, (\E u \in Uploads : Begin(w, u)) \/ Copy(w) \/ Crash(w)
        PROVE  IInv'
    BY <2>2, ClaimKeeps, AcquireKeeps, CallKeeps, RecordStoredKeeps, RecordFailureKeeps,
       EndKeeps
    DEF Copy
  <2>3. CASE UNCHANGED vars
    <3> USE DEF vars, queueVars, claimVars, registryVars, threadVars, siteVars, rowVars, workVars
    <3>1. TypeOK'
      <4>1. Queue!TypeOK'
        BY <2>3 DEF IInv, TypeOK, Queue!TypeOK
      <4>2. QED
        BY <2>3, <4>1 DEF IInv, TypeOK
    <3>2. RoutedToCase' /\ WorkerKnows' /\ HandledIsStored'
      BY <2>3 DEF IInv, RoutedToCase, WorkerKnows, HandledIsStored, ObjectOf
    <3>3. CustodyIsReal'
      BY <2>3, CustodyUntouched
    <3>4. QED
      BY <3>1, <3>2, <3>3 DEF IInv
  <2>4. QED
    BY <2>1, <2>2, <2>3 DEF Next
<1>2. QED
  BY InitIInv, <1>1, PTL DEF Spec

\* A copy that is reported done is stored, what is stored is a version with the
\* content of its file and with its object in the store, and no content is two
\* versions of a plan set: record_stored and record_failure under _lease_filter.
THEOREM StoredIsReal == Spec => []CustodyIsReal
<1>1. IInv => CustodyIsReal
  BY DEF IInv
<1>2. QED
  BY <1>1, Invariance, PTL

\* How a step that changes the status of one upload changes what LeasedCall sees.
LEMMA OnePhase ==
  ASSUME TypeOK, NEW u \in Uploads, NEW s \in Statuses,
         status' = [status EXCEPT ![u] = s]
  PROVE  [v \in Uploads |-> PhaseOf(status'[v])]
           = [[v \in Uploads |-> PhaseOf(status[v])] EXCEPT ![u] = PhaseOf(s)]
  BY DEF TypeOK

\* Registering an upload does not show.
LEMMA RegisterStutters ==
  ASSUME IInv, NEW f \in Files, Register(f)
  PROVE  UNCHANGED Leased!leasedVars
<1> DEFINE u == <<f, target[f]>>
<1>1. u \in Uploads
  BY DEF Register, IInv, TypeOK, RoutedToCase, Uploads
<1>2. /\ status' = [status EXCEPT ![u] = Pending(u)]
      /\ UNCHANGED <<lease, stored>>
  BY DEF Register
<1>3. \A v \in Uploads : PhaseOf(status'[v]) = PhaseOf(status[v])
  BY <1>1, <1>2 DEF Pending, PhaseOf, IInv, TypeOK
<1>4. QED
  BY <1>2, <1>3 DEF Leased!leasedVars

\* Every copy implements the leased call: Acquire claims, RecordStored and
\* RecordFailure store and fail under _lease_filter, and no other step shows.
THEOREM LeasedCallIsImplemented == Spec => ImplementsLeasedCall
<1>1. Init => Leased!Init
  BY DEF Init, Leased!Init, PhaseOf
<1>2. IInv /\ [Next]_vars => [Leased!Next]_(Leased!leasedVars)
  <2> SUFFICES ASSUME IInv, [Next]_vars
               PROVE  [Leased!Next]_(Leased!leasedVars)
    OBVIOUS
  <2> DEFINE phases == [u \in Uploads |-> PhaseOf(status[u])]
  <2>1. ASSUME UNCHANGED <<status, lease, stored>>
        PROVE  UNCHANGED Leased!leasedVars
    BY <2>1 DEF Leased!leasedVars
  <2>2. CASE Thread
    BY <2>1, <2>2, RegisterStutters
    DEF Thread, OpenCase, CloseCase, Route, ProcessAgain, rowVars
  <2>3. ASSUME NEW w \in Workers, Acquire(w)
        PROVE  Leased!Claim(job[w])
    <3>1. job[w] \in Uploads /\ status[job[w]] # "stored"
      BY <2>3, StoredIsTerminal DEF Acquire, IInv, WorkerKnows
    <3>2. /\ status' = [status EXCEPT ![job[w]] = "copying"]
          /\ lease' = [lease EXCEPT ![job[w]] = @ + 1] /\ stored' = stored
      BY <2>3 DEF Acquire
    <3>3. phases' = [phases EXCEPT ![job[w]] = "leased"]
      BY <3>1, <3>2, OnePhase DEF PhaseOf, Statuses, IInv
    <3>4. phases[job[w]] # "done"
      BY <3>1 DEF PhaseOf, IInv, TypeOK, Statuses
    <3>5. QED
      BY <3>1, <3>2, <3>3, <3>4 DEF Leased!Claim
  <2>4. ASSUME NEW w \in Workers, RecordStored(w)
        PROVE  Leased!Store(job[w]) \/ UNCHANGED Leased!leasedVars
    <3>1. job[w] \in Uploads
      BY <2>4 DEF RecordStored, IInv, WorkerKnows
    <3>2. CASE Fenced(w)
      <4>1. /\ status' = [status EXCEPT ![job[w]] = "stored"]
            /\ stored' = [stored EXCEPT ![job[w]] = lease[job[w]]]
            /\ lease' = lease /\ status[job[w]] = "copying"
        BY <2>4, <3>2 DEF RecordStored, Fenced
      <4>2. phases' = [phases EXCEPT ![job[w]] = "done"]
        BY <3>1, <4>1, OnePhase DEF PhaseOf, Statuses, IInv
      <4>3. phases[job[w]] = "leased"
        BY <3>1, <4>1 DEF PhaseOf
      <4>4. QED
        BY <4>1, <4>2, <4>3 DEF Leased!Store
    <3>3. CASE ~Fenced(w)
      BY <2>1, <2>4, <3>3 DEF RecordStored, RolledBack
    <3>4. QED
      BY <3>2, <3>3
  <2>5. ASSUME NEW w \in Workers, RecordFailure(w)
        PROVE  Leased!Fail(job[w]) \/ UNCHANGED Leased!leasedVars
    <3>1. job[w] \in Uploads
      BY <2>5 DEF RecordFailure, IInv, WorkerKnows
    <3>2. CASE Fenced(w)
      <4>1. /\ status' = [status EXCEPT ![job[w]] = "failed"]
            /\ UNCHANGED <<lease, stored>> /\ status[job[w]] = "copying"
        BY <2>5, <3>2 DEF RecordFailure, Fenced
      <4>2. phases' = [phases EXCEPT ![job[w]] = "failed"]
        BY <3>1, <4>1, OnePhase DEF PhaseOf, Statuses, IInv
      <4>3. phases[job[w]] = "leased"
        BY <3>1, <4>1 DEF PhaseOf
      <4>4. QED
        BY <4>1, <4>2, <4>3 DEF Leased!Fail
    <3>3. CASE ~Fenced(w)
      BY <2>1, <2>5, <3>3 DEF RecordFailure
    <3>4. QED
      BY <3>2, <3>3
  <2>6. ASSUME NEW w \in Workers, (\E u \in Uploads : Begin(w, u)) \/ Copy(w) \/ Crash(w)
        PROVE  [Leased!Next]_(Leased!leasedVars)
    <3>1. CASE Acquire(w) \/ RecordStored(w) \/ RecordFailure(w)
      <4>1. job[w] \in Uploads
        BY <3>1 DEF Acquire, RecordStored, RecordFailure, IInv, WorkerKnows
      <4>2. QED
        BY <2>3, <2>4, <2>5, <3>1, <4>1 DEF Leased!Next
    <3>2. CASE \/ \E u \in Uploads : Begin(w, u)
               \/ Busy(w) \/ Terminal(w) \/ Fetch(w) \/ Put(w) \/ End(w) \/ Crash(w)
      BY <2>1, <3>2 DEF Begin, Busy, Terminal, Fetch, Put, End, Crash, rowVars
    <3>3. QED
      BY <2>6, <3>1, <3>2 DEF Copy
  <2>7. CASE UNCHANGED vars
    BY <2>1, <2>7 DEF vars, rowVars
  <2>8. QED
    BY <2>2, <2>6, <2>7 DEF Next
<1>3. QED
  BY <1>1, <1>2, Invariance, PTL DEF Spec, ImplementsLeasedCall, Leased!Spec
=============================================================================
