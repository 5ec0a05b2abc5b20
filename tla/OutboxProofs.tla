---------------------------- MODULE OutboxProofs ----------------------------
(***************************************************************************)
(* Safety of the outbox and of its two consumers, for any number of         *)
(* commands and workers, any lease, retry and batch settings, and any       *)
(* number of crashes and stalls.  One lemma per action shows that it keeps  *)
(* IInv.  Message processing and reply delivery refine a dispatch and        *)
(* otherwise step as the outbox does, so IInv carries over to each of them. *)
(***************************************************************************)
EXTENDS MessageProcessing, ReplyDelivery, FiniteSetTheorems, TLAPS

\* Nothing is claimed, handled or reported at first.
LEMMA InitIInv == Init => IInv
  BY OutboxAssumption
  DEF Init, IInv, TypeOK, ClaimsNotAhead, ExclusiveLease, HandlesWhatItHolds,
      NewestClaimIsLive, VerdictIsRemembered, RowReportsNewestClaim, NoticeIsDue,
      OneNoticePerDeadCommand, AbsentIsUnclaimed, OkMeansHandled, Statuses, Stages

\* The row of a new command is unclaimed.
LEMMA EnqueueKeeps ==
  ASSUME IInv, NEW c \in Commands, Enqueue(c)
  PROVE  IInv'
<1> USE DEF IInv, Enqueue, rowVars, workerVars, historyVars, budgetVars
<1>1. TypeOK'
  BY OutboxAssumption DEF TypeOK, Statuses
<1>2. NewestClaimIsLive'
  BY DEF NewestClaimIsLive, TypeOK
<1>3. RowReportsNewestClaim'
  BY DEF RowReportsNewestClaim, TypeOK
<1>4. NoticeIsDue'
  BY DEF NoticeIsDue, TypeOK, HandlesWhatItHolds
<1>5. OneNoticePerDeadCommand'
  BY DEF OneNoticePerDeadCommand, TypeOK
<1>6. AbsentIsUnclaimed'
  BY DEF AbsentIsUnclaimed, TypeOK
<1>7. QED
  BY <1>1, <1>2, <1>3, <1>4, <1>5, <1>6
  DEF ClaimsNotAhead, ExclusiveLease, HandlesWhatItHolds, VerdictIsRemembered, OkMeansHandled

\* A claim gives each of its rows a generation nobody holds yet.
LEMMA TakeKeeps ==
  ASSUME IInv, NEW w \in Workers, stage[w] = "idle",
         NEW S \in SUBSET {c \in Commands : Claimable(c)}, Take(w, S)
  PROVE  IInv'
<1> USE DEF IInv
<1>0. /\ S \subseteq Commands
      /\ \A c \in S : status[c] \in {"pending", "failed", "in_progress"}
  BY DEF Claimable, Due, Stale
<1>1. TypeOK'
  BY OutboxAssumption DEF Take, budgetVars, TypeOK, NextGeneration, Statuses, Stages
<1>2. /\ \A c \in S : claims'[w][c] = attempts[c] + 1 /\ attempts'[c] = attempts[c] + 1
      /\ \A c \in Commands \ S : claims'[w][c] = 0 /\ attempts'[c] = attempts[c]
      /\ \A v \in Workers \ {w} : claims'[v] = claims[v]
  BY <1>0 DEF Take, TypeOK, NextGeneration
<1>a. \A v \in Workers, c \in Commands :
         /\ claims[v][c] \in Nat /\ attempts[c] \in Nat
         /\ claims[v][c] <= attempts[c]
  BY DEF ClaimsNotAhead, TypeOK
<1>3. ClaimsNotAhead'
  <2> SUFFICES ASSUME NEW v \in Workers, NEW c \in Commands
               PROVE  claims'[v][c] <= attempts'[c]
    BY DEF ClaimsNotAhead
  <2>1. CASE v = w
    BY <1>2, <1>a, <2>1
  <2>2. CASE v # w
    BY <1>2, <1>a, <2>2
  <2>3. QED
    BY <2>1, <2>2
<1>4. ExclusiveLease'
  <2> SUFFICES ASSUME NEW c \in Commands, NEW u \in Workers, NEW v \in Workers,
                      claims'[u][c] # 0,
                      claims'[u][c] = attempts'[c],
                      claims'[v][c] = attempts'[c]
               PROVE  u = v
    BY DEF ExclusiveLease
  <2>1. CASE c \in S
    BY <1>2, <1>a, <2>1
  <2>2. CASE c \notin S
    BY <1>2, <1>a, <2>2 DEF ExclusiveLease
  <2>3. QED
    BY <2>1, <2>2
<1>5. HandlesWhatItHolds'
  BY <1>2 DEF Take, HandlesWhatItHolds, TypeOK
<1>6. NewestClaimIsLive'
  BY <1>0, <1>1, <1>2 DEF Take, NewestClaimIsLive, ClaimsNotAhead, TypeOK
<1>7. VerdictIsRemembered'
  <2> SUFFICES ASSUME NEW v \in Workers,
                      stage'[v] \in {"ok", "error"},
                      claims'[v][handling[v]] = attempts'[handling[v]]
               PROVE  verdict'[handling[v]] = stage'[v]
    BY DEF Take, VerdictIsRemembered
  <2>1. v # w /\ stage'[v] = stage[v] /\ claims'[v] = claims[v]
    BY <1>2 DEF Take, TypeOK
  <2>2. handling[v] \in Commands
    BY <2>1 DEF HandlesWhatItHolds
  <2>3. handling[v] \notin S
    BY <1>2, <1>a, <2>1, <2>2
  <2>4. QED
    BY <1>2, <2>1, <2>2, <2>3 DEF Take, VerdictIsRemembered
<1>8. RowReportsNewestClaim'
  BY <1>0, <1>2 DEF Take, RowReportsNewestClaim, TypeOK
<1>9. NoticeIsDue'
  BY <1>0, <1>2 DEF Take, NoticeIsDue, HandlesWhatItHolds, TypeOK
<1>10. OneNoticePerDeadCommand'
  BY <1>0 DEF Take, OneNoticePerDeadCommand, TypeOK
<1>11. OkMeansHandled'
  BY <1>0 DEF Take, OkMeansHandled, TypeOK
<1>12. AbsentIsUnclaimed'
  BY <1>0 DEF Take, AbsentIsUnclaimed, TypeOK
<1>13. QED
  BY <1>1, <1>3, <1>4, <1>5, <1>6, <1>7, <1>8, <1>9, <1>10, <1>11, <1>12

\* Turning to a record changes no row.
LEMMA DispatchKeeps ==
  ASSUME IInv, NEW w \in Workers, NEW c \in Commands, Dispatch(w, c)
  PROVE  IInv'
<1> USE DEF IInv, Dispatch, rowVars, historyVars, budgetVars
<1>1. TypeOK'
  BY DEF TypeOK, Stages
<1>2. HandlesWhatItHolds'
  BY DEF HandlesWhatItHolds, TypeOK
<1>3. NewestClaimIsLive'
  BY DEF NewestClaimIsLive, TypeOK
<1>4. VerdictIsRemembered'
  BY DEF VerdictIsRemembered, TypeOK
<1>5. NoticeIsDue'
  BY DEF NoticeIsDue, TypeOK
<1>6. QED
  BY <1>1, <1>2, <1>3, <1>4, <1>5
  DEF ClaimsNotAhead, ExclusiveLease, RowReportsNewestClaim, OneNoticePerDeadCommand,
      AbsentIsUnclaimed, OkMeansHandled

\* The end of a dispatch is remembered only while its claim is the newest.
LEMMA ReturnKeeps ==
  ASSUME IInv, NEW w \in Workers, NEW result \in {"ok", "error"}, Return(w, result)
  PROVE  IInv'
<1> USE DEF IInv, Return, rowVars, budgetVars
<1> DEFINE c == handling[w]
<1>0. c \in Commands /\ claims[w][c] # 0
  BY DEF HandlesWhatItHolds
<1>1. TypeOK'
  BY <1>0 DEF TypeOK, Stages
<1>2. HandlesWhatItHolds'
  BY DEF HandlesWhatItHolds, TypeOK
<1>3. NewestClaimIsLive'
  BY DEF NewestClaimIsLive, TypeOK
<1>4. VerdictIsRemembered'
  BY <1>0 DEF VerdictIsRemembered, TypeOK, ExclusiveLease, HandlesWhatItHolds
<1>5. RowReportsNewestClaim'
  BY <1>0 DEF RowReportsNewestClaim, NewestClaimIsLive, TypeOK
<1>6. NoticeIsDue'
  BY DEF NoticeIsDue, TypeOK
<1>7. OkMeansHandled'
  BY <1>0 DEF OkMeansHandled, TypeOK
<1>8. QED
  BY <1>1, <1>2, <1>3, <1>4, <1>5, <1>6, <1>7
  DEF ClaimsNotAhead, ExclusiveLease, OneNoticePerDeadCommand, AbsentIsUnclaimed

\* What dropping a record leaves in the workers' memories.
LEMMA DropFacts ==
  ASSUME TypeOK, NEW w \in Workers, NEW c \in Commands, Drop(w, c)
  PROVE  /\ claims' \in [Workers -> [Commands -> Nat]]
         /\ stage' \in [Workers -> Stages]
         /\ handling' \in [Workers -> Commands \cup {None}]
         /\ claims'[w][c] = 0
         /\ \A d \in Commands \ {c} : claims'[w][d] = claims[w][d]
         /\ stage'[w] \in {"batch", "idle"}
         /\ \A v \in Workers \ {w} : /\ claims'[v] = claims[v]
                                     /\ stage'[v] = stage[v]
                                     /\ handling'[v] = handling[v]
  BY DEF Drop, TypeOK, Stages

\* What the end of a process leaves in the workers' memories.
LEMMA StopFacts ==
  ASSUME TypeOK, NEW w \in Workers, Stop(w)
  PROVE  /\ claims' \in [Workers -> [Commands -> Nat]]
         /\ stage' \in [Workers -> Stages]
         /\ handling' \in [Workers -> Commands \cup {None}]
         /\ \A d \in Commands : claims'[w][d] = 0
         /\ stage'[w] = "stopped"
         /\ \A v \in Workers \ {w} : /\ claims'[v] = claims[v]
                                     /\ stage'[v] = stage[v]
                                     /\ handling'[v] = handling[v]
  BY DEF Stop, TypeOK, Stages

\* A fenced update is made by the one worker whose claim is the newest.
LEMMA FencedIsUnique ==
  ASSUME IInv, NEW w \in Workers, NEW c \in Commands, claims[w][c] # 0, Fenced(w, c)
  PROVE  \A v \in Workers \ {w} : claims[v][c] # attempts[c]
  BY DEF IInv, ExclusiveLease, Fenced

\* Forgetting records cannot break what is said of the claims that remain.
LEMMA ForgettingClaims ==
  ASSUME IInv, attempts' = attempts,
         \A v \in Workers, d \in Commands : claims'[v][d] \in {0, claims[v][d]}
  PROVE  ClaimsNotAhead' /\ ExclusiveLease'
<1>1. \A v \in Workers, d \in Commands :
        /\ claims[v][d] \in Nat /\ attempts[d] \in Nat
        /\ claims[v][d] <= attempts[d]
  BY DEF IInv, TypeOK, ClaimsNotAhead
<1>2. ClaimsNotAhead'
  <2> SUFFICES ASSUME NEW v \in Workers, NEW d \in Commands
               PROVE  claims'[v][d] <= attempts'[d]
    BY DEF ClaimsNotAhead
  <2>1. QED
    BY <1>1
<1>3. ExclusiveLease'
  <2> SUFFICES ASSUME NEW d \in Commands, NEW u \in Workers, NEW v \in Workers,
                      claims'[u][d] # 0,
                      claims'[u][d] = attempts'[d],
                      claims'[v][d] = attempts'[d]
               PROVE  u = v
    BY DEF ExclusiveLease
  <2>1. claims'[u][d] = claims[u][d] /\ claims'[v][d] = claims[v][d]
    BY <1>1
  <2>2. QED
    <3>1. ExclusiveLease
      BY DEF IInv
    <3> QED BY <2>1, <3>1 DEF ExclusiveLease
<1>4. QED
  BY <1>2, <1>3

\* The fence makes the row report the newest claim's own result.
LEMMA MarkSucceededKeeps ==
  ASSUME IInv, NEW w \in Workers, MarkSucceeded(w)
  PROVE  IInv'
<1> DEFINE c == handling[w]
<1> USE DEF IInv
<1>0. c \in Commands /\ claims[w][c] # 0 /\ stage[w] = "ok"
  BY DEF HandlesWhatItHolds, MarkSucceeded
<1>1. Fenced(w, c) /\ Drop(w, c)
  BY DEF MarkSucceeded
<1>2. /\ status' = [status EXCEPT ![c] = "succeeded"]
      /\ lockedBy' = [lockedBy EXCEPT ![c] = None]
      /\ lease' = [lease EXCEPT ![c] = 0]
      /\ UNCHANGED <<attempts, wait, verdict, handled, notices, crashes, stalls>>
  BY DEF MarkSucceeded, historyVars, budgetVars
<1>3. /\ claims' \in [Workers -> [Commands -> Nat]]
      /\ stage' \in [Workers -> Stages]
      /\ handling' \in [Workers -> Commands \cup {None}]
      /\ claims'[w][c] = 0
      /\ \A d \in Commands \ {c} : claims'[w][d] = claims[w][d]
      /\ stage'[w] \in {"batch", "idle"}
      /\ \A v \in Workers \ {w} : /\ claims'[v] = claims[v]
                                  /\ stage'[v] = stage[v]
                                  /\ handling'[v] = handling[v]
  BY <1>0, <1>1, DropFacts
<1>4. \A v \in Workers \ {w} : claims[v][c] # attempts[c]
  BY <1>0, <1>1, FencedIsUnique
<1>5. verdict[c] = "ok" /\ status[c] = "in_progress"
  BY <1>0, <1>1 DEF VerdictIsRemembered, Fenced
<1> HIDE DEF c
<1>6. TypeOK'
  BY <1>0, <1>2, <1>3 DEF TypeOK, Statuses
<1>7. \A v \in Workers, d \in Commands : claims'[v][d] \in {0, claims[v][d]}
  BY <1>3
<1>8. ClaimsNotAhead' /\ ExclusiveLease'
  BY <1>2, <1>7, ForgettingClaims
<1>9. HandlesWhatItHolds'
  BY <1>2, <1>3 DEF HandlesWhatItHolds, TypeOK
<1>10. NewestClaimIsLive'
  BY <1>0, <1>2, <1>3, <1>4 DEF NewestClaimIsLive, TypeOK
<1>11. VerdictIsRemembered'
  BY <1>2, <1>3 DEF VerdictIsRemembered
<1>12. RowReportsNewestClaim'
  BY <1>0, <1>2, <1>5 DEF RowReportsNewestClaim, TypeOK
<1>13. NoticeIsDue'
  BY <1>0, <1>2, <1>3, <1>5 DEF NoticeIsDue, HandlesWhatItHolds, TypeOK
<1>14. OneNoticePerDeadCommand'
  BY <1>0, <1>2, <1>5 DEF OneNoticePerDeadCommand, TypeOK
<1>15. OkMeansHandled'
  BY <1>2 DEF OkMeansHandled
<1>16. AbsentIsUnclaimed'
  BY <1>0, <1>2 DEF AbsentIsUnclaimed, TypeOK
<1>17. QED
  BY <1>6, <1>8, <1>9, <1>10, <1>11, <1>12, <1>13, <1>14, <1>15, <1>16

\* As for mark_succeeded; a dead row also owes its notice to this worker alone.
LEMMA MarkFailedKeeps ==
  ASSUME IInv, NEW w \in Workers, MarkFailed(w)
  PROVE  IInv'
<1> DEFINE c == handling[w]
<1> USE DEF IInv
<1>0. c \in Commands /\ claims[w][c] # 0 /\ stage[w] = "error"
  BY DEF HandlesWhatItHolds, MarkFailed
<1>1. Fenced(w, c)
  BY DEF MarkFailed
<1>2. /\ status' = [status EXCEPT ![c] = FailedStatus(w, c)]
      /\ wait' = [wait EXCEPT ![c] = RetryIn]
      /\ lockedBy' = [lockedBy EXCEPT ![c] = None]
      /\ lease' = [lease EXCEPT ![c] = 0]
      /\ UNCHANGED <<attempts, verdict, handled, notices, crashes, stalls>>
  BY DEF MarkFailed, historyVars, budgetVars
<1>3. \A v \in Workers \ {w} : claims[v][c] # attempts[c]
  BY <1>0, <1>1, FencedIsUnique
<1>4. /\ verdict[c] = "error"
      /\ status[c] = "in_progress"
      /\ claims[w][c] = attempts[c]
      /\ notices[c] = 0
  <2>1. verdict[c] = "error" /\ status[c] = "in_progress" /\ claims[w][c] = attempts[c]
    BY <1>0, <1>1 DEF VerdictIsRemembered, Fenced
  <2>2. notices[c] \in Nat /\ notices[c] <= 1 /\ notices[c] # 1
    BY <1>0, <2>1 DEF OneNoticePerDeadCommand, TypeOK
  <2>3. QED
    BY <2>1, <2>2
<1>5. /\ FailedStatus(w, c) \in {"dead", "failed"}
      /\ FailedStatus(w, c) = "dead" => attempts[c] >= MaxAttempts
  BY <1>4 DEF FailedStatus
<1>6. \/ /\ FailedStatus(w, c) = "dead"
         /\ stage' = [stage EXCEPT ![w] = "notify"]
         /\ claims' = claims /\ handling' = handling
      \/ /\ FailedStatus(w, c) = "failed"
         /\ Drop(w, c)
  BY <1>5 DEF MarkFailed
<1>7. /\ claims' \in [Workers -> [Commands -> Nat]]
      /\ stage' \in [Workers -> Stages]
      /\ handling' \in [Workers -> Commands \cup {None}]
      /\ \A d \in Commands \ {c} : claims'[w][d] = claims[w][d]
      /\ \A v \in Workers \ {w} : /\ claims'[v] = claims[v]
                                  /\ stage'[v] = stage[v]
                                  /\ handling'[v] = handling[v]
      /\ \/ /\ FailedStatus(w, c) = "dead"
            /\ stage'[w] = "notify" /\ claims'[w][c] = claims[w][c] /\ handling'[w] = c
         \/ /\ FailedStatus(w, c) = "failed"
            /\ stage'[w] \in {"batch", "idle"} /\ claims'[w][c] = 0
  BY ZenonT(40), <1>0, <1>6, DropFacts DEF TypeOK, Stages
<1> HIDE DEF c
<1>8. TypeOK'
  BY <1>0, <1>2, <1>5, <1>7, OutboxAssumption DEF TypeOK, Statuses
<1>9. \A v \in Workers, d \in Commands : claims'[v][d] \in {0, claims[v][d]}
  BY <1>7
<1>10. ClaimsNotAhead' /\ ExclusiveLease'
  BY <1>2, <1>9, ForgettingClaims
<1>11. HandlesWhatItHolds'
  BY ZenonT(40), <1>0, <1>7 DEF HandlesWhatItHolds, TypeOK
<1>12. NewestClaimIsLive'
  BY <1>0, <1>2, <1>3, <1>7 DEF NewestClaimIsLive, TypeOK
<1>13. VerdictIsRemembered'
  BY <1>2, <1>7 DEF VerdictIsRemembered
<1>14. RowReportsNewestClaim'
  BY <1>0, <1>2, <1>4, <1>5 DEF RowReportsNewestClaim, TypeOK
<1>15. NoticeIsDue'
  BY SMTT(60), <1>0, <1>2, <1>4, <1>7 DEF NoticeIsDue, HandlesWhatItHolds, TypeOK
<1>16. OneNoticePerDeadCommand'
  BY <1>0, <1>2, <1>4 DEF OneNoticePerDeadCommand, TypeOK
<1>17. OkMeansHandled'
  BY <1>2 DEF OkMeansHandled
<1>18. AbsentIsUnclaimed'
  BY <1>0, <1>2, <1>5 DEF AbsentIsUnclaimed, TypeOK
<1>19. QED
  BY <1>8, <1>10, <1>11, <1>12, <1>13, <1>14, <1>15, <1>16, <1>17, <1>18

\* A process that ends takes nothing with it but its claims.
LEMMA StopKeeps ==
  ASSUME IInv, NEW w \in Workers, Stop(w), crashes' \in Nat,
         UNCHANGED <<rowVars, historyVars, stalls>>
  PROVE  IInv'
<1> USE DEF IInv, rowVars, historyVars
<1>1. /\ claims' \in [Workers -> [Commands -> Nat]]
      /\ stage' \in [Workers -> Stages]
      /\ handling' \in [Workers -> Commands \cup {None}]
      /\ \A d \in Commands : claims'[w][d] = 0
      /\ stage'[w] = "stopped"
      /\ \A v \in Workers \ {w} : /\ claims'[v] = claims[v]
                                  /\ stage'[v] = stage[v]
                                  /\ handling'[v] = handling[v]
  BY StopFacts
<1>2. TypeOK'
  BY <1>1 DEF TypeOK
<1>3. \A v \in Workers, d \in Commands : claims'[v][d] \in {0, claims[v][d]}
  BY <1>1
<1>4. ClaimsNotAhead' /\ ExclusiveLease'
  BY <1>3, ForgettingClaims
<1>5. HandlesWhatItHolds'
  BY <1>1 DEF HandlesWhatItHolds
<1>6. NewestClaimIsLive'
  BY <1>1 DEF NewestClaimIsLive
<1>7. VerdictIsRemembered'
  BY <1>1 DEF VerdictIsRemembered
<1>8. NoticeIsDue'
  BY <1>1 DEF NoticeIsDue
<1>9. QED
  BY <1>2, <1>4, <1>5, <1>6, <1>7, <1>8
  DEF RowReportsNewestClaim, OneNoticePerDeadCommand, AbsentIsUnclaimed, OkMeansHandled

\* The notice owed is sent or lost, and never owed again.
LEMMA NotifyKeeps ==
  ASSUME IInv, NEW w \in Workers, Notify(w)
  PROVE  IInv'
<1> DEFINE c == handling[w]
<1> USE DEF IInv
<1>0. /\ c \in Commands /\ claims[w][c] # 0 /\ stage[w] = "notify"
      /\ status[c] = "dead" /\ claims[w][c] = attempts[c] /\ notices[c] = 0
  BY DEF HandlesWhatItHolds, NoticeIsDue, Notify
<1>1. /\ claims' \in [Workers -> [Commands -> Nat]]
      /\ stage' \in [Workers -> Stages]
      /\ handling' \in [Workers -> Commands \cup {None}]
      /\ claims'[w][c] = 0
      /\ \A d \in Commands \ {c} : claims'[w][d] = claims[w][d]
      /\ stage'[w] \in {"batch", "idle"}
      /\ \A v \in Workers \ {w} : /\ claims'[v] = claims[v]
                                  /\ stage'[v] = stage[v]
                                  /\ handling'[v] = handling[v]
  BY <1>0, DropFacts DEF Notify
<1>2. /\ UNCHANGED <<status, attempts, lockedBy, wait, lease, verdict, handled, crashes, stalls>>
      /\ \/ c \notin Silent /\ notices' = [notices EXCEPT ![c] = @ + 1]
         \/ notices' = notices
  BY DEF Notify, rowVars, budgetVars
<1> HIDE DEF c
<1>3. TypeOK'
  <2>1. notices' \in [Commands -> Nat]
    BY <1>0, <1>2 DEF TypeOK
  <2>2. QED
    BY <1>1, <1>2, <2>1 DEF TypeOK
<1>4. \A v \in Workers, d \in Commands : claims'[v][d] \in {0, claims[v][d]}
  BY <1>1
<1>5. ClaimsNotAhead' /\ ExclusiveLease'
  BY <1>2, <1>4, ForgettingClaims
<1>6. HandlesWhatItHolds'
  BY <1>1 DEF HandlesWhatItHolds
<1>7. NewestClaimIsLive'
  <2> SUFFICES ASSUME NEW v \in Workers, NEW d \in Commands,
                      claims'[v][d] # 0,
                      claims'[v][d] = attempts'[d]
               PROVE  \/ status'[d] = "in_progress"
                      \/ status'[d] = "dead" /\ stage'[v] = "notify" /\ handling'[v] = d
    BY DEF NewestClaimIsLive
  <2>1. claims[v][d] # 0 /\ claims[v][d] = attempts[d]
    BY <1>1, <1>2
  <2>2. CASE v = w
    BY <1>0, <1>1, <1>2, <2>1, <2>2 DEF NewestClaimIsLive, c
  <2>3. CASE v # w
    BY <1>1, <1>2, <2>1, <2>3 DEF NewestClaimIsLive
  <2>4. QED
    BY <2>2, <2>3
<1>8. VerdictIsRemembered'
  BY <1>1, <1>2 DEF VerdictIsRemembered
<1>9. NoticeIsDue'
  <2> SUFFICES ASSUME NEW v \in Workers, stage'[v] = "notify"
               PROVE  /\ status'[handling'[v]] = "dead"
                      /\ claims'[v][handling'[v]] = attempts'[handling'[v]]
                      /\ notices'[handling'[v]] = 0
    BY DEF NoticeIsDue
  <2>1. v # w /\ stage[v] = "notify" /\ handling'[v] = handling[v] /\ claims'[v] = claims[v]
    BY <1>1
  <2>2. /\ handling[v] \in Commands
        /\ claims[v][handling[v]] # 0
        /\ claims[v][handling[v]] = attempts[handling[v]]
        /\ status[handling[v]] = "dead"
        /\ notices[handling[v]] = 0
    BY <2>1 DEF HandlesWhatItHolds, NoticeIsDue
  <2>3. handling[v] # c
    BY <1>0, <2>1, <2>2 DEF ExclusiveLease
  <2>4. notices'[handling[v]] = 0
    BY <1>2, <2>2, <2>3 DEF TypeOK
  <2>5. QED
    BY <1>2, <2>1, <2>2, <2>4
<1>10. OneNoticePerDeadCommand'
  BY <1>0, <1>2 DEF OneNoticePerDeadCommand, TypeOK
<1>11. QED
  BY <1>2, <1>3, <1>5, <1>6, <1>7, <1>8, <1>9, <1>10
  DEF RowReportsNewestClaim, AbsentIsUnclaimed, OkMeansHandled

\* A restarted worker starts with nothing in its memory.
LEMMA RestartKeeps ==
  ASSUME IInv, NEW w \in Workers, Restart(w)
  PROVE  IInv'
<1> USE DEF IInv, Restart, rowVars, historyVars, budgetVars
<1>1. TypeOK'
  BY DEF TypeOK, Stages
<1>2. HandlesWhatItHolds'
  BY DEF HandlesWhatItHolds, TypeOK
<1>3. NewestClaimIsLive'
  BY DEF NewestClaimIsLive, TypeOK
<1>4. VerdictIsRemembered'
  BY DEF VerdictIsRemembered, TypeOK
<1>5. NoticeIsDue'
  BY DEF NoticeIsDue, TypeOK
<1>6. QED
  BY <1>1, <1>2, <1>3, <1>4, <1>5
  DEF ClaimsNotAhead, ExclusiveLease, RowReportsNewestClaim, OneNoticePerDeadCommand,
      AbsentIsUnclaimed, OkMeansHandled

\* Time changes only what remains of leases and delays.
LEMMA TickKeeps ==
  ASSUME IInv, Tick
  PROVE  IInv'
<1> USE DEF IInv, Tick, workerVars, historyVars
<1>1. TypeOK'
  <2>1. \A n \in Nat : Less(n) \in Nat
    BY DEF Less
  <2>2. wait' \in [Commands -> Nat] /\ lease' \in [Commands -> Nat] /\ stalls' \in Nat
    BY <2>1 DEF TypeOK
  <2>3. QED
    BY <2>2 DEF TypeOK
<1>2. QED
  BY <1>1
  DEF ClaimsNotAhead, ExclusiveLease, HandlesWhatItHolds, NewestClaimIsLive,
      VerdictIsRemembered, RowReportsNewestClaim, NoticeIsDue, OneNoticePerDeadCommand,
      AbsentIsUnclaimed, OkMeansHandled

\* A step that changes nothing keeps the invariant.
LEMMA StutterKeeps ==
  ASSUME IInv, UNCHANGED vars
  PROVE  IInv'
  BY DEF IInv, vars, rowVars, workerVars, historyVars, budgetVars, TypeOK, ClaimsNotAhead,
         ExclusiveLease, HandlesWhatItHolds, NewestClaimIsLive, VerdictIsRemembered,
         RowReportsNewestClaim, NoticeIsDue, OneNoticePerDeadCommand, AbsentIsUnclaimed,
         OkMeansHandled

\* IInv is inductive: one case per action.
LEMMA NextKeeps == IInv /\ [Next]_vars => IInv'
<1> SUFFICES ASSUME IInv, [Next]_vars
             PROVE  IInv'
  OBVIOUS
<1>1. CASE \E c \in Commands : Enqueue(c)
  BY <1>1, EnqueueKeeps
<1>2. CASE Tick
  BY <1>2, TickKeeps
<1>3. CASE UNCHANGED vars
  BY <1>3, StutterKeeps
<1>4. ASSUME NEW w \in Workers, RunOnce(w) \/ Crash(w) \/ Restart(w)
      PROVE  IInv'
  <2>1. CASE ClaimBatch(w)
    BY <2>1, TakeKeeps DEF ClaimBatch
  <2>2. CASE \E c \in Commands : Dispatch(w, c)
    BY <2>2, DispatchKeeps
  <2>3. CASE \E result \in {"ok", "error"} : Return(w, result)
    BY <2>3, ReturnKeeps
  <2>4. CASE MarkSucceeded(w)
    BY <2>4, MarkSucceededKeeps
  <2>5. CASE MarkFailed(w)
    BY <2>5, MarkFailedKeeps
  <2>6. CASE LoseLease(w)
    BY <2>6, StopKeeps DEF LoseLease, budgetVars, IInv, TypeOK
  <2>7. CASE Notify(w)
    BY <2>7, NotifyKeeps
  <2>8. CASE Crash(w)
    BY <2>8, StopKeeps DEF Crash, IInv, TypeOK
  <2>9. CASE Restart(w)
    BY <2>9, RestartKeeps
  <2>10. QED
    BY <1>4, <2>1, <2>2, <2>3, <2>4, <2>5, <2>6, <2>7, <2>8, <2>9 DEF RunOnce
<1>5. QED
  BY <1>1, <1>2, <1>3, <1>4 DEF Next

\* What a step of w's loop leaves of the other workers and of the verdicts.
LEMMA LoopFacts ==
  ASSUME IInv, NEW w \in Workers,
         \/ ClaimBatch(w) \/ (\E c \in Commands : Dispatch(w, c))
         \/ MarkSucceeded(w) \/ MarkFailed(w) \/ LoseLease(w)
         \/ Notify(w) \/ Restart(w)
  PROVE  /\ stage[w] # "dispatch"
         /\ \A v \in Workers : v # w => stage'[v] = stage[v] /\ handling'[v] = handling[v]
         /\ \A c \in Commands : verdict'[c] = "ok" => verdict[c] = "ok"
<1> USE DEF IInv, TypeOK
<1>1. CASE ClaimBatch(w)
  BY <1>1 DEF ClaimBatch, Take
<1>2. CASE \E c \in Commands : Dispatch(w, c)
  BY <1>2 DEF Dispatch, historyVars
<1>3. CASE MarkSucceeded(w)
  BY <1>3 DEF MarkSucceeded, Drop, historyVars
<1>4. CASE MarkFailed(w)
  BY <1>4 DEF MarkFailed, Drop, historyVars
<1>5. CASE LoseLease(w)
  BY <1>5 DEF LoseLease, Stop, historyVars
<1>6. CASE Notify(w)
  BY <1>6 DEF Notify, Drop
<1>7. CASE Restart(w)
  BY <1>7 DEF Restart, historyVars
<1>8. QED
  BY <1>1, <1>2, <1>3, <1>4, <1>5, <1>6, <1>7

\* What the end of w's dispatch leaves of the other workers and of the verdicts.
LEMMA ReturnFacts ==
  ASSUME IInv, NEW w \in Workers, NEW result, Return(w, result)
  PROVE  /\ \A v \in Workers : v # w => stage'[v] = stage[v] /\ handling'[v] = handling[v]
         /\ \A c \in Commands : verdict'[c] = "ok" =>
              verdict[c] = "ok" \/ (c = handling[w] /\ result = "ok")
  BY DEF Return, IInv, TypeOK, workerVars

-----------------------------------------------------------------------------
\* Every reachable state of the outbox and its workers satisfies the inductive
\* invariant, whatever the interleaving of claims, results, crashes and reclaims.
THEOREM Invariance == SafeSpec => []IInv
<1>1. Init => IInv
  BY InitIInv
<1>2. IInv /\ [Next]_vars => IInv'
  BY NextKeeps
<1>3. QED
  BY <1>1, <1>2, PTL DEF SafeSpec

\* The types of the rows and of what the workers remember of them.
THEOREM TypeCorrect == SafeSpec => []TypeOK
<1>1. IInv => TypeOK
  BY DEF IInv
<1>2. QED
  BY <1>1, Invariance, PTL

\* claim_batch and update() together hand the newest generation of a command
\* to one worker only, for any number of replicas and even under one identity.
THEOREM LeaseIsExclusive == SafeSpec => []ExclusiveLease
<1>1. IInv => ExclusiveLease
  BY DEF IInv
<1>2. QED
  BY <1>1, Invariance, PTL

\* No stale claimant's result ever reaches the row, and "dead" means that
\* max_attempts claims were made and the last one failed.
THEOREM StaleClaimantsAreFencedOff == SafeSpec => []RowReportsNewestClaim
<1>1. IInv => RowReportsNewestClaim
  BY DEF IInv
<1>2. QED
  BY <1>1, Invariance, PTL

\* The failure notice of a command is enqueued at most once, and only when the
\* command is dead.
THEOREM AtMostOneNotice == SafeSpec => []OneNoticePerDeadCommand
<1>1. IInv => OneNoticePerDeadCommand
  BY DEF IInv
<1>2. QED
  BY <1>1, Invariance, PTL

-----------------------------------------------------------------------------
(***************************************************************************)
(* The outbox implements AtLeastOnceQueue, up to its fairness.             *)
(***************************************************************************)

\* What an observer sees of the rows is well typed.
LEMMA PhaseType ==
  ASSUME NEW c \in Commands
  PROVE  /\ phase[c] = "absent" <=> status[c] = "absent"
         /\ phase[c] = "done" <=> status[c] = "succeeded"
         /\ phase[c] = "dead" <=> status[c] = "dead"
         /\ phase[c] \in {"absent", "queued", "done", "dead"}
  BY DEF phase

\* A step that changes no row's phase and no history is a stutter of the queue.
LEMMA SamePhase ==
  ASSUME handled' = handled,
         \A c \in Commands :
           \/ status'[c] = status[c]
           \/ /\ status[c] \in {"pending", "failed", "in_progress"}
              /\ status'[c] \in {"pending", "failed", "in_progress"}
  PROVE  UNCHANGED Queue!vars
  BY DEF phase, Queue!vars

\* A step that changes the status of one row changes the phase of that row.
LEMMA OnePhase ==
  ASSUME NEW c \in Commands, NEW s, status \in [Commands -> Statuses],
         status' = [status EXCEPT ![c] = s]
  PROVE  phase' = [phase EXCEPT ![c] =
                     CASE s = "absent" -> "absent"
                       [] s = "succeeded" -> "done"
                       [] s = "dead" -> "dead"
                       [] OTHER -> "queued"]
  BY DEF phase

\* Every step of the outbox and its workers is a step of the queue promised to
\* its users or changes nothing they can see.
THEOREM QueueIsImplemented == SafeSpec => Queue!SafeSpec
<1>1. Init => Queue!Init
  BY DEF Init, Queue!Init, phase
<1>2. IInv /\ [Next]_vars => [Queue!Next]_(Queue!vars)
  <2> SUFFICES ASSUME IInv, [Next]_vars
               PROVE  [Queue!Next]_(Queue!vars)
    OBVIOUS
  <2> USE DEF IInv
  <2>1. ASSUME NEW c \in Commands, Enqueue(c)
        PROVE  Queue!Submit(c)
    <3>1. /\ status' = [status EXCEPT ![c] = "pending"]
          /\ status[c] = "absent" /\ handled' = handled
      BY <2>1 DEF Enqueue, historyVars
    <3>2. phase' = [phase EXCEPT ![c] = "queued"]
      BY <3>1 DEF TypeOK, phase
    <3>3. phase[c] = "absent"
      BY <3>1, PhaseType
    <3>4. QED
      BY <3>1, <3>2, <3>3 DEF Queue!Submit
  <2>2. ASSUME NEW w \in Workers, ClaimBatch(w)
        PROVE  UNCHANGED Queue!vars
    <3>1. PICK S \in SUBSET {c \in Commands : Claimable(c)} : Take(w, S)
      BY <2>2 DEF ClaimBatch
    <3>2. \A c \in Commands :
            \/ status'[c] = status[c]
            \/ /\ status[c] \in {"pending", "failed", "in_progress"}
               /\ status'[c] \in {"pending", "failed", "in_progress"}
      BY <3>1 DEF Take, Claimable, Due, Stale
    <3>3. QED
      BY <3>1, <3>2, SamePhase DEF Take
  <2>3. ASSUME NEW w \in Workers, NEW result \in {"ok", "error"}, Return(w, result)
        PROVE  Queue!Handle(handling[w]) \/ UNCHANGED Queue!vars
    <3> DEFINE c == handling[w]
    <3>1. c \in Commands /\ claims[w][c] # 0 /\ phase' = phase
      BY <2>3 DEF HandlesWhatItHolds, Return, rowVars, phase
    <3>2. status[c] # "absent"
      BY <3>1 DEF ClaimsNotAhead, AbsentIsUnclaimed, TypeOK
    <3>3. phase[c] # "absent"
      BY <3>1, <3>2, PhaseType
    <3>4. CASE result = "ok"
      BY <2>3, <3>1, <3>3, <3>4 DEF Queue!Handle, Return, TypeOK
    <3>5. CASE result = "error"
      BY <2>3, <3>1, <3>5 DEF Return, Queue!vars, TypeOK
    <3>6. QED
      BY <3>4, <3>5
  <2>4. ASSUME NEW w \in Workers, MarkSucceeded(w)
        PROVE  Queue!Finish(handling[w])
    <3> DEFINE c == handling[w]
    <3>1. /\ c \in Commands
          /\ status' = [status EXCEPT ![c] = "succeeded"]
          /\ status[c] = "in_progress" /\ handled' = handled
          /\ stage[w] = "ok" /\ claims[w][c] = attempts[c]
      BY <2>4 DEF HandlesWhatItHolds, MarkSucceeded, Fenced, historyVars
    <3>2. handled[c]
      BY <3>1 DEF VerdictIsRemembered, OkMeansHandled
    <3>3. phase' = [phase EXCEPT ![c] = "done"]
      BY <3>1, OnePhase DEF TypeOK
    <3>4. phase[c] = "queued"
      BY <3>1 DEF phase
    <3>5. QED
      BY <3>1, <3>2, <3>3, <3>4 DEF Queue!Finish
  <2>5. ASSUME NEW w \in Workers, MarkFailed(w)
        PROVE  Queue!GiveUp(handling[w]) \/ UNCHANGED Queue!vars
    <3> DEFINE c == handling[w]
    <3>1. /\ c \in Commands
          /\ status' = [status EXCEPT ![c] = FailedStatus(w, c)]
          /\ status[c] = "in_progress" /\ handled' = handled
      BY <2>5 DEF HandlesWhatItHolds, MarkFailed, Fenced, historyVars
    <3>2. CASE FailedStatus(w, c) = "dead"
      <4>1. phase' = [phase EXCEPT ![c] = "dead"]
        BY <3>1, <3>2, OnePhase DEF TypeOK
      <4>2. phase[c] = "queued"
        BY <3>1 DEF phase
      <4>3. QED
        BY <3>1, <4>1, <4>2 DEF Queue!GiveUp
    <3>3. CASE FailedStatus(w, c) = "failed"
      <4>1. \A d \in Commands :
              \/ status'[d] = status[d]
              \/ /\ status[d] \in {"pending", "failed", "in_progress"}
                 /\ status'[d] \in {"pending", "failed", "in_progress"}
        BY <3>1, <3>3 DEF TypeOK
      <4>2. QED
        BY <3>1, <4>1, SamePhase
    <3>4. QED
      BY <3>2, <3>3 DEF FailedStatus
  <2>6. ASSUME status' = status, handled' = handled
        PROVE  UNCHANGED Queue!vars
    BY <2>6 DEF phase, Queue!vars
  <2>7. ASSUME NEW w \in Workers, RunOnce(w) \/ Crash(w) \/ Restart(w)
        PROVE  [Queue!Next]_(Queue!vars)
    <3>1. CASE ClaimBatch(w)
      BY <3>1, <2>2
    <3>2. CASE \E result \in {"ok", "error"} : Return(w, result)
      <4>1. handling[w] \in Commands
        BY <3>2 DEF Return, HandlesWhatItHolds
      <4>2. QED
        BY <3>2, <2>3, <4>1 DEF Queue!Next
    <3>3. CASE MarkSucceeded(w)
      <4>1. handling[w] \in Commands
        BY <3>3 DEF MarkSucceeded, HandlesWhatItHolds
      <4>2. QED
        BY <3>3, <2>4, <4>1 DEF Queue!Next, Queue!Settle
    <3>4. CASE MarkFailed(w)
      <4>1. handling[w] \in Commands
        BY <3>4 DEF MarkFailed, HandlesWhatItHolds
      <4>2. QED
        BY <3>4, <2>5, <4>1 DEF Queue!Next, Queue!Settle
    <3>5. CASE (\E c \in Commands : Dispatch(w, c)) \/ Notify(w)
      BY <3>5, <2>6 DEF Dispatch, Notify, rowVars, historyVars
    <3>6. CASE LoseLease(w) \/ Crash(w) \/ Restart(w)
      BY <3>6, <2>6 DEF LoseLease, Crash, Restart, rowVars, historyVars
    <3>7. QED
      BY <2>7, <3>1, <3>2, <3>3, <3>4, <3>5, <3>6 DEF RunOnce
  <2>8. CASE \E c \in Commands : Enqueue(c)
    BY <2>8, <2>1 DEF Queue!Next
  <2>9. CASE Tick
    BY <2>9, <2>6 DEF Tick, historyVars
  <2>10. CASE UNCHANGED vars
    BY <2>10, <2>6 DEF vars, rowVars, historyVars
  <2>11. QED
    BY <2>7, <2>8, <2>9, <2>10 DEF Next
<1>3. QED
  BY <1>1, <1>2, Invariance, PTL DEF SafeSpec, Queue!SafeSpec

-----------------------------------------------------------------------------
(***************************************************************************)
(* Owner messages, for any number of messages, replies and workers.        *)
(* Every step of MessageProcessing but Persist is a step of the outbox or    *)
(* leaves it alone, and Persist only enqueues: the outbox's invariant carries *)
(* over.  On top of it, PInv says where a worker inside process() can be.   *)
(***************************************************************************)

\* A worker inside process() is dispatching the command of a message.
InsideDispatch ==
  \A w \in Workers :
    step[w] # "none" => stage[w] = "dispatch" /\ handling[w] \in Messages

\* What a handler made answers its own message, and a failure answers nothing.
ProducedFits ==
  \A w \in Workers :
    step[w] = "persist" =>
      /\ produced[w].replies \subseteq RepliesTo(handling[w])
      /\ produced[w].status # "succeeded" => produced[w].replies = {}

\* A succeeded run has its intent stored; no claim takes that back.
SucceededIsStored == \A m \in Messages : run[m] = "succeeded" => resolved[m]

\* process() ends well only with a stored result.
EndsWellWhenStored ==
  \A w \in Workers :
    step[w] \in {"completed", "already_processed"} => resolved[handling[w]]

\* So does the dispatch of the newest claim.
OkIsStored == \A m \in Messages : verdict[m] = "ok" => resolved[m]

PInv ==
  /\ IInv
  /\ ProcessingTypeOK
  /\ InsideDispatch
  /\ ProducedFits
  /\ RepliesOfOneRun
  /\ SucceededIsStored
  /\ EndsWellWhenStored
  /\ OkIsStored

\* Enqueueing the replies keeps what holds of the outbox.
LEMMA PersistKeepsOutbox ==
  ASSUME PInv, NEW w \in Workers, Persist(w)
  PROVE  IInv'
<1>0. IInv
  BY DEF PInv
<1> USE <1>0 DEF IInv
<1>1. /\ status' \in [Commands -> Statuses]
      /\ \A c \in Commands : status'[c] = status[c] \/ (status[c] = "absent" /\ status'[c] = "pending")
  <2>1. status' = WithQueued(produced[w].replies)
    BY DEF Persist
  <2>2. status \in [Commands -> Statuses]
    BY DEF TypeOK
  <2>3. QED
    BY <2>1, <2>2 DEF WithQueued, Statuses
<1>2. UNCHANGED <<attempts, lockedBy, wait, lease, claims, stage, handling, verdict,
                  handled, notices, crashes, stalls>>
  BY DEF Persist, workerVars, historyVars, budgetVars
<1>3. TypeOK'
  BY <1>1, <1>2 DEF TypeOK
<1>4. NewestClaimIsLive'
  BY <1>1, <1>2 DEF NewestClaimIsLive, TypeOK
<1>5. RowReportsNewestClaim'
  BY <1>1, <1>2 DEF RowReportsNewestClaim, TypeOK
<1>6. NoticeIsDue'
  BY <1>1, <1>2 DEF NoticeIsDue, TypeOK, HandlesWhatItHolds
<1>7. OneNoticePerDeadCommand'
  BY <1>1, <1>2 DEF OneNoticePerDeadCommand, TypeOK
<1>8. AbsentIsUnclaimed'
  BY <1>1, <1>2 DEF AbsentIsUnclaimed, TypeOK
<1>9. QED
  BY <1>2, <1>3, <1>4, <1>5, <1>6, <1>7, <1>8
  DEF ClaimsNotAhead, ExclusiveLease, HandlesWhatItHolds, VerdictIsRemembered, OkMeansHandled

\* The outbox's invariant survives every step of message processing.
LEMMA OutboxKept == PInv /\ [ProcessingNext]_allVars => IInv'
<1> SUFFICES ASSUME PInv, [ProcessingNext]_allVars
             PROVE  IInv'
  OBVIOUS
<1>1. CASE \E w \in Workers : Persist(w)
  BY <1>1, PersistKeepsOutbox
<1>2. CASE ~\E w \in Workers : Persist(w)
  <2>1. ASSUME NEW w \in Workers, Work(w), ~Persist(w)
        PROVE  [Next]_vars
    <3>1. CASE Process(w)
      BY <2>1, <3>1 DEF Process, ClaimRun, Resolve, HandlerReturns, HandlerRaises, PersistRollsBack
    <3>2. CASE ReturnProcess(w)
      BY <3>2 DEF ReturnProcess, Next, RunOnce
    <3>3. CASE ReturnReply(w)
      BY <3>3 DEF ReturnReply, Next, RunOnce
    <3>4. CASE WorkerLoop(w)
      BY <3>4 DEF WorkerLoop, Next, RunOnce
    <3>5. QED
      BY <2>1, <3>1, <3>2, <3>3, <3>4 DEF Work
  <2>2. ASSUME NEW w \in Workers, CrashProcess(w)
        PROVE  [Next]_vars
    BY <2>2 DEF CrashProcess, Next
  <2>3. ASSUME NEW m \in Messages, Ingest(m)
        PROVE  [Next]_vars
    BY <2>3 DEF Ingest, Next, Messages
  <2>4. CASE TickProcess
    BY <2>4, NextKeeps DEF TickProcess, Next, PInv
  <2>5. CASE UNCHANGED allVars
    BY <2>5, NextKeeps DEF allVars, PInv
  <2>6. QED
    BY <1>2, <2>1, <2>2, <2>3, <2>4, <2>5, NextKeeps DEF ProcessingNext, PInv
<1>3. QED
  BY <1>1, <1>2

\* Nothing is claimed, resolved or answered at first.
LEMMA InitPInv == ProcessingInit => PInv
<1> SUFFICES ASSUME ProcessingInit PROVE PInv
  OBVIOUS
<1>1. IInv
  BY InitIInv DEF ProcessingInit
<1>2. ProcessingTypeOK
  BY DEF ProcessingInit, ProcessingTypeOK, RunStatuses, Steps, Results, NoResult
<1>3. QED
  BY <1>1, <1>2
  DEF ProcessingInit, Init, PInv, InsideDispatch, ProducedFits, RepliesOfOneRun,
      SucceededIsStored, EndsWellWhenStored, OkIsStored, Messages

\* A step of process() that changes no row of a run: ClaimRun without a grant, the
\* resolver, the handler, a rollback.
LEMMA QuietStepKeeps ==
  ASSUME PInv, NEW w \in Workers,
         stage[w] = "dispatch", handling[w] \in Messages,
         UNCHANGED <<vars, runVars, mine>>,
         NEW s \in Steps, step' = [step EXCEPT ![w] = s],
         produced' \in [Workers -> Results],
         \A v \in Workers : v # w => produced'[v] = produced[v],
         s = "persist" =>
           /\ produced'[w].replies \subseteq RepliesTo(handling[w])
           /\ produced'[w].status # "succeeded" => produced'[w].replies = {},
         s \in {"completed", "already_processed"} => resolved[handling[w]]
  PROVE  PInv'
<1>1. IInv'
  BY StutterKeeps DEF PInv, vars, rowVars, workerVars, historyVars, budgetVars
<1>2. step' \in [Workers -> Steps] /\ step \in [Workers -> Steps]
  BY DEF PInv, ProcessingTypeOK
<1>3. UNCHANGED <<stage, handling, status, verdict, run, token, runLease, resolved, author, mine>>
  BY DEF vars, rowVars, workerVars, historyVars, runVars
<1>4. ProcessingTypeOK'
  BY <1>2, <1>3 DEF PInv, ProcessingTypeOK
<1>5. InsideDispatch'
  BY <1>2, <1>3 DEF PInv, InsideDispatch
<1>6. ProducedFits'
  BY <1>2, <1>3 DEF PInv, ProducedFits, RepliesTo
<1>7. EndsWellWhenStored'
  BY <1>2, <1>3 DEF PInv, EndsWellWhenStored
<1>8. QED
  BY <1>1, <1>3, <1>4, <1>5, <1>6, <1>7
  DEF PInv, RepliesOfOneRun, SucceededIsStored, OkIsStored

\* A claim that is granted the run: it was not succeeded, so nothing is stored yet.
LEMMA GrantKeeps ==
  ASSUME PInv, NEW w \in Workers, ClaimRun(w),
         ~Terminal(handling[w]), ~BusyRun(handling[w])
  PROVE  PInv'
<1> DEFINE m == handling[w]
<1>1. /\ m \in Messages /\ stage[w] = "dispatch"
      /\ run[m] # "succeeded"
      /\ run' = [run EXCEPT ![m] = "running"]
      /\ token' = [token EXCEPT ![m] = @ + 1]
      /\ runLease' = [runLease EXCEPT ![m] = LeaseTtl]
      /\ mine' = [mine EXCEPT ![w] = token[m] + 1]
      /\ \E s \in {"handle", "resolve"} : step' = [step EXCEPT ![w] = s]
      /\ UNCHANGED <<vars, resolved, author, produced>>
  BY DEF ClaimRun, At, Terminal, BusyRun, Goto
<1> HIDE DEF m
<1>2. IInv'
  BY <1>1, StutterKeeps DEF PInv
<1>3. UNCHANGED <<stage, handling, status, verdict>>
  BY <1>1 DEF vars, rowVars, workerVars, historyVars
<1>4. ProcessingTypeOK'
  BY <1>1, OutboxAssumption DEF PInv, ProcessingTypeOK, RunStatuses, Steps
<1>5. InsideDispatch' /\ ProducedFits' /\ EndsWellWhenStored'
  BY <1>1, <1>3 DEF m, PInv, ProcessingTypeOK, InsideDispatch, ProducedFits, EndsWellWhenStored, RepliesTo
<1>6. RepliesOfOneRun'
  BY <1>1, ProcessingAssumption DEF PInv, ProcessingTypeOK, RepliesOfOneRun
<1>7. SucceededIsStored'
  BY <1>1 DEF PInv, ProcessingTypeOK, SucceededIsStored
<1>8. OkIsStored'
  BY <1>1, <1>3 DEF PInv, OkIsStored
<1>9. QED
  BY <1>2, <1>4, <1>5, <1>6, <1>7, <1>8 DEF PInv

\* _finish_failed of a run that is still w's.
LEMMA FinishFailedKeeps ==
  ASSUME PInv, NEW w \in Workers, HandlerRaises(w), RunFenced(w, handling[w])
  PROVE  PInv'
<1> DEFINE m == handling[w]
<1>1. /\ m \in Messages /\ stage[w] = "dispatch"
      /\ run[m] = "running"
      /\ run' = [run EXCEPT ![m] = "failed"]
      /\ resolved' = [resolved EXCEPT ![m] = TRUE]
      /\ step' = [step EXCEPT ![w] = "handler_failed"]
      /\ UNCHANGED <<vars, token, runLease, author, mine, produced>>
  BY DEF HandlerRaises, At, RunFenced, Goto
<1> HIDE DEF m
<1>2. IInv'
  BY <1>1, StutterKeeps DEF PInv
<1>3. UNCHANGED <<stage, handling, status, verdict>>
  BY <1>1 DEF vars, rowVars, workerVars, historyVars
<1>4. ProcessingTypeOK'
  BY <1>1 DEF PInv, ProcessingTypeOK, RunStatuses, Steps, Outcomes
<1>5. InsideDispatch' /\ ProducedFits'
  BY <1>1, <1>3 DEF m, PInv, ProcessingTypeOK, InsideDispatch, ProducedFits, RepliesTo
<1>6. EndsWellWhenStored'
  <2>1. SUFFICES ASSUME NEW v \in Workers, step'[v] \in {"completed", "already_processed"}
                 PROVE  resolved'[handling[v]]
    BY <1>3 DEF EndsWellWhenStored
  <2>2. v # w /\ step[v] = step'[v] /\ handling[v] \in Messages /\ resolved[handling[v]]
    BY <1>1, <2>1 DEF PInv, ProcessingTypeOK, InsideDispatch, EndsWellWhenStored
  <2>3. QED
    BY <1>1, <2>2, Zenon DEF PInv, ProcessingTypeOK
<1>7. RepliesOfOneRun'
  BY <1>1, ProcessingAssumption DEF PInv, ProcessingTypeOK, RepliesOfOneRun
<1>8. SucceededIsStored'
  BY <1>1 DEF PInv, ProcessingTypeOK, SucceededIsStored
<1>9. OkIsStored'
  BY <1>1, <1>3 DEF PInv, ProcessingTypeOK, OkIsStored
<1>10. QED
  BY <1>2, <1>4, <1>5, <1>6, <1>7, <1>8, <1>9 DEF PInv

\* The run was running, so nothing was stored for its message: all that is stored
\* now is w's, under the run's own token.
LEMMA PersistKeeps ==
  ASSUME PInv, NEW w \in Workers, Persist(w)
  PROVE  PInv'
<1> DEFINE m == handling[w]
           R == produced[w].replies
<1>1. /\ m \in Messages /\ stage[w] = "dispatch"
      /\ run[m] = "running" /\ token[m] = mine[w]
      /\ run' = [run EXCEPT ![m] = produced[w].status]
      /\ resolved' = [resolved EXCEPT ![m] = TRUE]
      /\ author' = [r \in Replies |->
                      IF r \in R /\ author[r] = 0 THEN mine[w] ELSE author[r]]
      /\ step' = [step EXCEPT ![w] = "completed"]
      /\ UNCHANGED <<stage, handling, verdict, token, runLease, mine, produced>>
  BY DEF Persist, At, RunFenced, Goto, workerVars, historyVars
<1>2. /\ R \subseteq RepliesTo(m)
      /\ produced[w].status # "succeeded" => R = {}
      /\ produced[w].status \in {"succeeded", "failed"}
  BY DEF PInv, ProducedFits, Persist, At, ProcessingTypeOK, Results
<1> HIDE DEF m, R
<1>3. IInv'
  BY PersistKeepsOutbox
<1>4. ProcessingTypeOK'
  <2>1. mine[w] \in Nat
    BY DEF PInv, ProcessingTypeOK
  <2>2. author' \in [Replies -> Nat]
    BY <1>1, <2>1 DEF PInv, ProcessingTypeOK
  <2>3. QED
    BY <1>1, <1>2, <2>2 DEF PInv, ProcessingTypeOK, RunStatuses, Steps, Outcomes
<1>5. InsideDispatch' /\ ProducedFits'
  BY <1>1 DEF m, PInv, ProcessingTypeOK, InsideDispatch, ProducedFits, RepliesTo
<1>6. EndsWellWhenStored'
  <2>1. SUFFICES ASSUME NEW v \in Workers, step'[v] \in {"completed", "already_processed"}
                 PROVE  resolved'[handling[v]]
    BY <1>1 DEF EndsWellWhenStored
  <2>2. CASE v = w
    BY <1>1, <2>2, Zenon DEF m, PInv, ProcessingTypeOK
  <2>3. CASE v # w
    <3>1. handling[v] \in Messages /\ resolved[handling[v]]
      BY <1>1, <2>1, <2>3 DEF PInv, ProcessingTypeOK, InsideDispatch, EndsWellWhenStored
    <3>2. QED
      BY <1>1, <3>1, Zenon DEF PInv, ProcessingTypeOK
  <2>4. QED
    BY <2>2, <2>3
<1>7. RepliesOfOneRun'
  <2>1. SUFFICES ASSUME NEW r \in Replies, author'[r] # 0
                 PROVE  run'[ReplyTo[r]] = "succeeded" /\ author'[r] = token[ReplyTo[r]]
    BY <1>1 DEF RepliesOfOneRun
  <2>2. CASE author[r] # 0
    <3>1. run[ReplyTo[r]] = "succeeded" /\ author[r] = token[ReplyTo[r]]
      BY <2>2 DEF PInv, RepliesOfOneRun
    <3>2. ReplyTo[r] # m
      BY <1>1, <3>1
    <3>3. QED
      BY <1>1, <2>2, <3>1, <3>2, ProcessingAssumption DEF PInv, ProcessingTypeOK
  <2>3. CASE author[r] = 0
    <3>1. r \in R /\ author'[r] = mine[w]
      BY <1>1, <2>1, <2>3
    <3>2. ReplyTo[r] = m /\ produced[w].status = "succeeded"
      BY <1>2, <3>1 DEF RepliesTo
    <3>3. QED
      BY <1>1, <3>1, <3>2 DEF PInv, ProcessingTypeOK
  <2>4. QED
    BY <2>2, <2>3
<1>8. SucceededIsStored'
  BY <1>1 DEF PInv, ProcessingTypeOK, SucceededIsStored
<1>9. OkIsStored'
  BY <1>1 DEF PInv, ProcessingTypeOK, OkIsStored
<1>10. QED
  BY <1>3, <1>4, <1>5, <1>6, <1>7, <1>8, <1>9 DEF PInv

\* A step of worker w in the outbox, taken outside process() or leaving it: the runs
\* stay, the other workers stay, and an "ok" verdict is new only for a stored result.
LEMMA OutboxStepKeeps ==
  ASSUME PInv, IInv', NEW w \in Workers,
         UNCHANGED <<run, token, resolved, author>>,
         runLease' \in [Messages -> Nat],
         step' = [step EXCEPT ![w] = "none"],
         mine' \in [Workers -> Nat], produced' \in [Workers -> Results],
         \A v \in Workers : v # w =>
            /\ stage'[v] = stage[v] /\ handling'[v] = handling[v]
            /\ produced'[v] = produced[v],
         \A m \in Messages : verdict'[m] = "ok" => verdict[m] = "ok" \/ resolved[m]
  PROVE  PInv'
<1>1. step' \in [Workers -> Steps] /\ step'[w] = "none"
      /\ \A v \in Workers : v # w => step'[v] = step[v]
  BY DEF PInv, ProcessingTypeOK, Steps
<1>2. ProcessingTypeOK'
  BY <1>1 DEF PInv, ProcessingTypeOK
<1>3. InsideDispatch' /\ EndsWellWhenStored'
  BY <1>1 DEF PInv, InsideDispatch, EndsWellWhenStored
<1>4. ProducedFits'
  BY <1>1 DEF PInv, ProducedFits, RepliesTo
<1>5. RepliesOfOneRun' /\ SucceededIsStored' /\ OkIsStored'
  BY DEF PInv, RepliesOfOneRun, SucceededIsStored, OkIsStored
<1>6. QED
  BY <1>2, <1>3, <1>4, <1>5 DEF PInv

\* A worker that is not dispatching is outside process().
LEMMA NotInside ==
  ASSUME PInv, NEW w \in Workers, stage[w] # "dispatch"
  PROVE  step[w] = "none" /\ step = [step EXCEPT ![w] = "none"]
  BY DEF PInv, InsideDispatch, ProcessingTypeOK

\* The transactions and calls of process().
LEMMA ProcessKeeps ==
  ASSUME PInv, NEW w \in Workers, Process(w)
  PROVE  PInv'
<1>0. /\ produced \in [Workers -> Results]
      /\ stage[w] = "dispatch" /\ handling[w] \in Messages
  BY DEF PInv, ProcessingTypeOK, Process, ClaimRun, Resolve, HandlerReturns, HandlerRaises,
         Persist, PersistRollsBack, At
<1>1. CASE ClaimRun(w)
  <2>1. CASE Terminal(handling[w])
    <3>1. /\ UNCHANGED <<vars, runVars, mine, produced>>
          /\ step' = [step EXCEPT ![w] = "already_processed"]
      BY <1>1, <2>1 DEF ClaimRun, BusyRun, Terminal, Goto, runVars
    <3>2. resolved[handling[w]]
      BY <1>0, <2>1 DEF PInv, SucceededIsStored, Terminal
    <3>3. QED
      BY <1>0, <3>1, <3>2, QuietStepKeeps DEF Steps, Outcomes
  <2>2. CASE BusyRun(handling[w])
    <3>1. /\ UNCHANGED <<vars, runVars, mine, produced>>
          /\ step' = [step EXCEPT ![w] = "busy"]
      BY <1>1, <2>2 DEF ClaimRun, BusyRun, Terminal, Goto, runVars
    <3>2. QED
      BY <1>0, <3>1, QuietStepKeeps DEF Steps, Outcomes
  <2>3. QED
    BY <1>1, <2>1, <2>2, GrantKeeps
<1>2. CASE Resolve(w)
  <2>1. /\ UNCHANGED <<vars, runVars, mine, produced>>
        /\ \E s \in {"handle", "intent_unresolved", "lease_lost"} :
              step' = [step EXCEPT ![w] = s]
    BY <1>2 DEF Resolve, Goto
  <2>2. QED
    BY <1>0, <2>1, QuietStepKeeps DEF Steps, Outcomes
<1>3. CASE HandlerReturns(w)
  <2>1. /\ UNCHANGED <<vars, runVars, mine>>
        /\ step' = [step EXCEPT ![w] = "persist"]
        /\ \/ \E R \in SUBSET RepliesTo(handling[w]) :
                produced' = [produced EXCEPT ![w] = [replies |-> R, status |-> "succeeded"]]
           \/ produced' = [produced EXCEPT ![w] = FailedResult]
    BY <1>3 DEF HandlerReturns, Goto
  <2>2. /\ produced' \in [Workers -> Results]
        /\ \A v \in Workers : v # w => produced'[v] = produced[v]
        /\ produced'[w].replies \subseteq RepliesTo(handling[w])
        /\ produced'[w].status # "succeeded" => produced'[w].replies = {}
    BY <1>0, <2>1 DEF Results, FailedResult, RepliesTo
  <2>3. QED
    BY <1>0, <2>1, <2>2, QuietStepKeeps DEF Steps
<1>4. CASE HandlerRaises(w)
  <2>1. CASE RunFenced(w, handling[w])
    BY <1>4, <2>1, FinishFailedKeeps
  <2>2. CASE ~RunFenced(w, handling[w])
    <3>1. /\ UNCHANGED <<vars, runVars, mine, produced>>
          /\ step' = [step EXCEPT ![w] = "lease_lost"]
      BY <1>4, <2>2 DEF HandlerRaises, Goto, runVars
    <3>2. QED
      BY <1>0, <3>1, QuietStepKeeps DEF Steps, Outcomes
  <2>3. QED
    BY <2>1, <2>2
<1>5. CASE Persist(w)
  BY <1>5, PersistKeeps
<1>6. CASE PersistRollsBack(w)
  <2>1. /\ UNCHANGED <<vars, runVars, mine, produced>>
        /\ \E s \in {"error", "lease_lost"} : step' = [step EXCEPT ![w] = s]
    BY <1>6 DEF PersistRollsBack, Goto
  <2>2. QED
    BY <1>0, <2>1, QuietStepKeeps DEF Steps, Outcomes
<1>7. QED
  BY <1>1, <1>2, <1>3, <1>4, <1>5, <1>6 DEF Process

\* PInv is inductive.
LEMMA ProcessingNextKeeps == PInv /\ [ProcessingNext]_allVars => PInv'
<1> SUFFICES ASSUME PInv, [ProcessingNext]_allVars
             PROVE  PInv'
  OBVIOUS
<1>0. IInv'
  BY OutboxKept
<1>1. /\ mine \in [Workers -> Nat] /\ produced \in [Workers -> Results]
      /\ runLease \in [Messages -> Nat]
      /\ NoResult \in Results
  BY DEF PInv, ProcessingTypeOK, NoResult, Results
<1>2. ASSUME NEW w \in Workers, ReturnProcess(w)
      PROVE  PInv'
  <2>1. /\ UNCHANGED runVars
        /\ step' = [step EXCEPT ![w] = "none"]
        /\ mine' = [mine EXCEPT ![w] = 0]
        /\ produced' = [produced EXCEPT ![w] = NoResult]
        /\ handling[w] \in Messages
        /\ step[w] \in Outcomes
        /\ Return(w, IF step[w] \in Raising THEN "error" ELSE "ok")
    BY <1>2 DEF ReturnProcess, Forget
  <2>2. step[w] \notin Raising => resolved[handling[w]]
    BY <2>1 DEF PInv, EndsWellWhenStored, Raising
  <2>3. \A m \in Messages : verdict'[m] = "ok" => verdict[m] = "ok" \/ resolved[m]
    BY <2>1, <2>2, ReturnFacts DEF PInv, Messages
  <2>4. /\ \A v \in Workers : v # w => stage'[v] = stage[v] /\ handling'[v] = handling[v]
        /\ mine' \in [Workers -> Nat] /\ produced' \in [Workers -> Results]
        /\ \A v \in Workers : v # w => produced'[v] = produced[v]
    BY <1>1, <2>1, ReturnFacts DEF PInv
  <2>5. QED
    BY <1>0, <1>1, <2>1, <2>3, <2>4, OutboxStepKeeps DEF runVars
<1>3. ASSUME NEW w \in Workers, ReturnReply(w)
      PROVE  PInv'
  <2>1. /\ UNCHANGED <<runVars, processVars>>
        /\ handling[w] \in Replies
        /\ \E result \in {"ok", "error"} : Return(w, result)
    BY <1>3 DEF ReturnReply
  <2>2. step = [step EXCEPT ![w] = "none"]
    BY <2>1 DEF PInv, InsideDispatch, Messages, ProcessingTypeOK
  <2>3. /\ \A m \in Messages : verdict'[m] = "ok" => verdict[m] = "ok" \/ resolved[m]
        /\ \A v \in Workers : v # w => stage'[v] = stage[v] /\ handling'[v] = handling[v]
    BY <2>1, ReturnFacts DEF PInv, Messages
  <2>4. QED
    BY <1>0, <1>1, <2>1, <2>2, <2>3, OutboxStepKeeps DEF runVars, processVars
<1>4. ASSUME NEW w \in Workers, WorkerLoop(w)
      PROVE  PInv'
  <2>1. /\ UNCHANGED <<runVars, processVars>>
        /\ stage[w] # "dispatch"
        /\ \A m \in Messages : verdict'[m] = "ok" => verdict[m] = "ok" \/ resolved[m]
        /\ \A v \in Workers : v # w => stage'[v] = stage[v] /\ handling'[v] = handling[v]
    BY <1>4, LoopFacts DEF PInv, WorkerLoop, Messages
  <2>2. step = [step EXCEPT ![w] = "none"]
    BY <2>1, NotInside
  <2>3. QED
    BY <1>0, <1>1, <2>1, <2>2, OutboxStepKeeps DEF runVars, processVars
<1>5. ASSUME NEW w \in Workers, CrashProcess(w)
      PROVE  PInv'
  <2>1. /\ UNCHANGED <<runVars, verdict>>
        /\ step' = [step EXCEPT ![w] = "none"]
        /\ mine' = [mine EXCEPT ![w] = 0]
        /\ produced' = [produced EXCEPT ![w] = NoResult]
        /\ \A v \in Workers : v # w => stage'[v] = stage[v] /\ handling'[v] = handling[v]
    BY <1>5 DEF CrashProcess, Forget, Crash, Stop, historyVars, PInv, IInv, TypeOK
  <2>2. /\ mine' \in [Workers -> Nat] /\ produced' \in [Workers -> Results]
        /\ \A v \in Workers : v # w => produced'[v] = produced[v]
    BY <1>1, <2>1
  <2>3. QED
    BY <1>0, <1>1, <2>1, <2>2, OutboxStepKeeps DEF runVars
<1>6. ASSUME UNCHANGED <<stage, handling, verdict, run, token, resolved, author, processVars>>,
             runLease' \in [Messages -> Nat]
      PROVE  PInv'
  BY <1>0, <1>6 DEF processVars, PInv, ProcessingTypeOK, InsideDispatch, ProducedFits, RepliesTo,
                  RepliesOfOneRun, SucceededIsStored, EndsWellWhenStored, OkIsStored
<1>7. ASSUME NEW m \in Messages, Ingest(m)
      PROVE  PInv'
  BY <1>1, <1>6, <1>7 DEF Ingest, Enqueue, runVars, workerVars, historyVars
<1>8. CASE TickProcess
  <2>1. runLease' \in [Messages -> Nat]
    BY <1>1, <1>8 DEF TickProcess, Less
  <2>2. QED
    BY <1>6, <1>8, <2>1 DEF TickProcess, Tick, vars, rowVars, workerVars, historyVars
<1>9. CASE UNCHANGED allVars
  BY <1>1, <1>6, <1>9 DEF allVars, vars, rowVars, workerVars, historyVars, runVars
<1>10. QED
  BY <1>2, <1>3, <1>4, <1>5, <1>7, <1>8, <1>9, ProcessKeeps DEF ProcessingNext, Work

\* Every reachable state of message processing satisfies PInv, and with it the
\* invariant of the outbox underneath.
THEOREM ProcessingInvariance == ProcessingSafeSpec => []PInv
<1>1. ProcessingInit => PInv
  BY InitPInv
<1>2. PInv /\ [ProcessingNext]_allVars => PInv'
  BY ProcessingNextKeeps
<1>3. QED
  BY <1>1, <1>2, PTL DEF ProcessingSafeSpec

\* The types of the runs and of what a worker remembers inside process().
THEOREM ProcessingTypeCorrect == ProcessingSafeSpec => []ProcessingTypeOK
<1>1. PInv => ProcessingTypeOK
  BY DEF PInv
<1>2. QED
  BY <1>1, ProcessingInvariance, PTL

\* The token fence lets only one claim of a run store replies, for any number of
\* claimants, crashes and expired leases.
THEOREM OneRunAnswers == ProcessingSafeSpec => []RepliesOfOneRun
<1>1. PInv => RepliesOfOneRun
  BY DEF PInv
<1>2. QED
  BY <1>1, ProcessingInvariance, PTL

\* A process command is reported done only once a result of its run is stored: the
\* row reports its newest claim, and that claim ended well only with a result.
THEOREM DoneOnlyWhenStored == ProcessingSafeSpec => []DoneMeansProcessed
<1>1. PInv => DoneMeansProcessed
  BY DEF PInv, IInv, OkIsStored, RowReportsNewestClaim, DoneMeansProcessed, Messages
<1>2. QED
  BY <1>1, ProcessingInvariance, PTL

\* The lease of the outbox stays exclusive under message processing.
THEOREM LeaseStaysExclusive == ProcessingSafeSpec => []ExclusiveLease
<1>1. PInv => ExclusiveLease
  BY DEF PInv, IInv
<1>2. QED
  BY <1>1, ProcessingInvariance, PTL

-----------------------------------------------------------------------------
(***************************************************************************)
(* Owner replies, for any number of replies and workers.  deliver() leaves  *)
(* the outbox alone and the worker's loop is the outbox's, so the outbox's   *)
(* invariant carries over.  On top of it, DInv says what a worker has         *)
(* already done of a delivery when it stands at a place of deliver().         *)
(***************************************************************************)

\* A worker inside deliver() is dispatching.
InsideDelivery == \A w \in Workers : place[w] # "none" => stage[w] = "dispatch"

\* The places of deliver() come in order: a post before its receipt, a receipt before
\* the row, both before a normal return.
DoneSoFar ==
  \A w \in Workers :
    /\ place[w] = "receipt" => posts[handling[w]] > 0
    /\ place[w] \in {"record", "sent"} => handling[w] \in receipts
    /\ place[w] = "sent" => handling[w] \in recorded

\* The ledger holds receipts of accepted posts only.
ReceiptsOfPosts == \A c \in receipts : posts[c] > 0

\* The newest claim of a reply ended well only with its receipt in both places.
OkIsRecorded == \A c \in Commands : verdict[c] = "ok" => c \in receipts \cap recorded

DInv ==
  /\ IInv
  /\ DeliveryTypeOK
  /\ InsideDelivery
  /\ DoneSoFar
  /\ ReceiptsOfPosts
  /\ OkIsRecorded

\* Nothing is posted at first.
LEMMA InitDInv == DeliveryInit => DInv
<1> SUFFICES ASSUME DeliveryInit PROVE DInv
  OBVIOUS
<1>1. IInv
  BY InitIInv DEF DeliveryInit
<1>2. QED
  BY <1>1 DEF DeliveryInit, Init, DInv, DeliveryTypeOK, Places, InsideDelivery, DoneSoFar,
              ReceiptsOfPosts, OkIsRecorded

\* The outbox's invariant survives every step of the deliveries.
LEMMA DeliveryKeepsOutbox == DInv /\ [DeliveryNext]_deliveryVars => IInv'
<1> SUFFICES ASSUME DInv, [DeliveryNext]_deliveryVars
             PROVE  IInv'
  OBVIOUS
<1>1. ASSUME NEW w \in Workers, DeliveryWork(w)
      PROVE  [Next]_vars
  <2>1. CASE Deliver(w)
    BY <2>1 DEF Deliver, Find, Post, SendFails, RecordReceipt, RecordDelivery
  <2>2. CASE ReturnDelivery(w)
    BY <2>2 DEF ReturnDelivery, Next, RunOnce
  <2>3. CASE LoopDelivery(w)
    BY <2>3 DEF LoopDelivery, Next, RunOnce
  <2>4. QED
    BY <1>1, <2>1, <2>2, <2>3 DEF DeliveryWork
<1>2. ASSUME NEW w \in Workers, CrashDelivery(w)
      PROVE  [Next]_vars
  BY <1>2 DEF CrashDelivery, Next
<1>3. CASE (Tick \/ \E c \in Commands : Enqueue(c)) /\ UNCHANGED replyVars
  BY <1>3, NextKeeps DEF Next, DInv
<1>4. CASE UNCHANGED deliveryVars
  BY <1>4, NextKeeps DEF deliveryVars, DInv
<1>5. QED
  BY <1>1, <1>2, <1>3, <1>4, NextKeeps DEF DeliveryNext, DInv

\* A step of deliver() at w: the outbox rests, w goes on to place p with what p asks
\* for done, and posts, receipts and recorded rows only ever grow.
LEMMA DeliverStepKeeps ==
  ASSUME DInv, NEW w \in Workers, stage[w] = "dispatch", UNCHANGED vars,
         NEW p \in Places, GoOn(w, p),
         posts' \in [Commands -> Nat], gaps' \in [Commands -> Nat],
         receipts' \in SUBSET Commands, recorded' \in SUBSET Commands,
         \A c \in Commands : posts'[c] >= posts[c],
         receipts \subseteq receipts', recorded \subseteq recorded',
         \A c \in receipts' : posts'[c] > 0,
         p = "receipt" => posts'[handling[w]] > 0,
         p \in {"record", "sent"} => handling[w] \in receipts',
         p = "sent" => handling[w] \in recorded'
  PROVE  DInv'
<1>1. IInv'
  BY StutterKeeps DEF DInv
<1>2. /\ UNCHANGED <<stage, handling, verdict>>
      /\ place' \in [Workers -> Places] /\ place'[w] = p
      /\ \A v \in Workers : v # w => place'[v] = place[v]
  BY DEF vars, workerVars, historyVars, GoOn, DInv, DeliveryTypeOK
<1>3. DeliveryTypeOK'
  BY <1>2 DEF DeliveryTypeOK
<1>4. InsideDelivery'
  BY <1>2 DEF DInv, InsideDelivery
<1>5. DoneSoFar'
  <2>1. SUFFICES ASSUME NEW v \in Workers, v # w
                 PROVE  /\ place[v] = "receipt" => posts'[handling[v]] > 0
                        /\ place[v] \in {"record", "sent"} => handling[v] \in receipts'
                        /\ place[v] = "sent" => handling[v] \in recorded'
    BY <1>2 DEF DoneSoFar
  <2>2. place[v] = "receipt" => handling[v] \in Commands /\ posts[handling[v]] > 0
    BY DEF DInv, InsideDelivery, DoneSoFar, IInv, HandlesWhatItHolds
  <2>3. QED
    BY <2>2 DEF DInv, DoneSoFar, DeliveryTypeOK
<1>6. OkIsRecorded' /\ ReceiptsOfPosts'
  BY <1>2 DEF DInv, OkIsRecorded, ReceiptsOfPosts
<1>7. QED
  BY <1>1, <1>3, <1>4, <1>5, <1>6 DEF DInv

\* The lookups, posts and transactions of deliver().
LEMMA DeliverKeeps ==
  ASSUME DInv, NEW w \in Workers, Deliver(w)
  PROVE  DInv'
<1>0. /\ stage[w] = "dispatch" /\ handling[w] \in Commands
      /\ DeliveryTypeOK /\ DoneSoFar /\ ReceiptsOfPosts
  BY DEF DInv, IInv, HandlesWhatItHolds, Deliver, Find, Post, SendFails, RecordReceipt,
         RecordDelivery, Standing
<1> USE <1>0
<1>1. CASE Find(w)
  <2>1. \E p \in {"record", "send"} :
          GoOn(w, p) /\ (p = "record" => handling[w] \in receipts)
    BY <1>1 DEF Find, HasReceipt, DeliveryKey
  <2>2. QED
    BY <1>1, <2>1, DeliverStepKeeps DEF Find, Places, DeliveryTypeOK, ReceiptsOfPosts
<1>2. CASE Post(w)
  <2>1. /\ posts' \in [Commands -> Nat]
        /\ posts'[handling[w]] > 0
        /\ \A c \in Commands : posts'[c] >= posts[c]
    BY <1>2 DEF Post, DeliveryTypeOK
  <2>2. \A c \in receipts' : posts'[c] > 0
    BY <1>2, <2>1 DEF Post, DeliveryTypeOK, ReceiptsOfPosts
  <2>3. /\ gaps' \in [Commands -> Nat]
        /\ \E p \in {"receipt", "failed"} : GoOn(w, p)
    BY <1>2 DEF Post, DeliveryTypeOK
  <2>4. QED
    BY <1>2, <2>1, <2>2, <2>3, DeliverStepKeeps DEF Post, Places, DeliveryTypeOK
<1>3. CASE SendFails(w)
  BY <1>3, DeliverStepKeeps DEF SendFails, Places, DeliveryTypeOK, ReceiptsOfPosts
<1>4. CASE RecordReceipt(w)
  <2>1. posts[handling[w]] > 0 /\ posts' = posts /\ recorded' = recorded
    BY <1>4 DEF RecordReceipt, Standing, DoneSoFar
  <2>2. CASE receipts' = receipts \cup {DeliveryKey(w)} /\ GoOn(w, "record") /\ gaps' = gaps
    BY <1>4, <2>1, <2>2, DeliverStepKeeps
    DEF RecordReceipt, DeliveryKey, Places, DeliveryTypeOK, ReceiptsOfPosts
  <2>3. CASE /\ GoOn(w, "failed")
             /\ gaps' = [gaps EXCEPT ![handling[w]] = @ + 1]
             /\ receipts' = receipts
    BY <1>4, <2>1, <2>3, DeliverStepKeeps
    DEF RecordReceipt, Places, DeliveryTypeOK, ReceiptsOfPosts
  <2>4. QED
    BY <1>4, <2>2, <2>3 DEF RecordReceipt
<1>5. CASE RecordDelivery(w)
  <2>1. handling[w] \in receipts /\ UNCHANGED <<receipts, posts, gaps>>
    BY <1>5 DEF RecordDelivery, Standing, DoneSoFar
  <2>2. \E p \in {"sent", "failed"} :
          /\ GoOn(w, p)
          /\ recorded' \in {recorded, recorded \cup {handling[w]}}
          /\ p = "sent" => handling[w] \in recorded'
    BY <1>5 DEF RecordDelivery
  <2>3. QED
    BY <1>5, <2>1, <2>2, DeliverStepKeeps
    DEF RecordDelivery, Places, DeliveryTypeOK, ReceiptsOfPosts
<1>6. QED
  BY <1>1, <1>2, <1>3, <1>4, <1>5 DEF Deliver

\* A step of w in the outbox, taken outside deliver() or leaving it: the ledger, the
\* rows and the posts stay, and an "ok" verdict is new only for a recorded reply.
LEMMA LeavingKeeps ==
  ASSUME DInv, IInv', NEW w \in Workers,
         UNCHANGED <<receipts, recorded, posts>>, gaps' \in [Commands -> Nat],
         place' = [place EXCEPT ![w] = "none"],
         \A v \in Workers : v # w => stage'[v] = stage[v] /\ handling'[v] = handling[v],
         \A c \in Commands : verdict'[c] = "ok" =>
           verdict[c] = "ok" \/ c \in receipts \cap recorded
  PROVE  DInv'
<1>1. /\ place' \in [Workers -> Places] /\ place'[w] = "none"
      /\ \A v \in Workers : v # w => place'[v] = place[v]
  BY DEF DInv, DeliveryTypeOK, Places
<1>2. DeliveryTypeOK'
  BY <1>1 DEF DInv, DeliveryTypeOK
<1>3. InsideDelivery' /\ DoneSoFar'
  BY <1>1 DEF DInv, InsideDelivery, DoneSoFar
<1>4. ReceiptsOfPosts' /\ OkIsRecorded'
  BY DEF DInv, ReceiptsOfPosts, OkIsRecorded
<1>5. QED
  BY <1>2, <1>3, <1>4 DEF DInv

\* DInv is inductive.
LEMMA DeliveryNextKeeps == DInv /\ [DeliveryNext]_deliveryVars => DInv'
<1> SUFFICES ASSUME DInv, [DeliveryNext]_deliveryVars
             PROVE  DInv'
  OBVIOUS
<1>0. IInv' /\ IInv /\ DeliveryTypeOK
  BY DeliveryKeepsOutbox DEF DInv
<1>1. ASSUME NEW w \in Workers, ReturnDelivery(w)
      PROVE  DInv'
  <2>1. /\ Return(w, IF Sent(w) THEN "ok" ELSE "error")
        /\ place' = [place EXCEPT ![w] = "none"]
        /\ UNCHANGED <<receipts, recorded, posts, gaps>>
    BY <1>1 DEF ReturnDelivery, GoOn
  <2>2. Sent(w) => handling[w] \in receipts \cap recorded
    BY DEF Sent, DInv, DoneSoFar
  <2>3. /\ \A v \in Workers : v # w => stage'[v] = stage[v] /\ handling'[v] = handling[v]
        /\ \A c \in Commands : verdict'[c] = "ok" =>
             verdict[c] = "ok" \/ c \in receipts \cap recorded
    BY <1>0, <2>1, <2>2, ReturnFacts
  <2>4. QED
    BY <1>0, <2>1, <2>3, LeavingKeeps DEF DeliveryTypeOK
<1>2. ASSUME NEW w \in Workers, LoopDelivery(w)
      PROVE  DInv'
  <2>1. /\ UNCHANGED replyVars
        /\ stage[w] # "dispatch"
        /\ \A v \in Workers : v # w => stage'[v] = stage[v] /\ handling'[v] = handling[v]
        /\ \A c \in Commands : verdict'[c] = "ok" => verdict[c] = "ok"
    BY <1>0, <1>2, LoopFacts DEF LoopDelivery
  <2>2. place = [place EXCEPT ![w] = "none"]
    BY <2>1 DEF DInv, InsideDelivery, DeliveryTypeOK
  <2>3. QED
    BY <1>0, <2>1, <2>2, LeavingKeeps DEF replyVars, DeliveryTypeOK
<1>3. ASSUME NEW w \in Workers, CrashDelivery(w)
      PROVE  DInv'
  <2>1. /\ place' = [place EXCEPT ![w] = "none"]
        /\ UNCHANGED <<receipts, recorded, posts, verdict>>
        /\ \A v \in Workers : v # w => stage'[v] = stage[v] /\ handling'[v] = handling[v]
    BY <1>0, <1>3 DEF CrashDelivery, GoOn, Crash, Stop, historyVars, IInv, TypeOK
  <2>2. gaps' \in [Commands -> Nat]
    <3>1. Standing(w, "receipt") => handling[w] \in Commands
      BY <1>0 DEF Standing, IInv, HandlesWhatItHolds
    <3>2. QED
      BY <1>0, <1>3, <3>1 DEF CrashDelivery, DeliveryTypeOK
  <2>3. QED
    BY <1>0, <2>1, <2>2, LeavingKeeps
<1>4. CASE (Tick \/ \E c \in Commands : Enqueue(c)) /\ UNCHANGED replyVars
  <2>1. UNCHANGED <<stage, handling, verdict, place, receipts, recorded, posts, gaps>>
    BY <1>4 DEF Tick, Enqueue, replyVars, workerVars, historyVars
  <2>2. QED
    BY <1>0, <2>1 DEF DInv, DeliveryTypeOK, InsideDelivery, DoneSoFar, ReceiptsOfPosts, OkIsRecorded
<1>5. CASE UNCHANGED deliveryVars
  BY <1>0, <1>5 DEF deliveryVars, vars, replyVars, workerVars, historyVars, DInv, DeliveryTypeOK,
                    InsideDelivery, DoneSoFar, ReceiptsOfPosts, OkIsRecorded
<1>6. QED
  BY <1>1, <1>2, <1>3, <1>4, <1>5, DeliverKeeps DEF DeliveryNext, DeliveryWork

\* Every reachable state of the deliveries satisfies DInv.
THEOREM DeliveryInvariance == DeliverySafeSpec => []DInv
<1>1. DeliveryInit => DInv
  BY InitDInv
<1>2. DInv /\ [DeliveryNext]_deliveryVars => DInv'
  BY DeliveryNextKeeps
<1>3. QED
  BY <1>1, <1>2, PTL DEF DeliverySafeSpec

\* A reply the outbox reports as delivered was accepted by the channel, and the ledger
\* and the reply's row both hold its receipt: for any number of replies, workers,
\* expired leases and crashes in the middle of deliver().
THEOREM DeliveredMeansRecorded == DeliverySafeSpec => []DeliveredIsRecorded
<1>1. DInv => DeliveredIsRecorded
  BY DEF DInv, IInv, RowReportsNewestClaim, OkIsRecorded, ReceiptsOfPosts, DeliveredIsRecorded
<1>2. QED
  BY <1>1, DeliveryInvariance, PTL

-----------------------------------------------------------------------------
(***************************************************************************)
(* Repeated posts.  Before c has a receipt, whoever holds a claim on it and  *)
(* is not through may still post.  All of them but the one whose lease runs  *)
(* have outlived a lease, each at a stall of its own; so there are at most   *)
(* stalls + 1 of them when the first receipt is written, and nobody new      *)
(* posts after that.                                                        *)
(***************************************************************************)

\* w is through with its delivery of c, or will not post any more.
Through(w, c) ==
  /\ handling[w] = c
  /\ \/ stage[w] \in {"ok", "error", "notify"}
     \/ stage[w] = "dispatch" /\ place[w] \in {"record", "sent", "failed"}

\* The workers that may still post c, or have posted it and not said so.
Concerned(c) == {w \in Workers : claims[w][c] # 0 /\ ~Through(w, c)}

\* The newest claim on c, with a lease that runs.
Fresh(w, c) == status[c] = "in_progress" /\ claims[w][c] = attempts[c] /\ lease[c] > 0

Slow(c) == {w \in Concerned(c) : ~Fresh(w, c)}

DeliveringAt(c, p) == {w \in Workers : Standing(w, p) /\ handling[w] = c}
Posting(c) == DeliveringAt(c, "send")
Receiving(c) == DeliveringAt(c, "receipt")

\* Until its first receipt, every post of c is a gap or about to be recorded.
PostsCounted(c) ==
  IF c \in receipts
  THEN /\ IsFiniteSet(Posting(c))
       /\ posts[c] + Cardinality(Posting(c)) <= 1 + gaps[c] + stalls
  ELSE /\ IsFiniteSet(Slow(c)) /\ Cardinality(Slow(c)) <= stalls
       /\ posts[c] <= gaps[c] + Cardinality(Receiving(c))

RInv ==
  /\ DInv
  /\ \A c \in Commands : PostsCounted(c)

\* The workers concerned with c are the slow ones and perhaps one more.
LEMMA ConcernedAreFew ==
  ASSUME DInv, NEW c \in Commands, IsFiniteSet(Slow(c)), Cardinality(Slow(c)) <= stalls
  PROVE  IsFiniteSet(Concerned(c)) /\ Cardinality(Concerned(c)) <= stalls + 1
<1>0. Cardinality(Slow(c)) \in Nat /\ stalls \in Nat
  BY FS_CardinalityType DEF DInv, IInv, TypeOK
<1>1. CASE \E v \in Concerned(c) : Fresh(v, c)
  <2>1. PICK v \in Concerned(c) : Fresh(v, c)
    BY <1>1
  <2>2. \A w \in Concerned(c) : Fresh(w, c) => w = v
    BY <2>1 DEF Concerned, Fresh, DInv, IInv, ExclusiveLease
  <2>3. Concerned(c) = Slow(c) \cup {v}
    BY <2>1, <2>2 DEF Slow
  <2>4. v \notin Slow(c)
    BY <2>1 DEF Slow
  <2>5. QED
    BY <1>0, <2>3, <2>4, FS_AddElement
<1>2. CASE \A v \in Concerned(c) : ~Fresh(v, c)
  <2>1. Concerned(c) = Slow(c)
    BY <1>2 DEF Slow
  <2>2. QED
    BY <1>0, <2>1
<1>3. QED
  BY <1>1, <1>2

\* Whoever is at a place before the post's receipt is concerned.
LEMMA DeliveringAreConcerned ==
  ASSUME DInv, NEW c \in Commands
  PROVE  Posting(c) \subseteq Concerned(c) /\ Receiving(c) \subseteq Concerned(c)
  BY DEF DInv, IInv, HandlesWhatItHolds, Posting, Receiving, DeliveringAt, Standing, Concerned,
         Through

\* A step that posts nothing of c, and lets nobody new do so, keeps its count.
LEMMA CountFrame ==
  ASSUME NEW c \in Commands, DInv, PostsCounted(c),
         c \in receipts' <=> c \in receipts,
         Slow(c)' \subseteq Slow(c), Receiving(c)' = Receiving(c), Posting(c)' \subseteq Posting(c),
         posts'[c] = posts[c], gaps'[c] = gaps[c], stalls' \in Nat, stalls' >= stalls
  PROVE  PostsCounted(c)'
<1>0. posts[c] \in Nat /\ gaps[c] \in Nat /\ stalls \in Nat
  BY DEF DInv, DeliveryTypeOK, IInv, TypeOK
<1>1. CASE c \in receipts
  <2>1. /\ IsFiniteSet(Posting(c)) /\ Cardinality(Posting(c)) \in Nat
        /\ posts[c] + Cardinality(Posting(c)) <= 1 + gaps[c] + stalls
    BY <1>1, FS_CardinalityType DEF PostsCounted
  <2>2. /\ IsFiniteSet(Posting(c)') /\ Cardinality(Posting(c)') <= Cardinality(Posting(c))
        /\ Cardinality(Posting(c)') \in Nat
    BY <2>1, FS_Subset, FS_CardinalityType
  <2>3. QED
    BY <1>0, <1>1, <2>1, <2>2 DEF PostsCounted
<1>2. CASE c \notin receipts
  <2>1. /\ IsFiniteSet(Slow(c)) /\ Cardinality(Slow(c)) \in Nat /\ Cardinality(Slow(c)) <= stalls
        /\ posts[c] <= gaps[c] + Cardinality(Receiving(c))
    BY <1>2, FS_CardinalityType DEF PostsCounted
  <2>2. /\ IsFiniteSet(Slow(c)') /\ Cardinality(Slow(c)') <= Cardinality(Slow(c))
        /\ Cardinality(Slow(c)') \in Nat
    BY <2>1, FS_Subset, FS_CardinalityType
  <2>3. QED
    BY <1>0, <1>2, <2>1, <2>2 DEF PostsCounted
<1>3. QED
  BY <1>1, <1>2

\* What a step of deliver() at w leaves as it is.
LEMMA DeliverLeaves ==
  ASSUME DInv, NEW w \in Workers, NEW p \in Places, stage[w] = "dispatch", UNCHANGED vars,
         GoOn(w, p), NEW c \in Commands
  PROVE  /\ handling[w] # c => /\ Slow(c)' = Slow(c)
                               /\ Receiving(c)' = Receiving(c) /\ Posting(c)' = Posting(c)
         /\ handling[w] = c =>
              /\ Receiving(c)' = IF p = "receipt" THEN Receiving(c) \cup {w} ELSE Receiving(c) \ {w}
              /\ Posting(c)' = IF p = "send" THEN Posting(c) \cup {w} ELSE Posting(c) \ {w}
              /\ place[w] \in {"none", "send", "receipt"} => Slow(c)' \subseteq Slow(c)
              /\ p \in {"record", "sent", "failed"} => Slow(c)' \subseteq Slow(c)
<1>1. /\ place' \in [Workers -> Places] /\ place'[w] = p
      /\ \A v \in Workers : v # w => place'[v] = place[v]
  BY DEF GoOn, DInv, DeliveryTypeOK
<1>2. UNCHANGED <<status, attempts, lease, claims, stage, handling>>
  BY DEF vars, rowVars, workerVars
<1>3. \A v \in Workers : /\ Fresh(v, c)' <=> Fresh(v, c)
                         /\ v # w \/ handling[w] # c => (Through(v, c)' <=> Through(v, c))
  BY <1>1, <1>2 DEF Fresh, Through
<1>4. ASSUME handling[w] # c
      PROVE  Slow(c)' = Slow(c) /\ Receiving(c)' = Receiving(c) /\ Posting(c)' = Posting(c)
  BY <1>1, <1>2, <1>3, <1>4 DEF Slow, Concerned, Receiving, Posting, DeliveringAt, Standing
<1>5. ASSUME handling[w] = c
      PROVE  /\ Receiving(c)' = IF p = "receipt" THEN Receiving(c) \cup {w} ELSE Receiving(c) \ {w}
             /\ Posting(c)' = IF p = "send" THEN Posting(c) \cup {w} ELSE Posting(c) \ {w}
  BY <1>1, <1>2, <1>5 DEF Receiving, Posting, DeliveringAt, Standing
<1>6. ASSUME handling[w] = c,
             place[w] \in {"none", "send", "receipt"} \/ p \in {"record", "sent", "failed"}
      PROVE  Slow(c)' \subseteq Slow(c)
  <2>1. Through(w, c) => Through(w, c)'
    BY <1>1, <1>2, <1>6 DEF Through
  <2>2. QED
    BY <1>2, <1>3, <2>1 DEF Slow, Concerned
<1>7. QED
  BY <1>4, <1>5, <1>6

\* The steps of deliver() keep the count of every reply.
LEMMA DeliverCounts ==
  ASSUME RInv, NEW w \in Workers, Deliver(w), NEW c \in Commands
  PROVE  PostsCounted(c)'
<1>0. /\ DInv /\ PostsCounted(c) /\ stage[w] = "dispatch" /\ handling[w] \in Commands
      /\ UNCHANGED vars /\ UNCHANGED stalls /\ stalls \in Nat
      /\ posts \in [Commands -> Nat] /\ gaps \in [Commands -> Nat]
      /\ \A d \in receipts : posts[d] > 0
  BY DEF RInv, DInv, IInv, TypeOK, DeliveryTypeOK, HandlesWhatItHolds, ReceiptsOfPosts, Deliver,
         Find, Post, SendFails, RecordReceipt, RecordDelivery, Standing, vars, budgetVars
<1>1. CASE handling[w] # c
  <2>1. \E p \in Places : GoOn(w, p)
    BY DEF Deliver, Find, Post, SendFails, RecordReceipt, RecordDelivery, Places
  <2>2. Slow(c)' = Slow(c) /\ Receiving(c)' = Receiving(c) /\ Posting(c)' = Posting(c)
    BY <1>0, <1>1, <2>1, DeliverLeaves
  <2>3. posts'[c] = posts[c] /\ gaps'[c] = gaps[c] /\ (c \in receipts' <=> c \in receipts)
    BY <1>0, <1>1 DEF Deliver, Find, Post, SendFails, RecordReceipt, RecordDelivery, DeliveryKey
  <2>4. QED
    BY <1>0, <2>2, <2>3, CountFrame
<1>2. CASE handling[w] = c /\ Find(w)
  <2>1. CASE c \in receipts
    <3>1. GoOn(w, "record") /\ place[w] = "none" /\ UNCHANGED <<receipts, posts, gaps>>
      BY <1>2, <2>1 DEF Find, HasReceipt, DeliveryKey, Standing
    <3>2. /\ Slow(c)' \subseteq Slow(c) /\ Receiving(c)' = Receiving(c) \ {w}
          /\ Posting(c)' = Posting(c) \ {w} /\ w \notin Receiving(c)
      BY <1>0, <1>2, <3>1, DeliverLeaves DEF Places, Receiving, DeliveringAt, Standing
    <3>3. QED
      BY <1>0, <3>1, <3>2, CountFrame
  <2>2. CASE c \notin receipts
    <3>1. GoOn(w, "send") /\ place[w] = "none" /\ UNCHANGED <<receipts, posts, gaps>>
      BY <1>2, <2>2 DEF Find, HasReceipt, DeliveryKey, Standing
    <3>2. Slow(c)' \subseteq Slow(c) /\ Receiving(c)' = Receiving(c) \ {w} /\ w \notin Receiving(c)
      BY <1>0, <1>2, <3>1, DeliverLeaves DEF Places, Receiving, DeliveringAt, Standing
    <3>3. IsFiniteSet(Slow(c)) /\ Cardinality(Slow(c)) <= stalls /\ Cardinality(Slow(c)) \in Nat
      BY <1>0, <2>2, FS_CardinalityType DEF PostsCounted
    <3>4. /\ IsFiniteSet(Slow(c)') /\ Cardinality(Slow(c)') <= Cardinality(Slow(c))
          /\ Cardinality(Slow(c)') \in Nat
      BY <3>2, <3>3, FS_Subset, FS_CardinalityType
    <3>5. Receiving(c)' = Receiving(c)
      BY <3>2
    <3>6. QED
      BY <1>0, <2>2, <3>1, <3>3, <3>4, <3>5 DEF PostsCounted
  <2>3. QED
    BY <2>1, <2>2
<1>3. CASE handling[w] = c /\ Post(w)
  <2>0. /\ place[w] = "send" /\ posts'[c] = posts[c] + 1 /\ UNCHANGED receipts
        /\ \/ GoOn(w, "receipt") /\ gaps'[c] = gaps[c]
           \/ GoOn(w, "failed") /\ gaps'[c] = gaps[c] + 1
    BY <1>0, <1>3 DEF Post, Standing
  <2>1. /\ Slow(c)' \subseteq Slow(c) /\ Posting(c)' = Posting(c) \ {w}
        /\ w \in Posting(c) /\ w \notin Receiving(c)
        /\ GoOn(w, "receipt") => Receiving(c)' = Receiving(c) \cup {w}
        /\ GoOn(w, "failed") => Receiving(c)' = Receiving(c) \ {w}
    BY <1>0, <1>3, <2>0, DeliverLeaves DEF Places, Posting, Receiving, DeliveringAt, Standing
  <2>2. CASE c \in receipts
    <3>1. /\ IsFiniteSet(Posting(c)) /\ Cardinality(Posting(c)) \in Nat
          /\ posts[c] + Cardinality(Posting(c)) <= 1 + gaps[c] + stalls
      BY <1>0, <2>2, FS_CardinalityType DEF PostsCounted
    <3>2. /\ IsFiniteSet(Posting(c)')
          /\ Cardinality(Posting(c)') = Cardinality(Posting(c)) - 1
      BY <2>1, <3>1, FS_RemoveElement
    <3>3. gaps'[c] \in Nat /\ gaps'[c] >= gaps[c]
      BY <1>0, <2>0
    <3>4. QED
      BY <1>0, <2>0, <2>2, <3>1, <3>2, <3>3 DEF PostsCounted
  <2>3. CASE c \notin receipts
    <3>1. /\ IsFiniteSet(Slow(c)) /\ Cardinality(Slow(c)) <= stalls /\ Cardinality(Slow(c)) \in Nat
          /\ posts[c] <= gaps[c] + Cardinality(Receiving(c))
      BY <1>0, <2>3, FS_CardinalityType DEF PostsCounted
    <3>2. /\ IsFiniteSet(Slow(c)') /\ Cardinality(Slow(c)') <= Cardinality(Slow(c))
          /\ Cardinality(Slow(c)') \in Nat
      BY <2>1, <3>1, FS_Subset, FS_CardinalityType
    <3>3. IsFiniteSet(Receiving(c)) /\ Cardinality(Receiving(c)) \in Nat
      BY <1>0, <3>1, ConcernedAreFew, DeliveringAreConcerned, FS_Subset, FS_CardinalityType
    <3>4. posts'[c] <= gaps'[c] + Cardinality(Receiving(c)')
      <4>1. CASE GoOn(w, "receipt") /\ gaps'[c] = gaps[c]
        <5>1. Cardinality(Receiving(c)') = Cardinality(Receiving(c)) + 1
          BY <2>1, <3>3, <4>1, FS_AddElement
        <5>2. QED
          BY <1>0, <2>0, <3>1, <3>3, <4>1, <5>1
      <4>2. CASE GoOn(w, "failed") /\ gaps'[c] = gaps[c] + 1
        <5>1. Receiving(c)' = Receiving(c)
          BY <2>1, <4>2
        <5>2. QED
          BY <1>0, <2>0, <3>1, <3>3, <4>2, <5>1
      <4>3. QED
        BY <2>0, <4>1, <4>2
    <3>5. QED
      BY <1>0, <2>0, <2>3, <3>1, <3>2, <3>4 DEF PostsCounted
  <2>4. QED
    BY <2>2, <2>3
<1>4. CASE handling[w] = c /\ SendFails(w)
  <2>1. GoOn(w, "failed") /\ place[w] = "send" /\ UNCHANGED <<receipts, posts, gaps>>
    BY <1>4 DEF SendFails, Standing
  <2>2. /\ Slow(c)' \subseteq Slow(c) /\ Receiving(c)' = Receiving(c) \ {w}
        /\ Posting(c)' = Posting(c) \ {w} /\ w \notin Receiving(c)
    BY <1>0, <1>4, <2>1, DeliverLeaves DEF Places, Receiving, DeliveringAt, Standing
  <2>3. QED
    BY <1>0, <2>1, <2>2, CountFrame
<1>5. CASE handling[w] = c /\ RecordReceipt(w)
  <2>0. /\ place[w] = "receipt" /\ posts' = posts
        /\ \/ receipts' = receipts \cup {c} /\ GoOn(w, "record") /\ gaps'[c] = gaps[c]
           \/ receipts' = receipts /\ GoOn(w, "failed") /\ gaps'[c] = gaps[c] + 1
    BY <1>0, <1>5 DEF RecordReceipt, DeliveryKey, Standing
  <2>1. /\ Slow(c)' \subseteq Slow(c) /\ Receiving(c)' = Receiving(c) \ {w} /\ w \in Receiving(c)
        /\ Posting(c)' = Posting(c) \ {w} /\ w \notin Posting(c)
    BY <1>0, <1>5, <2>0, DeliverLeaves DEF Places, Posting, Receiving, DeliveringAt, Standing
  <2>2. CASE c \in receipts
    <3>1. /\ IsFiniteSet(Posting(c)) /\ Cardinality(Posting(c)) \in Nat
          /\ posts[c] + Cardinality(Posting(c)) <= 1 + gaps[c] + stalls
      BY <1>0, <2>2, FS_CardinalityType DEF PostsCounted
    <3>2. Posting(c)' = Posting(c) /\ c \in receipts' /\ gaps'[c] \in {gaps[c], gaps[c] + 1}
      BY <2>0, <2>1, <2>2
    <3>3. QED
      BY <1>0, <2>0, <3>1, <3>2 DEF PostsCounted
  <2>3. CASE c \notin receipts
    <3>1. /\ IsFiniteSet(Slow(c)) /\ Cardinality(Slow(c)) <= stalls /\ Cardinality(Slow(c)) \in Nat
          /\ posts[c] <= gaps[c] + Cardinality(Receiving(c))
      BY <1>0, <2>3, FS_CardinalityType DEF PostsCounted
    <3>2. /\ IsFiniteSet(Concerned(c)) /\ Cardinality(Concerned(c)) <= stalls + 1
          /\ Cardinality(Concerned(c)) \in Nat
      BY <1>0, <3>1, ConcernedAreFew, FS_CardinalityType
    <3>3. /\ IsFiniteSet(Receiving(c)) /\ Cardinality(Receiving(c)) \in Nat
          /\ IsFiniteSet(Posting(c)) /\ Cardinality(Posting(c)) \in Nat
      BY <1>0, <3>2, DeliveringAreConcerned, FS_Subset, FS_CardinalityType
    <3>4. CASE c \in receipts'
      <4>1. Receiving(c) \cap Posting(c) = {}
        BY DEF Receiving, Posting, DeliveringAt, Standing
      <4>2. /\ IsFiniteSet(Receiving(c) \cup Posting(c))
            /\ Cardinality(Receiving(c) \cup Posting(c))
                 = Cardinality(Receiving(c)) + Cardinality(Posting(c))
        BY <3>3, <4>1, FS_Union, FS_EmptySet
      <4>3. Cardinality(Receiving(c) \cup Posting(c)) <= Cardinality(Concerned(c))
        BY <1>0, <3>2, DeliveringAreConcerned, FS_Subset
      <4>4. Posting(c)' = Posting(c) /\ gaps'[c] = gaps[c]
        BY <2>0, <2>1, <2>3, <3>4
      <4>5. QED
        BY <1>0, <2>0, <3>1, <3>2, <3>3, <3>4, <4>2, <4>3, <4>4 DEF PostsCounted
    <3>5. CASE c \notin receipts'
      <4>1. gaps'[c] = gaps[c] + 1
        BY <2>0, <3>5
      <4>2. Cardinality(Receiving(c)') = Cardinality(Receiving(c)) - 1
        BY ZenonT(40), <2>1, <3>3, FS_RemoveElement
      <4>3. /\ IsFiniteSet(Slow(c)') /\ Cardinality(Slow(c)') <= Cardinality(Slow(c))
            /\ Cardinality(Slow(c)') \in Nat
        BY <2>1, <3>1, FS_Subset, FS_CardinalityType
      <4>4. QED
        BY <1>0, <2>0, <3>1, <3>3, <3>5, <4>1, <4>2, <4>3 DEF PostsCounted
    <3>6. QED
      BY <3>4, <3>5
  <2>4. QED
    BY <2>2, <2>3
<1>6. CASE handling[w] = c /\ RecordDelivery(w)
  <2>1. /\ GoOn(w, "sent") \/ GoOn(w, "failed")
        /\ place[w] = "record" /\ UNCHANGED <<receipts, posts, gaps>>
    BY <1>6 DEF RecordDelivery, Standing
  <2>2. /\ Slow(c)' \subseteq Slow(c) /\ Receiving(c)' = Receiving(c) \ {w}
        /\ Posting(c)' = Posting(c) \ {w} /\ w \notin Receiving(c)
    BY <1>0, <1>6, <2>1, DeliverLeaves DEF Places, Receiving, DeliveringAt, Standing
  <2>3. /\ Receiving(c)' = Receiving(c) /\ Posting(c)' \subseteq Posting(c)
        /\ posts'[c] = posts[c] /\ gaps'[c] = gaps[c] /\ (c \in receipts' <=> c \in receipts)
        /\ stalls' \in Nat /\ stalls' >= stalls
    BY <1>0, <2>1, <2>2
  <2>4. QED
    BY <1>0, <2>2, <2>3, CountFrame
<1>7. QED
  BY <1>1, <1>2, <1>3, <1>4, <1>5, <1>6 DEF Deliver

\* The steps of the worker's loop do not post, and a new claim is the one that is fresh.
LEMMA LoopCounts ==
  ASSUME RInv, NEW w \in Workers, LoopDelivery(w), NEW c \in Commands
  PROVE  PostsCounted(c)'
<1>0. /\ DInv /\ PostsCounted(c) /\ IInv /\ TypeOK /\ stalls \in Nat /\ stalls' = stalls
      /\ UNCHANGED <<place, receipts, recorded, posts, gaps>>
  BY DEF RInv, DInv, IInv, TypeOK, LoopDelivery, replyVars, ClaimBatch, Take, Dispatch, MarkSucceeded,
         MarkFailed, LoseLease, Notify, Restart, budgetVars
<1>1. place[w] = "none" /\ stage[w] # "dispatch"
  BY <1>0, LoopFacts DEF LoopDelivery, DInv, InsideDelivery, DeliveryTypeOK
<1>2. \A v \in Workers : v # w => stage'[v] = stage[v] /\ handling'[v] = handling[v]
  BY <1>0, LoopFacts DEF LoopDelivery
<1>3. Receiving(c)' = Receiving(c) /\ Posting(c)' = Posting(c)
  BY <1>0, <1>1, <1>2 DEF Receiving, Posting, DeliveringAt, Standing
<1>4. \A v \in Workers : v # w => (Through(v, c)' <=> Through(v, c))
  BY <1>0, <1>2 DEF Through
<1>5. Slow(c)' \subseteq Slow(c)
  <2> USE <1>0
  <2>1. CASE ClaimBatch(w)
    <3>1. PICK S \in SUBSET {d \in Commands : Claimable(d)} : Take(w, S)
      BY <2>1 DEF ClaimBatch
    <3>2. /\ \A v \in Workers : v # w => claims'[v] = claims[v]
          /\ claims'[w][c] = IF c \in S THEN attempts[c] + 1 ELSE 0
          /\ c \in S => /\ attempts'[c] = attempts[c] + 1 /\ status'[c] = "in_progress"
                        /\ lease'[c] = LeaseTtl
          /\ c \notin S => UNCHANGED <<attempts[c], status[c], lease[c]>>
      BY <3>1 DEF Take, NextGeneration, TypeOK
    <3>3. c \in S => Fresh(w, c)' /\ \A v \in Workers : ~Fresh(v, c)
      <4>1. ASSUME c \in S PROVE Fresh(w, c)'
        <5>1. LeaseTtl > 0
          BY OutboxAssumption
        <5>2. QED
          BY <3>2, <4>1, <5>1 DEF Fresh
      <4>2. ASSUME c \in S PROVE \A v \in Workers : ~Fresh(v, c)
        <5>1. Claimable(c)
          BY <4>2
        <5>2. lease[c] \in Nat
          BY DEF TypeOK
        <5> QED BY <5>1, <5>2 DEF Fresh, Claimable, Due, Stale
      <4>3. QED
        BY <4>1, <4>2
    <3>4. c \notin S => \A v \in Workers : v # w => (Fresh(v, c)' <=> Fresh(v, c))
      BY <3>2 DEF Fresh
    <3>5. QED
      BY <1>4, <3>2, <3>3, <3>4 DEF Slow, Concerned
  <2>2. CASE \E d \in Commands : Dispatch(w, d)
    <3>1. UNCHANGED <<claims, status, attempts, lease>> /\ stage[w] = "batch"
      BY <2>2 DEF Dispatch, rowVars
    <3>2. ~Through(w, c)
      BY <3>1 DEF Through
    <3>3. \A v \in Workers : Fresh(v, c)' <=> Fresh(v, c)
      BY <3>1 DEF Fresh
    <3>4. QED
      BY <1>4, <3>1, <3>2, <3>3 DEF Slow, Concerned
  <2>3. CASE MarkSucceeded(w) \/ MarkFailed(w)
    <3>1. /\ handling[w] \in Commands /\ stage[w] \in {"ok", "error"}
          /\ Fenced(w, handling[w]) /\ attempts' = attempts
          /\ \A v \in Workers : v # w => claims'[v] = claims[v]
          /\ c # handling[w] => claims'[w][c] = claims[w][c]
          /\ c # handling[w] => UNCHANGED <<status[c], lease[c]>>
          /\ \/ claims'[w][handling[w]] = 0 /\ handling'[w] = None
             \/ handling'[w] = handling[w] /\ stage'[w] = "notify"
      BY <2>3 DEF MarkSucceeded, MarkFailed, Drop, HandlesWhatItHolds, IInv, TypeOK
    <3>2. CASE c = handling[w]
      <4>1. \A v \in Workers : v # w => ~(claims[v][c] # 0 /\ claims[v][c] = attempts[c])
        BY <3>1, <3>2 DEF IInv, ExclusiveLease, Fenced, HandlesWhatItHolds
      <4>2. w \notin Concerned(c)'
        BY <3>1, <3>2 DEF Concerned, Through
      <4>3. QED
        BY <1>4, <3>1, <4>1, <4>2 DEF Slow, Concerned, Fresh
    <3>3. CASE c # handling[w]
      <4>1. ~Through(w, c)
        BY <3>3 DEF Through
      <4>2. \A v \in Workers : Fresh(v, c)' <=> Fresh(v, c)
        BY <3>1, <3>3 DEF Fresh
      <4>3. QED
        BY <1>4, <3>1, <3>3, <4>1, <4>2 DEF Slow, Concerned
    <3>4. QED
      BY <3>2, <3>3
  <2>4. CASE LoseLease(w)
    <3>1. /\ claims'[w][c] = 0 /\ UNCHANGED <<status, attempts, lease>>
          /\ \A v \in Workers : v # w => claims'[v] = claims[v]
      BY <2>4 DEF LoseLease, Stop, rowVars, TypeOK
    <3>2. QED
      BY <1>4, <3>1 DEF Slow, Concerned, Fresh
  <2>5. CASE Notify(w)
    <3>1. /\ UNCHANGED <<status, attempts, lease>>
          /\ claims'[w][handling[w]] = 0 \/ handling[w] # c
          /\ c # handling[w] => claims'[w][c] = claims[w][c]
          /\ \A v \in Workers : v # w => claims'[v] = claims[v]
      BY <2>5 DEF Notify, Drop, rowVars, TypeOK
    <3>2. handling[w] # c => ~Through(w, c)
      BY DEF Through
    <3>3. QED
      BY <1>4, <3>1, <3>2 DEF Slow, Concerned, Fresh
  <2>6. CASE Restart(w)
    <3>1. UNCHANGED <<claims, status, attempts, lease>> /\ stage[w] = "stopped"
      BY <2>6 DEF Restart, rowVars
    <3>2. ~Through(w, c)
      BY <3>1 DEF Through
    <3>3. QED
      BY <1>4, <3>1, <3>2 DEF Slow, Concerned, Fresh
  <2>7. QED
    BY <2>1, <2>2, <2>3, <2>4, <2>5, <2>6 DEF LoopDelivery
<1>6. QED
  BY <1>0, <1>3, <1>5, CountFrame

\* The end of deliver() changes who is through with it for nobody but w.
LEMMA ReturnCounts ==
  ASSUME RInv, NEW w \in Workers, ReturnDelivery(w), NEW c \in Commands
  PROVE  PostsCounted(c)'
<1>0. /\ DInv /\ PostsCounted(c) /\ IInv /\ TypeOK /\ stalls \in Nat
      /\ UNCHANGED <<receipts, posts, gaps, status, attempts, lease, claims, handling, stalls>>
      /\ place[w] \in {"sent", "failed"} /\ stage[w] = "dispatch" /\ stage'[w] \in {"ok", "error"}
      /\ place'[w] = "none"
      /\ \A v \in Workers : v # w => stage'[v] = stage[v] /\ place'[v] = place[v]
  BY DEF RInv, DInv, DeliveryTypeOK, IInv, TypeOK, ReturnDelivery, Return, GoOn, rowVars, budgetVars
<1>1. Receiving(c)' = Receiving(c) /\ Posting(c)' = Posting(c)
  BY <1>0 DEF Receiving, Posting, DeliveringAt, Standing
<1>2. \A v \in Workers : (Through(v, c)' <=> Through(v, c)) /\ (Fresh(v, c)' <=> Fresh(v, c))
  BY <1>0 DEF Through, Fresh
<1>3. Slow(c)' \subseteq Slow(c)
  BY <1>0, <1>2 DEF Slow, Concerned
<1>4. QED
  BY <1>0, <1>1, <1>3, CountFrame

\* A crash before the receipt leaves a gap.
LEMMA CrashCounts ==
  ASSUME RInv, NEW w \in Workers, CrashDelivery(w), NEW c \in Commands
  PROVE  PostsCounted(c)'
<1>0. /\ DInv /\ PostsCounted(c) /\ IInv /\ TypeOK /\ stalls \in Nat
      /\ UNCHANGED <<receipts, posts, status, attempts, lease, stalls>>
      /\ claims'[w][c] = 0 /\ place'[w] = "none" /\ stage'[w] = "stopped"
      /\ \A v \in Workers : v # w => /\ stage'[v] = stage[v] /\ place'[v] = place[v]
                                     /\ claims'[v] = claims[v] /\ handling'[v] = handling[v]
      /\ posts \in [Commands -> Nat] /\ gaps \in [Commands -> Nat]
  BY DEF RInv, DInv, DeliveryTypeOK, IInv, TypeOK, CrashDelivery, Crash, Stop, GoOn, rowVars
<1>1. Receiving(c)' = Receiving(c) \ {w} /\ Posting(c)' \subseteq Posting(c)
  BY <1>0 DEF Receiving, Posting, DeliveringAt, Standing
<1>2. Slow(c)' \subseteq Slow(c)
  <2>1. \A v \in Workers : v # w => (Through(v, c)' <=> Through(v, c)) /\ (Fresh(v, c)' <=> Fresh(v, c))
    BY <1>0 DEF Through, Fresh
  <2>2. QED
    BY <1>0, <2>1 DEF Slow, Concerned
<1>3. CASE w \notin Receiving(c)
  <2>1. gaps'[c] = gaps[c]
    BY <1>0, <1>3 DEF CrashDelivery, Receiving, DeliveringAt, Standing
  <2>2. /\ Receiving(c)' = Receiving(c) /\ posts'[c] = posts[c]
        /\ (c \in receipts' <=> c \in receipts) /\ stalls' \in Nat /\ stalls' >= stalls
    BY <1>0, <1>1, <1>3
  <2>3. QED
    BY <1>0, <1>1, <1>2, <2>1, <2>2, CountFrame
<1>4. CASE w \in Receiving(c)
  <2>1. gaps'[c] = gaps[c] + 1
    BY <1>0, <1>4 DEF CrashDelivery, Receiving, DeliveringAt, Standing
  <2>2. CASE c \in receipts
    <3>1. /\ IsFiniteSet(Posting(c)) /\ Cardinality(Posting(c)) \in Nat
          /\ posts[c] + Cardinality(Posting(c)) <= 1 + gaps[c] + stalls
      BY <1>0, <2>2, FS_CardinalityType DEF PostsCounted
    <3>2. /\ IsFiniteSet(Posting(c)') /\ Cardinality(Posting(c)') <= Cardinality(Posting(c))
          /\ Cardinality(Posting(c)') \in Nat
      BY <1>1, <3>1, FS_Subset, FS_CardinalityType
    <3>3. QED
      BY <1>0, <2>1, <2>2, <3>1, <3>2 DEF PostsCounted
  <2>3. CASE c \notin receipts
    <3>1. /\ IsFiniteSet(Slow(c)) /\ Cardinality(Slow(c)) <= stalls /\ Cardinality(Slow(c)) \in Nat
          /\ posts[c] <= gaps[c] + Cardinality(Receiving(c))
      BY <1>0, <2>3, FS_CardinalityType DEF PostsCounted
    <3>2. IsFiniteSet(Receiving(c)) /\ Cardinality(Receiving(c)) \in Nat
      BY <1>0, <3>1, ConcernedAreFew, DeliveringAreConcerned, FS_Subset, FS_CardinalityType
    <3>3. Cardinality(Receiving(c)') = Cardinality(Receiving(c)) - 1
      BY <1>1, <1>4, <3>2, FS_RemoveElement
    <3>4. /\ IsFiniteSet(Slow(c)') /\ Cardinality(Slow(c)') <= Cardinality(Slow(c))
          /\ Cardinality(Slow(c)') \in Nat
      BY <1>2, <3>1, FS_Subset, FS_CardinalityType
    <3>5. QED
      BY <1>0, <2>1, <2>3, <3>1, <3>2, <3>3, <3>4 DEF PostsCounted
  <2>4. QED
    BY <2>2, <2>3
<1>5. QED
  BY <1>3, <1>4

\* A tick that makes a fresh worker slow is a stall.
LEMMA TickCounts ==
  ASSUME RInv, Tick \/ (\E d \in Commands : Enqueue(d)), UNCHANGED replyVars, NEW c \in Commands
  PROVE  PostsCounted(c)'
<1>0. /\ DInv /\ PostsCounted(c) /\ IInv /\ TypeOK /\ stalls \in Nat
      /\ UNCHANGED <<place, receipts, posts, gaps, claims, stage, handling, attempts>>
      /\ posts \in [Commands -> Nat] /\ gaps \in [Commands -> Nat]
  BY DEF RInv, DInv, DeliveryTypeOK, IInv, TypeOK, Tick, Enqueue, replyVars, workerVars
<1>1. Receiving(c)' = Receiving(c) /\ Posting(c)' = Posting(c)
  BY <1>0 DEF Receiving, Posting, DeliveringAt, Standing
<1>2. \A v \in Workers : Through(v, c)' <=> Through(v, c)
  BY <1>0 DEF Through
<1>3. Concerned(c)' = Concerned(c)
  BY <1>0, <1>2 DEF Concerned
<1>4. CASE \A v \in Concerned(c) : Fresh(v, c) => Fresh(v, c)'
  <2>1. Slow(c)' \subseteq Slow(c)
    BY <1>3, <1>4 DEF Slow
  <2>2. stalls' \in Nat /\ stalls' >= stalls
    BY <1>0 DEF Tick, Enqueue, budgetVars
  <2>3. QED
    BY <1>0, <1>1, <2>1, <2>2, CountFrame
<1>5. CASE \E v \in Concerned(c) : Fresh(v, c) /\ ~Fresh(v, c)'
  <2>1. PICK v \in Concerned(c) : Fresh(v, c) /\ ~Fresh(v, c)'
    BY <1>5
  <2>2. ~\E d \in Commands : Enqueue(d)
    BY <1>0, <2>1 DEF Enqueue, Fresh, TypeOK
  <2>3. lease[c] = 1
    BY <1>0, <2>1, <2>2 DEF Tick, Fresh, Less, TypeOK
  <2>4. Outlived
    BY <2>1, <2>3 DEF Outlived, Fresh, Concerned
  <2>5. stalls' = stalls + 1
    BY <2>2, <2>4 DEF Tick
  <2>6. \A u \in Concerned(c) : Fresh(u, c) => u = v
    BY <1>0, <2>1 DEF Concerned, Fresh, IInv, ExclusiveLease
  <2>7. Slow(c)' \subseteq Slow(c) \cup {v} /\ v \notin Slow(c)
    BY <1>3, <2>1, <2>6 DEF Slow
  <2>8. CASE c \in receipts
    <3>1. /\ IsFiniteSet(Posting(c)) /\ Cardinality(Posting(c)) \in Nat
          /\ posts[c] + Cardinality(Posting(c)) <= 1 + gaps[c] + stalls
      BY <1>0, <2>8, FS_CardinalityType DEF PostsCounted
    <3>2. QED
      BY <1>0, <1>1, <2>5, <2>8, <3>1 DEF PostsCounted
  <2>9. CASE c \notin receipts
    <3>1. /\ IsFiniteSet(Slow(c)) /\ Cardinality(Slow(c)) <= stalls /\ Cardinality(Slow(c)) \in Nat
          /\ posts[c] <= gaps[c] + Cardinality(Receiving(c))
      BY <1>0, <2>9, FS_CardinalityType DEF PostsCounted
    <3>2. /\ IsFiniteSet(Slow(c) \cup {v})
          /\ Cardinality(Slow(c) \cup {v}) = Cardinality(Slow(c)) + 1
      BY <2>7, <3>1, FS_AddElement
    <3>3. /\ IsFiniteSet(Slow(c)') /\ Cardinality(Slow(c)') <= Cardinality(Slow(c) \cup {v})
          /\ Cardinality(Slow(c)') \in Nat
      BY <2>7, <3>2, FS_Subset, FS_CardinalityType
    <3>4. QED
      BY <1>0, <1>1, <2>5, <2>9, <3>1, <3>2, <3>3 DEF PostsCounted
  <2>10. QED
    BY <2>8, <2>9
<1>6. QED
  BY <1>4, <1>5

\* RInv is inductive.
LEMMA RepeatsKept == RInv /\ [DeliveryNext]_deliveryVars => RInv'
<1> SUFFICES ASSUME RInv, [DeliveryNext]_deliveryVars
             PROVE  RInv'
  OBVIOUS
<1>1. DInv'
  BY DeliveryNextKeeps DEF RInv
<1>2. ASSUME NEW c \in Commands
      PROVE  PostsCounted(c)'
  <2>1. ASSUME NEW w \in Workers, DeliveryWork(w) \/ CrashDelivery(w)
        PROVE  PostsCounted(c)'
    BY <2>1, DeliverCounts, LoopCounts, ReturnCounts, CrashCounts DEF DeliveryWork
  <2>2. CASE (Tick \/ \E d \in Commands : Enqueue(d)) /\ UNCHANGED replyVars
    BY <2>2, TickCounts
  <2>3. CASE UNCHANGED deliveryVars
    BY <2>3 DEF RInv, deliveryVars, vars, rowVars, workerVars, budgetVars, replyVars, PostsCounted,
                Slow, Concerned, Fresh, Through, Posting, Receiving, DeliveringAt, Standing
  <2>4. QED
    BY <2>1, <2>2, <2>3 DEF DeliveryNext
<1>3. QED
  BY <1>1, <1>2 DEF RInv

\* A reply is posted more than once only for a post that left no receipt, or for a
\* worker that outlived its lease: for any number of replies and workers, the ledger
\* holds against every other crash, failure and retry.
THEOREM RepeatsAreExplained == DeliverySafeSpec => []RepeatsOnlyInTheGap
<1>1. DeliveryInit => RInv
  <2> SUFFICES ASSUME DeliveryInit PROVE RInv
    OBVIOUS
  <2>1. DInv
    BY InitDInv
  <2>2. ASSUME NEW c \in Commands
        PROVE  PostsCounted(c)
    <3>1. Slow(c) = {} /\ Receiving(c) = {} /\ c \notin receipts
      BY DEF DeliveryInit, Init, Slow, Concerned, Receiving, DeliveringAt, Standing
    <3>2. posts[c] = 0 /\ gaps[c] = 0 /\ stalls = 0
      BY DEF DeliveryInit, Init
    <3>3. QED
      BY <3>1, <3>2, FS_EmptySet DEF PostsCounted
  <2>3. QED
    BY <2>1, <2>2 DEF RInv
<1>2. RInv => RepeatsOnlyInTheGap
  <2> SUFFICES ASSUME RInv, NEW c \in Commands PROVE posts[c] <= 1 + gaps[c] + stalls
    BY DEF RepeatsOnlyInTheGap
  <2>0. /\ DInv /\ PostsCounted(c)
        /\ posts[c] \in Nat /\ gaps[c] \in Nat /\ stalls \in Nat
    BY DEF RInv, DInv, DeliveryTypeOK, IInv, TypeOK
  <2>1. CASE c \in receipts
    BY <2>0, <2>1, FS_CardinalityType DEF PostsCounted
  <2>2. CASE c \notin receipts
    <3>1. /\ IsFiniteSet(Slow(c)) /\ Cardinality(Slow(c)) <= stalls
          /\ posts[c] <= gaps[c] + Cardinality(Receiving(c))
      BY <2>0, <2>2 DEF PostsCounted
    <3>2. IsFiniteSet(Concerned(c)) /\ Cardinality(Concerned(c)) <= stalls + 1
      BY <2>0, <3>1, ConcernedAreFew
    <3>3. /\ IsFiniteSet(Receiving(c)) /\ Cardinality(Receiving(c)) <= Cardinality(Concerned(c))
          /\ Cardinality(Receiving(c)) \in Nat /\ Cardinality(Concerned(c)) \in Nat
      BY <2>0, <3>2, DeliveringAreConcerned, FS_Subset, FS_CardinalityType
    <3>4. QED
      BY <2>0, <3>1, <3>2, <3>3
  <2>3. QED
    BY <2>1, <2>2
<1>3. QED
  BY <1>1, <1>2, RepeatsKept, PTL DEF DeliverySafeSpec
=============================================================================
