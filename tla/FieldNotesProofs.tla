--------------------------- MODULE FieldNotesProofs ---------------------------
(***************************************************************************)
(* A field-note case, for any messages, checklist, workers and bounds: the  *)
(* transcripts and the report are stored under the newest lease, a version  *)
(* covers the checklist, and only what was approved goes out.               *)
(***************************************************************************)
EXTENDS FieldNotes, SequenceTheorems, TLAPS

\* What a transcript and answers leave no item of the checklist open.
Covered(text, answers) ==
  Items \subseteq {a.item : a \in answers} \cup UNION {Covers[m] : m \in text}

\* A source that a version may be written from.
SourceCovered(source) ==
  source.review \in DOMAIN reviews /\ Covered(reviews[source.review].text, source.answers)

\* What a worker holds between two of its transactions.
HoldsFit(job) ==
  /\ job.stage # "idle" => job.cmd \in known
  /\ job.stage \in {"transcribing", "transcribed"} => job.cmd.of \in Audio
  /\ job.stage = "reply" => job.cmd.of \in Messages
  /\ job.stage \in {"answers", "judge", "ask", "request"} => job.review \in DOMAIN reviews
  /\ job.stage = "judge" => job.answers \subseteq AnswersOf(job.review)
  /\ job.stage \in {"claim", "generating"} => job.source \in Sources /\ SourceCovered(job.source)

WorkersFit == \A w \in Workers : HoldsFit(work[w])

\* A message that became a part of the case was handled, and is not taken in again.
PartIsHandled ==
  \A m \in Messages :
    part[m] # "none" \/ Command("transcribe", m) \in known => Command("intake", m) \in known

\* A review only completes when nothing is missing; its text stays, its answers grow.
CompleteIsCovered ==
  \A r \in DOMAIN reviews : reviews[r].complete => Covered(reviews[r].text, reviews[r].answers)

VersionsAreCovered == \A v \in DOMAIN versions : SourceCovered(versions[v])

\* A report that is completed is a version.
CompletedIsVersion == report.status = "completed" => Len(versions) > 0

\* A version is only mailed once it is published.
MailIsPublished == \A v \in Nat : EmailCommand(v) \in known => v \in published

IInv ==
  /\ TypeOK
  /\ WorkersFit
  /\ PartIsHandled
  /\ CompleteIsCovered
  /\ VersionsAreCovered
  /\ CompletedIsVersion
  /\ MailIsPublished
  /\ PublishedWasApproved

\* Nothing has happened to the case at first.
LEMMA InitIInv == Init => IInv
<1> SUFFICES ASSUME Init PROVE IInv
  OBVIOUS
<1> USE DEF Init
<1>1. TypeOK
  <2>1. Idle \in Jobs
    BY DEF Idle, Jobs, Stages
  <2>2. reviews \in Seq(Reviews) /\ versions \in Seq(Sources) /\ approved \in Seq(DOMAIN versions)
    OBVIOUS
  <2>3. QED
    BY <2>1, <2>2 DEF TypeOK, PartStatuses, Leased
<1>2. WorkersFit
  BY DEF WorkersFit, HoldsFit, Idle
<1>3. /\ PartIsHandled /\ CompleteIsCovered /\ VersionsAreCovered
      /\ CompletedIsVersion /\ MailIsPublished /\ PublishedWasApproved
  BY DEF PartIsHandled, CompleteIsCovered, VersionsAreCovered, CompletedIsVersion, MailIsPublished,
         PublishedWasApproved
<1>4. QED
  BY <1>1, <1>2, <1>3 DEF IInv

-----------------------------------------------------------------------------
(***************************************************************************)
(* Steps of one worker.                                                    *)
(***************************************************************************)

\* The commands of the case.
LEMMA CommandsOf ==
  /\ \A m \in Messages, t \in {"transcribe", "intake", "reply", "transcribed"} :
       Command(t, m) \in Commands
  /\ \A n \in Nat, t \in {"report", "publish", "email"} : Command(t, n) \in Commands
  /\ \A c \in Commands : IsReview(c) => c.of \in Messages
<1>1. \A m \in Messages, t \in {"transcribe", "intake", "reply", "transcribed"} :
        Command(t, m) \in Commands
  BY DEF Commands
<1>2. \A n \in Nat, t \in {"report", "publish", "email"} : Command(t, n) \in Commands
  BY DEF Commands, Command
<1>3. ASSUME NEW c \in Commands, IsReview(c)
      PROVE  c.of \in Messages
  BY <1>3 DEF Commands, Command, IsReview
<1>4. QED
  BY <1>1, <1>2, <1>3

\* A worker turns to another job.
LEMMA OneJob ==
  ASSUME work \in [Workers -> Jobs], NEW w \in Workers, NEW job \in Jobs, Becomes(w, job)
  PROVE  /\ work' \in [Workers -> Jobs] /\ work'[w] = job
         /\ \A v \in Workers \ {w} : work'[v] = work[v]
  BY DEF Becomes

LEMMA JobTypes ==
  /\ Idle \in Jobs /\ Idle.stage = "idle"
  /\ \A stage \in Stages, c \in Commands, late \in BOOLEAN :
       /\ Job(stage, c, late) \in Jobs
       /\ Job(stage, c, late).stage = stage /\ Job(stage, c, late).cmd = c
<1>1. Idle \in Jobs /\ Idle.stage = "idle"
  BY DEF Idle, Jobs, Stages
<1>2. ASSUME NEW stage \in Stages, NEW c \in Commands, NEW late \in BOOLEAN
      PROVE  /\ Job(stage, c, late) \in Jobs
             /\ Job(stage, c, late).stage = stage /\ Job(stage, c, late).cmd = c
  BY DEF Idle, Job, Jobs
<1>3. QED
  BY <1>1, <1>2

LEMMA NewJob ==
  ASSUME NEW stage \in Stages, NEW c \in Commands
  PROVE  /\ Job(stage, c, FALSE) \in Jobs
         /\ Job(stage, c, FALSE).stage = stage /\ Job(stage, c, FALSE).cmd = c
  BY DEF Idle, Job, Jobs

\* What the others hold stays good while commands are added, and reviews keep their
\* text and their answers.
ReviewsGrow ==
  \A r \in DOMAIN reviews :
    /\ r \in DOMAIN reviews' /\ reviews'[r].text = reviews[r].text
    /\ reviews[r].answers \subseteq reviews'[r].answers

LEMMA OthersFit ==
  ASSUME WorkersFit, NEW w \in Workers, \A v \in Workers \ {w} : work'[v] = work[v],
         HoldsFit(work[w])', known \subseteq known', ReviewsGrow
  PROVE  WorkersFit'
<1> SUFFICES ASSUME NEW v \in Workers \ {w}
             PROVE  HoldsFit(work[v])'
  BY DEF WorkersFit
<1>1. HoldsFit(work[v]) /\ work'[v] = work[v]
  BY DEF WorkersFit
<1>2. QED
  BY <1>1 DEF HoldsFit, SourceCovered, AnswersOf, ReviewsGrow

\* A step that leaves the reviews, the versions and the thread alone.
LEMMA WorkerKeeps ==
  ASSUME IInv, NEW w \in Workers, NEW job \in Jobs, Becomes(w, job), HoldsFit(work[w])',
         UNCHANGED <<reviews, versions, threadVars>>,
         DOMAIN part' = Messages, \A m \in Messages : part'[m] \in PartStatuses(m),
         \A m \in Messages :
           part[m] = "none" => part'[m] = "none" \/ Command("transcribe", m) \in known,
         report' \in [status : {"none", "generating", "completed", "failed"},
                      source : Sources \cup {NoSource}],
         report'.status = "completed" => report.status = "completed",
         lease' \in [Leased -> Nat], stored' \in [Leased -> Nat], faults' \in Nat,
         known \subseteq known', known' \subseteq Commands, queue' \subseteq known',
         \A c \in known' \ known : c.type \notin {"transcribe", "email"}
  PROVE  IInv'
<1> USE DEF IInv
<1>1. TypeOK'
  BY OneJob DEF TypeOK, threadVars, PartStatuses
<1>2. WorkersFit'
  <2>1. ReviewsGrow
    BY DEF ReviewsGrow
  <2>2. QED
    BY <2>1, OneJob, OthersFit DEF TypeOK
<1>3. PartIsHandled' /\ MailIsPublished'
  BY DEF PartIsHandled, MailIsPublished, threadVars, EmailCommand, Command
<1>4. CompleteIsCovered' /\ VersionsAreCovered' /\ CompletedIsVersion' /\ PublishedWasApproved'
  BY DEF CompleteIsCovered, VersionsAreCovered, SourceCovered, CompletedIsVersion,
         PublishedWasApproved, threadVars
<1>5. QED
  BY <1>1, <1>2, <1>3, <1>4

\* A worker that gives its command up, or hands it back.
LEMMA RaiseKeeps ==
  ASSUME IInv, NEW w \in Workers, work[w].stage # "idle", Raise(w),
         UNCHANGED <<reviews, versions, threadVars>>,
         DOMAIN part' = Messages, \A m \in Messages : part'[m] \in PartStatuses(m),
         \A m \in Messages :
           part[m] = "none" => part'[m] = "none" \/ Command("transcribe", m) \in known,
         report' \in [status : {"none", "generating", "completed", "failed"},
                      source : Sources \cup {NoSource}],
         report'.status = "completed" => report.status = "completed",
         lease' \in [Leased -> Nat], stored' \in [Leased -> Nat], faults' \in Nat
  PROVE  IInv'
<1>1. queue \subseteq known /\ work[w].cmd \in known
  BY DEF IInv, TypeOK, WorkersFit, HoldsFit
<1>2. queue' \subseteq known' /\ known' = known /\ Becomes(w, Idle)
  BY <1>1 DEF Raise, Done
<1>3. HoldsFit(work[w])'
  BY <1>2, OneJob, JobTypes DEF IInv, TypeOK, HoldsFit
<1>4. QED
  BY <1>2, <1>3, JobTypes, WorkerKeeps DEF IInv, TypeOK

-----------------------------------------------------------------------------
(***************************************************************************)
(* Transcription, and the steps of a review that write no review.          *)
(***************************************************************************)

\* A command that is taken was put on the outbox.
LEMMA TakenIsKnown ==
  ASSUME IInv, NEW w \in Workers, NEW c, Take(w, c)
  PROVE  c \in known /\ c \in Commands /\ queue' \subseteq known' /\ known' = known
  BY DEF IInv, TypeOK, Take

LEMMA ClaimPartKeeps ==
  ASSUME IInv, NEW w \in Workers, NEW m \in Audio, ClaimPart(w, m)
  PROVE  IInv'
<1> DEFINE c == Command("transcribe", m)
<1>1. /\ c \in known /\ c \in Commands /\ queue' \subseteq known' /\ known' = known
      /\ c.of = m /\ m \in Messages /\ m \in Leased
  BY TakenIsKnown, FieldNotesAssumption DEF ClaimPart, Command, Leased
<1>2. UNCHANGED <<reviews, reportVars, stored, threadVars, faults>>
  BY DEF ClaimPart
<1>3. CASE part[m] = "succeeded"
  <2>1. /\ Becomes(w, Job("transcribed", c, FALSE)) /\ part' = part /\ lease' = lease
        /\ Job("transcribed", c, FALSE) \in Jobs
    BY <1>1, <1>3, NewJob DEF ClaimPart, Stages
  <2>2. /\ work'[w].stage = "transcribed" /\ work'[w].cmd = c
    <3>1. work'[w] = Job("transcribed", c, FALSE)
      BY <2>1, OneJob DEF IInv, TypeOK
    <3>2. QED
      BY <3>1 DEF Job, Idle
  <2>3. HoldsFit(work[w])'
    BY <1>1, <2>2 DEF HoldsFit
  <2>4. QED
    BY <1>1, <1>2, <2>1, <2>3, WorkerKeeps DEF IInv, TypeOK, reportVars
<1>4. CASE part[m] # "succeeded"
  <2> DEFINE j == Job("transcribing", c, FALSE)
             job == [j EXCEPT !.token = lease[m] + 1]
  <2>1. /\ Becomes(w, job)
        /\ part' = [part EXCEPT ![m] = "in_progress"] /\ lease' = [lease EXCEPT ![m] = @ + 1]
    BY <1>4 DEF ClaimPart
  <2>2. lease[m] + 1 \in Nat
    BY <1>1 DEF IInv, TypeOK
  <2>3. j \in Jobs /\ j.stage = "transcribing" /\ j.cmd = c
    BY <1>1 DEF Job, Idle, Jobs, Stages
  <2> HIDE DEF j
  <2>4. job \in Jobs /\ job.stage = "transcribing" /\ job.cmd = c
    BY <2>2, <2>3 DEF Jobs
  <2>5. work'[w] = job
    BY <2>1, <2>4, OneJob DEF IInv, TypeOK
  <2>6. HoldsFit(work[w])'
    BY <1>1, <2>4, <2>5 DEF HoldsFit
  <2>7. lease' \in [Leased -> Nat] /\ DOMAIN part' = Messages
    BY <1>1, <2>1, <2>2 DEF IInv, TypeOK
  <2>8. /\ \A n \in Messages : part'[n] \in PartStatuses(n)
        /\ \A n \in Messages :
             part[n] = "none" => part'[n] = "none" \/ Command("transcribe", n) \in known
    BY <1>1, <2>1 DEF IInv, TypeOK, PartStatuses
  <2>9. QED
    BY <1>1, <1>2, <2>1, <2>4, <2>6, <2>7, <2>8, WorkerKeeps DEF IInv, TypeOK, reportVars
<1>5. QED
  BY <1>3, <1>4

\* What a worker that is at work holds.
LEMMA WorkerFacts ==
  ASSUME IInv, NEW w \in Workers
  PROVE  /\ work[w] \in Jobs /\ HoldsFit(work[w])
         /\ work[w].stage # "idle" => work[w].cmd \in known /\ work[w].cmd \in Commands
  BY DEF IInv, TypeOK, WorkersFit, HoldsFit

LEMMA RecordTranscriptKeeps ==
  ASSUME IInv, NEW w \in Workers, RecordTranscript(w)
  PROVE  IInv'
<1> DEFINE m == work[w].cmd.of
<1>1. /\ work[w] \in Jobs /\ work[w].cmd \in known /\ work[w].cmd \in Commands
      /\ m \in Audio /\ m \in Messages /\ m \in Leased /\ work[w].stage = "transcribing"
      /\ work[w].token \in Nat
  <2>1. work[w].stage = "transcribing"
    BY DEF RecordTranscript, Doing
  <2>2. work[w] \in Jobs /\ work[w].cmd \in known /\ work[w].cmd \in Commands /\ m \in Audio
    BY <2>1, WorkerFacts DEF HoldsFit
  <2>3. QED
    BY <2>1, <2>2, FieldNotesAssumption DEF Leased, Jobs
<1>2. UNCHANGED <<reviews, reportVars, lease, threadVars, faults>>
  BY DEF RecordTranscript
<1>3. CASE PartFenced(w, m)
  <2> DEFINE job == Job("transcribed", work[w].cmd, work[w].late)
  <2>1. /\ Becomes(w, job) /\ part' = [part EXCEPT ![m] = "succeeded"]
        /\ stored' = [stored EXCEPT ![m] = work[w].token] /\ UNCHANGED queueVars
    BY <1>3 DEF RecordTranscript
  <2>2. job \in Jobs /\ job.stage = "transcribed" /\ job.cmd = work[w].cmd
    BY <1>1 DEF Job, Idle, Jobs, Stages
  <2>3. work'[w] = job
    BY <2>1, <2>2, OneJob DEF IInv, TypeOK
  <2>4. HoldsFit(work[w])'
    BY <1>1, <2>1, <2>2, <2>3 DEF HoldsFit, queueVars
  <2>5. stored' \in [Leased -> Nat] /\ DOMAIN part' = Messages
    BY <1>1, <2>1 DEF IInv, TypeOK
  <2>6. /\ \A n \in Messages : part'[n] \in PartStatuses(n)
        /\ \A n \in Messages :
             part[n] = "none" => part'[n] = "none" \/ Command("transcribe", n) \in known
    BY <1>1, <1>3, <2>1 DEF IInv, TypeOK, PartStatuses, PartFenced
  <2>7. QED
    BY <1>1, <1>2, <2>1, <2>2, <2>4, <2>5, <2>6, WorkerKeeps DEF IInv, TypeOK, reportVars, queueVars
<1>4. CASE ~PartFenced(w, m)
  <2>1. Raise(w) /\ UNCHANGED <<part, stored>>
    BY <1>4 DEF RecordTranscript
  <2>2. QED
    BY <1>1, <1>2, <2>1, RaiseKeeps DEF IInv, TypeOK, reportVars
<1>5. QED
  BY <1>3, <1>4

LEMMA TranscriptionFailsKeeps ==
  ASSUME IInv, NEW w \in Workers, TranscriptionFails(w)
  PROVE  IInv'
<1> DEFINE m == work[w].cmd.of
<1>1. work[w].stage = "transcribing"
  BY DEF TranscriptionFails, Doing
<1>2. m \in Audio /\ m \in Messages
  BY <1>1, WorkerFacts, FieldNotesAssumption DEF HoldsFit
<1>3. /\ UNCHANGED <<reviews, reportVars, leaseVars, threadVars>> /\ Raise(w) /\ faults' = faults + 1
      /\ part' = IF PartFenced(w, m) THEN [part EXCEPT ![m] = "failed"] ELSE part
  BY DEF TranscriptionFails
<1>4. /\ DOMAIN part' = Messages
      /\ \A n \in Messages : part'[n] \in PartStatuses(n)
      /\ \A n \in Messages :
           part[n] = "none" => part'[n] = "none" \/ Command("transcribe", n) \in known
  BY <1>2, <1>3 DEF IInv, TypeOK, PartStatuses, PartFenced
<1>5. /\ UNCHANGED <<reviews, versions, threadVars>> /\ Raise(w) /\ work[w].stage # "idle"
      /\ report' \in [status : {"none", "generating", "completed", "failed"},
                      source : Sources \cup {NoSource}]
      /\ report'.status = "completed" => report.status = "completed"
      /\ lease' \in [Leased -> Nat] /\ stored' \in [Leased -> Nat] /\ faults' \in Nat
  BY <1>1, <1>3 DEF IInv, TypeOK, reportVars, leaseVars
<1>6. QED
  BY <1>4, <1>5, RaiseKeeps

\* A worker that is done, having put one more command on the outbox.
LEMMA EnqueuedKeeps ==
  ASSUME IInv, NEW w \in Workers, NEW c \in Commands, c.type \notin {"transcribe", "email"},
         Enqueue({c}), Done(w), UNCHANGED <<part, reviews, reportVars, leaseVars, threadVars, faults>>
  PROVE  IInv'
<1>1. Becomes(w, Idle)
  BY DEF Done
<1>2. work'[w] = Idle
  BY <1>1, OneJob, JobTypes DEF IInv, TypeOK
<1>3. HoldsFit(work[w])'
  BY <1>2, JobTypes DEF HoldsFit
<1>4. known' = known \cup {c} /\ queue' \subseteq known' /\ known' \subseteq Commands
  BY DEF Enqueue, IInv, TypeOK
<1>5. QED
  BY <1>1, <1>3, <1>4, JobTypes, WorkerKeeps DEF IInv, TypeOK, reportVars, leaseVars

LEMMA RequestsKeep ==
  ASSUME IInv, NEW w \in Workers, RequestReview(w) \/ RequestReport(w)
  PROVE  IInv'
<1>1. CASE RequestReview(w)
  <2>1. work[w].stage = "transcribed" /\ work[w].cmd.of \in Messages
    BY <1>1, WorkerFacts, FieldNotesAssumption DEF RequestReview, Doing, HoldsFit
  <2>2. /\ Command("transcribed", work[w].cmd.of) \in Commands
        /\ Command("transcribed", work[w].cmd.of).type = "transcribed"
    BY <2>1, CommandsOf DEF Command
  <2>3. QED
    BY <1>1, <2>2, EnqueuedKeeps DEF RequestReview
<1>2. CASE RequestReport(w)
  <2>1. work[w].review \in Nat
    BY <1>2, WorkerFacts DEF Jobs
  <2>2. /\ Command("report", work[w].review) \in Commands
        /\ Command("report", work[w].review).type = "report"
    BY <2>1, CommandsOf DEF Command
  <2>3. QED
    BY <1>2, <2>2, EnqueuedKeeps DEF RequestReport
<1>3. QED
  BY <1>1, <1>2

LEMMA BeginReviewKeeps ==
  ASSUME IInv, NEW w \in Workers, NEW c, BeginReview(w, c)
  PROVE  IInv'
<1>1. /\ c \in known /\ c \in Commands /\ queue' \subseteq known' /\ known' = known /\ c.of \in Messages
      /\ UNCHANGED <<part, reviews, reportVars, leaseVars, threadVars, faults>>
  BY TakenIsKnown, CommandsOf DEF BeginReview
<1>2. PICK job \in Jobs : /\ Becomes(w, job)
                          /\ job.stage \in {"idle", "reply", "start"}
                          /\ job.stage # "idle" => job.cmd = c
  <2>1. CASE ~TranscriptComplete
    BY <2>1, JobTypes DEF BeginReview
  <2>2. CASE TranscriptComplete
    <3> DEFINE j == Job(IF c.type = "reply" THEN "reply" ELSE "start", c, FALSE)
               job == [j EXCEPT !.text = Transcript]
    <3>1. Becomes(w, job)
      BY <2>2 DEF BeginReview
    <3>2. j \in Jobs /\ j.stage \in {"reply", "start"} /\ j.cmd = c
      BY <1>1 DEF Job, Idle, Jobs, Stages
    <3>3. Transcript \in SUBSET Messages
      BY DEF Transcript
    <3> HIDE DEF j
    <3>4. job \in Jobs /\ job.stage \in {"reply", "start"} /\ job.cmd = c
      BY <3>2, <3>3 DEF Jobs
    <3>5. QED
      BY <3>1, <3>4
  <2>3. QED
    BY <2>1, <2>2
<1>3. work'[w] = job
  BY <1>2, OneJob DEF IInv, TypeOK
<1>4. HoldsFit(work[w])'
  BY <1>1, <1>2, <1>3 DEF HoldsFit
<1>5. QED
  BY <1>1, <1>2, <1>4, WorkerKeeps DEF IInv, TypeOK, reportVars, leaseVars

LEMMA ReadAnswersKeeps ==
  ASSUME IInv, NEW w \in Workers, ReadAnswers(w)
  PROVE  IInv'
<1> DEFINE r == work[w].review
           job == [work[w] EXCEPT !.stage = "judge", !.answers = AnswersOf(r)]
<1>1. /\ work[w] \in Jobs /\ r \in DOMAIN reviews /\ work[w].cmd \in known
  <2>1. work[w].stage = "answers"
    BY DEF ReadAnswers, Doing
  <2>2. QED
    BY <2>1, WorkerFacts DEF HoldsFit
<1>2. /\ Becomes(w, job)
      /\ UNCHANGED <<part, reviews, reportVars, leaseVars, queueVars, threadVars, faults>>
  BY DEF ReadAnswers, Becomes
<1>3. AnswersOf(r) \subseteq Answers
  <2>1. reviews[r] \in Reviews
    BY <1>1, ElementOfSeq DEF IInv, TypeOK
  <2>2. QED
    BY <2>1 DEF AnswersOf, Reviews
<1>4. /\ job \in Jobs /\ job.stage = "judge" /\ job.answers = AnswersOf(r)
      /\ job.review = r /\ job.cmd = work[w].cmd
  BY <1>1, <1>3 DEF Jobs, Stages
<1>5. work'[w] = job
  BY <1>2, <1>4, OneJob DEF IInv, TypeOK
<1>6. HoldsFit(work[w])'
  BY <1>1, <1>2, <1>4, <1>5 DEF HoldsFit, AnswersOf, queueVars
<1>7. QED
  BY <1>2, <1>4, <1>6, WorkerKeeps DEF IInv, TypeOK, reportVars, leaseVars, queueVars

-----------------------------------------------------------------------------
(***************************************************************************)
(* The steps that write a review.                                          *)
(***************************************************************************)

\* A review is replaced by one with the same text that has its answers still, and is
\* complete only if nothing is missing.
LEMMA ReviewWritten ==
  ASSUME IInv, NEW r \in DOMAIN reviews, NEW review \in Reviews,
         reviews' = [reviews EXCEPT ![r] = review],
         review.text = reviews[r].text, reviews[r].answers \subseteq review.answers,
         review.complete => reviews[r].complete \/ Covered(review.text, review.answers)
  PROVE  /\ reviews' \in Seq(Reviews) /\ ReviewsGrow /\ CompleteIsCovered'
         /\ DOMAIN reviews' = DOMAIN reviews /\ reviews'[r] = review
<1>1. reviews \in Seq(Reviews)
  BY DEF IInv, TypeOK
<1>2. reviews' \in Seq(Reviews) /\ DOMAIN reviews' = DOMAIN reviews
  BY <1>1, ExceptSeq
<1>3. reviews'[r] = review /\ \A s \in DOMAIN reviews : s # r => reviews'[s] = reviews[s]
  BY <1>1
<1>4. ReviewsGrow
  BY <1>2, <1>3 DEF ReviewsGrow
<1>5. CompleteIsCovered'
  BY <1>2, <1>3 DEF IInv, CompleteIsCovered, Covered
<1>6. QED
  BY <1>2, <1>3, <1>4, <1>5

\* A step of a worker that writes reviews.
LEMMA ReviewerKeeps ==
  ASSUME IInv, NEW w \in Workers, NEW job \in Jobs, Becomes(w, job), HoldsFit(work[w])',
         reviews' \in Seq(Reviews), ReviewsGrow, CompleteIsCovered',
         UNCHANGED <<part, reportVars, leaseVars, queueVars, threadVars, faults>>
  PROVE  IInv'
<1> USE DEF IInv
<1>1. TypeOK'
  BY OneJob DEF TypeOK, threadVars, reportVars, leaseVars, queueVars, PartStatuses
<1>2. WorkersFit'
  BY OneJob, OthersFit DEF TypeOK, queueVars
<1>3. PartIsHandled' /\ MailIsPublished' /\ PublishedWasApproved'
  BY DEF PartIsHandled, MailIsPublished, PublishedWasApproved, threadVars, queueVars
<1>4. VersionsAreCovered' /\ CompletedIsVersion'
  BY DEF VersionsAreCovered, SourceCovered, CompletedIsVersion, ReviewsGrow, reportVars
<1>5. QED
  BY <1>1, <1>2, <1>3, <1>4

\* What a review is taken up with leaves the worker with a review on record.
LEMMA TakeUpFits ==
  ASSUME IInv, NEW w \in Workers, NEW r \in Nat, NEW questions \in SUBSET Questions,
         TakeUp(w, r, questions), work[w].stage # "idle", known' = known, r \in DOMAIN reviews'
  PROVE  \E job \in Jobs : Becomes(w, job) /\ HoldsFit(work[w])'
<1>1. work[w] \in Jobs /\ work[w].cmd \in known
  BY WorkerFacts
<1>2. Outstanding(questions) \in SUBSET Questions
  BY DEF Outstanding
<1>3. PICK job \in Jobs : /\ Becomes(w, job) /\ job.stage \in {"ask", "answers"}
                          /\ job.review = r /\ job.cmd = work[w].cmd
  <2>1. CASE Outstanding(questions) # {}
    <3> DEFINE job == [work[w] EXCEPT !.stage = "ask", !.review = r, !.text = {},
                                      !.questions = Outstanding(questions)]
    <3>1. job \in Jobs /\ job.stage = "ask" /\ job.review = r /\ job.cmd = work[w].cmd
      BY <1>1, <1>2 DEF Jobs, Stages
    <3>2. QED
      BY <2>1, <3>1 DEF TakeUp
  <2>2. CASE Outstanding(questions) = {}
    <3> DEFINE job == [work[w] EXCEPT !.stage = "answers", !.review = r, !.text = {}]
    <3>1. job \in Jobs /\ job.stage = "answers" /\ job.review = r /\ job.cmd = work[w].cmd
      BY <1>1 DEF Jobs, Stages
    <3>2. QED
      BY <2>2, <3>1 DEF TakeUp
  <2>3. QED
    BY <2>1, <2>2
<1>4. work'[w] = job
  BY <1>3, OneJob DEF IInv, TypeOK
<1>5. HoldsFit(work[w])'
  BY <1>1, <1>3, <1>4 DEF HoldsFit
<1>6. QED
  BY <1>3, <1>5

\* A question that is asked or answered is a question still.
LEMMA RestatedType ==
  ASSUME NEW questions \in SUBSET Questions, NEW q \in questions, NEW status \in {"asked", "answered"}
  PROVE  Restated(questions, q, status) \in SUBSET Questions
  BY DEF Restated, WithStatus, Questions

\* An answer is added to the review that waits for it.
LEMMA RecordReplyKeeps ==
  ASSUME IInv, NEW w \in Workers, RecordReply(w)
  PROVE  IInv'
<1> DEFINE m == work[w].cmd.of
<1>1. /\ work[w].stage = "reply" /\ m \in Messages /\ work[w] \in Jobs /\ work[w].cmd \in known
      /\ UNCHANGED <<part, reportVars, leaseVars, queueVars, threadVars, faults>>
  <2>1. work[w].stage = "reply"
    BY DEF RecordReply, Doing
  <2>2. QED
    BY <2>1, WorkerFacts DEF RecordReply, HoldsFit
<1>2. known' = known /\ reviews \in Seq(Reviews)
  BY <1>1 DEF queueVars, IInv, TypeOK
<1>3. CASE Proceed(w, "start") /\ UNCHANGED reviews
  <2> DEFINE job == [work[w] EXCEPT !.stage = "start"]
  <2>1. job \in Jobs /\ Becomes(w, job) /\ job.stage = "start" /\ job.cmd = work[w].cmd
    BY <1>1, <1>3 DEF Proceed, Becomes, Jobs, Stages
  <2>2. work'[w] = job
    BY <2>1, OneJob DEF IInv, TypeOK
  <2>3. HoldsFit(work[w])'
    BY <1>1, <1>2, <2>1, <2>2 DEF HoldsFit
  <2>4. ReviewsGrow /\ CompleteIsCovered' /\ reviews' \in Seq(Reviews)
    BY <1>3 DEF ReviewsGrow, CompleteIsCovered, IInv, TypeOK
  <2>5. QED
    BY <1>1, <2>1, <2>3, <2>4, ReviewerKeeps
<1>4. CASE Done(w) /\ UNCHANGED reviews
  <2>1. Becomes(w, Idle)
    BY <1>4 DEF Done
  <2>2. work'[w] = Idle
    BY <2>1, OneJob, JobTypes DEF IInv, TypeOK
  <2>3. HoldsFit(work[w])'
    BY <2>2, JobTypes DEF HoldsFit
  <2>4. ReviewsGrow /\ CompleteIsCovered' /\ reviews' \in Seq(Reviews)
    BY <1>4 DEF ReviewsGrow, CompleteIsCovered, IInv, TypeOK
  <2>5. QED
    BY <1>1, <2>1, <2>3, <2>4, JobTypes, ReviewerKeeps
<1>5. ASSUME NEW r \in DOMAIN reviews, TakeUp(w, r, QuestionsOf(r)), UNCHANGED reviews
      PROVE  IInv'
  <2>1. r \in Nat /\ reviews[r] \in Reviews
    BY <1>2, ElementOfSeq
  <2>2. QuestionsOf(r) \in SUBSET Questions
    BY <2>1 DEF QuestionsOf, Reviews
  <2>3. \E job \in Jobs : Becomes(w, job) /\ HoldsFit(work[w])'
    BY <1>1, <1>2, <1>5, <2>1, <2>2, TakeUpFits
  <2>4. ReviewsGrow /\ CompleteIsCovered' /\ reviews' \in Seq(Reviews)
    BY <1>5 DEF ReviewsGrow, CompleteIsCovered, IInv, TypeOK
  <2>5. QED
    BY <1>1, <2>3, <2>4, ReviewerKeeps
<1>6. ASSUME NEW r \in ActiveReview, NEW q \in Asked(r),
             reviews' = [reviews EXCEPT ![r].questions = Restated(@, q, "answered"),
                                        ![r].answers = @ \cup {Answer(q, m)}],
             TakeUp(w, r, Restated(QuestionsOf(r), q, "answered"))
      PROVE  IInv'
  <2> DEFINE review == [reviews[r] EXCEPT !.questions = Restated(@, q, "answered"),
                                          !.answers = @ \cup {Answer(q, m)}]
             questions == Restated(QuestionsOf(r), q, "answered")
  <2>1. r \in DOMAIN reviews /\ ~reviews[r].complete /\ q \in QuestionsOf(r)
    BY <1>6 DEF ActiveReview, Asked
  <2>2. r \in Nat /\ reviews[r] \in Reviews
    BY <1>2, <2>1, ElementOfSeq
  <2>3. QuestionsOf(r) \in SUBSET Questions /\ q \in Questions
    BY <2>1, <2>2 DEF QuestionsOf, Reviews
  <2>4. questions \in SUBSET Questions
    BY <2>1, <2>3, RestatedType
  <2>5. Answer(q, m) \in Answers
    BY <1>1, <2>3 DEF Answer, Answers, Questions
  <2>6. reviews' = [reviews EXCEPT ![r] = review]
    BY <1>2, <1>6, <2>1
  <2>7. /\ review \in Reviews /\ review.text = reviews[r].text
        /\ reviews[r].answers \subseteq review.answers /\ review.complete = reviews[r].complete
    BY <2>2, <2>4, <2>5 DEF Reviews, QuestionsOf
  <2> HIDE DEF review, questions
  <2>8. /\ reviews' \in Seq(Reviews) /\ ReviewsGrow /\ CompleteIsCovered'
        /\ DOMAIN reviews' = DOMAIN reviews
    BY <2>1, <2>6, <2>7, ReviewWritten
  <2>9. \E job \in Jobs : Becomes(w, job) /\ HoldsFit(work[w])'
    BY <1>1, <1>2, <1>6, <2>1, <2>2, <2>4, <2>8, TakeUpFits DEF questions
  <2>10. QED
    BY <1>1, <2>8, <2>9, ReviewerKeeps
<1>7. QED
  <2>1. CASE ActiveReview = {} /\ Proceed(w, "start") /\ UNCHANGED reviews
    BY <2>1, <1>3
  <2>2. ASSUME NEW r \in ActiveReview,
               IF HasAnswered(m, r)
               THEN TakeUp(w, r, QuestionsOf(r)) /\ UNCHANGED reviews
               ELSE IF Cardinality(Asked(r)) # 1
               THEN Done(w) /\ UNCHANGED reviews
               ELSE \E q \in Asked(r) :
                 /\ reviews' = [reviews EXCEPT
                      ![r].questions = Restated(@, q, "answered"),
                      ![r].answers = @ \cup {Answer(q, m)}]
                 /\ TakeUp(w, r, Restated(QuestionsOf(r), q, "answered"))
        PROVE  IInv'
    <3>1. r \in DOMAIN reviews
      BY DEF ActiveReview
    <3>2. QED
      BY <2>2, <3>1, <1>4, <1>5, <1>6
  <2>3. QED
    BY <2>1, <2>2 DEF RecordReply

\* A review is resumed, or one with this transcript is begun.
LEMMA StartReviewKeeps ==
  ASSUME IInv, NEW w \in Workers, StartReview(w)
  PROVE  IInv'
<1> DEFINE text == work[w].text
           requested(r) == [work[w] EXCEPT !.stage = "request", !.review = r, !.text = {}]
<1>1. /\ work[w].stage = "start" /\ work[w] \in Jobs /\ work[w].cmd \in known
      /\ text \in SUBSET Messages
      /\ UNCHANGED <<part, reportVars, leaseVars, queueVars, threadVars, faults>>
  <2>1. work[w].stage = "start"
    BY DEF StartReview, Doing
  <2>2. QED
    BY <2>1, WorkerFacts DEF StartReview, Jobs
<1>2. known' = known /\ reviews \in Seq(Reviews)
  BY <1>1 DEF queueVars, IInv, TypeOK
<1>3. ASSUME NEW r \in DOMAIN reviews, UNCHANGED reviews,
             IF reviews[r].complete THEN Becomes(w, requested(r)) ELSE TakeUp(w, r, QuestionsOf(r))
      PROVE  IInv'
  <2>1. r \in Nat /\ reviews[r] \in Reviews
    BY <1>2, ElementOfSeq
  <2>2. ASSUME reviews[r].complete
        PROVE  \E job \in Jobs : Becomes(w, job) /\ HoldsFit(work[w])'
    <3>1. /\ requested(r) \in Jobs /\ requested(r).stage = "request" /\ requested(r).review = r
          /\ requested(r).cmd = work[w].cmd
      BY <1>1, <2>1 DEF Jobs, Stages
    <3>2. Becomes(w, requested(r))
      BY <1>3, <2>2
    <3>3. work'[w] = requested(r)
      BY <3>1, <3>2, OneJob DEF IInv, TypeOK
    <3>4. HoldsFit(work[w])'
      BY <1>1, <1>2, <1>3, <3>1, <3>3 DEF HoldsFit
    <3>5. QED
      BY <3>1, <3>2, <3>4
  <2>3. ASSUME ~reviews[r].complete
        PROVE  \E job \in Jobs : Becomes(w, job) /\ HoldsFit(work[w])'
    <3>1. QuestionsOf(r) \in SUBSET Questions
      BY <2>1 DEF QuestionsOf, Reviews
    <3>2. TakeUp(w, r, QuestionsOf(r)) /\ r \in DOMAIN reviews'
      BY <1>3, <2>3
    <3>3. QED
      BY <1>1, <1>2, <2>1, <3>1, <3>2, TakeUpFits
  <2>4. \E job \in Jobs : Becomes(w, job) /\ HoldsFit(work[w])'
    BY <2>2, <2>3
  <2>5. ReviewsGrow /\ CompleteIsCovered' /\ reviews' \in Seq(Reviews)
    BY <1>2, <1>3 DEF ReviewsGrow, CompleteIsCovered, IInv
  <2>6. QED
    BY <1>1, <2>4, <2>5, ReviewerKeeps
<1>4. ASSUME reviews' = Append(reviews, NewReview(text)), TakeUp(w, Len(reviews) + 1, {})
      PROVE  IInv'
  <2>1. NewReview(text) \in Reviews /\ ~NewReview(text).complete
    BY <1>1 DEF NewReview, Reviews
  <2>2. /\ reviews' \in Seq(Reviews) /\ Len(reviews) + 1 \in DOMAIN reviews' /\ Len(reviews) + 1 \in Nat
        /\ reviews'[Len(reviews) + 1] = NewReview(text)
        /\ \A s \in DOMAIN reviews : s \in DOMAIN reviews' /\ reviews'[s] = reviews[s]
        /\ \A s \in DOMAIN reviews' : s \in DOMAIN reviews \/ s = Len(reviews) + 1
    BY <1>2, <1>4, <2>1, AppendProperties
  <2>3. ReviewsGrow
    BY <2>2 DEF ReviewsGrow
  <2>4. CompleteIsCovered'
    BY <2>1, <2>2 DEF IInv, CompleteIsCovered, Covered
  <2>5. \E job \in Jobs : Becomes(w, job) /\ HoldsFit(work[w])'
    BY <1>1, <1>2, <1>4, <2>2, TakeUpFits
  <2>6. QED
    BY <1>1, <2>2, <2>3, <2>4, <2>5, ReviewerKeeps
<1>5. QED
  BY <1>3, <1>4 DEF StartReview, SameReview, ActiveReview

\* The next round of a review has its text and its answers.
LEMMA RoundType ==
  ASSUME NEW review \in Reviews, NEW items \in SUBSET Items
  PROVE  /\ Round(review, items) \in Reviews
         /\ Round(review, items).text = review.text /\ Round(review, items).answers = review.answers
         /\ Round(review, items).complete = review.complete
<1> DEFINE round == IF review.complete THEN review.round ELSE review.round + 1
           new == {i \in items : \A q \in review.questions : q.round # round \/ q.item # i}
<1>1. round \in Nat
  BY DEF Reviews
<1>2. [round : {round}, item : new, status : {"pending"}] \subseteq Questions
  BY <1>1 DEF Questions
<1> HIDE DEF round, new
<1>3. /\ Round(review, items) = [review EXCEPT !.round = round,
           !.questions = @ \cup [round : {round}, item : new, status : {"pending"}]]
  BY DEF Round, round, new
<1>4. QED
  BY <1>1, <1>2, <1>3 DEF Reviews

\* A round completes the review only if nothing is missing from its text and the
\* answers that were read, which it has still.
LEMMA EndRoundKeeps ==
  ASSUME IInv, NEW w \in Workers, EndRound(w)
  PROVE  IInv'
<1> DEFINE r == work[w].review
           review == reviews[r]
<1>1. /\ work[w].stage = "judge" /\ work[w] \in Jobs /\ work[w].cmd \in known
      /\ r \in DOMAIN reviews /\ work[w].answers \subseteq review.answers
      /\ UNCHANGED <<part, reportVars, leaseVars, threadVars, faults>>
  <2>1. work[w].stage = "judge"
    BY DEF EndRound, Doing
  <2>2. QED
    BY <2>1, WorkerFacts DEF EndRound, HoldsFit, AnswersOf
<1>2. r \in Nat /\ review \in Reviews /\ reviews \in Seq(Reviews)
  BY <1>1, ElementOfSeq DEF IInv, TypeOK
<1>3. PICK items \in Verdicts(review.text, work[w].answers) :
       \/ /\ items = {}
          /\ reviews' = [reviews EXCEPT ![r] = Completed(@)]
          /\ Becomes(w, [work[w] EXCEPT !.stage = "request", !.answers = {}])
          /\ UNCHANGED queueVars
       \/ /\ items # {}
          /\ reviews' = [reviews EXCEPT ![r] = Round(@, items)]
          /\ Becomes(w, [work[w] EXCEPT !.stage = "ask", !.answers = {},
               !.questions = Outstanding({q \in Round(review, items).questions :
                                 q.round = Round(review, items).round /\ q.item \in items})])
          /\ UNCHANGED queueVars
       \/ Raise(w) /\ UNCHANGED reviews
  BY DEF EndRound
<1>4. /\ items \in SUBSET Items
      /\ items = {} => Covered(review.text, work[w].answers)
  BY DEF Verdicts, MissingItems, Covered
<1>5. CASE /\ items = {}
           /\ reviews' = [reviews EXCEPT ![r] = Completed(@)]
           /\ Becomes(w, [work[w] EXCEPT !.stage = "request", !.answers = {}])
           /\ UNCHANGED queueVars
  <2> DEFINE job == [work[w] EXCEPT !.stage = "request", !.answers = {}]
  <2>1. Covered(review.text, review.answers)
    BY <1>1, <1>4, <1>5 DEF Covered
  <2>2. /\ Completed(review) \in Reviews /\ Completed(review).text = review.text
        /\ Completed(review).answers = review.answers
    BY <1>2 DEF Completed, Reviews
  <2>3. reviews' = [reviews EXCEPT ![r] = Completed(review)]
    BY <1>5
  <2>4. /\ reviews' \in Seq(Reviews) /\ ReviewsGrow /\ CompleteIsCovered'
        /\ DOMAIN reviews' = DOMAIN reviews
    BY <1>1, <2>1, <2>2, <2>3, ReviewWritten
  <2>5. job \in Jobs /\ job.stage = "request" /\ job.review = r /\ job.cmd = work[w].cmd
    BY <1>1 DEF Jobs, Stages
  <2>6. work'[w] = job
    BY <1>5, <2>5, OneJob DEF IInv, TypeOK
  <2>7. HoldsFit(work[w])'
    BY <1>1, <1>5, <2>4, <2>5, <2>6 DEF HoldsFit, queueVars
  <2>8. QED
    BY <1>1, <1>5, <2>4, <2>5, <2>7, ReviewerKeeps
<1>6. CASE /\ items # {}
           /\ reviews' = [reviews EXCEPT ![r] = Round(@, items)]
           /\ Becomes(w, [work[w] EXCEPT !.stage = "ask", !.answers = {},
                !.questions = Outstanding({q \in Round(review, items).questions :
                                  q.round = Round(review, items).round /\ q.item \in items})])
           /\ UNCHANGED queueVars
  <2> DEFINE next == Round(review, items)
             asked == Outstanding({q \in next.questions : q.round = next.round /\ q.item \in items})
             job == [work[w] EXCEPT !.stage = "ask", !.answers = {}, !.questions = asked]
  <2>1. /\ next \in Reviews /\ next.text = review.text /\ next.answers = review.answers
        /\ next.complete = review.complete
    BY <1>2, <1>4, RoundType
  <2>2. reviews' = [reviews EXCEPT ![r] = next] /\ Becomes(w, job)
    BY <1>6
  <2> HIDE DEF next
  <2>3. /\ reviews' \in Seq(Reviews) /\ ReviewsGrow /\ CompleteIsCovered'
        /\ DOMAIN reviews' = DOMAIN reviews
    BY <1>1, <2>1, <2>2, ReviewWritten
  <2>4. asked \in SUBSET Questions
    BY <2>1 DEF Outstanding, Reviews
  <2> HIDE DEF asked
  <2>5. job \in Jobs /\ job.stage = "ask" /\ job.review = r /\ job.cmd = work[w].cmd
    BY <1>1, <2>4 DEF Jobs, Stages
  <2>6. work'[w] = job
    BY <2>2, <2>5, OneJob DEF IInv, TypeOK
  <2>7. HoldsFit(work[w])'
    BY <1>1, <1>6, <2>3, <2>5, <2>6 DEF HoldsFit, queueVars
  <2>8. QED
    BY <1>1, <1>6, <2>2, <2>3, <2>5, <2>7, ReviewerKeeps
<1>7. CASE Raise(w) /\ UNCHANGED reviews
  BY <1>1, <1>7, RaiseKeeps DEF IInv, TypeOK, reportVars, leaseVars
<1>8. QED
  BY <1>3, <1>5, <1>6, <1>7

\* One question of a review is asked.
LEMMA AskKeeps ==
  ASSUME IInv, NEW w \in Workers, Ask(w)
  PROVE  IInv'
<1> DEFINE r == work[w].review
<1>1. /\ r \in DOMAIN reviews /\ work[w] \in Jobs
      /\ UNCHANGED <<part, reportVars, leaseVars, queueVars, threadVars, faults>>
  <2>1. work[w].stage = "ask"
    BY DEF Ask, Doing
  <2>2. QED
    BY <2>1, WorkerFacts DEF Ask, HoldsFit
<1>2. r \in Nat /\ reviews[r] \in Reviews /\ reviews \in Seq(Reviews)
  BY <1>1, ElementOfSeq DEF IInv, TypeOK
<1>3. Becomes(w, Idle)
  BY DEF Ask, Done
<1>4. work'[w] = Idle
  BY <1>3, OneJob, JobTypes DEF IInv, TypeOK
<1>5. HoldsFit(work[w])'
  BY <1>4, JobTypes DEF HoldsFit
<1>6. reviews' \in Seq(Reviews) /\ ReviewsGrow /\ CompleteIsCovered'
  <2>1. CASE UNCHANGED reviews
    BY <1>2, <2>1 DEF ReviewsGrow, CompleteIsCovered, IInv
  <2>2. ASSUME NEW q \in work[w].questions,
               reviews' = [reviews EXCEPT ![r].questions =
                             IF q \in @ THEN Restated(@, q, "asked") ELSE @]
        PROVE  reviews' \in Seq(Reviews) /\ ReviewsGrow /\ CompleteIsCovered'
    <3> DEFINE questions == IF q \in reviews[r].questions
                            THEN Restated(reviews[r].questions, q, "asked")
                            ELSE reviews[r].questions
               review == [reviews[r] EXCEPT !.questions = questions]
    <3>1. reviews[r].questions \in SUBSET Questions
      BY <1>2 DEF Reviews
    <3>2. questions \in SUBSET Questions
      BY <3>1, RestatedType
    <3>3. reviews' = [reviews EXCEPT ![r] = review]
      BY <1>1, <1>2, <2>2
    <3> HIDE DEF questions
    <3>4. /\ review \in Reviews /\ review.text = reviews[r].text
          /\ review.answers = reviews[r].answers /\ review.complete = reviews[r].complete
      BY <1>2, <3>2 DEF Reviews
    <3> HIDE DEF review
    <3>5. QED
      BY <1>1, <3>3, <3>4, ReviewWritten
  <2>3. QED
    BY <2>1, <2>2 DEF Ask
<1>7. QED
  BY <1>1, <1>3, <1>5, <1>6, JobTypes, ReviewerKeeps

-----------------------------------------------------------------------------
(***************************************************************************)
(* The report.                                                             *)
(***************************************************************************)

\* The source of a completed review covers the checklist.
LEMMA BuildSnapshotKeeps ==
  ASSUME IInv, NEW w \in Workers, NEW r \in DOMAIN reviews, BuildSnapshot(w, r)
  PROVE  IInv'
<1> DEFINE c == Command("report", r)
<1>1. /\ c \in known /\ c \in Commands /\ queue' \subseteq known' /\ known' = known
      /\ UNCHANGED <<part, reviews, reportVars, leaseVars, threadVars, faults>>
      /\ reviews[r].complete
  BY TakenIsKnown DEF BuildSnapshot
<1>2. r \in Nat /\ reviews[r] \in Reviews
  BY ElementOfSeq DEF IInv, TypeOK
<1>3. PICK e \in Evidence :
        Becomes(w, [Job("claim", c, FALSE) EXCEPT
          !.source = [review |-> r, answers |-> AnswersOf(r), evidence |-> e]])
  BY DEF BuildSnapshot
<1> DEFINE source == [review |-> r, answers |-> AnswersOf(r), evidence |-> e]
           j == Job("claim", c, FALSE)
           job == [j EXCEPT !.source = source]
<1>4. source \in Sources
  BY <1>2 DEF Sources, AnswersOf, Reviews
<1>5. source.review \in DOMAIN reviews /\ Covered(reviews[source.review].text, source.answers)
  BY <1>1 DEF IInv, CompleteIsCovered, AnswersOf
<1>6. j \in Jobs /\ j.stage = "claim" /\ j.cmd = c
  BY <1>1 DEF Job, Idle, Jobs, Stages
<1>7. Becomes(w, job)
  BY <1>3
<1> HIDE DEF j, source
<1>8. job \in Jobs /\ job.stage = "claim" /\ job.cmd = c /\ job.source = source
  BY <1>4, <1>6 DEF Jobs
<1>9. work'[w] = job
  BY <1>7, <1>8, OneJob DEF IInv, TypeOK
<1> HIDE DEF job
<1>10. HoldsFit(work[w])'
  BY <1>1, <1>4, <1>5, <1>8, <1>9 DEF HoldsFit, SourceCovered
<1>11. QED
  BY <1>1, <1>7, <1>8, <1>10, WorkerKeeps DEF IInv, TypeOK, reportVars, leaseVars

LEMMA ClaimReportKeeps ==
  ASSUME IInv, NEW w \in Workers, ClaimReport(w)
  PROVE  IInv'
<1> DEFINE source == work[w].source
<1>1. /\ work[w].stage = "claim" /\ work[w] \in Jobs /\ work[w].cmd \in known /\ work[w].cmd \in Commands
      /\ source \in Sources /\ SourceCovered(source)
      /\ UNCHANGED <<part, reviews, versions, stored, threadVars, faults>>
  <2>1. work[w].stage = "claim"
    BY DEF ClaimReport, Doing
  <2>2. QED
    BY <2>1, WorkerFacts DEF ClaimReport, HoldsFit
<1>2. TheReport \in Leased /\ lease[TheReport] + 1 \in Nat /\ Len(versions) + 1 \in Nat
  BY LenProperties DEF Leased, IInv, TypeOK
<1>3. ASSUME NEW v \in VersionsOf(source),
             Becomes(w, [Job("deliver", work[w].cmd, work[w].late) EXCEPT !.version = v]),
             UNCHANGED <<report, lease, queueVars>>
      PROVE  IInv'
  <2> DEFINE j == Job("deliver", work[w].cmd, work[w].late)
             job == [j EXCEPT !.version = v]
  <2>1. v \in Nat
    BY DEF VersionsOf, IInv, TypeOK
  <2>2. j \in Jobs /\ j.stage = "deliver" /\ j.cmd = work[w].cmd
    BY <1>1 DEF Job, Idle, Jobs, Stages
  <2>3. Becomes(w, job)
    BY <1>3
  <2> HIDE DEF j
  <2>4. job \in Jobs /\ job.stage = "deliver" /\ job.cmd = work[w].cmd
    BY <2>1, <2>2 DEF Jobs
  <2>5. work'[w] = job
    BY <2>3, <2>4, OneJob DEF IInv, TypeOK
  <2>6. HoldsFit(work[w])'
    BY <1>1, <1>3, <2>4, <2>5 DEF HoldsFit, queueVars
  <2>7. QED
    BY <1>1, <1>3, <2>3, <2>4, <2>6, WorkerKeeps DEF IInv, TypeOK, queueVars
<1>4. CASE Raise(w) /\ UNCHANGED <<report, lease>>
  BY <1>1, <1>4, RaiseKeeps DEF IInv, TypeOK
<1>5. ASSUME report' = [status |-> "generating", source |-> source],
             lease' = [lease EXCEPT ![TheReport] = @ + 1],
             Becomes(w, [work[w] EXCEPT !.stage = "generating", !.token = lease[TheReport] + 1,
                                        !.version = Len(versions) + 1]),
             UNCHANGED queueVars
      PROVE  IInv'
  <2> DEFINE job == [work[w] EXCEPT !.stage = "generating", !.token = lease[TheReport] + 1,
                                    !.version = Len(versions) + 1]
  <2>1. job \in Jobs /\ job.stage = "generating" /\ job.cmd = work[w].cmd /\ job.source = source
    BY <1>1, <1>2 DEF Jobs, Stages
  <2>2. work'[w] = job
    BY <1>5, <2>1, OneJob DEF IInv, TypeOK
  <2>3. HoldsFit(work[w])'
    BY <1>1, <1>5, <2>1, <2>2 DEF HoldsFit, queueVars, SourceCovered
  <2>4. /\ report' \in [status : {"none", "generating", "completed", "failed"},
                        source : Sources \cup {NoSource}]
        /\ report'.status # "completed" /\ lease' \in [Leased -> Nat]
    BY <1>1, <1>2, <1>5 DEF IInv, TypeOK
  <2>5. QED
    BY <1>1, <1>5, <2>1, <2>3, <2>4, WorkerKeeps DEF IInv, TypeOK, queueVars
<1>6. QED
  BY <1>3, <1>4, <1>5 DEF ClaimReport

\* The version that is added was written from a source that covers the checklist.
LEMMA CompleteReportKeeps ==
  ASSUME IInv, NEW w \in Workers, CompleteReport(w)
  PROVE  IInv'
<1> DEFINE source == work[w].source
           j == Job("deliver", work[w].cmd, work[w].late)
           job == [j EXCEPT !.version = work[w].version]
<1>1. /\ work[w].stage = "generating" /\ work[w] \in Jobs /\ work[w].cmd \in known
      /\ work[w].cmd \in Commands /\ source \in Sources /\ SourceCovered(source)
      /\ UNCHANGED <<part, reviews, lease, threadVars, faults>>
  <2>1. work[w].stage = "generating"
    BY DEF CompleteReport, Doing
  <2>2. QED
    BY <2>1, WorkerFacts DEF CompleteReport, HoldsFit
<1>2. CASE ~ReportFenced(w)
  BY <1>1, <1>2, RaiseKeeps DEF CompleteReport, IInv, TypeOK, reportVars
<1>3. CASE ReportFenced(w)
  <2>1. /\ report' = [report EXCEPT !.status = "completed"]
        /\ versions' = Append(versions, source)
        /\ stored' = [stored EXCEPT ![TheReport] = work[w].token]
        /\ Becomes(w, job) /\ UNCHANGED queueVars
    BY <1>3 DEF CompleteReport
  <2>2. j \in Jobs /\ j.stage = "deliver" /\ j.cmd = work[w].cmd
    BY <1>1 DEF Job, Idle, Jobs, Stages
  <2> HIDE DEF j
  <2>3. job \in Jobs /\ job.stage = "deliver" /\ job.cmd = work[w].cmd
    BY <1>1, <2>2 DEF Jobs
  <2>4. /\ work' \in [Workers -> Jobs] /\ work'[w] = job
        /\ \A v \in Workers \ {w} : work'[v] = work[v]
    BY <2>1, <2>3, OneJob DEF IInv, TypeOK
  <2>5. /\ versions' \in Seq(Sources) /\ Len(versions') = Len(versions) + 1
        /\ \A v \in DOMAIN versions : v \in DOMAIN versions' /\ versions'[v] = versions[v]
        /\ versions'[Len(versions) + 1] = source
        /\ \A v \in DOMAIN versions' : v \in DOMAIN versions \/ v = Len(versions) + 1
    BY <1>1, <2>1, AppendProperties DEF IInv, TypeOK
  <2>6. approved' \in Seq(DOMAIN versions')
    BY <1>1, <2>5, SeqMonotonic DEF IInv, TypeOK, threadVars
  <2>7. /\ report' \in [status : {"none", "generating", "completed", "failed"},
                        source : Sources \cup {NoSource}]
        /\ stored' \in [Leased -> Nat]
    BY <1>1, <2>1 DEF IInv, TypeOK, Leased, Jobs
  <2>8. TypeOK'
    BY <1>1, <2>1, <2>4, <2>5, <2>6, <2>7 DEF IInv, TypeOK, threadVars, queueVars, PartStatuses
  <2>9. WorkersFit'
    <3>1. HoldsFit(work[w])'
      BY <1>1, <2>1, <2>3, <2>4 DEF HoldsFit, queueVars
    <3>2. ReviewsGrow
      BY <1>1 DEF ReviewsGrow
    <3>3. QED
      BY <2>1, <2>4, <3>1, <3>2, OthersFit DEF IInv, queueVars
  <2>10. PartIsHandled' /\ CompleteIsCovered' /\ MailIsPublished' /\ PublishedWasApproved'
    BY <1>1, <2>1 DEF IInv, PartIsHandled, CompleteIsCovered, MailIsPublished, PublishedWasApproved,
                      threadVars, queueVars
  <2>11. VersionsAreCovered' /\ CompletedIsVersion'
    <3>1. Len(versions') > 0
      BY <2>5, LenProperties DEF IInv, TypeOK
    <3>2. QED
      BY <1>1, <2>5, <3>1 DEF IInv, VersionsAreCovered, SourceCovered, CompletedIsVersion
  <2>12. QED
    BY <2>8, <2>9, <2>10, <2>11 DEF IInv
<1>4. QED
  BY <1>2, <1>3

LEMMA GenerationFailsKeeps ==
  ASSUME IInv, NEW w \in Workers, GenerationFails(w)
  PROVE  IInv'
<1>1. /\ work[w].stage # "idle" /\ Raise(w) /\ faults' = faults + 1 /\ report' = FailedReport(w)
      /\ UNCHANGED <<part, reviews, versions, leaseVars, threadVars>>
  BY DEF GenerationFails, Doing
<1>2. /\ report' \in [status : {"none", "generating", "completed", "failed"},
                      source : Sources \cup {NoSource}]
      /\ report'.status = "completed" => report.status = "completed"
  BY <1>1 DEF FailedReport, IInv, TypeOK
<1>3. faults' \in Nat
  BY <1>1 DEF IInv, TypeOK
<1>4. QED
  BY <1>1, <1>2, <1>3, RaiseKeeps DEF IInv, TypeOK, leaseVars

LEMMA DeliverReportKeeps ==
  ASSUME IInv, NEW w \in Workers, DeliverReport(w)
  PROVE  IInv'
<1>1. /\ Becomes(w, Idle)
      /\ UNCHANGED <<part, reviews, reportVars, leaseVars, queueVars, threadVars, faults>>
  BY DEF DeliverReport, Done
<1>2. work'[w] = Idle
  BY <1>1, OneJob, JobTypes DEF IInv, TypeOK
<1>3. HoldsFit(work[w])'
  BY <1>2, JobTypes DEF HoldsFit
<1>4. QED
  BY <1>1, <1>3, JobTypes, WorkerKeeps DEF IInv, TypeOK, reportVars, leaseVars, queueVars

LEMMA CrashKeeps ==
  ASSUME IInv, NEW w \in Workers, Crash(w)
  PROVE  IInv'
<1>1. /\ work[w].stage # "idle" /\ Raise(w) /\ faults' = faults + 1
      /\ UNCHANGED <<part, reviews, reportVars, leaseVars, threadVars>>
  BY DEF Crash, Doing
<1>2. faults' \in Nat
  BY <1>1 DEF IInv, TypeOK
<1>3. QED
  BY <1>1, <1>2, RaiseKeeps DEF IInv, TypeOK, reportVars, leaseVars

LEMMA OutliveLeaseKeeps ==
  ASSUME IInv, NEW w \in Workers, OutliveLease(w)
  PROVE  IInv'
<1> DEFINE job == [work[w] EXCEPT !.late = TRUE]
<1>1. /\ work[w].stage # "idle" /\ Becomes(w, job) /\ faults' = faults + 1
      /\ queue' = queue \cup {work[w].cmd}
      /\ UNCHANGED <<known, part, reviews, reportVars, leaseVars, threadVars>>
  BY DEF OutliveLease, Doing, Becomes
<1>2. work[w] \in Jobs /\ HoldsFit(work[w]) /\ work[w].cmd \in known
  BY <1>1, WorkerFacts
<1>3. /\ job \in Jobs /\ job.stage = work[w].stage /\ job.cmd = work[w].cmd
      /\ job.review = work[w].review /\ job.answers = work[w].answers /\ job.source = work[w].source
  BY <1>2 DEF Jobs
<1>4. work'[w] = job
  BY <1>1, <1>3, OneJob DEF IInv, TypeOK
<1> HIDE DEF job
<1>5. HoldsFit(work[w])'
  BY <1>1, <1>2, <1>3, <1>4 DEF HoldsFit, SourceCovered, AnswersOf
<1>6. /\ faults' \in Nat /\ queue' \subseteq known'
  BY <1>1, <1>2 DEF IInv, TypeOK
<1>7. QED
  BY <1>1, <1>3, <1>5, <1>6, WorkerKeeps DEF IInv, TypeOK, reportVars, leaseVars

-----------------------------------------------------------------------------
(***************************************************************************)
(* The owner's messages, and what goes out.                                *)
(***************************************************************************)

\* A step that adds commands and leaves the workers and their reviews alone.
LEMMA OutsideKeeps ==
  ASSUME IInv, TypeOK', UNCHANGED <<reviews, report, versions, work>>, known \subseteq known',
         PartIsHandled', MailIsPublished', PublishedWasApproved'
  PROVE  IInv'
<1>1. WorkersFit'
  <2> SUFFICES ASSUME NEW w \in Workers
               PROVE  HoldsFit(work[w])'
    BY DEF WorkersFit
  <2>1. HoldsFit(work[w]) /\ work'[w] = work[w]
    BY DEF IInv, WorkersFit
  <2>2. QED
    BY <2>1 DEF HoldsFit, SourceCovered, AnswersOf
<1>2. CompleteIsCovered' /\ VersionsAreCovered' /\ CompletedIsVersion'
  BY DEF IInv, CompleteIsCovered, VersionsAreCovered, SourceCovered, CompletedIsVersion
<1>3. QED
  BY <1>1, <1>2 DEF IInv

\* Commands put on the outbox keep their types.
LEMMA EnqueueFacts ==
  ASSUME IInv, NEW cs \in SUBSET Commands, Enqueue(cs)
  PROVE  /\ known' = known \cup cs /\ queue' \subseteq known' /\ known' \subseteq Commands
  BY DEF IInv, TypeOK, Enqueue

\* A note is taken in once: it has no part before.
LEMMA HandleMessageKeeps ==
  ASSUME IInv, NEW m \in Messages, HandleMessage(m)
  PROVE  IInv'
<1>1. UNCHANGED <<reviews, reportVars, leaseVars, work, threadVars, faults>>
  BY DEF HandleMessage
<1>2. ASSUME NEW cs \in SUBSET Commands, Enqueue(cs), \A v \in Nat : EmailCommand(v) \notin cs,
             DOMAIN part' = Messages, \A n \in Messages : part'[n] \in PartStatuses(n),
             \A n \in Messages :
               /\ part'[n] # part[n] => Command("intake", n) \in cs
               /\ Command("transcribe", n) \in cs => Command("intake", n) \in cs
      PROVE  IInv'
  <2>1. known' = known \cup cs /\ queue' \subseteq known' /\ known' \subseteq Commands
    BY <1>2, EnqueueFacts
  <2>2. TypeOK'
    BY <1>1, <1>2, <2>1 DEF IInv, TypeOK, reportVars, leaseVars, threadVars, PartStatuses
  <2>3. PartIsHandled' /\ MailIsPublished' /\ PublishedWasApproved'
    BY <1>1, <1>2, <2>1 DEF IInv, PartIsHandled, MailIsPublished, PublishedWasApproved, threadVars
  <2>4. QED
    BY <1>1, <2>1, <2>2, <2>3, OutsideKeeps DEF reportVars
<1>3. CASE IsAnswer(m)
  <2> DEFINE cs == {Command("reply", m)}
  <2>1. Enqueue(cs) /\ part' = part
    BY <1>3 DEF HandleMessage
  <2>2. cs \in SUBSET Commands
    BY CommandsOf
  <2>3. /\ \A v \in Nat : EmailCommand(v) \notin cs
        /\ \A n \in Messages : Command("transcribe", n) \notin cs
    BY DEF EmailCommand, Command
  <2>4. QED
    BY <1>2, <2>1, <2>2, <2>3 DEF IInv, TypeOK
<1>4. CASE ~IsAnswer(m)
  <2> DEFINE cs == {Command("intake", m)} \cup {Command("transcribe", a) : a \in {m} \cap Audio}
  <2>1. Enqueue(cs) /\ part' = [part EXCEPT ![m] = NewPart(m)]
    BY <1>4 DEF HandleMessage, RecordIntake
  <2>2. cs \in SUBSET Commands
    BY CommandsOf, FieldNotesAssumption
  <2>3. /\ \A v \in Nat : EmailCommand(v) \notin cs
        /\ \A n \in Messages : Command("transcribe", n) \in cs => n = m
    BY DEF EmailCommand, Command
  <2>4. /\ DOMAIN part' = Messages /\ \A n \in Messages : part'[n] \in PartStatuses(n)
        /\ \A n \in Messages : part'[n] # part[n] => n = m
    BY <2>1 DEF IInv, TypeOK, PartStatuses, NewPart
  <2>5. QED
    BY <1>2, <2>1, <2>2, <2>3, <2>4
<1>5. QED
  BY <1>3, <1>4

\* The version the owner approves is the current one, which there is.
LEMMA ApproveKeeps ==
  ASSUME IInv, Approve
  PROVE  IInv'
<1> DEFINE c == PublishCommand(Len(approved) + 1)
<1>1. /\ approved' = Append(approved, Len(versions)) /\ Enqueue({c})
      /\ UNCHANGED <<part, reviews, reportVars, leaseVars, work, published, emailed, faults>>
      /\ report.status = "completed"
  BY DEF Approve, CurrentIsCompleted
<1>2. /\ approved \in Seq(DOMAIN versions) /\ Len(approved) + 1 \in Nat
      /\ versions \in Seq(Sources)
  BY LenProperties DEF IInv, TypeOK
<1>3. Len(versions) \in DOMAIN versions
  BY <1>1, <1>2, LenProperties DEF IInv, CompletedIsVersion
<1>4. /\ approved' \in Seq(DOMAIN versions)
      /\ \A k \in DOMAIN approved : k \in DOMAIN approved' /\ approved'[k] = approved[k]
  BY <1>1, <1>2, <1>3, AppendProperties
<1>5. c \in Commands /\ c.type = "publish"
  BY <1>2, CommandsOf DEF PublishCommand, Command
<1>6. known' = known \cup {c} /\ queue' \subseteq known' /\ known' \subseteq Commands
  BY <1>1, <1>5, EnqueueFacts
<1>7. TypeOK'
  BY <1>1, <1>4, <1>6 DEF IInv, TypeOK, reportVars, leaseVars, PartStatuses
<1>8. PartIsHandled' /\ MailIsPublished'
  BY <1>1, <1>5, <1>6 DEF IInv, PartIsHandled, MailIsPublished, EmailCommand, Command
<1>9. PublishedWasApproved'
  BY <1>1, <1>4 DEF IInv, PublishedWasApproved
<1>10. QED
  BY <1>1, <1>6, <1>7, <1>8, <1>9, OutsideKeeps DEF reportVars

LEMMA PublishKeeps ==
  ASSUME IInv, NEW w \in Workers, NEW k \in DOMAIN approved, Publish(w, k)
  PROVE  IInv'
<1>1. /\ published' = published \cup {approved[k]} /\ queue' \subseteq known' /\ known' = known
      /\ UNCHANGED <<part, reviews, reportVars, leaseVars, work, approved, emailed, faults>>
  BY TakenIsKnown DEF Publish, ApprovedVersion
<1>2. approved[k] \in DOMAIN versions
  BY ElementOfSeq DEF IInv, TypeOK
<1>3. TypeOK'
  BY <1>1, <1>2 DEF IInv, TypeOK, reportVars, leaseVars, PartStatuses
<1>4. PartIsHandled' /\ MailIsPublished' /\ PublishedWasApproved'
  BY <1>1 DEF IInv, PartIsHandled, MailIsPublished, PublishedWasApproved
<1>5. QED
  BY <1>1, <1>3, <1>4, OutsideKeeps DEF reportVars

LEMMA RequestEmailKeeps ==
  ASSUME IInv, RequestEmail
  PROVE  IInv'
<1> DEFINE c == EmailCommand(Len(versions))
<1>1. /\ Len(versions) \in published /\ Enqueue({c})
      /\ UNCHANGED <<part, reviews, reportVars, leaseVars, work, threadVars, faults>>
  BY DEF RequestEmail
<1>2. Len(versions) \in Nat
  BY LenProperties DEF IInv, TypeOK
<1>3. c \in Commands /\ c.type = "email" /\ c.of = Len(versions)
  BY <1>2, CommandsOf DEF EmailCommand, Command
<1>4. known' = known \cup {c} /\ queue' \subseteq known' /\ known' \subseteq Commands
  BY <1>1, <1>3, EnqueueFacts
<1>5. TypeOK'
  BY <1>1, <1>4 DEF IInv, TypeOK, reportVars, leaseVars, threadVars, PartStatuses
<1>6. PartIsHandled' /\ MailIsPublished' /\ PublishedWasApproved'
  BY <1>1, <1>3, <1>4
  DEF IInv, PartIsHandled, MailIsPublished, PublishedWasApproved, threadVars, EmailCommand, Command
<1>7. QED
  BY <1>1, <1>4, <1>5, <1>6, OutsideKeeps DEF reportVars

\* What is mailed was published, and so approved.
LEMMA EmailReportKeeps ==
  ASSUME IInv, NEW w \in Workers, NEW v \in DOMAIN versions, EmailReport(w, v)
  PROVE  IInv'
<1>1. /\ EmailCommand(v) \in known /\ queue' \subseteq known' /\ known' = known
      /\ emailed' = emailed \cup {v}
      /\ UNCHANGED <<part, reviews, reportVars, leaseVars, work, approved, published, faults>>
  BY TakenIsKnown DEF EmailReport
<1>2. v \in published
  BY <1>1 DEF IInv, TypeOK, MailIsPublished
<1>3. TypeOK'
  BY <1>1 DEF IInv, TypeOK, reportVars, leaseVars, PartStatuses
<1>4. PartIsHandled' /\ MailIsPublished' /\ PublishedWasApproved'
  BY <1>1, <1>2 DEF IInv, PartIsHandled, MailIsPublished, PublishedWasApproved
<1>5. QED
  BY <1>1, <1>3, <1>4, OutsideKeeps DEF reportVars

-----------------------------------------------------------------------------
(***************************************************************************)
(* The theorems.                                                           *)
(***************************************************************************)

LEMMA NextKeeps == IInv /\ [Next]_vars => IInv'
<1> SUFFICES ASSUME IInv, [Next]_vars
             PROVE  IInv'
  OBVIOUS
<1>1. CASE Owner
  BY <1>1, HandleMessageKeeps, ApproveKeeps, RequestEmailKeeps DEF Owner
<1>2. ASSUME NEW w \in Workers, Transcribe(w)
      PROVE  IInv'
  BY <1>2, ClaimPartKeeps, RecordTranscriptKeeps, TranscriptionFailsKeeps, RequestsKeep DEF Transcribe
<1>3. ASSUME NEW w \in Workers, CoordinateReview(w)
      PROVE  IInv'
  BY <1>3, BeginReviewKeeps, RecordReplyKeeps, StartReviewKeeps, ReadAnswersKeeps, EndRoundKeeps,
     AskKeeps, RequestsKeep
  DEF CoordinateReview
<1>4. ASSUME NEW w \in Workers, Report(w)
      PROVE  IInv'
  BY <1>4, BuildSnapshotKeeps, ClaimReportKeeps, CompleteReportKeeps, GenerationFailsKeeps,
     DeliverReportKeeps, PublishKeeps, EmailReportKeeps
  DEF Report
<1>5. ASSUME NEW w \in Workers, Crash(w) \/ OutliveLease(w)
      PROVE  IInv'
  BY <1>5, CrashKeeps, OutliveLeaseKeeps
<1>6. CASE UNCHANGED vars
  <2>1. /\ UNCHANGED <<part, reviews, report, versions, lease, stored, queue, known, work>>
        /\ UNCHANGED <<approved, published, emailed, faults>>
    BY <1>6 DEF vars, reportVars, leaseVars, queueVars, threadVars
  <2>2. TypeOK'
    BY <2>1 DEF IInv, TypeOK, PartStatuses
  <2>3. PartIsHandled' /\ MailIsPublished' /\ PublishedWasApproved'
    BY <2>1 DEF IInv, PartIsHandled, MailIsPublished, PublishedWasApproved
  <2>4. QED
    BY <2>1, <2>2, <2>3, OutsideKeeps
<1>7. QED
  BY <1>1, <1>2, <1>3, <1>4, <1>5, <1>6 DEF Next

\* The invariant holds throughout.
THEOREM Invariance == Spec => []IInv
  BY InitIInv, NextKeeps, PTL DEF Spec

\* Every variable keeps its type.
THEOREM TypeCorrect == Spec => []TypeOK
<1>1. IInv => TypeOK
  BY DEF IInv
<1>2. QED
  BY <1>1, Invariance, PTL

\* A version of the report leaves no required item open, whatever was dictated,
\* answered and reviewed side by side.
THEOREM VersionsCoverChecklist == Spec => []ReportCoversChecklist
<1>1. IInv => ReportCoversChecklist
  <2> SUFFICES ASSUME IInv, NEW v \in DOMAIN versions
               PROVE  Items = (UNION {Covers[m] : m \in reviews[versions[v].review].text})
                                \cup {a.item : a \in versions[v].answers}
    BY DEF ReportCoversChecklist
  <2> DEFINE r == versions[v].review
  <2>1. versions[v] \in Sources /\ r \in DOMAIN reviews /\ Covered(reviews[r].text, versions[v].answers)
    BY ElementOfSeq DEF IInv, TypeOK, VersionsAreCovered, SourceCovered
  <2>2. reviews[r] \in Reviews
    BY <2>1, ElementOfSeq DEF IInv, TypeOK
  <2>3. \A m \in reviews[r].text : Covers[m] \subseteq Items
    BY <2>2, FieldNotesAssumption DEF Reviews
  <2>4. \A a \in versions[v].answers : a.item \in Items
    BY <2>1 DEF Sources, Answers
  <2>5. QED
    BY <2>1, <2>3, <2>4 DEF Covered
<1>2. QED
  BY <1>1, Invariance, PTL

\* Only versions the owner approved are posted or mailed.
THEOREM OnlyApprovedGoesOut == Spec => []PublishedWasApproved
<1>1. IInv => PublishedWasApproved
  BY DEF IInv
<1>2. QED
  BY <1>1, Invariance, PTL

-----------------------------------------------------------------------------
(***************************************************************************)
(* Transcripts and reports are stored as leased calls store what they get. *)
(***************************************************************************)

StatusOf(t) == IF t = TheReport THEN report.status ELSE part[t]

\* A thing whose status is unchanged is in the same phase; one that changes, in another.
LEMMA OnePhase ==
  ASSUME NEW t \in Leased, NEW status, StatusOf(t)' = status,
         \A u \in Leased \ {t} : StatusOf(u)' = StatusOf(u)
  PROVE  phase' = [phase EXCEPT ![t] = PhaseOf(status)]
<1>1. /\ phase = [u \in Leased |-> PhaseOf(StatusOf(u))]
      /\ phase' = [u \in Leased |-> PhaseOf(StatusOf(u)')]
  BY DEF phase, StatusOf
<1>2. QED
  BY <1>1

LEMMA PhaseFacts ==
  ASSUME NEW t \in Leased
  PROVE  phase[t] = PhaseOf(StatusOf(t))
  BY DEF phase, StatusOf

LEMMA Phases ==
  /\ PhaseOf("none") = "open" /\ PhaseOf("pending") = "open"
  /\ PhaseOf("in_progress") = "leased" /\ PhaseOf("generating") = "leased"
  /\ PhaseOf("succeeded") = "done" /\ PhaseOf("completed") = "done" /\ PhaseOf("failed") = "failed"
  BY DEF PhaseOf

\* A recording is part of the case once; it is the report's status that is not its own.
LEMMA PartOf ==
  ASSUME NEW m \in Audio
  PROVE  m \in Leased /\ m \in Messages /\ m # TheReport /\ StatusOf(m) = part[m]
  BY FieldNotesAssumption DEF Leased, StatusOf

\* A step that leaves the recordings of the case, the report and their leases alone.
LEMMA Unseen ==
  ASSUME \A m \in Audio : part'[m] = part[m] \/ (part[m] = "none" /\ part'[m] = "pending"),
         report'.status = report.status, UNCHANGED leaseVars
  PROVE  UNCHANGED Calls!leasedVars
<1>1. \A t \in Leased : PhaseOf(StatusOf(t)') = PhaseOf(StatusOf(t))
  BY Phases, FieldNotesAssumption DEF StatusOf, Leased
<1>2. /\ phase = [u \in Leased |-> PhaseOf(StatusOf(u))]
      /\ phase' = [u \in Leased |-> PhaseOf(StatusOf(u)')]
  BY DEF phase, StatusOf
<1>3. QED
  BY <1>1, <1>2 DEF Calls!leasedVars, leaseVars

\* One recording or the report moves; the others stay.
LEMMA PartMoves ==
  ASSUME IInv, NEW m \in Audio, NEW status, part' = [part EXCEPT ![m] = status], UNCHANGED report
  PROVE  phase' = [phase EXCEPT ![m] = PhaseOf(status)] /\ phase[m] = PhaseOf(part[m])
<1>1. StatusOf(m)' = status /\ \A u \in Leased \ {m} : StatusOf(u)' = StatusOf(u)
  BY PartOf, FieldNotesAssumption DEF StatusOf, Leased, IInv, TypeOK
<1>2. QED
  BY <1>1, PartOf, OnePhase, PhaseFacts

LEMMA ReportMoves ==
  ASSUME NEW status, report'.status = status, UNCHANGED part
  PROVE  /\ phase' = [phase EXCEPT ![TheReport] = PhaseOf(status)]
         /\ phase[TheReport] = PhaseOf(report.status) /\ TheReport \in Leased
<1>1. /\ TheReport \in Leased /\ StatusOf(TheReport)' = status /\ StatusOf(TheReport) = report.status
      /\ \A u \in Leased \ {TheReport} : StatusOf(u)' = StatusOf(u)
  BY DEF StatusOf, Leased
<1>2. QED
  BY <1>1, OnePhase, PhaseFacts

\* A claim takes a new lease, and a transcript that is stored is never claimed again.
LEMMA ClaimPartClaims ==
  ASSUME IInv, NEW w \in Workers, NEW m \in Audio, ClaimPart(w, m)
  PROVE  Calls!Claim(m) \/ UNCHANGED Calls!leasedVars
<1>1. CASE part[m] = "succeeded"
  BY <1>1, Unseen DEF ClaimPart, reportVars, leaseVars
<1>2. CASE part[m] # "succeeded"
  <2>1. /\ part' = [part EXCEPT ![m] = "in_progress"] /\ lease' = [lease EXCEPT ![m] = @ + 1]
        /\ UNCHANGED report /\ UNCHANGED stored
    BY <1>2 DEF ClaimPart, reportVars
  <2>2. phase' = [phase EXCEPT ![m] = "leased"] /\ phase[m] = PhaseOf(part[m])
    <3>1. phase' = [phase EXCEPT ![m] = PhaseOf("in_progress")] /\ phase[m] = PhaseOf(part[m])
      BY <2>1, PartMoves
    <3>2. QED
      BY <3>1, Phases
  <2>3. part[m] \in {"none", "pending", "in_progress", "failed"}
    BY <1>2, PartOf DEF IInv, TypeOK, PartStatuses
  <2>4. phase[m] # "done"
    BY <2>2, <2>3, Phases
  <2>5. QED
    BY <2>1, <2>2, <2>4 DEF Calls!Claim
<1>3. QED
  BY <1>1, <1>2

\* A transcript is stored under the newest lease, or the lease was lost.
LEMMA RecordTranscriptStores ==
  ASSUME IInv, NEW w \in Workers, RecordTranscript(w) \/ TranscriptionFails(w)
  PROVE  \/ \E m \in Audio : Calls!Store(m) \/ Calls!Fail(m)
         \/ UNCHANGED Calls!leasedVars
<1> DEFINE m == work[w].cmd.of
<1>1. m \in Audio /\ UNCHANGED report /\ lease' = lease
  <2>1. work[w].stage = "transcribing"
    BY DEF RecordTranscript, TranscriptionFails, Doing
  <2>2. QED
    BY <2>1, WorkerFacts DEF HoldsFit, RecordTranscript, TranscriptionFails, reportVars, leaseVars
<1>2. CASE ~PartFenced(w, m)
  <2>1. UNCHANGED <<part, report, leaseVars>>
    BY <1>1, <1>2 DEF RecordTranscript, TranscriptionFails, leaseVars
  <2>2. QED
    BY <2>1, Unseen
<1>3. CASE PartFenced(w, m) /\ RecordTranscript(w)
  <2>1. /\ part' = [part EXCEPT ![m] = "succeeded"] /\ stored' = [stored EXCEPT ![m] = lease[m]]
        /\ part[m] = "in_progress"
    BY <1>3 DEF RecordTranscript, PartFenced
  <2>2. phase' = [phase EXCEPT ![m] = "done"] /\ phase[m] = "leased"
    <3>1. phase' = [phase EXCEPT ![m] = PhaseOf("succeeded")] /\ phase[m] = PhaseOf(part[m])
      <4> HIDE DEF m
      <4>1. QED
        BY <1>1, <2>1, PartMoves
    <3>2. QED
      BY <2>1, <3>1, Phases
  <2>3. QED
    BY <1>1, <2>1, <2>2 DEF Calls!Store
<1>4. CASE PartFenced(w, m) /\ TranscriptionFails(w)
  <2>1. /\ part' = [part EXCEPT ![m] = "failed"] /\ UNCHANGED <<lease, stored>>
        /\ part[m] = "in_progress"
    BY <1>4 DEF TranscriptionFails, PartFenced, leaseVars
  <2>2. phase' = [phase EXCEPT ![m] = "failed"] /\ phase[m] = "leased"
    <3>1. phase' = [phase EXCEPT ![m] = PhaseOf("failed")] /\ phase[m] = PhaseOf(part[m])
      <4> HIDE DEF m
      <4>1. QED
        BY <1>1, <2>1, PartMoves
    <3>2. QED
      BY <2>1, <3>1, Phases
  <2>3. QED
    BY <1>1, <2>1, <2>2 DEF Calls!Fail
<1>5. QED
  BY <1>2, <1>3, <1>4

\* The report likewise, but that it is written again for another source.
LEMMA ReportIsLeased ==
  ASSUME IInv, NEW w \in Workers, ClaimReport(w) \/ CompleteReport(w) \/ GenerationFails(w)
  PROVE  \/ Calls!Claim(TheReport) \/ Calls!Store(TheReport) \/ Calls!Fail(TheReport)
         \/ UNCHANGED Calls!leasedVars
<1>1. UNCHANGED part
  BY DEF ClaimReport, CompleteReport, GenerationFails
<1>2. TheReport \notin Audio
  BY FieldNotesAssumption
<1>3. CASE ClaimReport(w)
  <2>1. CASE UNCHANGED <<report, lease>>
    BY <1>1, <1>3, <2>1, Unseen DEF ClaimReport, leaseVars
  <2>2. CASE /\ report' = [status |-> "generating", source |-> work[w].source]
             /\ lease' = [lease EXCEPT ![TheReport] = @ + 1]
    <3>1. report'.status = "generating" /\ UNCHANGED stored
      BY <1>3, <2>2 DEF ClaimReport
    <3>2. phase' = [phase EXCEPT ![TheReport] = "leased"]
      BY <1>1, <3>1, ReportMoves, Phases
    <3>3. QED
      BY <1>2, <2>2, <3>1, <3>2 DEF Calls!Claim
  <2>3. QED
    BY <1>3, <2>1, <2>2 DEF ClaimReport
<1>4. CASE ~ReportFenced(w) /\ (CompleteReport(w) \/ GenerationFails(w))
  <2>1. UNCHANGED <<report, leaseVars>>
    BY <1>4 DEF CompleteReport, GenerationFails, FailedReport, reportVars, leaseVars
  <2>2. QED
    BY <1>1, <2>1, Unseen
<1>5. CASE ReportFenced(w) /\ CompleteReport(w)
  <2>1. /\ report'.status = "completed" /\ stored' = [stored EXCEPT ![TheReport] = lease[TheReport]]
        /\ UNCHANGED lease /\ report.status = "generating"
    BY <1>5 DEF CompleteReport, ReportFenced, IInv, TypeOK
  <2>2. phase' = [phase EXCEPT ![TheReport] = "done"] /\ phase[TheReport] = "leased"
    BY <1>1, <2>1, ReportMoves, Phases
  <2>3. QED
    BY <2>1, <2>2 DEF Calls!Store
<1>6. CASE ReportFenced(w) /\ GenerationFails(w)
  <2>1. /\ report'.status = "failed" /\ UNCHANGED <<lease, stored>> /\ report.status = "generating"
    BY <1>6 DEF GenerationFails, FailedReport, ReportFenced, leaseVars, IInv, TypeOK
  <2>2. phase' = [phase EXCEPT ![TheReport] = "failed"] /\ phase[TheReport] = "leased"
    BY <1>1, <2>1, ReportMoves, Phases
  <2>3. QED
    BY <2>1, <2>2 DEF Calls!Fail
<1>7. QED
  BY <1>3, <1>4, <1>5, <1>6

\* Every other step is unseen.
LEMMA OtherSteps ==
  ASSUME IInv, UNCHANGED <<part, reportVars, leaseVars>>
  PROVE  UNCHANGED Calls!leasedVars
  BY Unseen DEF reportVars

LEMMA HandleMessageUnseen ==
  ASSUME IInv, NEW m \in Messages, HandleMessage(m)
  PROVE  UNCHANGED Calls!leasedVars
<1>1. part[m] = "none" /\ UNCHANGED <<reportVars, leaseVars>>
  BY DEF HandleMessage, Handled, IInv, PartIsHandled
<1>2. part' = part \/ part' = [part EXCEPT ![m] = NewPart(m)]
  BY DEF HandleMessage, RecordIntake
<1>3. \A n \in Audio : part'[n] = part[n] \/ (part[n] = "none" /\ part'[n] = "pending")
  BY <1>1, <1>2, FieldNotesAssumption DEF NewPart, IInv, TypeOK
<1>4. QED
  BY <1>1, <1>3, Unseen DEF reportVars

\* The case implements the leased calls: a worker that was overtaken stores nothing, and
\* a transcript is never replaced.
THEOREM LeasedCallImplemented == Spec => ImplementsLeasedCall
<1>1. Init => Calls!Init
  <2> SUFFICES ASSUME Init PROVE Calls!Init
    OBVIOUS
  <2>1. \A t \in Leased : StatusOf(t) = "none"
    BY FieldNotesAssumption DEF Init, StatusOf, Leased
  <2>2. phase = [t \in Leased |-> "open"]
    <3>1. phase = [u \in Leased |-> PhaseOf(StatusOf(u))]
      BY DEF phase, StatusOf
    <3>2. QED
      BY <2>1, <3>1, Phases
  <2>3. QED
    BY <2>2 DEF Init, Calls!Init
<1>2. IInv /\ [Next]_vars => [Calls!Next]_(Calls!leasedVars)
  <2> SUFFICES ASSUME IInv, [Next]_vars
               PROVE  [Calls!Next]_(Calls!leasedVars)
    OBVIOUS
  <2>1. Audio \subseteq Leased /\ TheReport \in Leased
    BY DEF Leased
  <2>2. CASE Owner
    BY <2>2, HandleMessageUnseen, OtherSteps DEF Owner, Approve, RequestEmail
  <2>3. ASSUME NEW w \in Workers, Transcribe(w)
        PROVE  [Calls!Next]_(Calls!leasedVars)
    BY <2>1, <2>3, ClaimPartClaims, RecordTranscriptStores, OtherSteps
    DEF Transcribe, RequestReview, Calls!Next
  <2>4. ASSUME NEW w \in Workers, CoordinateReview(w)
        PROVE  UNCHANGED Calls!leasedVars
    BY <2>4, OtherSteps
    DEF CoordinateReview, BeginReview, RecordReply, StartReview, ReadAnswers, EndRound, Ask,
        RequestReport
  <2>5. ASSUME NEW w \in Workers, Report(w)
        PROVE  [Calls!Next]_(Calls!leasedVars)
    BY <2>1, <2>5, ReportIsLeased, OtherSteps
    DEF Report, BuildSnapshot, DeliverReport, Publish, EmailReport, Calls!Next
  <2>6. ASSUME NEW w \in Workers, Crash(w) \/ OutliveLease(w)
        PROVE  UNCHANGED Calls!leasedVars
    BY <2>6, OtherSteps DEF Crash, OutliveLease
  <2>7. CASE UNCHANGED vars
    BY <2>7, OtherSteps DEF vars
  <2>8. QED
    BY <2>2, <2>3, <2>4, <2>5, <2>6, <2>7 DEF Next
<1>3. QED
  BY <1>1, <1>2, Invariance, PTL DEF Spec, Calls!Spec, ImplementsLeasedCall
=============================================================================
