----------------------------- MODULE FieldNotes -----------------------------
(***************************************************************************)
(* A field-note case: the owner dictates notes, recordings are transcribed,  *)
(* the transcript is reviewed against a checklist, what is missing is asked  *)
(* for, and a complete review becomes a version of the report, which the     *)
(* owner approves for publication.                                           *)
(*   application/field_notes.py, field_note_transcription.py,                *)
(*   completeness.py, report_generation.py, report_approval.py,              *)
(*   composition/field_note_workflow.py, review.py, snapshots.py,            *)
(*   report_delivery.py, report_publication.py, report_email.py, and their   *)
(*   repositories.                                                           *)
(*                                                                           *)
(* One open case of one conversation.  Every transaction is a step; provider *)
(* calls lie between two of them.  The commands come from the outbox, which  *)
(* repeats one until it is reported done.                                    *)
(***************************************************************************)
EXTENDS Naturals, Sequences, FiniteSets

CONSTANTS
  Messages,     \* what the owner sends into the thread
  Audio,        \* the notes that are recordings
  Replies,      \* the messages without the words that make a note
  Origin,       \* the note that opened the case
  Items,        \* required items of the checklist
  Covers,       \* Covers[m]: the items whose markers are in the text of m
  Evidence,     \* what the evidence annotator may answer
  Workers,
  MaxApprovals, \* bound: approvals the owner sends
  MaxFaults,    \* bound: failed calls, processes that die, leases outlived
  None

TheReport == "report"

ASSUME FieldNotesAssumption ==
  /\ Origin \in Messages \ (Audio \cup Replies)
  /\ Audio \cup Replies \subseteq Messages /\ Audio \cap Replies = {}
  /\ Covers \in [Messages -> SUBSET Items]
  /\ None \notin Messages \cup Items /\ TheReport \notin Messages
  /\ MaxApprovals \in Nat /\ MaxFaults \in Nat

VARIABLES
  part,       \* the part of the case a message became, by transcription status
  reviews,    \* the reviews of the case, by revision
  report,     \* the row of the report
  versions,   \* its completed versions
  lease,      \* the newest lease on a recording or on the report
  stored,     \* the lease under which the last result was stored
  queue,      \* commands that wait for a worker
  known,      \* commands that were ever put on the outbox
  work,       \* what each worker is doing
  approved,   \* versions the owner approved, by approval
  published,  \* versions posted as a document
  emailed,    \* versions sent to an address the owner typed
  faults      \* the consumed part of the bound

reportVars == <<report, versions>>
leaseVars == <<lease, stored>>
queueVars == <<queue, known>>
threadVars == <<approved, published, emailed>>
vars == <<part, reviews, reportVars, leaseVars, queueVars, work, threadVars, faults>>

Leased == Audio \cup {TheReport}

Command(type, of) == [type |-> type, of |-> of]
Commands ==
  {Command(t, m) : t \in {"transcribe", "intake", "reply", "transcribed"}, m \in Messages}
  \cup [type : {"report", "publish", "email"}, of : Nat]
IsReview(c) == c.type \in {"intake", "reply", "transcribed"}

Questions == [round : Nat, item : Items, status : {"pending", "asked", "answered"}]
Answers == [round : Nat, item : Items, by : Messages]
Reviews == [text : SUBSET Messages, complete : BOOLEAN, round : Nat,
            questions : SUBSET Questions, answers : SUBSET Answers]
Sources == [review : Nat, answers : SUBSET Answers, evidence : Evidence]
NoSource == [review |-> 0, answers |-> {}, evidence |-> None]

Stages == {"idle", "transcribing", "transcribed", "reply", "start", "answers", "judge",
           "ask", "request", "claim", "generating", "deliver"}
\* late: the worker has outlived its leases, on the command and on what it
\* works on.
Jobs == [stage : Stages, cmd : Commands \cup {None}, late : BOOLEAN, text : SUBSET Messages,
         review : Nat, questions : SUBSET Questions, answers : SUBSET Answers,
         token : Nat, source : Sources \cup {NoSource}, version : Nat]
Idle == [stage |-> "idle", cmd |-> None, late |-> FALSE, text |-> {},
         review |-> 0, questions |-> {}, answers |-> {},
         token |-> 0, source |-> NoSource, version |-> 0]
Job(stage, c, late) == [Idle EXCEPT !.stage = stage, !.cmd = c, !.late = late]

\* validate_field_note_part_values: a text is never transcribed, a recording is
\* in one of the states of its transcription.
PartStatuses(m) ==
  {"none"} \cup IF m \in Audio THEN {"pending", "in_progress", "failed", "succeeded"}
                ELSE {"text"}

TypeOK ==
  /\ DOMAIN part = Messages /\ \A m \in Messages : part[m] \in PartStatuses(m)
  /\ reviews \in Seq(Reviews)
  /\ report \in [status : {"none", "generating", "completed", "failed"},
                 source : Sources \cup {NoSource}]
  /\ versions \in Seq(Sources)
  /\ lease \in [Leased -> Nat] /\ stored \in [Leased -> Nat]
  /\ queue \subseteq known /\ known \subseteq Commands
  /\ work \in [Workers -> Jobs]
  /\ approved \in Seq(DOMAIN versions)
  /\ published \cup emailed \subseteq DOMAIN versions
  /\ faults \in Nat

Init ==
  /\ part = [m \in Messages |-> "none"]
  /\ reviews = <<>>
  /\ report = [status |-> "none", source |-> NoSource]
  /\ versions = <<>>
  /\ lease = [t \in Leased |-> 0] /\ stored = [t \in Leased |-> 0]
  /\ queue = {} /\ known = {}
  /\ work = [w \in Workers |-> Idle]
  /\ approved = <<>> /\ published = {} /\ emailed = {}
  /\ faults = 0

-----------------------------------------------------------------------------
(***************************************************************************)
(* The outbox, as far as the case sees it.                                  *)
(***************************************************************************)

\* The identity of a command is derived from what it is about: it is put on
\* the outbox once.
Enqueue(cs) ==
  /\ queue' = queue \cup (cs \ known)
  /\ known' = known \cup cs

Doing(w, stage) == work[w].stage = stage
Becomes(w, job) == work' = [work EXCEPT ![w] = job]
Proceed(w, stage) == work' = [work EXCEPT ![w].stage = stage]
Done(w) == Becomes(w, Idle)

\* The handler raised: the command is due again, unless another worker has
\* claimed it since.
Raise(w) ==
  /\ queue' = IF work[w].late THEN queue ELSE queue \cup {work[w].cmd}
  /\ Done(w)
  /\ UNCHANGED known

Take(w, c) ==
  /\ Doing(w, "idle")
  /\ c \in queue
  /\ queue' = queue \ {c}
  /\ UNCHANGED known

\* A lease that is neither finished nor outlived.
Held(t) ==
  \E w \in Workers :
    /\ ~work[w].late
    /\ \/ t = TheReport /\ Doing(w, "generating")
       \/ t # TheReport /\ Doing(w, "transcribing") /\ work[w].cmd.of = t

-----------------------------------------------------------------------------
(***************************************************************************)
(* The owner, and the processing of his messages.  The handler commits the  *)
(* part in a transaction of its own and its commands are stored with the    *)
(* result later: one step here, for the workers tell a command that is not  *)
(* stored yet from one that waits by nothing.  A message that is processed  *)
(* again finds its part.                                                    *)
(***************************************************************************)

ActiveReview == {r \in DOMAIN reviews : ~reviews[r].complete}
QuestionsOf(r) == reviews[r].questions
AnswersOf(r) == reviews[r].answers
Asked(r) == {q \in QuestionsOf(r) : q.status = "asked"}

\* _answer_result: a message without the words of a note is an answer when
\* exactly one question is out.
IsAnswer(m) ==
  m \in Replies /\ \E r \in ActiveReview : Cardinality(Asked(r)) = 1

Handled(m) == {Command("intake", m), Command("reply", m)} \cap known # {}

\* The case is the active one of its conversation once its note was handled.
CaseIsActive == Handled(Origin)

NewPart(m) == IF m \in Audio THEN "pending" ELSE "text"

\* record_intake: the part, and the commands for what is to be done with it.
RecordIntake(m) ==
  /\ part' = [part EXCEPT ![m] = NewPart(m)]
  /\ Enqueue({Command("intake", m)} \cup {Command("transcribe", a) : a \in {m} \cap Audio})

\* FieldNoteWorkflowHandler.handle: a note, or an answer to be routed.
HandleMessage(m) ==
  /\ ~Handled(m)
  /\ CaseIsActive \/ m = Origin
  /\ IF IsAnswer(m)
     THEN /\ Enqueue({Command("reply", m)})
          /\ UNCHANGED part
     ELSE RecordIntake(m)
  /\ UNCHANGED <<reviews, reportVars, leaseVars, work, threadVars, faults>>

-----------------------------------------------------------------------------
(***************************************************************************)
(* TranscribeFieldNoteAudioService.                                         *)
(***************************************************************************)

\* claim.  A busy part raises, and the command is due again.
ClaimPart(w, m) ==
  /\ Take(w, Command("transcribe", m))
  /\ IF part[m] = "succeeded"
     THEN /\ Becomes(w, Job("transcribed", Command("transcribe", m), FALSE))
          /\ UNCHANGED <<part, lease>>
     ELSE /\ ~Held(m)
          /\ part' = [part EXCEPT ![m] = "in_progress"]
          /\ lease' = [lease EXCEPT ![m] = @ + 1]
          /\ Becomes(w, [Job("transcribing", Command("transcribe", m), FALSE)
                         EXCEPT !.token = lease[m] + 1])
  /\ UNCHANGED <<reviews, reportVars, stored, threadVars, faults>>

\* Whoever works on the part may store its transcript (mutant).
PartFencedByStatus(w, m) == part[m] = "in_progress"

\* _lease_filter.
PartFenced(w, m) == part[m] = "in_progress" /\ lease[m] = work[w].token

\* record_success, or LostTranscriptionLeaseError.
RecordTranscript(w) ==
  LET m == work[w].cmd.of IN
  /\ Doing(w, "transcribing")
  /\ IF PartFenced(w, m)
     THEN /\ part' = [part EXCEPT ![m] = "succeeded"]
          /\ stored' = [stored EXCEPT ![m] = work[w].token]
          /\ Becomes(w, Job("transcribed", work[w].cmd, work[w].late))
          /\ UNCHANGED queueVars
     ELSE /\ Raise(w)
          /\ UNCHANGED <<part, stored>>
  /\ UNCHANGED <<reviews, reportVars, lease, threadVars, faults>>

\* The provider failed: record_failure, and the command is tried again.
TranscriptionFails(w) ==
  LET m == work[w].cmd.of IN
  /\ Doing(w, "transcribing")
  /\ faults < MaxFaults
  /\ faults' = faults + 1
  /\ part' = IF PartFenced(w, m) THEN [part EXCEPT ![m] = "failed"] ELSE part
  /\ Raise(w)
  /\ UNCHANGED <<reviews, reportVars, leaseVars, threadVars>>

\* The command of the review that follows is a transaction of its own.
RequestReview(w) ==
  /\ Doing(w, "transcribed")
  /\ Enqueue({Command("transcribed", work[w].cmd.of)})
  /\ Done(w)
  /\ UNCHANGED <<part, reviews, reportVars, leaseVars, threadVars, faults>>

-----------------------------------------------------------------------------
(***************************************************************************)
(* CoordinateFieldNoteReviewService, with FieldNoteCompletenessService.     *)
(***************************************************************************)

\* build_canonical_transcript: which notes the transcript consists of.
Transcript == {m \in Messages : part[m] \in {"text", "succeeded"}}
TranscriptComplete == \A m \in Messages : part[m] \notin {"pending", "in_progress", "failed"}

\* The review waits while a recording is untranscribed: the command is done.
BeginReview(w, c) ==
  /\ IsReview(c)
  /\ Take(w, c)
  /\ Becomes(w, IF ~TranscriptComplete THEN Idle
                ELSE [Job(IF c.type = "reply" THEN "reply" ELSE "start", c, FALSE)
                      EXCEPT !.text = Transcript])
  /\ UNCHANGED <<part, reviews, reportVars, leaseVars, threadVars, faults>>

Outstanding(questions) == {q \in questions : q.status # "answered"}

\* What a review is taken up with: questions that are out, or a round.
TakeUp(w, r, questions) ==
  Becomes(w, IF Outstanding(questions) # {}
             THEN [work[w] EXCEPT !.stage = "ask", !.review = r, !.text = {},
                                  !.questions = Outstanding(questions)]
             ELSE [work[w] EXCEPT !.stage = "answers", !.review = r, !.text = {}])

Answer(q, m) == [round |-> q.round, item |-> q.item, by |-> m]
WithStatus(q, status) == [q EXCEPT !.status = status]
Restated(questions, q, status) == (questions \ {q}) \cup {WithStatus(q, status)}

HasAnswered(m, r) == \E a \in AnswersOf(r) : a.by = m

\* record_owner_reply.  Only a single question that is out can be answered; a
\* message that has answered already resumes; otherwise the reply is ignored.
RecordReply(w) ==
  LET m == work[w].cmd.of IN
  /\ Doing(w, "reply")
  /\ \/ /\ ActiveReview = {}
        /\ Proceed(w, "start")
        /\ UNCHANGED reviews
     \/ \E r \in ActiveReview :
          LET qs == QuestionsOf(r) IN
          IF HasAnswered(m, r)
          THEN TakeUp(w, r, qs) /\ UNCHANGED reviews
          ELSE IF Cardinality(Asked(r)) # 1
          THEN Done(w) /\ UNCHANGED reviews
          ELSE \E q \in Asked(r) :
                 /\ reviews' = [reviews EXCEPT
                      ![r].questions = Restated(@, q, "answered"),
                      ![r].answers = @ \cup {Answer(q, m)}]
                 /\ TakeUp(w, r, Restated(qs, q, "answered"))
  /\ UNCHANGED <<part, reportVars, leaseVars, queueVars, threadVars, faults>>

NewReview(text) == [text |-> text, complete |-> FALSE, round |-> 0,
                    questions |-> {}, answers |-> {}]

SameReview(text) == {r \in DOMAIN reviews : reviews[r].text = text}

\* start_review: the review of this transcript, else the one that is not
\* complete, else a new revision.
StartReview(w) ==
  LET text == work[w].text
      same == SameReview(text)
      resume(r) == IF reviews[r].complete
                   THEN Becomes(w, [work[w] EXCEPT !.stage = "request", !.review = r, !.text = {}])
                   ELSE TakeUp(w, r, QuestionsOf(r)) IN
  /\ Doing(w, "start")
  /\ \/ \E r \in same : resume(r) /\ UNCHANGED reviews
     \/ /\ same = {}
        /\ \E r \in ActiveReview : resume(r) /\ UNCHANGED reviews
     \/ /\ same = {} /\ ActiveReview = {}
        /\ reviews' = Append(reviews, NewReview(text))
        /\ TakeUp(w, Len(reviews) + 1, {})
  /\ UNCHANGED <<part, reportVars, leaseVars, queueVars, threadVars, faults>>

\* _run_round reads the answers, and asks the provider without a transaction.
ReadAnswers(w) ==
  /\ Doing(w, "answers")
  /\ work' = [work EXCEPT ![w].stage = "judge", ![w].answers = AnswersOf(work[w].review)]
  /\ UNCHANGED <<part, reviews, reportVars, leaseVars, queueVars, threadVars, faults>>

\* A question that is out counts as an answer (mutant).
VerdictsWithAsked(text, answers) ==
  LET missing == Items \ ((UNION {Covers[m] : m \in text}) \cup
        UNION {{q.item : q \in Asked(r)} : r \in DOMAIN reviews})
  IN {missing}

MissingItems(text, answers) ==
  Items \ ({a.item : a \in answers} \cup UNION {Covers[m] : m \in text})

\* The items the provider may report: what is missing or, when nothing is, one
\* contradiction on an item the owner has not answered.
Verdicts(text, answers) ==
  LET missing == MissingItems(text, answers) IN
  IF missing # {} THEN {missing} ELSE {{}} \cup {{i} : i \in Items \ {a.item : a \in answers}}

Completed(review) == [review EXCEPT !.complete = TRUE]

\* The next round of questions; those of a round are made once.
Round(review, items) ==
  LET round == IF review.complete THEN review.round ELSE review.round + 1
      new == {i \in items : \A q \in review.questions : q.round # round \/ q.item # i}
  IN [review EXCEPT !.round = round,
        !.questions = @ \cup [round : {round}, item : new, status : {"pending"}]]

EndRound(w) ==
  LET r == work[w].review
      review == reviews[r] IN
  /\ Doing(w, "judge")
  /\ \E items \in Verdicts(review.text, work[w].answers) :
       \/ /\ items = {}
          /\ reviews' = [reviews EXCEPT ![r] = Completed(@)]
          /\ Becomes(w, [work[w] EXCEPT !.stage = "request", !.answers = {}])
          /\ UNCHANGED queueVars
       \/ /\ items # {}
          /\ Round(review, items).round > 0
          /\ reviews' = [reviews EXCEPT ![r] = Round(@, items)]
          /\ Becomes(w, [work[w] EXCEPT !.stage = "ask", !.answers = {},
               !.questions = Outstanding({q \in Round(review, items).questions :
                                 q.round = Round(review, items).round /\ q.item \in items})])
          /\ UNCHANGED queueVars
       \/ /\ items # {}
          /\ Round(review, items).round = 0
          /\ Raise(w)
          /\ UNCHANGED reviews
  /\ UNCHANGED <<part, reportVars, leaseVars, threadVars, faults>>

\* _enqueue_questions: the first question that waits, unless one is out.
Ask(w) ==
  LET r == work[w].review
      waiting == {q \in work[w].questions : q.status = "pending"} IN
  /\ Doing(w, "ask")
  /\ \/ /\ waiting = {} \/ \E q \in work[w].questions : q.status = "asked"
        /\ UNCHANGED reviews
     \/ /\ \A q \in work[w].questions : q.status = "pending"
        /\ \E q \in waiting :
             /\ \A p \in waiting : q.round <= p.round
             /\ reviews' = [reviews EXCEPT ![r].questions =
                              IF q \in @ THEN Restated(@, q, "asked") ELSE @]
  /\ Done(w)
  /\ UNCHANGED <<part, reportVars, leaseVars, queueVars, threadVars, faults>>

\* The report is requested in a transaction of its own.
RequestReport(w) ==
  /\ Doing(w, "request")
  /\ Enqueue({Command("report", work[w].review)})
  /\ Done(w)
  /\ UNCHANGED <<part, reviews, reportVars, leaseVars, threadVars, faults>>

-----------------------------------------------------------------------------
(***************************************************************************)
(* GenerateFieldNotesReportService and what follows it.                     *)
(***************************************************************************)

\* validate_correlations: at most one answer to an item.
Correlated(answers) == \A a, b \in answers : a.item = b.item => a = b

\* The snapshot of a completed review.
BuildSnapshot(w, r) ==
  /\ Take(w, Command("report", r))
  /\ reviews[r].complete
  /\ Correlated(AnswersOf(r))
  /\ \E e \in Evidence :
       Becomes(w, [Job("claim", Command("report", r), FALSE) EXCEPT
         !.source = [review |-> r, answers |-> AnswersOf(r), evidence |-> e]])
  /\ UNCHANGED <<part, reviews, reportVars, leaseVars, threadVars, faults>>

\* What was already written from this source.
VersionsOf(source) == {v \in DOMAIN versions : versions[v] = source}

\* claim: a version of this source is delivered (again), a busy report raises.
ClaimReport(w) ==
  LET source == work[w].source
      same == VersionsOf(source) IN
  /\ Doing(w, "claim")
  /\ \/ /\ same # {}
        /\ \E v \in same :
             Becomes(w, [Job("deliver", work[w].cmd, work[w].late) EXCEPT !.version = v])
        /\ UNCHANGED <<report, lease, queueVars>>
     \/ /\ same = {} /\ Held(TheReport)
        /\ Raise(w)
        /\ UNCHANGED <<report, lease>>
     \/ /\ same = {} /\ ~Held(TheReport)
        /\ report' = [status |-> "generating", source |-> source]
        /\ lease' = [lease EXCEPT ![TheReport] = @ + 1]
        /\ Becomes(w, [work[w] EXCEPT !.stage = "generating", !.token = lease[TheReport] + 1,
                                      !.version = Len(versions) + 1])
        /\ UNCHANGED queueVars
  /\ UNCHANGED <<part, reviews, versions, stored, threadVars, faults>>

\* _lease_filter.
ReportFenced(w) ==
  /\ report.status = "generating"
  /\ report.source = work[w].source
  /\ lease[TheReport] = work[w].token

\* complete, or LostReportLeaseError.
CompleteReport(w) ==
  /\ Doing(w, "generating")
  /\ IF ReportFenced(w)
     THEN /\ report' = [report EXCEPT !.status = "completed"]
          /\ versions' = Append(versions, work[w].source)
          /\ stored' = [stored EXCEPT ![TheReport] = work[w].token]
          /\ Becomes(w, [Job("deliver", work[w].cmd, work[w].late)
                         EXCEPT !.version = work[w].version])
          /\ UNCHANGED queueVars
     ELSE /\ Raise(w)
          /\ UNCHANGED <<reportVars, stored>>
  /\ UNCHANGED <<part, reviews, lease, threadVars, faults>>

\* fail, by the worker that still holds the lease.
FailedReport(w) == IF ReportFenced(w) THEN [report EXCEPT !.status = "failed"] ELSE report

\* The provider fails, or the document it returns does not keep to the template
\* or to the evidence.
GenerationFails(w) ==
  /\ Doing(w, "generating")
  /\ faults < MaxFaults
  /\ faults' = faults + 1
  /\ report' = FailedReport(w)
  /\ Raise(w)
  /\ UNCHANGED <<part, reviews, versions, leaseVars, threadVars>>

\* The text of the version is put into the thread: ReplyDelivery.
DeliverReport(w) ==
  /\ Doing(w, "deliver")
  /\ Done(w)
  /\ UNCHANGED <<part, reviews, reportVars, leaseVars, queueVars, threadVars, faults>>

\* get_completed: the current version, unless the next one is being written.
CurrentIsCompleted == report.status = "completed"

\* The commands carry the approval and the version, as they are at the time.
PublishCommand(k) == Command("publish", k)
EmailCommand(v) == Command("email", v)

\* ApproveFieldNoteReportHandler: the current version, if none is being written.
Approve ==
  /\ Len(approved) < MaxApprovals
  /\ CurrentIsCompleted
  /\ approved' = Append(approved, Len(versions))
  /\ Enqueue({PublishCommand(Len(approved) + 1)})
  /\ UNCHANGED <<part, reviews, reportVars, leaseVars, work, published, emailed, faults>>

\* The newest version, not the one that was approved (mutant).
NewestVersion(k) == Len(versions)

\* What approval k pinned.
ApprovedVersion(k) == approved[k]

\* PublishFieldNotesReportService: the document, once per version.
Publish(w, k) ==
  /\ Take(w, PublishCommand(k))
  /\ published' = published \cup {ApprovedVersion(k)}
  /\ UNCHANGED <<part, reviews, reportVars, leaseVars, work, approved, emailed, faults>>

\* SendFieldNoteReportHandler: the current version, once it is published.
RequestEmail ==
  /\ CurrentIsCompleted
  /\ Len(versions) \in published
  /\ Enqueue({EmailCommand(Len(versions))})
  /\ UNCHANGED <<part, reviews, reportVars, leaseVars, work, threadVars, faults>>

\* EmailFieldNotesReportService: the version of the command, once per request.
EmailReport(w, v) ==
  /\ Take(w, EmailCommand(v))
  /\ emailed' = emailed \cup {v}
  /\ UNCHANGED <<part, reviews, reportVars, leaseVars, work, approved, published, faults>>

-----------------------------------------------------------------------------
\* The process dies: its command is claimed again once the lease has ended.
Crash(w) ==
  /\ ~Doing(w, "idle")
  /\ faults < MaxFaults
  /\ faults' = faults + 1
  /\ Raise(w)
  /\ UNCHANGED <<part, reviews, reportVars, leaseVars, threadVars>>

\* The leases end while the process is at work: another may claim the command.
OutliveLease(w) ==
  /\ ~Doing(w, "idle") /\ ~work[w].late
  /\ faults < MaxFaults
  /\ faults' = faults + 1
  /\ work' = [work EXCEPT ![w].late = TRUE]
  /\ queue' = queue \cup {work[w].cmd}
  /\ UNCHANGED <<known, part, reviews, reportVars, leaseVars, threadVars>>

Owner ==
  \/ \E m \in Messages : HandleMessage(m)
  \/ Approve \/ RequestEmail

Transcribe(w) ==
  \/ \E m \in Audio : ClaimPart(w, m)
  \/ RecordTranscript(w) \/ TranscriptionFails(w) \/ RequestReview(w)

CoordinateReview(w) ==
  \/ \E c \in queue : BeginReview(w, c)
  \/ RecordReply(w) \/ StartReview(w) \/ ReadAnswers(w) \/ EndRound(w)
  \/ Ask(w) \/ RequestReport(w)

Report(w) ==
  \/ \E r \in DOMAIN reviews : BuildSnapshot(w, r)
  \/ ClaimReport(w) \/ CompleteReport(w) \/ GenerationFails(w) \/ DeliverReport(w)
  \/ \E k \in DOMAIN approved : Publish(w, k)
  \/ \E v \in DOMAIN versions : EmailReport(w, v)

Next ==
  \/ Owner
  \/ \E w \in Workers :
       Transcribe(w) \/ CoordinateReview(w) \/ Report(w) \/ Crash(w) \/ OutliveLease(w)

Spec == Init /\ [][Next]_vars

-----------------------------------------------------------------------------
(***************************************************************************)
(* Properties.                                                             *)
(***************************************************************************)

PhaseOf(status) ==
  CASE status \in {"none", "pending"} -> "open"
    [] status \in {"in_progress", "generating"} -> "leased"
    [] status \in {"succeeded", "completed"} -> "done"
    [] status = "failed" -> "failed"

phase == [t \in Leased |-> PhaseOf(IF t = TheReport THEN report.status ELSE part[t])]

Calls == INSTANCE LeasedCall WITH
           Things <- Leased, Settled <- Audio,
           phase <- phase, lease <- lease, stored <- stored

\* A transcript or a report is stored by the worker that holds the newest
\* lease; a worker that was overtaken stores nothing, and a transcript is never
\* replaced.
ImplementsLeasedCall == Calls!Spec

\* A version of the report leaves no required item open: what the notes of its
\* review do not cover was answered in a round that its review waited for.
ReportCoversChecklist ==
  \A v \in DOMAIN versions :
    Items = (UNION {Covers[m] : m \in reviews[versions[v].review].text})
              \cup {a.item : a \in versions[v].answers}

\* A document goes out, into the thread or by e-mail, for a version the owner
\* approved, also when a newer one was written before the command was handled.
PublishedWasApproved ==
  \A v \in published \cup emailed : \E k \in DOMAIN approved : approved[k] = v
=============================================================================
