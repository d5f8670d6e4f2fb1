------------------------------ MODULE Attempts ------------------------------
(***************************************************************************)
(* A student's examination attempt: start, save, submit, view              *)
(* (apps/api/src/attempts/attempts.service.ts) over the tables of          *)
(* packages/database/src/schema/attempts.ts.                               *)
(*                                                                         *)
(* Grain.  One database statement or transaction is one step; a request    *)
(* that reads first and writes later carries what it read, and every other *)
(* request, teacher and the clock may move in between.  saveResponse is    *)
(* one step: it holds the attempt's row lock from its read to its write.   *)
(* The teacher's side (assessment rows, their question links, the question *)
(* bank) is an environment that may change to any admitted row at any      *)
(* time.  An answer is a member of Answers and a question's key is the     *)
(* answer that grades as correct; a key outside Answers stands for the     *)
(* formats gradeAnswer never grades.                                       *)
(***************************************************************************)
EXTENDS Integers, FiniteSets, FiniteSetsExt

CONSTANTS
  Students, Assessments, Questions, Answers,
  Banks,          \* admitted question banks: the answer key of each question
  AttemptIds,     \* bound: attempts rows ever created
  Requests,       \* concurrent API requests
  AssessmentRows, \* admitted assessment rows, with their question links
  MaxTime,        \* bound: the clock
  Null

Statuses == {"IN_PROGRESS", "SUBMITTED", "EXPIRED"}

\* An assessment row: links maps each linked question to its marks.
IsAssessmentRow(r) ==
  /\ DOMAIN r = {"status", "links", "duration", "startsAt", "endsAt"}
  /\ r.status \in {"DRAFT", "PUBLISHED", "ACTIVE", "COMPLETED"}
  /\ DOMAIN r.links \subseteq Questions
  /\ r.links \in [DOMAIN r.links -> Nat]
  /\ r.duration \in Nat \cup {Null}
  /\ r.startsAt \in Nat \cup {Null}
  /\ r.endsAt \in Nat \cup {Null}

ASSUME AttemptsAssumption ==
  /\ MaxTime \in Nat
  /\ Null \notin Int /\ Null \notin Statuses
  /\ \A r \in AssessmentRows : IsAssessmentRow(r)
  /\ \A keys \in Banks : DOMAIN keys = Questions

VARIABLES
  clock,          \* the API's wall clock
  assessments,    \* assessments joined with assessment_questions
  bank,           \* questions.payload: each question's answer key
  attempts,       \* attempts rows with their attempt_questions and attempt_responses
  requests        \* in-flight API requests and what they have read

vars == <<clock, assessments, bank, attempts, requests>>

-----------------------------------------------------------------------------
(* Attempts.                                                               *)

Exists(a) == a \in DOMAIN attempts
Terminal(status) == status # "IN_PROGRESS"
Overdue(deadline) == deadline # Null /\ clock > deadline

\* What serializeMeta returns of an attempt row.
Meta(row) == [status |-> row.status, submittedAt |-> row.submittedAt, score |-> row.score]

\* gradeAnswer, on the snapshot taken at start.
\* Mutation: grades against the question bank.
CorrectInBank(row) == {q \in DOMAIN row.responses : row.responses[q].answer = bank[q]}
Correct(row) == {q \in DOMAIN row.responses : row.responses[q].answer = row.questions[q].key}
MarksOf(questions, S) == MapThenSumSet(LAMBDA q : questions[q].marks, S)

\* evaluateAttempt: each saved response is awarded its marks or none, then their sum
\* is written; unanswered questions add nothing.
Awarded(row, correct) ==
  [q \in DOMAIN row.responses |->
     [row.responses[q] EXCEPT !.marksAwarded = IF q \in correct THEN row.questions[q].marks ELSE 0]]
Evaluate(row) ==
  [row EXCEPT !.responses = Awarded(row, Correct(row)),
              !.score = MarksOf(row.questions, Correct(row))]

\* The two terminal transitions; each evaluates in the same transaction.
\* Mutation: the score is left to a later evaluation.
SettledUnevaluated(row, status, at) == [row EXCEPT !.status = status, !.submittedAt = at]
Settled(row, status, at) == Evaluate([row EXCEPT !.status = status, !.submittedAt = at])
Expired(row) == Settled(row, "EXPIRED", row.deadline)
Submitted(row) == Settled(row, "SUBMITTED", clock)

\* UPDATE attempts ... WHERE status = 'IN_PROGRESS'.  Mutation: no such condition.
WritableAlways(a) == Exists(a)
Writable(a) == Exists(a) /\ attempts[a].status = "IN_PROGRESS"

-----------------------------------------------------------------------------
(* start.                                                                  *)

Idle == [op |-> "idle"]
NoRows == [x \in {} |-> Null]
Goto(r, next) == requests' = [requests EXCEPT ![r] = next]
End(r) == Goto(r, Idle)

Attemptable(row) ==
  /\ row.status \in {"PUBLISHED", "ACTIVE"}
  /\ row.endsAt # Null => clock <= row.endsAt
  /\ row.startsAt # Null => clock >= row.startsAt

DeadlineOf(row) == IF row.duration \notin {Null, 0} THEN clock + row.duration ELSE row.endsAt

\* The assessment row is read, its status and window are checked at `now'.
StartRead(r, s, as) ==
  /\ requests[r] = Idle
  /\ Attemptable(assessments[as])
  /\ Goto(r, [op |-> "start", stage |-> "existing", student |-> s, assessment |-> as,
              now |-> clock, deadline |-> DeadlineOf(assessments[as]), questions |-> NoRows])
  /\ UNCHANGED <<clock, assessments, bank, attempts>>

OpenFor(s, as) ==
  {a \in DOMAIN attempts : /\ attempts[a].student = s /\ attempts[a].assessment = as
                           /\ attempts[a].status = "IN_PROGRESS"}

\* The friendly pre-check for an attempt in progress (409).
StartCheck(r) ==
  LET q == requests[r] IN
  /\ q.op = "start" /\ q.stage = "existing"
  /\ IF OpenFor(q.student, q.assessment) = {}
     THEN Goto(r, [q EXCEPT !.stage = "links"])
     ELSE End(r)
  /\ UNCHANGED <<clock, assessments, bank, attempts>>

\* The links joined with the questions' payload; none is a 400.
Linked(as) ==
  LET links == assessments[as].links
  IN [q \in DOMAIN links |-> [marks |-> links[q], key |-> bank[q]]]

StartSnapshot(r) ==
  LET q == requests[r] IN
  /\ q.op = "start" /\ q.stage = "links"
  /\ IF DOMAIN assessments[q.assessment].links = {}
     THEN End(r)
     ELSE Goto(r, [q EXCEPT !.stage = "insert", !.questions = Linked(q.assessment)])
  /\ UNCHANGED <<clock, assessments, bank, attempts>>

NewAttempt(q) ==
  [assessment |-> q.assessment, student |-> q.student, status |-> "IN_PROGRESS",
   startedAt |-> q.now, deadline |-> q.deadline, submittedAt |-> Null, score |-> Null,
   totalMarks |-> MarksOf(q.questions, DOMAIN q.questions),
   questions |-> q.questions, responses |-> NoRows]

\* attempts_one_in_progress_unique.  Mutation: the index does not exist.
AdmittedWithoutIndex(q) == q.op = "start"
Admitted(q) == OpenFor(q.student, q.assessment) = {}

View(a, kind) == [op |-> kind, stage |-> "refresh", attempt |-> a, seen |-> Meta(attempts[a])]

\* The attempt and its snapshot are inserted in one transaction; the index refuses
\* a second open attempt (409).  start then answers with detail().
StartInsert(r) ==
  LET q == requests[r] IN
  /\ q.op = "start" /\ q.stage = "insert"
  /\ IF Admitted(q)
     THEN \E a \in AttemptIds \ DOMAIN attempts :
            /\ attempts' = [b \in DOMAIN attempts \cup {a} |->
                              IF b = a THEN NewAttempt(q) ELSE attempts[b]]
            /\ Goto(r, [op |-> "view", stage |-> "load", attempt |-> a])
     ELSE End(r) /\ UNCHANGED attempts
  /\ UNCHANGED <<clock, assessments, bank>>

-----------------------------------------------------------------------------
(* saveResponse.                                                           *)

Save(a, q, answer) ==
  [attempts[a] EXCEPT !.responses =
     [p \in DOMAIN @ \cup {q} |->
        IF p = q THEN [answer |-> answer, savedAt |-> clock,
                       marksAwarded |-> IF q \in DOMAIN @ THEN @[q].marksAwarded ELSE Null]
        ELSE @[p]]]

\* Under the row lock: refuse a terminal or overdue attempt, else upsert the answer.
\* Mutation: the deadline is not looked at.
AcceptsAlways(a) == attempts[a].status = "IN_PROGRESS"
Accepts(a) == attempts[a].status = "IN_PROGRESS" /\ ~Overdue(attempts[a].deadline)

\* The question is looked up in this attempt's snapshot (404).
\* Mutation: in any snapshot.
AsksAnywhere(a, q) == q \in Questions
Asks(a, q) == q \in DOMAIN attempts[a].questions

SaveResponse(a, q, answer) ==
  /\ Exists(a)
  /\ Accepts(a)
  /\ Asks(a, q)
  /\ attempts' = [attempts EXCEPT ![a] = Save(a, q, answer)]
  /\ UNCHANGED <<clock, assessments, bank, requests>>

\* A late answer: the attempt is expired and evaluated, and the exception that
\* refuses the answer is thrown inside the same transaction, which rolls it back.
RefuseLateAnswer(r, a) ==
  /\ requests[r] = Idle
  /\ Exists(a)
  /\ attempts[a].status = "IN_PROGRESS" /\ Overdue(attempts[a].deadline)
  /\ Goto(r, [op |-> "refused", attempt |-> a])
  /\ UNCHANGED <<clock, assessments, bank, attempts>>

-----------------------------------------------------------------------------
(* detail, result and submit: loadOwn, refreshAndExpire, and the submit.   *)

Visit(r, a, kind) ==
  /\ requests[r] = Idle
  /\ Exists(a)
  /\ Goto(r, View(a, kind))
  /\ UNCHANGED <<clock, assessments, bank, attempts>>

\* start's detail() reads the row it just inserted.
LoadStarted(r) ==
  LET q == requests[r] IN
  /\ q.op = "view" /\ q.stage = "load"
  /\ Goto(r, View(q.attempt, "view"))
  /\ UNCHANGED <<clock, assessments, bank, attempts>>

\* refreshAndExpire has returned `seen': a view is answered, a submit goes on
\* while what it saw is in progress.
Refreshed(r, a, kind, seen) ==
  CASE kind = "view" -> End(r)
    [] kind = "submit" /\ Terminal(seen.status) ->
         Goto(r, [op |-> "answered", attempt |-> a, seen |-> seen])
    [] OTHER -> Goto(r, [op |-> kind, stage |-> "commit", attempt |-> a, seen |-> seen])

NeedsExpiry(q) == q.seen.status = "IN_PROGRESS" /\ Overdue(attempts[q.attempt].deadline)

\* The row read before is not overdue, or terminal: nothing is written.
RefreshKeeps(r) ==
  LET q == requests[r] IN
  /\ q.op \in {"view", "submit"} /\ q.stage = "refresh"
  /\ ~NeedsExpiry(q)
  /\ Refreshed(r, q.attempt, q.op, q.seen)
  /\ UNCHANGED <<clock, assessments, bank, attempts>>

RefreshExpires(r) ==
  LET q == requests[r]
      row == Expired(attempts[q.attempt])
  IN
  /\ q.op \in {"view", "submit"} /\ q.stage = "refresh"
  /\ NeedsExpiry(q) /\ Writable(q.attempt)
  /\ attempts' = [attempts EXCEPT ![q.attempt] = row]
  /\ Refreshed(r, q.attempt, q.op, Meta(row))
  /\ UNCHANGED <<clock, assessments, bank>>

\* A concurrent request made the transition first: its outcome is read next.
RefreshLost(r) ==
  LET q == requests[r] IN
  /\ q.op \in {"view", "submit"} /\ q.stage = "refresh"
  /\ NeedsExpiry(q) /\ ~Writable(q.attempt)
  /\ Goto(r, [q EXCEPT !.stage = "reread"])
  /\ UNCHANGED <<clock, assessments, bank, attempts>>

RefreshReread(r) ==
  LET q == requests[r] IN
  /\ q.op \in {"view", "submit"} /\ q.stage = "reread"
  /\ Refreshed(r, q.attempt, q.op, Meta(attempts[q.attempt]))
  /\ UNCHANGED <<clock, assessments, bank, attempts>>

\* submit's own guarded update; matching nothing, it reads the winner's row.
SubmitCommit(r) ==
  LET q == requests[r]
      row == Submitted(attempts[q.attempt])
  IN
  /\ q.op = "submit" /\ q.stage = "commit"
  /\ IF Writable(q.attempt)
     THEN /\ attempts' = [attempts EXCEPT ![q.attempt] = row]
          /\ Goto(r, [op |-> "answered", attempt |-> q.attempt, seen |-> Meta(row)])
     ELSE Goto(r, [q EXCEPT !.stage = "winner"]) /\ UNCHANGED attempts
  /\ UNCHANGED <<clock, assessments, bank>>

\* Mutation: the answer is the row read before.
WinnerStale(q) == q.seen
Winner(q) == Meta(attempts[q.attempt])

SubmitWinner(r) ==
  LET q == requests[r] IN
  /\ q.op = "submit" /\ q.stage = "winner"
  /\ Goto(r, [op |-> "answered", attempt |-> q.attempt, seen |-> Winner(q)])
  /\ UNCHANGED <<clock, assessments, bank, attempts>>

\* The client has its answer.
Answered(r) ==
  /\ requests[r].op \in {"answered", "refused"}
  /\ End(r)
  /\ UNCHANGED <<clock, assessments, bank, attempts>>

-----------------------------------------------------------------------------
(* Environment.                                                            *)

Tick ==
  /\ clock < MaxTime
  /\ clock' = clock + 1
  /\ UNCHANGED <<assessments, bank, attempts, requests>>

\* A teacher publishes, unpublishes, edits or re-links an assessment.
EditAssessment(as, row) ==
  /\ assessments[as] # row
  /\ assessments' = [assessments EXCEPT ![as] = row]
  /\ UNCHANGED <<clock, bank, attempts, requests>>

\* A teacher edits the question bank.
EditQuestions(keys) ==
  /\ bank # keys
  /\ bank' = keys
  /\ UNCHANGED <<clock, assessments, attempts, requests>>

\* The API process restarts: requests in flight are gone, their open transaction rolled back.
ApiRestart ==
  /\ \E r \in Requests : requests[r] # Idle
  /\ requests' = [r \in Requests |-> Idle]
  /\ UNCHANGED <<clock, assessments, bank, attempts>>

Init ==
  /\ clock = 0
  /\ assessments \in [Assessments -> AssessmentRows]
  /\ bank \in Banks
  /\ attempts = NoRows
  /\ requests = [r \in Requests |-> Idle]

RequestStep(r) ==
  \/ \E s \in Students, as \in Assessments : StartRead(r, s, as)
  \/ StartCheck(r)
  \/ StartSnapshot(r)
  \/ StartInsert(r)
  \/ \E a \in AttemptIds, kind \in {"view", "submit"} : Visit(r, a, kind)
  \/ \E a \in AttemptIds : RefuseLateAnswer(r, a)
  \/ LoadStarted(r)
  \/ RefreshKeeps(r)
  \/ RefreshExpires(r)
  \/ RefreshLost(r)
  \/ RefreshReread(r)
  \/ SubmitCommit(r)
  \/ SubmitWinner(r)
  \/ Answered(r)

Next ==
  \/ \E r \in Requests : RequestStep(r)
  \/ \E a \in AttemptIds, q \in Questions, answer \in Answers : SaveResponse(a, q, answer)
  \/ Tick
  \/ \E as \in Assessments, row \in AssessmentRows : EditAssessment(as, row)
  \/ \E keys \in Banks : EditQuestions(keys)
  \/ ApiRestart

Spec == Init /\ [][Next]_vars

-----------------------------------------------------------------------------
(* Properties.                                                             *)

IsResponse(e, now) ==
  /\ DOMAIN e = {"answer", "savedAt", "marksAwarded"}
  /\ e.answer \in Answers
  /\ e.savedAt \in 0 .. now
  /\ e.marksAwarded \in Nat \cup {Null}

IsAttempt(row, now) ==
  /\ DOMAIN row = {"assessment", "student", "status", "startedAt", "deadline", "submittedAt",
                   "score", "totalMarks", "questions", "responses"}
  /\ row.assessment \in Assessments /\ row.student \in Students
  /\ row.status \in Statuses
  /\ row.startedAt \in 0 .. now
  /\ row.deadline \in Nat \cup {Null}
  /\ row.submittedAt \in (0 .. now) \cup {Null}
  /\ DOMAIN row.questions \subseteq Questions
  /\ \A q \in DOMAIN row.questions : row.questions[q].marks \in Nat
  /\ DOMAIN row.responses \subseteq DOMAIN row.questions
  /\ \A q \in DOMAIN row.responses : IsResponse(row.responses[q], now)

\* Rows have the shape of the schema; in particular a saved answer belongs to a question
\* of the attempt's own snapshot (attempt_responses is looked up through attempt_questions).
TypeOK ==
  /\ clock \in 0 .. MaxTime
  /\ assessments \in [Assessments -> AssessmentRows]
  /\ bank \in Banks
  /\ DOMAIN attempts \subseteq AttemptIds
  /\ \A a \in DOMAIN attempts : IsAttempt(attempts[a], clock)

\* An attempt is evaluated exactly when it is terminal, and its score, like the marks of
\* every saved answer, is what grading the saved answers against the snapshot gives: no
\* answer slips in after the evaluation, none is graded by a later edit of the question
\* (evaluateAttempt, "can never be observed as terminal-but-unevaluated").
Scored ==
  \A a \in DOMAIN attempts :
    LET row == attempts[a]
        right == {q \in DOMAIN row.responses : row.responses[q].answer = row.questions[q].key}
    IN IF Terminal(row.status)
       THEN /\ row.score = MarksOf(row.questions, right)
            /\ row.submittedAt # Null
            /\ \A q \in DOMAIN row.responses :
                 row.responses[q].marksAwarded = IF q \in right THEN row.questions[q].marks ELSE 0
       ELSE row.score = Null /\ row.submittedAt = Null

\* At most one attempt of a student is in progress on an assessment, whatever the number
\* of concurrent starts (attempts_one_in_progress_unique).
OneOpenAttempt ==
  \A s \in Students, as \in Assessments : \A a, b \in OpenFor(s, as) : a = b

\* No answer is ever saved after the deadline, and an attempt expires only past its
\* deadline and is dated at it (saveResponse, refreshAndExpire).
DeadlineKept ==
  \A a \in DOMAIN attempts :
    LET row == attempts[a] IN
    /\ row.deadline # Null =>
         \A q \in DOMAIN row.responses : row.responses[q].savedAt <= row.deadline
    /\ row.status = "EXPIRED" =>
         row.deadline # Null /\ row.submittedAt = row.deadline /\ row.deadline < clock

\* The row a submit request answers with is the attempt's outcome, also when a concurrent
\* request submitted or expired it between submit's read and its update.
SubmitAnswersOutcome ==
  \A r \in Requests :
    requests[r].op = "answered" =>
      /\ Terminal(requests[r].seen.status)
      /\ requests[r].seen = Meta(attempts[requests[r].attempt])

\* Action property: a submitted or expired attempt never changes again, nor does any row
\* disappear (the guarded updates of submit and refreshAndExpire, "runs exactly once").
OutcomeFinal ==
  [][\A a \in DOMAIN attempts :
       /\ a \in DOMAIN attempts'
       /\ Terminal(attempts[a].status) => attempts'[a] = attempts[a]]_vars

\* What docs/api/attempts.md says of a late answer: the attempt is first transitioned to
\* EXPIRED, then the save is rejected.
LateAnswerExpires ==
  \A r \in Requests :
    requests[r].op = "refused" => Terminal(attempts[requests[r].attempt].status)

-----------------------------------------------------------------------------
(* Attempts implements Exam.                                               *)

AnswersOf(row) == [q \in DOMAIN row.responses |-> row.responses[q].answer]

\* What of an attempts row matters to the student: its paper is the snapshot.
ExamOf(row) ==
  [student |-> row.student, assessment |-> row.assessment, deadline |-> row.deadline,
   paper |-> row.questions, status |-> row.status, score |-> row.score,
   answers |-> AnswersOf(row)]

Exams == [a \in DOMAIN attempts |-> ExamOf(attempts[a])]
Promise == INSTANCE Exam WITH Marks <- MarksOf, now <- clock, exams <- Exams

\* Whatever requests overlap, and whatever the teacher edits meanwhile, a student's
\* attempts behave like exams: a fixed paper, answers only while it is open and in time,
\* one close that grades exactly these answers (start, saveResponse, refreshAndExpire, submit).
ExamKept == Promise!Spec
=============================================================================
