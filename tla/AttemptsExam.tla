---------------------------- MODULE AttemptsExam ----------------------------
(***************************************************************************)
(* Attempts implements Exam: every step of a request, of a teacher, of the *)
(* clock or of a restart is a step of the exams seen through ExamOf, or    *)
(* leaves them as they are.                                                *)
(***************************************************************************)
EXTENDS AttemptsProof

LEMMA InitExam == Init => Promise!Init
BY DEF Init, Promise!Init, Exams, NoRows

\* A step that writes no attempt and does not move the clock is a stutter.
LEMMA QuietExam ==
  ASSUME UNCHANGED <<clock, attempts>>
  PROVE  [Promise!Next]_Promise!vars
BY DEF Promise!vars, Exams

LEMMA TickExam ==
  ASSUME IInv, Tick
  PROVE  [Promise!Next]_Promise!vars
<1>1. clock' > clock
  BY AttemptsAssumption DEF IInv, Tick
<1> QED
  BY <1>1 DEF Tick, Exams, Promise!Next, Promise!Tick

\* A step that changes the row of one attempt changes the exam of that name.
LEMMA RowExam ==
  ASSUME NEW a \in DOMAIN attempts, NEW row, attempts' = [attempts EXCEPT ![a] = row]
  PROVE  Exams' = [Exams EXCEPT ![a] = ExamOf(row)]
BY DEF Exams

LEMMA InsertExam ==
  ASSUME IInv, NEW r \in Requests, StartInsert(r), Admitted(requests[r])
  PROVE  [Promise!Next]_Promise!vars
<1> DEFINE q == requests[r]
           row == NewAttempt(q)
<1>1. PICK a \in AttemptIds \ DOMAIN attempts :
        attempts' = [b \in DOMAIN attempts \cup {a} |-> IF b = a THEN row ELSE attempts[b]]
  BY DEF StartInsert
<1>2. /\ DOMAIN attempts' = DOMAIN attempts \cup {a} /\ attempts'[a] = row
      /\ \A b \in DOMAIN attempts : attempts'[b] = attempts[b]
  BY <1>1
<1>3. /\ DOMAIN Exams = DOMAIN attempts /\ DOMAIN Exams' = DOMAIN attempts \cup {a}
      /\ \A b \in DOMAIN attempts : Exams[b] = ExamOf(attempts[b]) /\ Exams'[b] = Exams[b]
      /\ Exams'[a] = ExamOf(row)
  BY <1>2 DEF Exams
<1>4. /\ ExamOf(row).status = "IN_PROGRESS" /\ DOMAIN ExamOf(row).answers = {}
      /\ ExamOf(row).score = Null
      /\ ExamOf(row).student = q.student /\ ExamOf(row).assessment = q.assessment
  BY DEF ExamOf, AnswersOf, NewAttempt, NoRows
<1>5. \A b \in DOMAIN attempts :
        ExamOf(attempts[b]).status = "IN_PROGRESS" =>
          \/ ExamOf(attempts[b]).student # q.student
          \/ ExamOf(attempts[b]).assessment # q.assessment
  BY DEF ExamOf, Admitted, OpenFor
<1>6. UNCHANGED clock
  BY DEF StartInsert
<1> HIDE DEF q, row
<1>7. Promise!Begin(a)
  BY <1>1, <1>3, <1>4, <1>5, <1>6 DEF Promise!Begin, Promise!Open
<1> QED
  BY <1>3, <1>7 DEF Promise!Next

LEMMA SaveExam ==
  ASSUME IInv, NEW a \in AttemptIds, NEW q \in Questions, NEW answer \in Answers,
         SaveResponse(a, q, answer)
  PROVE  [Promise!Next]_Promise!vars
<1> DEFINE row == attempts[a]
           saved == Save(a, q, answer)
           e == ExamOf(row)
<1>1. /\ a \in DOMAIN attempts /\ q \in DOMAIN row.questions
      /\ row.status = "IN_PROGRESS" /\ ~Overdue(row.deadline)
      /\ attempts' = [attempts EXCEPT ![a] = saved] /\ UNCHANGED clock
  BY DEF SaveResponse, Exists, Asks, Accepts
<1>2. clock \in Nat /\ IsAttempt(row, clock)
  BY <1>1, AttemptsAssumption DEF IInv, TableOK, GoodRow
<1>3. /\ saved.assessment = row.assessment /\ saved.student = row.student
      /\ saved.status = row.status /\ saved.deadline = row.deadline
      /\ saved.score = row.score /\ saved.questions = row.questions
      /\ DOMAIN saved.responses = DOMAIN row.responses \cup {q}
      /\ saved.responses[q].answer = answer
      /\ \A p \in DOMAIN row.responses \ {q} : saved.responses[p] = row.responses[p]
  BY <1>2 DEF Save, IsAttempt
<1>4. ExamOf(saved) = [e EXCEPT !.answers = Promise!With(@, q, answer)]
  <2> HIDE DEF saved, row
  <2>1. AnswersOf(saved) = Promise!With(AnswersOf(row), q, answer)
    BY <1>3 DEF AnswersOf, Promise!With
  <2> QED
    BY <1>3, <2>1 DEF ExamOf
<1>5. DOMAIN Exams = DOMAIN attempts /\ Exams[a] = e
  BY <1>1 DEF Exams
<1>6. Exams' = [Exams EXCEPT ![a] = ExamOf(saved)]
  BY <1>1, RowExam
<1>7. /\ e.status = "IN_PROGRESS" /\ q \in DOMAIN e.paper
      /\ e.deadline # Null => clock <= e.deadline
  BY <1>1, <1>2 DEF ExamOf, Overdue, IsAttempt
<1> HIDE DEF e, saved, row
<1>8. Promise!Answer(a, q, answer)
  BY <1>1, <1>4, <1>5, <1>6, <1>7 DEF Promise!Answer, Promise!Open
<1> QED
  BY <1>1, <1>5, <1>7, <1>8 DEF Promise!Next

\* Both terminal transitions close the exam and grade it from its own paper.
LEMMA SettledExam ==
  ASSUME NEW row, NEW status \in Statuses, NEW at \in 0 .. clock, IsAttempt(row, clock)
  PROVE  ExamOf(Settled(row, status, at)) = Promise!Closed(ExamOf(row), status)
<1> DEFINE settled == Settled(row, status, at)
           e == ExamOf(row)
<1>1. /\ settled.assessment = row.assessment /\ settled.student = row.student
      /\ settled.deadline = row.deadline /\ settled.questions = row.questions
      /\ settled.status = status /\ settled.score = MarksOf(row.questions, Correct(row))
      /\ DOMAIN settled.responses = DOMAIN row.responses
      /\ \A q \in DOMAIN row.responses : settled.responses[q].answer = row.responses[q].answer
  BY SettledFields
<1> HIDE DEF settled
<1>2. AnswersOf(settled) = AnswersOf(row)
  BY <1>1 DEF AnswersOf
<1>3. Promise!Right(e) = Correct(row)
  BY DEF Promise!Right, Correct, ExamOf, AnswersOf
<1>4. e.paper = row.questions
  BY DEF ExamOf
<1>5. Promise!Closed(e, status) =
        [e EXCEPT !.status = status, !.score = MarksOf(row.questions, Correct(row))]
  BY <1>3, <1>4, Zenon DEF Promise!Closed
<1>6. ExamOf(settled) = [e EXCEPT !.status = status, !.score = settled.score]
  <2>1. /\ settled.assessment = row.assessment /\ settled.student = row.student
        /\ settled.deadline = row.deadline /\ settled.questions = row.questions
        /\ settled.status = status
    BY <1>1
  <2> DEFINE moved == [e EXCEPT !.status = status]
  <2>2. moved = [student |-> row.student, assessment |-> row.assessment,
                 deadline |-> row.deadline, paper |-> row.questions, status |-> status,
                 score |-> row.score, answers |-> AnswersOf(row)]
    BY DEF ExamOf
  <2> HIDE DEF moved
  <2>3. ExamOf(settled) = [moved EXCEPT !.score = settled.score]
    BY <2>1, <2>2, <1>2 DEF ExamOf
  <2> QED
    BY <2>3 DEF moved
<1> QED
  BY <1>1, <1>5, <1>6 DEF settled

LEMMA ExpireExam ==
  ASSUME IInv, NEW r \in Requests, RefreshExpires(r)
  PROVE  [Promise!Next]_Promise!vars
<1> DEFINE a == requests[r].attempt
           row == attempts[a]
<1>1. /\ a \in DOMAIN attempts /\ row.status = "IN_PROGRESS"
      /\ row.deadline # Null /\ clock > row.deadline
      /\ attempts' = [attempts EXCEPT ![a] = Expired(row)] /\ UNCHANGED clock
  BY VisitRequest DEF RefreshExpires, IsVisit, NeedsExpiry, Writable, Overdue
<1>2. clock \in Nat /\ IsAttempt(row, clock)
  BY <1>1, AttemptsAssumption DEF IInv, TableOK, GoodRow
<1>3. row.deadline \in 0 .. clock
  BY <1>1, <1>2 DEF IsAttempt
<1>4. ExamOf(Expired(row)) = Promise!Closed(ExamOf(row), "EXPIRED")
  <2> HIDE DEF row
  <2> QED
    BY <1>2, <1>3, SettledExam DEF Expired, Statuses
<1>5. Exams' = [Exams EXCEPT ![a] = ExamOf(Expired(row))]
  BY <1>1, RowExam
<1>6. DOMAIN Exams = DOMAIN attempts /\ Exams[a] = ExamOf(row)
  BY <1>1 DEF Exams
<1>7. ExamOf(row).status = row.status /\ ExamOf(row).deadline = row.deadline
  BY DEF ExamOf
<1> HIDE DEF a, row
<1>8. Promise!Expire(a)
  BY <1>1, <1>4, <1>5, <1>6, <1>7 DEF Promise!Expire, Promise!Open
<1> QED
  BY <1>1, <1>6, <1>8 DEF Promise!Next

LEMMA HandInExam ==
  ASSUME IInv, NEW r \in Requests, SubmitCommit(r), Writable(requests[r].attempt)
  PROVE  [Promise!Next]_Promise!vars
<1> DEFINE a == requests[r].attempt
           row == attempts[a]
<1>1. /\ a \in DOMAIN attempts /\ row.status = "IN_PROGRESS"
      /\ attempts' = [attempts EXCEPT ![a] = Submitted(row)] /\ UNCHANGED clock
  BY DEF SubmitCommit, Writable, Exists
<1>2. clock \in Nat /\ IsAttempt(row, clock)
  BY <1>1, AttemptsAssumption DEF IInv, TableOK, GoodRow
<1>3. ExamOf(Submitted(row)) = Promise!Closed(ExamOf(row), "SUBMITTED")
  <2>1. clock \in 0 .. clock
    BY <1>2
  <2> HIDE DEF row
  <2> QED
    BY <1>2, <2>1, SettledExam DEF Submitted, Statuses
<1>4. Exams' = [Exams EXCEPT ![a] = ExamOf(Submitted(row))]
  BY <1>1, RowExam
<1>5. DOMAIN Exams = DOMAIN attempts /\ Exams[a] = ExamOf(row)
  BY <1>1 DEF Exams
<1>6. ExamOf(row).status = row.status
  BY DEF ExamOf
<1> HIDE DEF a, row
<1>7. Promise!HandIn(a)
  BY <1>1, <1>3, <1>4, <1>5, <1>6 DEF Promise!HandIn, Promise!Open
<1> QED
  BY <1>1, <1>5, <1>7 DEF Promise!Next

LEMMA RequestExam ==
  ASSUME IInv, NEW r \in Requests, RequestStep(r)
  PROVE  [Promise!Next]_Promise!vars
<1>1. CASE StartInsert(r)
  <2>1. CASE Admitted(requests[r])
    BY <1>1, <2>1, InsertExam
  <2>2. CASE ~Admitted(requests[r])
    BY <1>1, <2>2, QuietExam DEF StartInsert
  <2> QED
    BY <2>1, <2>2
<1>2. CASE RefreshExpires(r)
  BY <1>2, ExpireExam
<1>3. CASE SubmitCommit(r)
  <2>1. CASE Writable(requests[r].attempt)
    BY <1>3, <2>1, HandInExam
  <2>2. CASE ~Writable(requests[r].attempt)
    BY <1>3, <2>2, QuietExam DEF SubmitCommit
  <2> QED
    BY <2>1, <2>2
<1>4. CASE \/ \E s \in Students, as \in Assessments : StartRead(r, s, as)
           \/ StartCheck(r) \/ StartSnapshot(r)
  BY <1>4, QuietExam DEF StartRead, StartCheck, StartSnapshot
<1>5. CASE \/ \E a \in AttemptIds, kind \in {"view", "submit"} : Visit(r, a, kind)
           \/ \E a \in AttemptIds : RefuseLateAnswer(r, a)
           \/ LoadStarted(r)
  BY <1>5, QuietExam DEF Visit, RefuseLateAnswer, LoadStarted
<1>6. CASE RefreshKeeps(r) \/ RefreshLost(r) \/ RefreshReread(r) \/ SubmitWinner(r) \/ Answered(r)
  BY <1>6, QuietExam DEF RefreshKeeps, RefreshLost, RefreshReread, SubmitWinner, Answered
<1> QED
  BY <1>1, <1>2, <1>3, <1>4, <1>5, <1>6 DEF RequestStep

\* A student's attempts behave like exams with a fixed paper, answers in time and one
\* graded close, whatever requests overlap, whatever the teacher edits meanwhile and
\* whenever the API restarts (start, saveResponse, refreshAndExpire, submit).
THEOREM AttemptsImplementExam == Spec => ExamKept
<1>1. IInv /\ [Next]_vars => [Promise!Next]_Promise!vars
  <2> SUFFICES ASSUME IInv, [Next]_vars
               PROVE  [Promise!Next]_Promise!vars
    OBVIOUS
  <2>1. CASE UNCHANGED vars
    BY <2>1, QuietExam DEF vars
  <2>2. CASE \E r \in Requests : RequestStep(r)
    BY <2>2, RequestExam
  <2>3. CASE \E a \in AttemptIds, q \in Questions, answer \in Answers : SaveResponse(a, q, answer)
    BY <2>3, SaveExam
  <2>4. CASE Tick
    BY <2>4, TickExam
  <2>5. CASE \/ \E as \in Assessments, row \in AssessmentRows : EditAssessment(as, row)
             \/ \E keys \in Banks : EditQuestions(keys)
             \/ ApiRestart
    BY <2>5, QuietExam DEF EditAssessment, EditQuestions, ApiRestart
  <2> QED
    BY <2>1, <2>2, <2>3, <2>4, <2>5 DEF Next
<1> QED
  BY InitExam, Invariance, <1>1, PTL DEF Spec, ExamKept, Promise!Spec
=============================================================================
