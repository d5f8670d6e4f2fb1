---------------------------- MODULE AttemptsProof ----------------------------
(***************************************************************************)
(* Proofs about Attempts: for every number of students, assessments,       *)
(* questions, requests and attempts, and whatever teachers do meanwhile.   *)
(***************************************************************************)
EXTENDS Attempts, TLAPS

-----------------------------------------------------------------------------
(* One row.  GoodRow is what TypeOK, Scored and DeadlineKept say of it.    *)

RowScored(row) ==
  LET right == {q \in DOMAIN row.responses : row.responses[q].answer = row.questions[q].key}
  IN IF Terminal(row.status)
     THEN /\ row.score = MarksOf(row.questions, right)
          /\ row.submittedAt # Null
          /\ \A q \in DOMAIN row.responses :
               row.responses[q].marksAwarded = IF q \in right THEN row.questions[q].marks ELSE 0
     ELSE row.score = Null /\ row.submittedAt = Null

RowDeadlineKept(row, now) ==
  /\ row.deadline # Null =>
       \A q \in DOMAIN row.responses : row.responses[q].savedAt <= row.deadline
  /\ row.status = "EXPIRED" =>
       row.deadline # Null /\ row.submittedAt = row.deadline /\ row.deadline < now

GoodRow(row, now) == IsAttempt(row, now) /\ RowScored(row) /\ RowDeadlineKept(row, now)

\* evaluateAttempt changes the awarded marks and the score and nothing else.
LEMMA EvaluateFields ==
  ASSUME NEW row, NEW now, IsAttempt(row, now)
  PROVE  /\ DOMAIN Evaluate(row) = DOMAIN row
         /\ \A f \in DOMAIN row \ {"responses", "score"} : Evaluate(row)[f] = row[f]
         /\ Evaluate(row).responses = Awarded(row, Correct(row))
         /\ Evaluate(row).score = MarksOf(row.questions, Correct(row))
BY DEF Evaluate, IsAttempt

\* Awarding marks keeps every answer and its time.
LEMMA AwardedFields ==
  ASSUME NEW row, NEW now, NEW C, IsAttempt(row, now)
  PROVE  /\ DOMAIN Awarded(row, C) = DOMAIN row.responses
         /\ \A q \in DOMAIN row.responses :
              /\ IsResponse(Awarded(row, C)[q], now)
              /\ Awarded(row, C)[q].answer = row.responses[q].answer
              /\ Awarded(row, C)[q].savedAt = row.responses[q].savedAt
              /\ Awarded(row, C)[q].marksAwarded = IF q \in C THEN row.questions[q].marks ELSE 0
BY DEF Awarded, IsAttempt, IsResponse

\* A terminal transition sets the status and its date, awards every answer its marks, sums
\* them, and changes nothing else.
LEMMA SettledFields ==
  ASSUME NEW row, NEW now, NEW status \in Statuses, NEW at \in 0 .. now, IsAttempt(row, now)
  PROVE  LET settled == Settled(row, status, at) IN
         /\ DOMAIN settled = DOMAIN row
         /\ settled.assessment = row.assessment /\ settled.student = row.student
         /\ settled.startedAt = row.startedAt /\ settled.deadline = row.deadline
         /\ settled.totalMarks = row.totalMarks /\ settled.questions = row.questions
         /\ settled.status = status /\ settled.submittedAt = at
         /\ settled.score = MarksOf(row.questions, Correct(row))
         /\ DOMAIN settled.responses = DOMAIN row.responses
         /\ \A q \in DOMAIN row.responses :
              /\ IsResponse(settled.responses[q], now)
              /\ settled.responses[q].answer = row.responses[q].answer
              /\ settled.responses[q].savedAt = row.responses[q].savedAt
              /\ settled.responses[q].marksAwarded =
                   IF q \in Correct(row) THEN row.questions[q].marks ELSE 0
<1> DEFINE base == [row EXCEPT !.status = status, !.submittedAt = at]
           settled == Settled(row, status, at)
<1>0. settled = Evaluate(base)
  BY DEF Settled
<1> HIDE DEF settled
<1>1. /\ DOMAIN base = DOMAIN row
      /\ \A f \in DOMAIN row \ {"status", "submittedAt"} : base[f] = row[f]
      /\ base.status = status /\ base.submittedAt = at
  BY DEF IsAttempt
<1>2. IsAttempt(base, now)
  BY <1>1 DEF IsAttempt
<1> HIDE DEF base
<1>3. /\ DOMAIN settled = DOMAIN row
      /\ \A f \in DOMAIN row \ {"responses", "score", "status", "submittedAt"} : settled[f] = row[f]
      /\ settled.status = status /\ settled.submittedAt = at
      /\ settled.responses = Awarded(base, Correct(base))
      /\ settled.score = MarksOf(row.questions, Correct(base))
  BY <1>0, <1>1, <1>2, EvaluateFields DEF IsAttempt
<1>4. base.responses = row.responses /\ base.questions = row.questions
  BY <1>1 DEF IsAttempt
<1>5. Correct(base) = Correct(row)
  BY <1>4 DEF Correct
<1>6. /\ DOMAIN settled.responses = DOMAIN row.responses
      /\ \A q \in DOMAIN row.responses :
           /\ IsResponse(settled.responses[q], now)
           /\ settled.responses[q].answer = row.responses[q].answer
           /\ settled.responses[q].savedAt = row.responses[q].savedAt
           /\ settled.responses[q].marksAwarded =
                IF q \in Correct(row) THEN row.questions[q].marks ELSE 0
  BY <1>2, <1>3, <1>4, <1>5, AwardedFields
<1>7. /\ settled.assessment = row.assessment /\ settled.student = row.student
      /\ settled.startedAt = row.startedAt /\ settled.deadline = row.deadline
      /\ settled.totalMarks = row.totalMarks /\ settled.questions = row.questions
  BY <1>3 DEF IsAttempt
<1> QED
  BY <1>3, <1>5, <1>6, <1>7 DEF settled

\* Both terminal transitions turn a good row in progress into a good terminal row.
LEMMA SettledGood ==
  ASSUME NEW row, NEW now \in Nat, NEW status \in {"SUBMITTED", "EXPIRED"}, NEW at \in 0 .. now,
         GoodRow(row, now), row.status = "IN_PROGRESS",
         status = "EXPIRED" => row.deadline # Null /\ at = row.deadline /\ row.deadline < now
  PROVE  /\ GoodRow(Settled(row, status, at), now)
         /\ Settled(row, status, at).status = status
         /\ Settled(row, status, at).student = row.student
         /\ Settled(row, status, at).assessment = row.assessment
<1> DEFINE settled == Settled(row, status, at)
<1>1. status \in Statuses /\ IsAttempt(row, now)
  BY DEF Statuses, GoodRow
<1>2. /\ DOMAIN settled = DOMAIN row
      /\ settled.assessment = row.assessment /\ settled.student = row.student
      /\ settled.startedAt = row.startedAt /\ settled.deadline = row.deadline
      /\ settled.totalMarks = row.totalMarks /\ settled.questions = row.questions
      /\ settled.status = status /\ settled.submittedAt = at
      /\ settled.score = MarksOf(row.questions, Correct(row))
  BY <1>1, SettledFields
<1>3. /\ DOMAIN settled.responses = DOMAIN row.responses
      /\ \A q \in DOMAIN row.responses :
           /\ IsResponse(settled.responses[q], now)
           /\ settled.responses[q].answer = row.responses[q].answer
           /\ settled.responses[q].savedAt = row.responses[q].savedAt
           /\ settled.responses[q].marksAwarded =
                IF q \in Correct(row) THEN row.questions[q].marks ELSE 0
  BY <1>1, SettledFields
<1> HIDE DEF settled
<1>4. IsAttempt(settled, now)
  BY <1>1, <1>2, <1>3 DEF IsAttempt
<1>5. Correct(row) = {q \in DOMAIN settled.responses :
                        settled.responses[q].answer = settled.questions[q].key}
  BY <1>2, <1>3 DEF Correct
<1>6. RowScored(settled)
  <2>1. settled.submittedAt # Null
    BY <1>2, AttemptsAssumption
  <2>2. Terminal(settled.status)
    BY <1>2 DEF Terminal
  <2>3. settled.score = MarksOf(settled.questions, Correct(row))
    BY <1>2
  <2>4. \A q \in DOMAIN settled.responses :
          settled.responses[q].marksAwarded =
            IF q \in Correct(row) THEN settled.questions[q].marks ELSE 0
    BY <1>2, <1>3
  <2> QED
    BY <1>5, <2>1, <2>2, <2>3, <2>4, Zenon DEF RowScored
<1>7. RowDeadlineKept(settled, now)
  BY <1>2, <1>3 DEF GoodRow, RowDeadlineKept
<1> QED
  BY <1>2, <1>4, <1>6, <1>7 DEF GoodRow, settled

\* An answer saved within the deadline keeps a good row good and in progress.
LEMMA SaveGood ==
  ASSUME NEW a \in DOMAIN attempts, NEW answer \in Answers, NEW q \in DOMAIN attempts[a].questions,
         clock \in Nat, GoodRow(attempts[a], clock), Accepts(a)
  PROVE  /\ GoodRow(Save(a, q, answer), clock)
         /\ Save(a, q, answer).status = "IN_PROGRESS"
         /\ Save(a, q, answer).student = attempts[a].student
         /\ Save(a, q, answer).assessment = attempts[a].assessment
<1> DEFINE row == attempts[a]
           saved == Save(a, q, answer)
           R == saved.responses
<1>1. /\ DOMAIN saved = DOMAIN row
      /\ \A f \in DOMAIN row \ {"responses"} : saved[f] = row[f]
      /\ DOMAIN R = DOMAIN row.responses \cup {q}
      /\ \A p \in DOMAIN row.responses \ {q} : R[p] = row.responses[p]
      /\ R[q] = [answer |-> answer, savedAt |-> clock,
                 marksAwarded |-> IF q \in DOMAIN row.responses THEN row.responses[q].marksAwarded
                                                               ELSE Null]
  BY DEF Save, GoodRow, IsAttempt
<1> HIDE DEF saved
<1>2. IsResponse(R[q], clock)
  BY <1>1 DEF GoodRow, IsAttempt, IsResponse
<1>3. \A p \in DOMAIN R : IsResponse(R[p], clock)
  BY <1>1, <1>2 DEF GoodRow, IsAttempt
<1>4. /\ saved.assessment = row.assessment /\ saved.student = row.student
      /\ saved.status = row.status /\ saved.startedAt = row.startedAt
      /\ saved.deadline = row.deadline /\ saved.submittedAt = row.submittedAt
      /\ saved.score = row.score /\ saved.questions = row.questions
  BY <1>1 DEF GoodRow, IsAttempt
<1>5. IsAttempt(saved, clock)
  BY <1>1, <1>3, <1>4 DEF GoodRow, IsAttempt
<1>6. RowScored(saved)
  BY <1>4 DEF GoodRow, RowScored, Accepts, Terminal
<1>7. RowDeadlineKept(saved, clock)
  <2>1. row.deadline # Null => clock <= row.deadline
    BY DEF Accepts, Overdue, GoodRow, IsAttempt
  <2>2. R[q].savedAt = clock
    BY <1>1
  <2> QED
    BY <1>1, <1>4, <2>1, <2>2 DEF GoodRow, RowDeadlineKept, Accepts
<1> QED
  BY <1>4, <1>5, <1>6, <1>7 DEF GoodRow, Accepts, saved

\* A good row stays good while the clock advances.
LEMMA ClockGood ==
  ASSUME NEW row, NEW now \in Nat, NEW later \in Nat, now <= later, GoodRow(row, now)
  PROVE  GoodRow(row, later)
<1>1. IsAttempt(row, later)
  <2>1. \A q \in DOMAIN row.responses : IsResponse(row.responses[q], later)
    BY DEF GoodRow, IsAttempt, IsResponse
  <2> QED
    BY <2>1 DEF GoodRow, IsAttempt
<1>2. RowDeadlineKept(row, later)
  BY DEF GoodRow, IsAttempt, RowDeadlineKept
<1> QED
  BY <1>1, <1>2 DEF GoodRow

-----------------------------------------------------------------------------
(* The table of attempts.                                                  *)

TableOK(table, now) ==
  /\ DOMAIN table \subseteq AttemptIds
  /\ \A a \in DOMAIN table : GoodRow(table[a], now)

Unique(table) ==
  \A a, b \in DOMAIN table :
    /\ table[a].status = "IN_PROGRESS" /\ table[b].status = "IN_PROGRESS"
    /\ table[a].student = table[b].student /\ table[a].assessment = table[b].assessment
    => a = b

\* What every step does to the table: rows stay, terminal rows unchanged.
Extended(table, next) ==
  \A a \in DOMAIN table :
    /\ a \in DOMAIN next
    /\ Terminal(table[a].status) => next[a] = table[a]

-----------------------------------------------------------------------------
(* Requests in flight.  What a request has read is stale, except that a    *)
(* terminal row it has seen is still the attempt's row.                    *)

IsStart(q, now) ==
  /\ q = [op |-> "start", stage |-> q.stage, student |-> q.student, assessment |-> q.assessment,
          now |-> q.now, deadline |-> q.deadline, questions |-> q.questions]
  /\ q.student \in Students /\ q.assessment \in Assessments
  /\ q.now \in 0 .. now
  /\ q.deadline \in Nat \cup {Null}
  /\ DOMAIN q.questions \subseteq Questions
  /\ \A p \in DOMAIN q.questions : q.questions[p].marks \in Nat

IsLoad(q, table) ==
  /\ q = [op |-> "view", stage |-> "load", attempt |-> q.attempt]
  /\ q.attempt \in DOMAIN table

IsVisit(q, table) ==
  /\ q = [op |-> q.op, stage |-> q.stage, attempt |-> q.attempt, seen |-> q.seen]
  /\ q.op \in {"view", "submit"}
  /\ q.stage \in {"refresh", "reread", "commit", "winner"}
  /\ q.attempt \in DOMAIN table
  /\ Terminal(q.seen.status) => q.seen = Meta(table[q.attempt])
  /\ q.stage \in {"reread", "winner"} => Terminal(table[q.attempt].status)

IsAnswered(q, table) ==
  /\ q = [op |-> "answered", attempt |-> q.attempt, seen |-> q.seen]
  /\ q.attempt \in DOMAIN table
  /\ Terminal(q.seen.status)
  /\ q.seen = Meta(table[q.attempt])

IsRefused(q, table) ==
  /\ q = [op |-> "refused", attempt |-> q.attempt]
  /\ q.attempt \in DOMAIN table

RequestOK(q, table, now) ==
  \/ q = Idle \/ IsStart(q, now) \/ IsLoad(q, table)
  \/ IsVisit(q, table) \/ IsAnswered(q, table) \/ IsRefused(q, table)

\* A request that does not move stays consistent while the table is extended.
LEMMA RequestFrame ==
  ASSUME NEW q, NEW table, NEW next, NEW now \in Nat, NEW later \in Nat, now <= later,
         Extended(table, next), RequestOK(q, table, now)
  PROVE  RequestOK(q, next, later)
<1>1. CASE q = Idle
  BY <1>1 DEF RequestOK
<1>2. CASE IsStart(q, now)
  BY <1>2 DEF RequestOK, IsStart
<1>3. CASE IsLoad(q, table)
  BY <1>3 DEF RequestOK, IsLoad, Extended
<1>4. CASE IsVisit(q, table)
  <2>1. Terminal(q.seen.status) => Terminal(table[q.attempt].status)
    BY <1>4 DEF IsVisit, Meta, Terminal
  <2> QED
    BY <1>4, <2>1 DEF RequestOK, IsVisit, Extended
<1>5. CASE IsAnswered(q, table)
  <2>1. Terminal(table[q.attempt].status)
    BY <1>5 DEF IsAnswered, Meta, Terminal
  <2> QED
    BY <1>5, <2>1 DEF RequestOK, IsAnswered, Extended
<1>6. CASE IsRefused(q, table)
  BY <1>6 DEF RequestOK, IsRefused, Extended
<1> QED
  BY <1>1, <1>2, <1>3, <1>4, <1>5, <1>6 DEF RequestOK

-----------------------------------------------------------------------------
(* The inductive invariant.                                                *)

RequestsOK(reqs, table, now) ==
  /\ DOMAIN reqs = Requests
  /\ \A r \in Requests : RequestOK(reqs[r], table, now)

IInv ==
  /\ clock \in 0 .. MaxTime
  /\ assessments \in [Assessments -> AssessmentRows]
  /\ bank \in Banks
  /\ TableOK(attempts, clock)
  /\ Unique(attempts)
  /\ RequestsOK(requests, attempts, clock)

LEMMA InitIInv == Init => IInv
BY AttemptsAssumption DEF Init, IInv, TableOK, Unique, RequestsOK, RequestOK, NoRows

\* A step that moves one request and extends the table keeps the requests consistent.
LEMMA RequestsMove ==
  ASSUME NEW r \in Requests, NEW q, NEW table, IInv, Extended(attempts, table),
         RequestOK(q, table, clock)
  PROVE  RequestsOK([requests EXCEPT ![r] = q], table, clock)
<1>1. clock \in Nat
  BY AttemptsAssumption DEF IInv
<1>2. \A p \in Requests : RequestOK(requests[p], table, clock)
  BY <1>1, RequestFrame DEF IInv, RequestsOK
<1> QED
  BY <1>2 DEF IInv, RequestsOK

LEMMA ExtendedRefl == ASSUME NEW table PROVE Extended(table, table)
BY DEF Extended

\* A step of one request that leaves the table alone.
LEMMA QuietMove ==
  ASSUME IInv, NEW r \in Requests, NEW q, Goto(r, q), RequestOK(q, attempts, clock),
         UNCHANGED <<clock, assessments, bank, attempts>>
  PROVE  IInv' /\ Extended(attempts, attempts')
<1>1. Extended(attempts, attempts')
  BY ExtendedRefl
<1>2. RequestsOK([requests EXCEPT ![r] = q], attempts, clock)
  BY <1>1, RequestsMove
<1> QED
  BY <1>1, <1>2 DEF IInv, Goto
\* A step of one request that writes the table.
LEMMA WritingMove ==
  ASSUME IInv, NEW r \in Requests, NEW q, NEW table, attempts' = table, Goto(r, q),
         TableOK(table, clock), Unique(table), Extended(attempts, table),
         RequestOK(q, table, clock), UNCHANGED <<clock, assessments, bank>>
  PROVE  IInv' /\ Extended(attempts, attempts')
<1>1. RequestsOK([requests EXCEPT ![r] = q], table, clock)
  BY RequestsMove
<1>2. DOMAIN attempts \subseteq DOMAIN table
  BY DEF Extended
<1> QED
  BY <1>1, <1>2 DEF IInv, Goto

\* Writing a good row over an attempt in progress.
LEMMA WriteRow ==
  ASSUME IInv, NEW a \in DOMAIN attempts, NEW row, attempts[a].status = "IN_PROGRESS",
         GoodRow(row, clock), row.student = attempts[a].student,
         row.assessment = attempts[a].assessment
  PROVE  LET table == [attempts EXCEPT ![a] = row]
         IN /\ TableOK(table, clock) /\ Unique(table) /\ Extended(attempts, table)
            /\ DOMAIN table = DOMAIN attempts /\ table[a] = row
BY DEF IInv, TableOK, Unique, Extended, Terminal

-----------------------------------------------------------------------------
(* start.                                                                  *)

LEMMA StartReadStep ==
  ASSUME IInv, NEW r \in Requests, NEW s \in Students, NEW as \in Assessments, StartRead(r, s, as)
  PROVE  IInv' /\ Extended(attempts, attempts')
<1> DEFINE row == assessments[as]
           q == [op |-> "start", stage |-> "existing", student |-> s, assessment |-> as,
                 now |-> clock, deadline |-> DeadlineOf(row), questions |-> NoRows]
<1>1. IsAssessmentRow(row)
  BY AttemptsAssumption DEF IInv
<1>2. clock \in Nat
  BY AttemptsAssumption DEF IInv
<1>3. DeadlineOf(row) \in Nat \cup {Null}
  <2>1. row.duration \in Nat \cup {Null} /\ row.endsAt \in Nat \cup {Null}
    BY <1>1 DEF IsAssessmentRow
  <2> HIDE DEF row
  <2>2. CASE row.duration \in {Null, 0}
    BY <2>1, <2>2 DEF DeadlineOf
  <2>3. CASE row.duration \notin {Null, 0}
    <3>1. row.duration \in Nat /\ DeadlineOf(row) = clock + row.duration
      BY <2>1, <2>3 DEF DeadlineOf
    <3> QED
      BY <1>2, <3>1
  <2> QED
    BY <2>2, <2>3
<1>4. IsStart(q, clock)
  <2>1. q.now \in 0 .. clock /\ q.deadline \in Nat \cup {Null}
    <3>1. q.now = clock /\ q.deadline = DeadlineOf(row)
      OBVIOUS
    <3> HIDE DEF q, row
    <3> QED
      BY <1>2, <1>3, <3>1
  <2>2. DOMAIN q.questions = {}
    BY DEF NoRows
  <2>3. q = [op |-> "start", stage |-> q.stage, student |-> q.student, assessment |-> q.assessment,
             now |-> q.now, deadline |-> q.deadline, questions |-> q.questions]
    OBVIOUS
  <2>4. q.student \in Students /\ q.assessment \in Assessments
    OBVIOUS
  <2> HIDE DEF q
  <2> QED
    BY <2>1, <2>2, <2>3, <2>4 DEF IsStart
<1>5. Goto(r, q) /\ UNCHANGED <<clock, assessments, bank, attempts>>
  BY DEF StartRead
<1> QED
  BY <1>4, <1>5, QuietMove DEF RequestOK

\* The only consistent request whose op is "start".
LEMMA StartRequest ==
  ASSUME IInv, NEW r \in Requests, requests[r].op = "start"
  PROVE  IsStart(requests[r], clock)
BY DEF IInv, RequestsOK, RequestOK, Idle, IsLoad, IsVisit, IsAnswered, IsRefused

LEMMA IdleOK == ASSUME NEW table, NEW now PROVE RequestOK(Idle, table, now)
BY DEF RequestOK

LEMMA StartCheckStep ==
  ASSUME IInv, NEW r \in Requests, StartCheck(r)
  PROVE  IInv' /\ Extended(attempts, attempts')
<1> DEFINE q == requests[r]
           q2 == [q EXCEPT !.stage = "links"]
<1>1. IsStart(q, clock)
  BY StartRequest DEF StartCheck
<1>2. UNCHANGED <<clock, assessments, bank, attempts>>
  BY DEF StartCheck
<1>3. CASE Goto(r, q2)
  <2>1. IsStart(q2, clock)
    BY <1>1 DEF IsStart
  <2> QED
    BY <1>2, <1>3, <2>1, QuietMove DEF RequestOK
<1>4. CASE Goto(r, Idle)
  BY <1>2, <1>4, IdleOK, QuietMove
<1> QED
  BY <1>3, <1>4 DEF StartCheck, End

LEMMA StartSnapshotStep ==
  ASSUME IInv, NEW r \in Requests, StartSnapshot(r)
  PROVE  IInv' /\ Extended(attempts, attempts')
<1> DEFINE q == requests[r]
           q2 == [q EXCEPT !.stage = "insert", !.questions = Linked(q.assessment)]
<1>1. IsStart(q, clock)
  BY StartRequest DEF StartSnapshot
<1>2. UNCHANGED <<clock, assessments, bank, attempts>>
  BY DEF StartSnapshot
<1>3. CASE Goto(r, q2)
  <2>1. IsAssessmentRow(assessments[q.assessment])
    BY <1>1, AttemptsAssumption DEF IInv, IsStart
  <2>2. /\ DOMAIN Linked(q.assessment) \subseteq Questions
        /\ \A p \in DOMAIN Linked(q.assessment) : Linked(q.assessment)[p].marks \in Nat
    BY <2>1 DEF Linked, IsAssessmentRow
  <2> DEFINE L == Linked(q.assessment)
  <2>3. q2 = [op |-> "start", stage |-> "insert", student |-> q.student, assessment |-> q.assessment,
              now |-> q.now, deadline |-> q.deadline, questions |-> L]
    <3> DEFINE q1 == [q EXCEPT !.stage = "insert"]
    <3>1. q2 = [q1 EXCEPT !.questions = L]
      BY Zenon
    <3> HIDE DEF q, L, q2
    <3>2. q1 = [op |-> "start", stage |-> "insert", student |-> q.student,
                assessment |-> q.assessment, now |-> q.now, deadline |-> q.deadline,
                questions |-> q.questions]
      BY <1>1 DEF IsStart
    <3> HIDE DEF q1
    <3> QED
      BY <3>1, <3>2
  <2>4. IsStart(q2, clock)
    <3> HIDE DEF q, L, q2
    <3> QED
      BY <1>1, <2>2, <2>3 DEF IsStart, L
  <2> QED
    BY <1>2, <1>3, <2>4, QuietMove DEF RequestOK
<1>4. CASE Goto(r, Idle)
  BY <1>2, <1>4, IdleOK, QuietMove
<1> QED
  BY <1>3, <1>4 DEF StartSnapshot, End

LEMMA StartInsertStep ==
  ASSUME IInv, NEW r \in Requests, StartInsert(r)
  PROVE  IInv' /\ Extended(attempts, attempts')
<1> DEFINE q == requests[r]
           row == NewAttempt(q)
<1>1. IsStart(q, clock)
  BY StartRequest DEF StartInsert
<1>2. CASE Admitted(q)
  <2>1. PICK a \in AttemptIds \ DOMAIN attempts :
          /\ attempts' = [b \in DOMAIN attempts \cup {a} |-> IF b = a THEN row ELSE attempts[b]]
          /\ Goto(r, [op |-> "view", stage |-> "load", attempt |-> a])
    BY <1>2 DEF StartInsert
  <2> DEFINE table == [b \in DOMAIN attempts \cup {a} |-> IF b = a THEN row ELSE attempts[b]]
             load == [op |-> "view", stage |-> "load", attempt |-> a]
  <2>2. GoodRow(row, clock)
    BY <1>1, AttemptsAssumption
       DEF NewAttempt, IsStart, GoodRow, IsAttempt, RowScored, RowDeadlineKept, Terminal, NoRows,
           Statuses, IInv
  <2>3. \A b \in DOMAIN attempts : ~ /\ attempts[b].status = "IN_PROGRESS"
                                     /\ attempts[b].student = row.student
                                     /\ attempts[b].assessment = row.assessment
    BY <1>2 DEF Admitted, OpenFor, NewAttempt
  <2>4. TableOK(table, clock) /\ Unique(table) /\ Extended(attempts, table)
    <3> HIDE DEF row
    <3>1. TableOK(attempts, clock) /\ Unique(attempts)
      BY DEF IInv
    <3>2. a \in AttemptIds \ DOMAIN attempts
      BY <2>1
    <3>3. /\ DOMAIN table = DOMAIN attempts \cup {a} /\ table[a] = row
          /\ \A b \in DOMAIN attempts : table[b] = attempts[b]
      BY <3>2
    <3> HIDE DEF table
    <3> QED
      BY <2>2, <2>3, <3>1, <3>2, <3>3 DEF TableOK, Unique, Extended, Terminal
  <2>5. IsLoad(load, table)
    BY DEF IsLoad
  <2>6. attempts' = table /\ Goto(r, load) /\ UNCHANGED <<clock, assessments, bank>>
    BY <2>1 DEF StartInsert
  <2> HIDE DEF table, load
  <2> QED
    BY <2>4, <2>5, <2>6, WritingMove DEF RequestOK
<1>3. CASE ~Admitted(q)
  BY <1>3, IdleOK, QuietMove DEF StartInsert, End
<1> QED
  BY <1>2, <1>3
-----------------------------------------------------------------------------
(* saveResponse.                                                           *)

LEMMA SaveResponseStep ==
  ASSUME IInv, NEW a \in AttemptIds, NEW q \in Questions, NEW answer \in Answers,
         SaveResponse(a, q, answer)
  PROVE  IInv' /\ Extended(attempts, attempts')
<1> DEFINE row == Save(a, q, answer)
           table == [attempts EXCEPT ![a] = row]
<1>1. a \in DOMAIN attempts /\ q \in DOMAIN attempts[a].questions /\ Accepts(a)
  BY DEF SaveResponse, Exists, Asks
<1>2. clock \in Nat /\ GoodRow(attempts[a], clock)
  BY <1>1, AttemptsAssumption DEF IInv, TableOK
<1>3. GoodRow(row, clock) /\ row.student = attempts[a].student /\ row.assessment = attempts[a].assessment
  BY <1>1, <1>2, SaveGood
<1>4. attempts' = table /\ UNCHANGED <<clock, assessments, bank, requests>>
  BY DEF SaveResponse
<1>5. attempts[a].status = "IN_PROGRESS"
  BY <1>1 DEF Accepts
<1> HIDE DEF row
<1>6. /\ TableOK(table, clock) /\ Unique(table) /\ Extended(attempts, table)
      /\ DOMAIN table = DOMAIN attempts
  BY <1>1, <1>3, <1>5, WriteRow
<1> HIDE DEF table
<1>7. \A p \in Requests : RequestOK(requests[p], table, clock)
  BY <1>2, <1>6, RequestFrame DEF IInv, RequestsOK
<1> QED
  BY <1>4, <1>6, <1>7 DEF IInv, RequestsOK

LEMMA RefuseLateAnswerStep ==
  ASSUME IInv, NEW r \in Requests, NEW a \in AttemptIds, RefuseLateAnswer(r, a)
  PROVE  IInv' /\ Extended(attempts, attempts')
<1> DEFINE q == [op |-> "refused", attempt |-> a]
<1>1. IsRefused(q, attempts)
  BY DEF RefuseLateAnswer, Exists, IsRefused
<1> QED
  BY <1>1, QuietMove DEF RefuseLateAnswer, RequestOK

-----------------------------------------------------------------------------
(* detail, result and submit.                                              *)

\* The only consistent request at one of the visiting stages.
LEMMA VisitRequest ==
  ASSUME IInv, NEW r \in Requests, requests[r].op \in {"view", "submit"}, requests[r].stage # "load"
  PROVE  IsVisit(requests[r], attempts)
BY DEF IInv, RequestsOK, RequestOK, Idle, IsLoad, IsStart, IsAnswered, IsRefused

LEMMA ViewOK ==
  ASSUME NEW a \in DOMAIN attempts, NEW kind \in {"view", "submit"}
  PROVE  RequestOK(View(a, kind), attempts, clock)
BY DEF View, RequestOK, IsVisit

LEMMA VisitStep ==
  ASSUME IInv, NEW r \in Requests, NEW a \in AttemptIds, NEW kind \in {"view", "submit"},
         Visit(r, a, kind)
  PROVE  IInv' /\ Extended(attempts, attempts')
<1>1. a \in DOMAIN attempts
  BY DEF Visit, Exists
<1> QED
  BY <1>1, ViewOK, QuietMove DEF Visit

LEMMA LoadStartedStep ==
  ASSUME IInv, NEW r \in Requests, LoadStarted(r)
  PROVE  IInv' /\ Extended(attempts, attempts')
<1>1. requests[r].attempt \in DOMAIN attempts
  BY DEF LoadStarted, IInv, RequestsOK, RequestOK, Idle, IsLoad, IsStart, IsVisit, IsAnswered,
         IsRefused
<1> QED
  BY <1>1, ViewOK, QuietMove DEF LoadStarted

\* Whatever refreshAndExpire returns, the request stays consistent with the table.
LEMMA RefreshedOK ==
  ASSUME NEW r \in Requests, NEW table, NEW a \in DOMAIN table, NEW kind \in {"view", "submit"},
         NEW seen, Terminal(seen.status) => seen = Meta(table[a]), Refreshed(r, a, kind, seen)
  PROVE  \E q : Goto(r, q) /\ RequestOK(q, table, clock)
<1>1. CASE kind = "view"
  BY <1>1, IdleOK DEF Refreshed, End
<1>2. CASE kind = "submit" /\ Terminal(seen.status)
  <2> DEFINE q == [op |-> "answered", attempt |-> a, seen |-> seen]
  <2>1. Goto(r, q)
    BY <1>2 DEF Refreshed
  <2>2. IsAnswered(q, table)
    BY <1>2 DEF IsAnswered
  <2> QED
    BY <2>1, <2>2 DEF RequestOK
<1>3. CASE kind = "submit" /\ ~Terminal(seen.status)
  <2> DEFINE q == [op |-> kind, stage |-> "commit", attempt |-> a, seen |-> seen]
  <2>1. Goto(r, q)
    BY <1>3 DEF Refreshed
  <2>2. IsVisit(q, table)
    BY <1>3 DEF IsVisit
  <2> QED
    BY <2>1, <2>2 DEF RequestOK
<1> QED
  BY <1>1, <1>2, <1>3
LEMMA RefreshKeepsStep ==
  ASSUME IInv, NEW r \in Requests, RefreshKeeps(r)
  PROVE  IInv' /\ Extended(attempts, attempts')
<1> DEFINE q == requests[r]
<1>1. IsVisit(q, attempts)
  BY VisitRequest DEF RefreshKeeps
<1>2. PICK next : Goto(r, next) /\ RequestOK(next, attempts, clock)
  BY <1>1, RefreshedOK DEF RefreshKeeps, IsVisit
<1> QED
  BY <1>2, QuietMove DEF RefreshKeeps

\* The two terminal transitions, written over a row in progress.
LEMMA ExpiredWrite ==
  ASSUME IInv, NEW a \in DOMAIN attempts, attempts[a].status = "IN_PROGRESS",
         Overdue(attempts[a].deadline)
  PROVE  LET table == [attempts EXCEPT ![a] = Expired(attempts[a])]
         IN /\ TableOK(table, clock) /\ Unique(table) /\ Extended(attempts, table)
            /\ DOMAIN table = DOMAIN attempts /\ table[a] = Expired(attempts[a])
<1> DEFINE row == attempts[a]
<1>1. clock \in Nat /\ GoodRow(row, clock)
  BY AttemptsAssumption DEF IInv, TableOK
<1>2. row.deadline \in 0 .. clock /\ row.deadline # Null /\ row.deadline < clock
  BY <1>1 DEF Overdue, GoodRow, IsAttempt
<1>3. /\ GoodRow(Expired(row), clock)
      /\ Expired(row).student = row.student /\ Expired(row).assessment = row.assessment
  <2> HIDE DEF row
  <2>1. row.status = "IN_PROGRESS"
    BY DEF row
  <2> QED
    BY <1>1, <1>2, <2>1, SettledGood DEF Expired
<1> QED
  BY <1>3, WriteRow

LEMMA SubmittedWrite ==
  ASSUME IInv, NEW a \in DOMAIN attempts, attempts[a].status = "IN_PROGRESS"
  PROVE  LET table == [attempts EXCEPT ![a] = Submitted(attempts[a])]
         IN /\ TableOK(table, clock) /\ Unique(table) /\ Extended(attempts, table)
            /\ DOMAIN table = DOMAIN attempts /\ table[a] = Submitted(attempts[a])
            /\ Submitted(attempts[a]).status = "SUBMITTED"
<1> DEFINE row == attempts[a]
<1>1. clock \in Nat /\ GoodRow(row, clock)
  BY AttemptsAssumption DEF IInv, TableOK
<1>2. clock \in 0 .. clock
  BY <1>1
<1>3. /\ GoodRow(Submitted(row), clock) /\ Submitted(row).status = "SUBMITTED"
      /\ Submitted(row).student = row.student /\ Submitted(row).assessment = row.assessment
  <2> HIDE DEF row
  <2>1. row.status = "IN_PROGRESS"
    BY DEF row
  <2> QED
    BY <1>1, <1>2, <2>1, SettledGood DEF Submitted
<1> QED
  BY <1>3, WriteRow

LEMMA RefreshExpiresStep ==
  ASSUME IInv, NEW r \in Requests, RefreshExpires(r)
  PROVE  IInv' /\ Extended(attempts, attempts')
<1> DEFINE q == requests[r]
           a == q.attempt
           row == Expired(attempts[a])
           table == [attempts EXCEPT ![a] = row]
<1>1. a \in DOMAIN attempts /\ q.op \in {"view", "submit"}
  BY VisitRequest DEF RefreshExpires, IsVisit
<1>2. /\ TableOK(table, clock) /\ Unique(table) /\ Extended(attempts, table)
      /\ DOMAIN table = DOMAIN attempts /\ table[a] = row
  BY <1>1, ExpiredWrite DEF RefreshExpires, NeedsExpiry, Writable
<1>3. /\ attempts' = table /\ Refreshed(r, a, q.op, Meta(row))
      /\ UNCHANGED <<clock, assessments, bank>>
  BY DEF RefreshExpires
<1> HIDE DEF table, row, a, q
<1>4. PICK next : Goto(r, next) /\ RequestOK(next, table, clock)
  BY <1>1, <1>2, <1>3, RefreshedOK
<1> QED
  BY <1>2, <1>3, <1>4, WritingMove

\* NeedsExpiry and a table that is no longer writable: someone else settled the attempt.
LEMMA LostStep ==
  ASSUME IInv, NEW a \in DOMAIN attempts, ~Writable(a)
  PROVE  Terminal(attempts[a].status)
BY DEF Writable, Exists, Terminal

LEMMA RefreshLostStep ==
  ASSUME IInv, NEW r \in Requests, RefreshLost(r)
  PROVE  IInv' /\ Extended(attempts, attempts')
<1> DEFINE q == requests[r]
           q2 == [q EXCEPT !.stage = "reread"]
<1>1. IsVisit(q, attempts)
  BY VisitRequest DEF RefreshLost
<1>2. Terminal(attempts[q.attempt].status)
  BY <1>1, LostStep DEF RefreshLost, IsVisit
<1>3. IsVisit(q2, attempts)
  BY <1>1, <1>2 DEF IsVisit
<1> QED
  BY <1>3, QuietMove DEF RefreshLost, RequestOK

LEMMA RefreshRereadStep ==
  ASSUME IInv, NEW r \in Requests, RefreshReread(r)
  PROVE  IInv' /\ Extended(attempts, attempts')
<1> DEFINE q == requests[r]
<1>1. IsVisit(q, attempts)
  BY VisitRequest DEF RefreshReread
<1>2. PICK next : Goto(r, next) /\ RequestOK(next, attempts, clock)
  BY <1>1, RefreshedOK DEF RefreshReread, IsVisit
<1> QED
  BY <1>2, QuietMove DEF RefreshReread

LEMMA SubmitCommitStep ==
  ASSUME IInv, NEW r \in Requests, SubmitCommit(r)
  PROVE  IInv' /\ Extended(attempts, attempts')
<1> DEFINE q == requests[r]
           a == q.attempt
           row == Submitted(attempts[a])
           table == [attempts EXCEPT ![a] = row]
           answer == [op |-> "answered", attempt |-> a, seen |-> Meta(row)]
           q2 == [q EXCEPT !.stage = "winner"]
<1>1. IsVisit(q, attempts)
  BY VisitRequest DEF SubmitCommit
<1>2. a \in DOMAIN attempts
  BY <1>1 DEF IsVisit
<1>3. CASE Writable(a)
  <2>1. /\ TableOK(table, clock) /\ Unique(table) /\ Extended(attempts, table)
        /\ DOMAIN table = DOMAIN attempts /\ table[a] = row /\ row.status = "SUBMITTED"
    BY <1>2, <1>3, SubmittedWrite DEF Writable
  <2>2. /\ attempts' = table /\ Goto(r, answer)
        /\ UNCHANGED <<clock, assessments, bank>>
    BY <1>3 DEF SubmitCommit
  <2> HIDE DEF table, row, a
  <2>3. IsAnswered(answer, table)
    BY <1>2, <2>1 DEF IsAnswered, Meta, Terminal
  <2> HIDE DEF answer
  <2> QED
    BY <2>1, <2>2, <2>3, WritingMove DEF RequestOK
<1>4. CASE ~Writable(a)
  <2>1. Terminal(attempts[a].status)
    BY <1>2, <1>4, LostStep
  <2>2. IsVisit(q2, attempts)
    BY <1>1, <2>1 DEF IsVisit
  <2> QED
    BY <1>4, <2>2, QuietMove DEF SubmitCommit, RequestOK
<1> QED
  BY <1>3, <1>4

LEMMA SubmitWinnerStep ==
  ASSUME IInv, NEW r \in Requests, SubmitWinner(r)
  PROVE  IInv' /\ Extended(attempts, attempts')
<1> DEFINE q == requests[r]
           answer == [op |-> "answered", attempt |-> q.attempt, seen |-> Winner(q)]
<1>1. IsVisit(q, attempts)
  BY VisitRequest DEF SubmitWinner
<1>2. IsAnswered(answer, attempts)
  BY <1>1 DEF SubmitWinner, IsVisit, IsAnswered, Winner, Meta
<1> QED
  BY <1>2, QuietMove DEF SubmitWinner, RequestOK

LEMMA AnsweredStep ==
  ASSUME IInv, NEW r \in Requests, Answered(r)
  PROVE  IInv' /\ Extended(attempts, attempts')
BY IdleOK, QuietMove DEF Answered, End
-----------------------------------------------------------------------------
(* The environment.                                                        *)

LEMMA TickStep ==
  ASSUME IInv, Tick
  PROVE  IInv' /\ Extended(attempts, attempts')
<1>1. clock \in Nat /\ clock' \in 0 .. MaxTime /\ clock' \in Nat /\ clock <= clock'
  BY AttemptsAssumption DEF IInv, Tick
<1>2. UNCHANGED <<assessments, bank, attempts, requests>>
  BY DEF Tick
<1>3. TableOK(attempts, clock')
  BY <1>1, ClockGood DEF IInv, TableOK
<1>4. RequestsOK(requests, attempts, clock')
  <2>1. Extended(attempts, attempts)
    BY ExtendedRefl
  <2> QED
    BY <1>1, <2>1, RequestFrame DEF IInv, RequestsOK
<1> QED
  BY <1>1, <1>2, <1>3, <1>4, ExtendedRefl DEF IInv

LEMMA EditAssessmentStep ==
  ASSUME IInv, NEW as \in Assessments, NEW row \in AssessmentRows, EditAssessment(as, row)
  PROVE  IInv' /\ Extended(attempts, attempts')
BY ExtendedRefl DEF EditAssessment, IInv

LEMMA EditQuestionsStep ==
  ASSUME IInv, NEW keys \in Banks, EditQuestions(keys)
  PROVE  IInv' /\ Extended(attempts, attempts')
BY ExtendedRefl DEF EditQuestions, IInv

LEMMA ApiRestartStep ==
  ASSUME IInv, ApiRestart
  PROVE  IInv' /\ Extended(attempts, attempts')
<1>1. RequestsOK([r \in Requests |-> Idle], attempts, clock)
  BY IdleOK DEF RequestsOK
<1> QED
  BY <1>1, ExtendedRefl DEF ApiRestart, IInv

-----------------------------------------------------------------------------
(* Theorems.                                                               *)

\* Every step keeps the inductive invariant, and every attempts row that exists stays,
\* unchanged once it is terminal.
LEMMA NextStep ==
  ASSUME IInv, [Next]_vars
  PROVE  IInv' /\ Extended(attempts, attempts')
<1>1. CASE UNCHANGED vars
  BY <1>1, ExtendedRefl DEF vars, IInv
<1>2. CASE \E r \in Requests : RequestStep(r)
  <2>1. PICK r \in Requests : RequestStep(r)
    BY <1>2
  <2>2. CASE \E s \in Students, as \in Assessments : StartRead(r, s, as)
    BY <2>2, StartReadStep
  <2>3. CASE StartCheck(r)
    BY <2>3, StartCheckStep
  <2>4. CASE StartSnapshot(r)
    BY <2>4, StartSnapshotStep
  <2>5. CASE StartInsert(r)
    BY <2>5, StartInsertStep
  <2>6. CASE \E a \in AttemptIds, kind \in {"view", "submit"} : Visit(r, a, kind)
    BY <2>6, VisitStep
  <2>7. CASE LoadStarted(r)
    BY <2>7, LoadStartedStep
  <2>8. CASE RefreshKeeps(r)
    BY <2>8, RefreshKeepsStep
  <2>9. CASE RefreshExpires(r)
    BY <2>9, RefreshExpiresStep
  <2>10. CASE RefreshLost(r)
    BY <2>10, RefreshLostStep
  <2>11. CASE RefreshReread(r)
    BY <2>11, RefreshRereadStep
  <2>12. CASE SubmitCommit(r)
    BY <2>12, SubmitCommitStep
  <2>13. CASE SubmitWinner(r)
    BY <2>13, SubmitWinnerStep
  <2>14. CASE Answered(r)
    BY <2>14, AnsweredStep
  <2>15. CASE \E a \in AttemptIds : RefuseLateAnswer(r, a)
    BY <2>15, RefuseLateAnswerStep
  <2> QED
    BY <2>1, <2>2, <2>3, <2>4, <2>5, <2>6, <2>7, <2>8, <2>9, <2>10, <2>11, <2>12, <2>13, <2>14, <2>15
       DEF RequestStep
<1>3. CASE \E a \in AttemptIds, q \in Questions, answer \in Answers : SaveResponse(a, q, answer)
  BY <1>3, SaveResponseStep
<1>4. CASE Tick
  BY <1>4, TickStep
<1>5. CASE \E as \in Assessments, row \in AssessmentRows : EditAssessment(as, row)
  BY <1>5, EditAssessmentStep
<1>6. CASE \E keys \in Banks : EditQuestions(keys)
  BY <1>6, EditQuestionsStep
<1>7. CASE ApiRestart
  BY <1>7, ApiRestartStep
<1> QED
  BY <1>1, <1>2, <1>3, <1>4, <1>5, <1>6, <1>7 DEF Next

\* The inductive invariant holds in every reachable state.
THEOREM Invariance == Spec => []IInv
<1>1. IInv /\ [Next]_vars => IInv'
  BY NextStep
<1> QED
  BY InitIInv, <1>1, PTL DEF Spec

\* Every row keeps the shape of the schema and every saved answer belongs to a question
\* of its own attempt's snapshot (the tables of schema/attempts.ts).
THEOREM TypeCorrect == Spec => []TypeOK
<1>1. IInv => TypeOK
  BY DEF IInv, TypeOK, TableOK, GoodRow
<1> QED
  BY <1>1, Invariance, PTL

\* An attempt is evaluated exactly when it is terminal, by the answers it holds and the
\* snapshot taken at its start, whatever interleaving of saves, submits and expiries led
\* there (evaluateAttempt).
THEOREM AlwaysScored == Spec => []Scored
<1>1. IInv => Scored
  BY DEF IInv, TableOK, GoodRow, RowScored, Scored
<1> QED
  BY <1>1, Invariance, PTL

\* Concurrent starts leave a student at most one attempt in progress on an assessment
\* (start and attempts_one_in_progress_unique).
THEOREM AtMostOneOpenAttempt == Spec => []OneOpenAttempt
<1>1. IInv => OneOpenAttempt
  BY DEF IInv, Unique, OneOpenAttempt, OpenFor
<1> QED
  BY <1>1, Invariance, PTL

\* No saved answer is later than the deadline, and an expired attempt is dated at a
\* deadline that has passed (saveResponse, refreshAndExpire).
THEOREM DeadlineAlwaysKept == Spec => []DeadlineKept
<1>1. IInv => DeadlineKept
  BY DEF IInv, TableOK, GoodRow, RowDeadlineKept, DeadlineKept
<1> QED
  BY <1>1, Invariance, PTL

\* The row a submit answers with is the attempt's final outcome, whoever won the race to
\* settle it (submit, refreshAndExpire).
THEOREM SubmitAlwaysAnswersOutcome == Spec => []SubmitAnswersOutcome
<1>1. IInv => SubmitAnswersOutcome
  <2> SUFFICES ASSUME IInv, NEW r \in Requests, requests[r].op = "answered"
               PROVE  /\ Terminal(requests[r].seen.status)
                      /\ requests[r].seen = Meta(attempts[requests[r].attempt])
    BY DEF SubmitAnswersOutcome
  <2>1. IsAnswered(requests[r], attempts)
    BY DEF IInv, RequestsOK, RequestOK, Idle, IsStart, IsLoad, IsVisit, IsRefused
  <2> QED
    BY <2>1 DEF IsAnswered
<1> QED
  BY <1>1, Invariance, PTL

\* A terminal attempt never changes and no attempt disappears (the guarded updates of
\* submit and refreshAndExpire and the row lock of saveResponse).
THEOREM OutcomeIsFinal == Spec => OutcomeFinal
<1>1. IInv /\ [Next]_vars =>
        [\A a \in DOMAIN attempts :
           /\ a \in DOMAIN attempts'
           /\ Terminal(attempts[a].status) => attempts'[a] = attempts[a]]_vars
  BY NextStep DEF Extended
<1> QED
  BY <1>1, Invariance, PTL DEF Spec, OutcomeFinal
=============================================================================
