SPECIFICATION Spec
CONSTANTS
  q1 = q1
  q2 = q2
  x = x
  y = y
  Students = {s1}
  Assessments = {p1}
  Questions = {q1, q2}
  Answers = {x}
  Banks <- Corrected
  AttemptIds = {a1, a2}
  Requests = {r1, r2}
  AssessmentRows <- OneQuestion
  MaxTime = 1
  Null = Null
INVARIANTS TypeOK Scored OneOpenAttempt DeadlineKept SubmitAnswersOutcome
PROPERTIES OutcomeFinal ExamKept
SYMMETRY Interchangeable
