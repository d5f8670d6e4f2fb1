SPECIFICATION Spec
CONSTANTS
  q1 = q1
  q2 = q2
  x = x
  y = y
  Students = {s1}
  Assessments = {p1}
  Questions = {q1, q2}
  Answers = {x}
  Banks <- Corrected
  AttemptIds = {a1, a2}
  Requests = {r1}
  AssessmentRows <- TwoQuestions
  MaxTime = 3
  Null = Null
INVARIANTS LateAnswerExpires
