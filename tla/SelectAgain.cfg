SPECIFICATION Spec
CONSTANTS
  q1 = q1
  q2 = q2
  q3 = q3
  ch1 = ch1
  ch2 = ch2
  r1 = r1
  r2 = r2
  Questions = {q1, q2, q3}
  Chapters = {ch1, ch2}
  Types = {"MCQ", "SA"}
  Requests = {r1, r2}
  Settings <- Selections
  Null = Null
PROPERTY SatisfiedKept
CHECK_DEADLOCK FALSE
