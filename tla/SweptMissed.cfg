SPECIFICATION Spec
CONSTANTS
  s1 = s1
  s2 = s2
  r1 = r1
  r2 = r2
  i1 = i1
  i2 = i2
  Sweepers = {s1}
  Requests = {r1}
  Items = {i1}
  Settings <- OneText
  Null = Null
INVARIANT ReuseIsSafe
CHECK_DEADLOCK FALSE
