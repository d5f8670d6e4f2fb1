SPECIFICATION Spec
CONSTANTS
  s1 = s1
  s2 = s2
  r1 = r1
  r2 = r2
  i1 = i1
  i2 = i2
  Sweepers = {s1}
  Requests = {r1}
  Items = {i1}
  Settings <- OnePaper
  Null = Null
PROPERTIES AcceptedKept
CHECK_DEADLOCK FALSE
