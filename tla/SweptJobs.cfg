SPECIFICATION Spec
CONSTANTS
  s1 = s1
  s2 = s2
  r1 = r1
  r2 = r2
  i1 = i1
  i2 = i2
  Sweepers = {s1, s2}
  Requests = {r1, r2}
  Items = {i1, i2}
  Settings <- All
  Null = Null
INVARIANTS TypeOK VersionsAdvance LatestIsCurrent ResultsOnce
PROPERTIES PurgeSparesTouched JobsSettle
CHECK_DEADLOCK FALSE
