SPECIFICATION Spec
CONSTANTS
  j1 = j1
  j2 = j2
  book = book
  notes = notes
  unit = unit
  Jobs = {j1, j2}
  Targets = {unit}
  Workloads <- All
  Requests = {r1}
  Null = Null
INVARIANTS TypeOK SerialRunsStoreOnce VersionsGapless EditsInEffect DependentsHaveMaterial CompletedIsStored
PROPERTIES TouchedKept ConfirmedKept JobsSettle
CHECK_DEADLOCK FALSE
