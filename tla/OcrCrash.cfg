SPECIFICATION Spec
CONSTANTS
  Workers = {w1}
  Users = {u1}
  Sweepers = {s1}
  MaxJobs = 1
  PageCount = 2
  ChunkSize = 1
  SinglePage = FALSE
  MaxAttempts = 2
  Scenarios <- CrashScenarios
  NoWorker = NoWorker
  NoRef = NoRef
INVARIANTS AllChunksMaterialized
CHECK_DEADLOCK FALSE
