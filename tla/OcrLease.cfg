SPECIFICATION Spec
CONSTANTS
  Workers = {w1, w2}
  Users = {u1}
  Sweepers = {s1, s2}
  MaxJobs = 2
  PageCount = 2
  ChunkSize = 1
  SinglePage = FALSE
  MaxAttempts = 2
  Scenarios <- LeaseScenarios
  NoWorker = NoWorker
  NoRef = NoRef
INVARIANTS TypeOK LeaseCoherent AllChunksMaterialized ReadyIsWhole ActiveJobHasChunks
PROPERTIES LiveLeaseNotStolen
SYMMETRY Symmetry
CHECK_DEADLOCK FALSE
