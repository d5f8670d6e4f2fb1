SPECIFICATION LiveSpec
CONSTANTS
  Workers = {w1, w2}
  Users = {u1}
  Sweepers = {s1}
  MaxJobs = 1
  PageCount = 2
  ChunkSize = 1
  SinglePage = FALSE
  MaxAttempts = 2
  Scenarios <- SettleScenarios
  NoWorker = NoWorker
  NoRef = NoRef
INVARIANTS ReadyIsWhole NoOrphanProcessing
PROPERTIES RunningChunksKept ProcessingSettles CancellingSettles
CHECK_DEADLOCK FALSE
