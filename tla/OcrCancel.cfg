SPECIFICATION Spec
CONSTANTS
  Workers = {w1}
  Users = {u1}
  Sweepers = {s1}
  MaxJobs = 1
  PageCount = 2
  ChunkSize = 1
  SinglePage = FALSE
  MaxAttempts = 1
  Scenarios <- CancelScenarios
  NoWorker = NoWorker
  NoRef = NoRef
PROPERTIES CancellingEndsCancelled
CHECK_DEADLOCK FALSE
