\* Claims are lost, or handlers outlive staleRunning, up to three times in all.
SPECIFICATION QueueFairSpec
CONSTANTS
  Jobs = {j1, j2}
  Workers = {w1, w2, w3}
  NoJob = NoJob
  MaxAttempts = 2
  MaxLost = 3
  SlowHandlers = TRUE
INVARIANTS
  QueueTypeOK
  OneHandlerPerJob
  ClaimIsCurrent
  AttemptsPaidFor
  FailedAfterAllAttempts
PROPERTIES
  FinishedStaysFinished
  EveryJobFinishes
