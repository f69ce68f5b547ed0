SPECIFICATION QueueSpec
CONSTANTS
  j1 = j1
  j2 = j2
  LastQueue = 2
  Jobs <- MCJobs
  QueueOf <- MCQueueOf
  MaxRuns = 1
  Early = FALSE
INVARIANT StopWaitsForHandlers
CHECK_DEADLOCK FALSE
