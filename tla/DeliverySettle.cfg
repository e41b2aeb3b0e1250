SPECIFICATION FairSpec
CONSTANTS
  MaxJobs = 2
  MaxWorkers = 2
  Concurrency <- MCConcurrency
  RateLimit = 1
  Time = {1, 2}
  PopCall = {p1, p2}
  MaxCalls = 1
  Retry <- MCRetry
  MaxTicks = 1
  Faults = {}
INVARIANT TakenInOrder
PROPERTY JobsSettle
CHECK_DEADLOCK FALSE
