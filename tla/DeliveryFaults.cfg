SPECIFICATION FairSpec
CONSTANTS
  MaxJobs = 1
  MaxWorkers = 2
  Concurrency <- MCConcurrency
  RateLimit = 10
  Time = {1}
  PopCall = {p1}
  MaxCalls = 2
  Retry <- MCRetry
  MaxTicks = 1
  Faults = {"error", "aged", "crash", "suspect", "lose", "unknown", "dbfail"}
INVARIANT IInv
PROPERTIES DeadWorkersJobsFreed StarvesOnlyUnpolled
CHECK_DEADLOCK FALSE
