SPECIFICATION Spec
CONSTANTS
  MaxJobs = 1
  MaxWorkers = 1
  Concurrency <- MCConcurrency
  RateLimit = 10
  Time = {1}
  PopCall = {p1, p2}
  MaxCalls = 1
  Retry <- MCRetry
  MaxTicks = 1
  Faults = {"error"}
PROPERTY RetryHonoured
CHECK_DEADLOCK FALSE
