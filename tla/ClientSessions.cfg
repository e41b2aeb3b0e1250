SPECIFICATION FairSpec
CONSTANTS
  MaxJobs = 1
  MaxWorkers = 2
  Concurrency <- MCConcurrency
  RateLimit = 10
  Time = {1}
  PopCall = {p1}
  MaxCalls = 1
  Retry <- MCRetry
  Faults = {"close", "crash", "restart", "repeat", "error", "lose", "unknown", "dbfail"}
INVARIANTS TypeOK ExecutingOwed LoadPerSession
PROPERTIES NeverStuck RerunOnlyContested
CHECK_DEADLOCK FALSE
