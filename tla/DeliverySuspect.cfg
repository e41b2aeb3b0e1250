SPECIFICATION Spec
CONSTANTS
  MaxJobs = 2
  MaxWorkers = 2
  Concurrency <- MCConcurrency
  RateLimit = 10
  Time = {1}
  PopCall = {p1, p2}
  MaxCalls = 1
  Retry <- MCRetry
  MaxTicks = 1
  Faults = {"suspect"}
SYMMETRY Symmetry
INVARIANTS SlotsExact ExecutingAccounted Backpressure
PROPERTIES IsDeliveryWindow PollingStaysOff
CHECK_DEADLOCK FALSE
