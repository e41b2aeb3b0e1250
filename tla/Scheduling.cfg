SPECIFICATION Spec
CONSTANTS
  MaxJobs = 1
  MaxWorkers = 4
  Concurrency <- MCConcurrency
  RateLimit = 10
INVARIANTS LoadBounded StaleIndexSkipsOne RoundRobin ScanMatchesLoop
