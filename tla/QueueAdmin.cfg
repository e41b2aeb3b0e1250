SPECIFICATION Spec
CONSTANTS
  Queues = {q1, q2}
  Workers = {w1, w2}
  MaxObjects = 4
  MaxJobs = 1
  Calls = {c1, c2}
  DbFails = TRUE
INVARIANTS RowsServed ListenersScheduled
CHECK_DEADLOCK FALSE
