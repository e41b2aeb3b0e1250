SPECIFICATION HeapSpec
CONSTANTS
  Count = 7
  Jobs <- MCJobs
  LeaseTimes = {1, 2}
  MaxStart = 7
  Used <- MCUsed
  NoLease = NoLease
  MaxHeld = 6
INVARIANT HoldsExactly
PROPERTIES RemovalBreaksOrderOnlyAbove IsPriorityQueue
