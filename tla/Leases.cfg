SPECIFICATION FairSpec
CONSTANTS
  Jobs = {j1, j2, j3}
  LeaseTimes = {1, 2}
  Second = 2
  NoLease = NoLease
  MaxStart = 3
  MaxTime = 8
  MaxLeases = 4
INVARIANTS TypeOK LeaseKept NoStrayReport SleepsForEarliest
PROPERTY ComesToRest
CHECK_DEADLOCK FALSE
