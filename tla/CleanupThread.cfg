SPECIFICATION CleanupFairSpec
CONSTANT MaxInits = 4
INVARIANTS Clearable QuietWhenClosed
PROPERTY SweepsForEver
CHECK_DEADLOCK FALSE
