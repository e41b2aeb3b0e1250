SPECIFICATION FairSpec
CONSTANTS
  Workers = {w1}
  BeatEvery = 4
  ScanEvery = 5
  MaxSilence = 9
  NetDelay = 2
  PostDelay = 1
  Faults = {"crash", "late", "unknown"}
INVARIANTS LiveStays NoPhantom SilentLeave
PROPERTY OutcastsForgotten
