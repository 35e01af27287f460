CONSTANTS
  MaxSessions = 2
  w1 = w1
  w2 = w2
  Workers <- TwoWorkers
  Faults <- AllFaults
SPECIFICATION FairSpec
CHECK_DEADLOCK FALSE
INVARIANTS
  BuffersStayWhole
  CrashHasCause
  Ownership
  PausedHoldsNothing
PROPERTIES
  PreviewNeverStalls
  PauseReleases
