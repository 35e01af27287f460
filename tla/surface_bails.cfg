CONSTANTS
  MaxSessions = 1
  w1 = w1
  w2 = w2
  Workers <- OneWorker
  Faults <- NoFaults
SPECIFICATION Spec
CHECK_DEADLOCK FALSE
INVARIANT SurfaceCallbacksBail
