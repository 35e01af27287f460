CONSTANTS
  MaxSessions = 1
  w1 = w1
  w2 = w2
  Workers <- OneWorker
  Faults <- CameraFault
SPECIFICATION Spec
CHECK_DEADLOCK FALSE
INVARIANT ComesUpWithoutCamera
