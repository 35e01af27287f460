CONSTANTS
  MaxFrames = 3
  w1 = w1
  w2 = w2
  Workers <- TwoWorkers
SPECIFICATION FairSpec
INVARIANTS
  TonesOfOneFrame
PROPERTIES
  FramesInOrder
  EveryFrameIsHeard
  PreviewBuffersImplemented
CHECK_DEADLOCK FALSE
