CONSTANTS
  Bands = 3
  Skew <- Widening
  MaxCaptures = 2
  CaptureSizes <- FourOrEight
  Components <- SomeComponents
SPECIFICATION FairSpec
CHECK_DEADLOCK FALSE
INVARIANTS
  ReadsInBounds
  BandsPartitionBins
  CirclesShowLoudest
PROPERTY LastCaptureIsDrawn
