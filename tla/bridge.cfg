CONSTANTS
  BufferSize = 6
  MaxChunks = 3
  MaxPlayed = 5
SPECIFICATION FairSpec
INVARIANTS
  InOrderOnce
  SilenceOnlyAfterRelease
  NothingLost
PROPERTIES
  BridgeEnds
  BridgeLifeImplemented
CHECK_DEADLOCK FALSE
