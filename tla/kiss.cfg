SPECIFICATION Spec
CONSTANTS
  P = 35281
  G = 23
  Options <- SomeOptions
  Samples <- SomeSamples
  MaxBlocks <- BlocksOf
  CachedSizes <- SomeSizes
  Signal <- Dense
  MaxCalls = 4
  Filters <- SomeFilters
  MinFftLen = 6
  Input <- SomeInput
  MaxRead = 14
INVARIANTS TransformsAreDFT CountedOnce FilteredAsDirectly
CHECK_DEADLOCK FALSE
