CONSTANTS
  Sizes <- SomeSizes
  Images <- SomeImages
  MaxFrames = 2
SPECIFICATION Spec
INVARIANTS
  DecodesItsBlock
  ToneOfThisFrame
CHECK_DEADLOCK FALSE
