CONSTANTS
  Sizes <- SomeSizes
  Displays <- SomeDisplays
  MaxSizes = 4
SPECIFICATION SizeSpec
INVARIANTS
  ChosenIsBest
  BestSoFar
CHECK_DEADLOCK FALSE
