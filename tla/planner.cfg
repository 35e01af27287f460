CONSTANTS
  Problems <- SomeProblems
  Flags <- SomeFlags
  Depth = 3
  Solvers <- SomeSolvers
  Rejects <- SomeRejects
  Children <- SomeChildren
  Requested <- SomeRequested
  Limits <- TwoLimits
  Importable <- SomeImportable
SPECIFICATION Spec
CHECK_DEADLOCK FALSE
INVARIANTS
  PlansAreMade
  WisdomSuffices
  WisdomIsTrue
  InsertsAreNew
