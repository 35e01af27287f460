CONSTANTS
  c1 = c1
  c2 = c2
  w1 = w1
  w2 = w2
  w3 = w3
  w4 = w4
  Clients <- TwoClients
  Workers <- FourWorkers
  Loops <- SomeLoops
  MaxThreads = 2
  MaxDepth = 2
  MaxCalls = 2
  MaxInits = 2
SPECIFICATION FairSpec
CHECK_DEADLOCK FALSE
INVARIANTS
  EveryIterationOnce
  WorkIsLive
  KillReachesAll
  ThreadedPlannerHasPool
PROPERTY CallsReturn
