CONSTANTS
  w1 = w1
  w2 = w2
  Workers <- TwoWorkers
  MaxConnections = 3
  WorkerFloor = 1
  MaxAccepts = 2
  MaxListens = 2
  MaxStops = 1
  LoopOutcomes <- LuckyOutcome
SPECIFICATION Spec
CHECK_DEADLOCK FALSE
INVARIANTS
  TypeOK
  MapHoldsOpen
  KeepsAccepting
  ReturnsClean
  TotalCapacity
  
PROPERTIES
  AtMostOneLateAdmission
  FollowsLifecycle
