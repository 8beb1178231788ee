CONSTANTS
  w1 = w1
  w2 = w2
  Workers <- OneWorker
  MaxConnections = 2
  WorkerFloor = 1
  MaxAccepts = 2
  MaxListens = 1
  MaxStops = 1
  LoopOutcomes <- EarlyEnd
SPECIFICATION Spec
CHECK_DEADLOCK FALSE
PROPERTIES
  StopReachesIdle
