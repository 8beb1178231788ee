CONSTANTS
  w1 = w1
  w2 = w2
  Workers <- TwoWorkers
  MaxConnections = 4
  WorkerFloor = 1
  MaxAccepts = 1
  MaxListens = 1
  MaxStops = 1
  LoopOutcomes <- AnyOutcome
SPECIFICATION FairSpec
CHECK_DEADLOCK FALSE
PROPERTIES
  SignalStops
  StoppedLoopEnds
  ListenReturnsAfterStop
