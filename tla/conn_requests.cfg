CONSTANTS
  MaxHeaderBytes = 6
  MaxBodyBytes = 6
  MaxRequestsPerConnection = 3
  SizeMax = 12
  BufferSize = 8
  LowWater = 2
  Streams <- AllStreams
  Replies <- AllReplies
SPECIFICATION ClientSpec
CHECK_DEADLOCK FALSE
INVARIANTS
  TypeOK
  ReadTargetsFreeSpace
  WindowIsStream
  BufferBound
  ServedInOrder
  OneOperation
  LastIsLast
  RequestBudget
  ClosesOnce
  NextResponseIsFound
  ViewsIntactAtOrigin
PROPERTIES
  ClosedIsFinal
  ImplementsLifecycle
  EveryRequestAnswered
  ImplementsFairLifecycle
