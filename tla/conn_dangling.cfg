CONSTANTS
  MaxHeaderBytes = 6
  MaxBodyBytes = 6
  MaxRequestsPerConnection = 4
  SizeMax = 12
  BufferSize = 8
  LowWater = 2
  Streams <- PipelinedStreams
  Replies <- OneReply
SPECIFICATION Spec
CHECK_DEADLOCK FALSE
INVARIANTS
  ViewsValidWhenServed
