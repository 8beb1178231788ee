SPECIFICATION Spec
CONSTANTS
  MaxHeaderBytes = 6
  MaxBodyBytes = 3
  MaxRequestsPerConnection = 2
  SizeMax = 15
  Blocks <- MCBlocks
INVARIANTS
  LengthIsNumber
CHECK_DEADLOCK FALSE
