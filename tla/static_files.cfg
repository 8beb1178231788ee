CONSTANTS
  c1 = c1
  c2 = c2
  f1 = f1
  f2 = f2
  m1 = m1
  m2 = m2
  Conns <- TwoConns
  Objects <- MCObjects
  Regions <- MCRegions
  Paths <- MCPaths
  FileSize <- MCSizes
  NoRegion = NoRegion
  NoPath = "none"
  Heap = Heap
  MaxDescriptors = 2
  MaxLost = 1
  Requests <- CarefulRequests
SPECIFICATION Spec
SYMMETRY Symmetry
CHECK_DEADLOCK FALSE
INVARIANTS
  TypeOK
  HeldIsOpen
  OpenIsHeld
  MappedBodyAlive
  BodyIsLastGiven
  FramingIsTransports
  TestsSeeTheWire
