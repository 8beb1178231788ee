SPECIFICATION Spec
CONSTANTS
  h1 = h1
  h2 = h2
  Methods = {"GET", "POST"}
  Segments <- MCSegments
  Colons = {"c:d"}
  Names <- MCNames
  Handlers = {h1, h2}
  Wild = Wild
  NoHandler = NoHandler
  Calls <- MCCalls
  Paths <- MCPaths
  LinearMax = 1
  MaxCalls = 3
INVARIANTS
  TypeOK
  NothingIsLost
  AnswersAsTable
CHECK_DEADLOCK FALSE
