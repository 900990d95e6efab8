SPECIFICATION PromptSpec

CONSTANTS
  NumDatabases = 2
  MaxTimeouts = 1
  OthersEvery = 1
  Ids = {a, b}
  Values = {u}
  MaxRequests = 3
  MaxPosts = 2
  MaxInFlight = 9
  Failing = {}

PROPERTIES
  RetriedNextIteration

CHECK_DEADLOCK FALSE
