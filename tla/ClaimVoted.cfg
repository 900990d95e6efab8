SPECIFICATION Spec

CONSTANTS
  NumDatabases = 1
  MaxTimeouts = 1
  OthersEvery = 1
  Ids = {a}
  Values = {u}
  MaxRequests = 3
  MaxPosts = 2
  MaxInFlight = 9
  Failing = {}

INVARIANTS
  VotedWhenEvaluated

CHECK_DEADLOCK FALSE
