SPECIFICATION PromptSpec

CONSTANTS
  NumDatabases = 2
  MaxTimeouts = 1
  OthersEvery = 1
  Ids = {a, b}
  Values = {u}
  MaxRequests = 6
  MaxPosts = 3
  MaxInFlight = 9
  Failing = {}

INVARIANTS
  CursorReachable
  OneCallPerDatabase
  VotedWhenEvaluated
  UnanimousVote

CHECK_DEADLOCK FALSE
