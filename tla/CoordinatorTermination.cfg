SPECIFICATION FairSpec

CONSTANTS
  NumDatabases = 2
  MaxTimeouts = 0
  OthersEvery = 1
  Ids = {a, b}
  Values = {u}
  MaxRequests = 6
  MaxPosts = 3
  MaxInFlight = 9
  Failing = {}

PROPERTIES
  RequestsEnd

CHECK_DEADLOCK FALSE
