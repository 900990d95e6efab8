SPECIFICATION LiveSpec

CONSTANTS
  NumDatabases = 2
  MaxTimeouts = 1
  OthersEvery = 1
  Ids = {1, 2, 3}
  Values = {u}
  MaxRequests = 6
  MaxPosts = 3
  MaxInFlight = 9
  Failing = {}

PROPERTIES
  EverythingStored

CHECK_DEADLOCK FALSE
