SPECIFICATION ReliableSpec

CONSTANTS
  NumDatabases = 3
  MaxTimeouts = 1
  OthersEvery = 1
  Ids = {a, b}
  Values = {u}
  MaxRequests = 6
  MaxPosts = 3
  MaxInFlight = 9
  Failing = {1}

INVARIANTS
  ReplicasAgree
  CreatedInAll
  ReadReportsTheStore
PROPERTIES
  ActsAsOneStore

CHECK_DEADLOCK FALSE
