SPECIFICATION Spec

CONSTANTS
  NumDatabases = 1
  MaxTimeouts = 1
  OthersEvery = 1
  Ids = {a, b}
  Values = {u}
  MaxRequests = 6
  MaxPosts = 3
  MaxInFlight = 1
  Failing = {1}

INVARIANTS
  TypeOK
  QueueCounted
  BatchNeverEmpty
  Handshake
PROPERTIES
  ExcludedForGood
  MakesRemoteCalls

CHECK_DEADLOCK FALSE
