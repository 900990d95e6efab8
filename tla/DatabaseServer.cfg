SPECIFICATION FairSpec

CONSTANTS
  Slow = TRUE
  LastCreateRequest = 1
  MaxClients = 2
  MaxVotes = 3
  Inputs <- MCInputs

INVARIANTS
  TypeOK
  UncaughtWasThrown
  EndsAtTheLimit
PROPERTIES
  ImplementsRemoteCall
  CallsEnd

CHECK_DEADLOCK FALSE
