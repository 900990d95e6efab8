SPECIFICATION FairSpec

CONSTANTS
  MaxTries = 3
  MaxReplies = 3
  MaxFailures = 4

INVARIANTS
  TypeOK
  PermitsBacked
  HeadIsSent
  
  DeliveredInOrder
PROPERTIES
  ImplementsQueue
  EverythingUploaded

CHECK_DEADLOCK FALSE
