SPECIFICATION Spec

CONSTANTS
  MaxTries = 3
  MaxReplies = 1
  MaxFailures = 3

INVARIANTS
  SentAgain

CHECK_DEADLOCK FALSE
