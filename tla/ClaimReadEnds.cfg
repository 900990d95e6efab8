SPECIFICATION FairSpec

CONSTANTS
  MaxTries = 3
  MaxReplies = 1
  MaxFailures = 3

PROPERTIES
  ReadEnds

CHECK_DEADLOCK FALSE
