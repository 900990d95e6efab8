SPECIFICATION Spec

CONSTANTS
  UdpSensors = {u}
  MqttSensors = {m}
  Capacity = 2
  NumberOfTries = 1
  MaxValues <- MCMaxValues
  MaxPolls <- MCMaxPolls

INVARIANTS
  TypeOK
  OrderKept
  NothingLost
  PermitsCoverBuffer
PROPERTIES
  AnswerIsCurrent

CHECK_DEADLOCK FALSE
