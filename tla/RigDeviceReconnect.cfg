SPECIFICATION FairSpec
CONSTANTS
  r1 = r1
  r2 = r2
  v1 = v1
  v2 = v2
  NoValue = NoValue
  Requests <- OneRequest
  InitScript <- Ack
  StatusScript <- Ack
  CommandScript <- OneCommand
  Values = {v1}
  CommandCap = 32
  MessageCap = 8
  TaskCap = 16
  MaxFaults = 1
CHECK_DEADLOCK FALSE
PROPERTIES
  Reconnects
