SPECIFICATION FairSpec
CONSTANTS
  r1 = r1
  r2 = r2
  v1 = v1
  v2 = v2
  NoValue = NoValue
  Requests <- OneRequest
  InitScript <- Ack
  StatusScript <- Ack
  CommandScript <- OneCommand
  Values = {v1}
  CommandCap = 2
  MessageCap = 2
  TaskCap = 1
  MaxFaults = 1
CHECK_DEADLOCK FALSE
PROPERTIES
  ReconnectsUnlessStuck
  RequestsAnswered
  RemovedRigEnds
  ActsAsManaged
