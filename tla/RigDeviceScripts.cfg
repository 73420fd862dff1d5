SPECIFICATION Spec
CONSTANTS
  r1 = r1
  r2 = r2
  v1 = v1
  v2 = v2
  NoValue = NoValue
  Requests <- BothRequests
  InitScript <- Ack
  StatusScript <- Ack
  CommandScript <- MixedCommands
  Values = {v1}
  CommandCap = 2
  MessageCap = 2
  TaskCap = 1
  MaxFaults = 2
CHECK_DEADLOCK FALSE
INVARIANTS
  TypeOK
  CacheHoldsLastPoll
  ReadsPaired
  LossIsAnnounced
  SuccessIsDelivered
  CircularWaitNeedsFaults
  AnswersOwnWrite
  NeverReplayed
PROPERTIES
  ImplementsService
