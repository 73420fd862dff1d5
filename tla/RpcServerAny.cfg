SPECIFICATION RpcSpec
CONSTANTS
  r1 = r1
  r2 = r2
  freq = freq
  mode = mode
  Rigs = {r1, r2}
  Listed = {r1}
  Handled = {r1}
  Fields = {freq, mode}
  Implemented <- TheImplemented
  Values = {v}
  Connection = Connection
  None = None
  Unknown = Unknown
  Asks <- SomeAsks
  BusCap = 1
  NoticeCap = 1
  SocketCap = 1
  MaxChanges = 2
  MaxRequests = 2
  MaxSplits = 1
CHECK_DEADLOCK FALSE
INVARIANTS
  SessionFollows
  StateFollows
  AnswersInOrder
