SPECIFICATION FairClientSpec
CONSTANTS
  r1 = r1
  r2 = r2
  freq = freq
  Rigs = {r1, r2}
  Listed = {r1, r2}
  Handled = {r1, r2}
  Fields = {freq}
  Implemented <- TheImplemented
  Values = {v}
  Connection = Connection
  None = None
  Unknown = Unknown
  Asks = {}
  BusCap = 1
  NoticeCap = 1
  SocketCap = 2
  MaxChanges = 1
  MaxRequests = 13
  MaxSplits = 1
  MaxExits = 1
  MaxConnects = 2
CHECK_DEADLOCK FALSE
INVARIANTS
  ResponsesPair
  ViewFollows
  LostShown
PROPERTY
  InitEnds
