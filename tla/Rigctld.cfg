SPECIFICATION FairSpec
CONSTANTS
  Conns = {c, d}
  Lines <- SomeLines
  Numbers = {"7000"}
  Booleans = {"true", "false"}
  Rigs = {0, 1}
  Fields = {"transmit"}
  KindOf <- Kinds
  Words <- Panel
  NoLine = NoLine
  QueueCap = 1
  BusCap = 1
  MaxLines = 2
  MaxMessages = 2
  MaxTurns = 1
CHECK_DEADLOCK FALSE
INVARIANTS
  AckedIsQueued
  StatusFollows
PROPERTIES
  LineIsAnswered
