SPECIFICATION FairSpec
CONSTANTS
  a = a
  b = b
  Clients = {a, b}
  Does <- Roles
  Slots = {1, 2}
  RigOf <- FirstOnly
  NoRig = "none"
  Fields = {"freq_a", "rit", "rit_offset", "mode"}
  KindOf <- Kinds
  Modes = {"USB", "CWL"}
  HalfRange = 4
  Watched <- DerivedAndStatus
  Unread = Unread
  Operations <- SomeOperations
  Rigs = {"ic", "ft"}
  Links = {"Connected", "Disconnected"}
  Readings <- TwoReadings
  QueueCap = 1
  BusCap = 1
  MaxInputs = 2
CHECK_DEADLOCK FALSE
INVARIANTS
  StatusFollows
  ViewFollows
  UnadvisedIsSilent
PROPERTY
  CallReturns
