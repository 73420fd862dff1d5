SPECIFICATION FairSpec
CONSTANTS
  Configs <- TwoPorts
  SavedRigs <- Saved
  NoRig = NoRig
  Waiting = Waiting
  Closed = Closed
  CommandCap = 1
  BusCap = 1
  MaxTabs = 3
  MaxGestures = 3
  MaxMessages = 2
CHECK_DEADLOCK FALSE
INVARIANTS
  RigsHaveTabs
  StatusShown
  LastConfirmedWins
PROPERTY
  CreationSettles
