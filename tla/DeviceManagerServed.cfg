SPECIFICATION FairSpec
CONSTANTS
  p = p
  q = q
  p9600 = p9600
  p4800 = p4800
  q9600 = q9600
  p1200 = p1200
  Configs <- SomeConfigs
  Known <- SomeConfigs
  Ports = {p, q}
  PortOf <- ThePortOf
  SavedRigs <- OneSaved
  TaskCap = 1
  MaxIds = 1
  MaxTasks = 2
  MaxLost = 2
  MaxCommands = 1
  MaxCrashes = 0
CHECK_DEADLOCK FALSE
PROPERTIES
  ConnectedIsServed
