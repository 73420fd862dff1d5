SPECIFICATION FairSpec
CONSTANTS
  p = p
  q = q
  p9600 = p9600
  p4800 = p4800
  q9600 = q9600
  p1200 = p1200
  Configs <- OnePortConfigs
  Known = {p9600, p4800}
  Ports = {p}
  PortOf <- ThePortOf
  SavedRigs <- LastSaved
  TaskCap = 1
  MaxIds = 2
  MaxTasks = 2
  MaxLost = 1
  MaxCommands = 2
  MaxCrashes = 1
CHECK_DEADLOCK FALSE
INVARIANTS
  DevicesMatchSettings
  IdsAreFresh
  NoneForgotten
PROPERTIES
  KeepsRegistry
  ManagerGoesOn
  DroppedEnds
