SPECIFICATION Spec
CONSTANTS
  WordBytes = 2
  SettingOrder <- MCOrder
  Sources <- MCSources
  SchemaSources <- MCSchemas
  Directories <- MCDirectories
  Requests <- MCRequests
  Fill = {0, 1, 200}
  AnyNumber = {0, 1}
INVARIANTS
  AcceptedRuns
  PublishedAsDeclared
  WrittenReadsBack
CHECK_DEADLOCK FALSE
