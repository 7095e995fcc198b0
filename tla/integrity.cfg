SPECIFICATION Spec
CONSTANTS
  Clients <- MCClients
  Tables <- MCTables
  Keys <- SingleKeys
  Workloads <- MCWorkloads
  TxModes = {TRUE, FALSE}
  Null = Null
  NoRow = NoRow
INVARIANTS
  OrphansOnlyByRace
  VerdictIsRight
PROPERTIES
  DeleteIsExact
CHECK_DEADLOCK FALSE
