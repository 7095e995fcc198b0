SPECIFICATION Spec
CONSTANTS
  Workers <- MCWorkers
  Keys <- MCKeys
  Workloads <- MCWorkloads
  MaxAttempts = 3
  TouchChunk = 1
  TxModes = {TRUE, FALSE}
  NoRow = NoRow
  Nobody = Nobody
INVARIANTS
  SameVersionSameContent
  LostRoundsAreContention
  ReportsAreTrue
PROPERTIES
  NoLostUpdate
CHECK_DEADLOCK FALSE
