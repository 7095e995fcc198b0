SPECIFICATION DdlSpec
CONSTANTS
  Families <- AllFamilies
  MaxRuns = 2
INVARIANTS
  OrdersAreRight
  SettledIsTheModel
  CleanRunFinishes
PROPERTIES
  LeavesTheRestAlone
CHECK_DEADLOCK FALSE
