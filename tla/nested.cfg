SPECIFICATION Spec
CONSTANTS
  Parents <- MCParents
  Children <- MCChildren
  Owners <- MCOwners
  Targets <- MCTargets
  Null = Null
  NoRow = NoRow
  Calls <- MCCalls
  Stores <- MCStores
  TxModes = {TRUE, FALSE}
  MaxOthers = 1
INVARIANTS
  RefusedBeforeFirstWrite
  ResultIsAsAsked
  PlannedChildrenWritten
PROPERTIES
  OnlyOwnRows
CHECK_DEADLOCK FALSE
