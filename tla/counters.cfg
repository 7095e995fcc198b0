SPECIFICATION Spec
CONSTANTS
  Workers = {"w1", "w2", "w3"}
  Plans <- MCPlans
  Starts = {1, 2}
  Stores <- MCStores
  MaxRetries = 1
  MaxFailures = 1
INVARIANTS
  RangesOverlapOnlyAtSeed
  ClashesHaveReason
  ReportsAreTrue
CHECK_DEADLOCK FALSE
