SPECIFICATION FairSpec
CONSTANTS
  Runs = {"r1", "r2"}
  Versions <- MCVersions
  Desired <- MCDesired
  Keys <- MCKeys
  Carries <- AllCarryNew
  Before = "old"
  Order <- MCOrder
  Steps <- EarlyAndLate
  Early = {"early"}
  Adapters <- MCAdapters
  SafeRuns = {"r2"}
  ForceRuns = {"r2"}
  MayCrash = {"r1"}
  MaxLost = 1
  MaxDdlFails = 1
  MaxStepFails = 1
  MaxFaults = 2
  NoRun = NoRun
INVARIANTS
  HashTellsTruth
  SuccessMeansDone
  StepsRunOnce
  NoOrphans
PROPERTIES
  EarlyStepsFirstUnlessFailed
  EveryRunReturns
CHECK_DEADLOCK FALSE
