SPECIFICATION FairLockSpec
CONSTANTS
  Runs = {r1, r2}
  PodId <- OwnPodIds
  NoLock = NoLock
  Ttl = 2
  MinBeat = 1
  WaitTimeout = 4
  PollInterval = 1
  MaxTime = 5
  LastStart = 1
  MayCrash = {r1}
  Prompt = {r2}
  Unreliable = TRUE
  MaxBeatFails = 1
INVARIANTS
  HolderKeepsLock
  AbortedRunLostLock
PROPERTIES
  OthersLeaveLiveLockAlone
  DeadHolderDoesNotBlock
  EveryRunEnds
CHECK_DEADLOCK FALSE
