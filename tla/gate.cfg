SPECIFICATION FairSpec
CONSTANTS
  Ctx = {a, b, c}
  NoCtx = NoCtx
  MaxCalls = 1
  Failures = {"begin", "commit"}
  HasWaitTimeout = TRUE
INVARIANTS
  BeginFindsNoTransaction
  NoForgottenWaiter
PROPERTIES
  EveryCallReturns
CHECK_DEADLOCK FALSE
