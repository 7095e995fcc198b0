SPECIFICATION FairSpec
CONSTANTS
  Contexts = {c1, c2}
  Owners = {"pg", "my"}
  MySql = {"my"}
  Conns = {"p1", "m1"}
  PoolOf <- PoolOfConn
  None = None
  Levels = {0, 3}
  Nests <- MyInsidePg
  Refusing = {"pg"}
  MaxCalls = 2
  MaxMishaps = 1
INVARIANTS
  DedicatedConnection
  IdleIsClean
  LevelIsAsked
  ToldTheTruth
PROPERTIES
  EveryCallReturns
CHECK_DEADLOCK FALSE
