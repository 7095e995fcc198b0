SPECIFICATION Spec
CONSTANTS
  Ctx = {a, b, c}
  NoCtx = NoCtx
  MaxCalls = 2
  Failures = {"begin"}
  HasWaitTimeout = TRUE
SYMMETRY Symmetry
PROPERTIES
  ImplementsSerialConnection
CHECK_DEADLOCK FALSE
