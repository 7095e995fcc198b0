SPECIFICATION Spec
CONSTANTS
  Clients = {c1, c2}
  Users = {u1, u2}
  Locales = {en, de}
  MetaKey <- MCMetaKey
  Body <- MCBody
  None = None
  MaxEntries = 1
  PerKey = 2
  MaxLoads = 3
  MaxChanges = 2
  MaxMishaps = 1
SYMMETRY Symmetry
INVARIANTS
  CallersGetTheirMeta
  EtagIsOfCurrentMeta
CHECK_DEADLOCK FALSE
