SPECIFICATION Spec
CONSTANTS
  k1 = k1
  k2 = k2
  Capabilities = {1, 2}
  Callers = {k1}
  Fibers = {}
  Definitions <- PairDefinitions
  MaxScopes = 2
  MaxEntries = 4
CHECK_DEADLOCK FALSE
INVARIANTS
  StaleHandleIsRejected
