SPECIFICATION Spec
CONSTANTS
  k1 = k1
  k2 = k2
  Capabilities = {1, 2, 3}
  Callers = {k1}
  Fibers = {}
  Definitions <- ChainDefinitions
  MaxScopes = 1
  MaxEntries = 5
CHECK_DEADLOCK FALSE
INVARIANTS
  TeardownIsPlannable
