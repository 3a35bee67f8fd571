SPECIFICATION Spec
CONSTANTS
  k1 = k1
  k2 = k2
  Capabilities = {1, 2, 3}
  Callers = {k1, k2}
  Fibers = {k1}
  Definitions <- ChainDefinitions
  MaxScopes = 2
  MaxEntries = 5
CONSTRAINT Focus
CHECK_DEADLOCK FALSE
INVARIANTS
  OwnershipIsWellFounded TeardownIsTotal
PROPERTIES
  SnapshotIsCurrent LostUpdateNeedsWithdrawal PublicationIsAdmitted
