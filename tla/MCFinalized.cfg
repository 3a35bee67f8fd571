SPECIFICATION Spec
CONSTANTS
  Capabilities = {1, 2, 3}
  Fibers = {1, 2}
  Plugin <- Chain
  Providers = {1}
  MaxEntries = 3
  MaxCalls = 1
  MaxOperations = 2
CHECK_DEADLOCK FALSE
PROPERTIES
  FinalizedMeansQuiesced
