SPECIFICATION Spec
CONSTANTS
  Streams = {s1, s2}
  Keys = {k1, k2}
  Policies = {"Lossless", "Coalescing", "Lossy"}
  Capacity = 2
  MaxSequence = 3
CHECK_DEADLOCK FALSE
INVARIANTS
  GapsAreLosses NewestSurvives
