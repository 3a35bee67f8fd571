CONSTANTS
  t1 = t1
  t2 = t2
  t3 = t3
  p1 = p1
  p2 = p2
  Id = {t1, t2, t3}
  Planner = {p1, p2}
  Batches <- MCBatches
  MaxRevision = 4
SPECIFICATION Spec
SYMMETRY Symmetry
INVARIANTS CompletionClosed TopologyIsDag UnfinishedWorkIsReady RevisionNamesTopology ReplayReproducesWorkflow SetFormIsTheLoop
PROPERTIES HistoryIsFrozen
CHECK_DEADLOCK FALSE
