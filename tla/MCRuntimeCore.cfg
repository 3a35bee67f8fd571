CONSTANTS
  o1 = o1
  o2 = o2
  c1 = c1
  v1 = v1
  Run = {"run"}
  ThisRun = "run"
  Task = {1, 2}
  Operation = {o1, o2}
  Attempt = {1, 2}
  Capabilities <- MCPins
  NoOperation = NoOperation
  NoAttempt = NoAttempt
  Capability = {}
  Identity = {}
  Missing = Missing
  AnyIdentity = AnyIdentity
  NoEffect = NoEffect
  NoStart = NoStart
  Configs = {}
  EmptyConfig <- MCEmpty
  Setups <- EffectSetups
  Workflows <- MCWorkflows
  Batches <- MCBatches
  Capacity = 1
  MaxAttempts = 2
  MaxRestarts = 2
SPECIFICATION Spec
INVARIANTS UnsafeEffectDispatchedOnce EventsFollowFacts ViewsMirrorStore FactsStayRebuildable RecoveryNeverContradicted
PROPERTIES CancelledWorkStaysUndone ImplementsEffectProtocol
CHECK_DEADLOCK FALSE
