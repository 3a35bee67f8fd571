CONSTANTS
  o1 = o1
  o2 = o2
  c1 = c1
  v1 = v1
  Run = {"run"}
  ThisRun = "run"
  Task = {1, 2}
  Operation = {o1}
  Attempt = {1, 2, 3}
  Capabilities <- MCPins
  NoOperation = NoOperation
  NoAttempt = NoAttempt
  Capability = {c1}
  Identity = {v1}
  Missing = Missing
  AnyIdentity = AnyIdentity
  NoEffect = NoEffect
  NoStart = NoStart
  Configs <- HostConfigs
  EmptyConfig <- MCEmpty
  Setups <- HostSetups
  Workflows <- MCWorkflows
  Batches <- MCBatches
  Capacity = 1
  MaxAttempts = 3
  MaxRestarts = 1
SPECIFICATION FairSpec
INVARIANTS AllAttemptsListed AttemptsKeepTheirPins
PROPERTIES RejectedItemsArePublished EveryTaskCompletes
CHECK_DEADLOCK FALSE
