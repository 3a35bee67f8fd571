CONSTANTS
  r1 = r1
  r2 = r2
  t1 = t1
  t2 = t2
  o1 = o1
  o2 = o2
  a1 = a1
  a2 = a2
  c1 = c1
  c2 = c2
  none = none
  Run = {r1, r2}
  Task = {t1, t2}
  Operation = {o1, o2}
  Attempt = {a1, a2}
  Capabilities = {none}
  NoOperation = NoOperation
  NoAttempt = NoAttempt
  Client = {c1, c2}
  Key <- MCKeys
  Requests <- MCRequests
  MaxRevision = 4
  NoRequest = NoRequest
SPECIFICATION Spec
INVARIANTS FactsAreConsistent FactsAreCommits
PROPERTIES CancellationStopsDispatch KnownOutcomeIsFinal ImplementsCommitLog
CHECK_DEADLOCK FALSE
