\* One job, two worker processes, two control requests in flight.
SPECIFICATION Spec
CONSTANTS
  Jobs = {1}
  Workers = {w1, w2}
  Clients = {c1, c2}
  Priority <- MCPriority
  Key <- MCNoKeys
  NoKey = NoKey
  MaxAttempts = 2
  MaxOps = 3
  MaxExits = 1
  MaxFaults = 1
  RestartWaits = FALSE
SYMMETRY Actors
INVARIANTS AttemptsAreKept RunningIsRun
PROPERTY KeepsPromise
CHECK_DEADLOCK FALSE
