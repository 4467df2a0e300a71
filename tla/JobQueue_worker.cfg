\* The deployment: one worker process, restarted after the heartbeat window.
SPECIFICATION Spec
CONSTANTS
  Jobs = {1, 2, 3}
  Workers = {w1}
  Clients = {c1}
  Priority <- MCPriority
  Key <- MCSharedKey
  NoKey = NoKey
  MaxAttempts = 2
  MaxOps = 1
  MaxExits = 2
  MaxFaults = 1
  RestartWaits = TRUE
INVARIANT ExactlyOnce
PROPERTIES ClaimsOnlyDue EveryJobSettles
CHECK_DEADLOCK FALSE
