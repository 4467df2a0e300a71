\* One request at a time beside the worker, a control request and a crash
\* after which the backend comes up late enough.
SPECIFICATION Spec
CONSTANTS
  Clients = {c1}
  Worker = w
  MadeGrades = {"good", "failing", "critical"}
  EnabledRules = {"tests"}
  RestartWaits = TRUE
  MaxAttempts = 2
  MaxRuns = 1
  MaxDecisions = 2
  MaxEvaluations = 0
  MaxPipelines = 1
  MaxControls = 1
  MaxCrashes = 1
INVARIANT TypeOK
PROPERTY ApprovalIsCarriedOut
CHECK_DEADLOCK FALSE
