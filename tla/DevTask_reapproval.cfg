\* A task approved again after its pipeline job has ended.
SPECIFICATION Spec
CONSTANTS
  Clients = {c1}
  Worker = w
  MadeGrades = {"good", "critical"}
  EnabledRules = {"tests", "critical"}
  RestartWaits = TRUE
  MaxAttempts = 2
  MaxRuns = 2
  MaxDecisions = 3
  MaxEvaluations = 0
  MaxPipelines = 2
  MaxControls = 0
  MaxCrashes = 0
INVARIANT ApprovalStartsPipeline
CHECK_DEADLOCK FALSE
