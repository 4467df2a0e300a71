\* Two requests and the worker: everybody runs workflows, and tasks are
\* decided on at any status.
SPECIFICATION Spec
CONSTANTS
  Clients = {c1, c2}
  Worker = w
  MadeGrades = {"good", "critical"}
  EnabledRules = {"tests", "critical"}
  RestartWaits = FALSE
  MaxAttempts = 1
  MaxRuns = 2
  MaxDecisions = 2
  MaxEvaluations = 1
  MaxPipelines = 0
  MaxControls = 0
  MaxCrashes = 0
SYMMETRY Symmetric
INVARIANTS CriticalIsStopped ShipsWhatWasApproved RunsAreRequested NothingShipsUngated
CHECK_DEADLOCK FALSE
