\* Two requests, a worker, people and failures around one project.
SPECIFICATION FairSpec
CONSTANTS
  Requests = {r1, r2}
  PlanSize = 1
  MaxAttempts = 2
  MaxItems = 3
  MaxEvents = 3
INVARIANTS
  FreshApprovedRuns OneTaskPerTurn CompletedMeansExecuted
PROPERTIES ExecutionEnds
CHECK_DEADLOCK FALSE
