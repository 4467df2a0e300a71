\* Two pipelines and two founder requests that overlap, a failure, a crash.
SPECIFICATION Spec
CONSTANTS
  Founders = {f1, f2}
  Builders = {b1, b2}
  MaxPipelines = 2
  MaxDeploys = 2
  MaxFailures = 2
  MaxCrashes = 1
SYMMETRY Actors
INVARIANTS
  PipelineTellsDeployments ReleasedRanInProduction
  EnvironmentStaysServed DeployedIsOnDisk
CHECK_DEADLOCK FALSE
