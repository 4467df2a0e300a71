\* Two requests and a stream, two providers, a day that ends, a crash.
SPECIFICATION FairSpec
CONSTANTS
  Clients = {c1, c2}
  Streamers = {s1}
  Order <- TwoProviders
  Free <- FreeOnes
  Sure <- FreeOnes
  Limit <- Limits
  HardStop = TRUE
  MaxCharge = 1
  BasePrompt = 1
  Memory = 1
  MaxAttempts = 2
  MaxRuns = 2
  MaxPeriods = 2
  MaxEvents = 2
INVARIANTS
  TypeOK OverspendBounded BilledAtMostUsed RunsAreRecorded
PROPERTIES EveryRunEnds
CHECK_DEADLOCK FALSE
