CONSTANTS
  r1 = r1
  r2 = r2
  c1 = c1
  c2 = c2
  Runs <- TwoRuns
  RestRuns = {}
  CliRuns = {}
  ScheduledRuns = {r2}
  TimedRuns = {r1}
  EndlessRuns = {r1}
  CancelReqs <- NoReqs
  Concurrency = 1
  MaxCrashes = 1
  MaxDbFaults = 1
  MaxCliCancels = 0
  MaxDeletes = 1
SPECIFICATION FairSpec
PROPERTIES
  LifecycleSpec
  CommittedRunSettles
