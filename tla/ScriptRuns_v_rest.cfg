CONSTANTS
  r1 = r1
  r2 = r2
  c1 = c1
  c2 = c2
  Runs <- OneRun
  RestRuns = {r1}
  CliRuns = {}
  ScheduledRuns = {}
  TimedRuns = {}
  EndlessRuns = {}
  CancelReqs <- NoReqs
  Concurrency = 1
  MaxCrashes = 0
  MaxDbFaults = 0
  MaxCliCancels = 0
  MaxDeletes = 0
SPECIFICATION FairSpec
PROPERTIES
  RestRunSettles
