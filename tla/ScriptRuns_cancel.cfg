CONSTANTS
  r1 = r1
  r2 = r2
  c1 = c1
  c2 = c2
  Runs <- TwoRuns
  RestRuns = {}
  CliRuns = {r2}
  ScheduledRuns = {}
  TimedRuns = {r2}
  EndlessRuns = {r1, r2}
  CancelReqs <- TwoReqs
  Concurrency = 1
  MaxCrashes = 0
  MaxDbFaults = 0
  MaxCliCancels = 0
  MaxDeletes = 0
SPECIFICATION FairSpec
PROPERTIES
  CancelSticks
  CancelStopsRun
