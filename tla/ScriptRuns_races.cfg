CONSTANTS
  r1 = r1
  r2 = r2
  c1 = c1
  c2 = c2
  Runs <- TwoRuns
  RestRuns = {r2}
  CliRuns = {}
  ScheduledRuns = {r1}
  TimedRuns = {r1}
  EndlessRuns = {r1}
  CancelReqs <- TwoReqs
  Concurrency = 1
  MaxCrashes = 1
  MaxDbFaults = 1
  MaxCliCancels = 1
  MaxDeletes = 0
SPECIFICATION Spec
SYMMETRY ReqSymmetry
INVARIANTS
  TypeOK
  NoOrphanProcess
  RegistryExact
  OutcomeFaithful
  FailureAlerted
  NoStaleRow
PROPERTIES
  OneOutcome
  PoolSpec
