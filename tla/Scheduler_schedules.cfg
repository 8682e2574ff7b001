CONSTANTS
  cron = cron
  date = date
  q1 = q1
  q2 = q2
  MaxId = 1
  Triggers <- CronAndDate
  OneShot <- OnlyDate
  Requests <- TwoRequests
  MaxStops = 2
SPECIFICATION Spec
SYMMETRY ReqSymmetry
INVARIANTS
  TypeOK
  InSync
  AtMostOneLateRun
PROPERTIES
  OnlyInvalidBlocks
