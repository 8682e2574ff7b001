CONSTANTS
  Runs = {r1, r2}
  MaxDeaths = 1
SPECIFICATION FairSpec
PROPERTIES
  WorkerPicksUp
CHECK_DEADLOCK FALSE
