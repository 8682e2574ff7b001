CONSTANTS
  c1 = c1
  Streams <- OnePipe
  Lines <- TwoLines
  FlushLines = 2
  MaxDbFaults = 0
  Clients <- OneClient
  QueueSize = 2
  BacklogLimit = 1
  Sayable <- FirstLine
SPECIFICATION LoopFairSpec
INVARIANTS
  TypeOK
  LiveInOrder
  LiveComplete
PROPERTIES
  StreamEnds
