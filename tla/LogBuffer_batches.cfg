CONSTANTS
  Streams <- TwoPipes
  Lines <- TwoAndOne
  FlushLines = 2
  MaxDbFaults = 1
SPECIFICATION BufferFairSpec
INVARIANTS
  BufferTypeOK
  EachLineOnce
  BufferWatched
PROPERTIES
  LinesWritten
