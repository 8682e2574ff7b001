CONSTANTS
  Nodes <- FourNodes
  Dags <- AllDags
  Retry <- OneRetry
  WavePool = 2
  MaxRaises = 1
SPECIFICATION FairSpec
INVARIANTS
  TypeOK
  AttemptsBounded
  JoinAll
  FiredByEdge
  NoNodeForgotten
  StatusFaithful
PROPERTIES
  WorkflowEnds
