CONSTANTS
  q1 = q1
  MaxId = 2
  Room <- SmallRoom
  MaxRows = 3
  Requests <- OneRequest
SPECIFICATION Spec
INVARIANTS
  TypeOK
  TargetsKept
