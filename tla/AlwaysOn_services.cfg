CONSTANTS
  Names = {a, b}
  Wrapped = {a}
  MaxId = 3
  Intervals = {0, 1, 5}
  Timeout = 1
  Slow = 2
  Limit = 5
  None = None
SPECIFICATION Spec
INVARIANTS
  TypeOK
  AliveShown
  StaleShown
