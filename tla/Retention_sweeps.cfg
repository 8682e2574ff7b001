CONSTANTS
  MaxRuns = 3
  MaxTime = 3
  Flows <- OnlyFirst
  CliRuns <- OnlySecond
SPECIFICATION Spec
INVARIANTS
  TypeOK
  OwnRow
  NoAdoption
  FamilyKept
