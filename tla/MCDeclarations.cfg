SPECIFICATION Spec
CONSTANTS
  MaxBatch = 4
  MaxWork = 15
  MaxKeys = 2
  MaxValueSize = 2
  ApiVersion = 3
  PublicNames <- MCPublicNames
  LackingChecks <- MCLackingChecks
  StageChoices <- MCStageChoices
  InputKeyChoices <- MCInputKeyChoices
  LengthBound <- MCLengthBound
  MaxCalls = 2
  MaxNested = 1
INVARIANTS
  LostChecksAreNoticed
  DeclaredAccessNeverFails
  StagesReadThisCall
PROPERTIES
  ExclusiveValuesStand
CHECK_DEADLOCK FALSE
