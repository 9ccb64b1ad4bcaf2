SPECIFICATION Spec
CONSTANTS
  NumTokens = 2
  MaxBatch = 2
  MaxGeneration = 1
  RawToken = {}
  ZeroChecksum <- MCZeroChecksum
  MaxMint = 0
  PoolCapacity = 0
  MaxLeaseGeneration = 0
  Output = {"a", "b"}
  MaxOutputs = 2
  Terminal = {"a", "b", "default", "drop", "complete"}
  MaxWriterGeneration = 1
  NumStages = 3
  Descriptors <- MCDescriptors
  AppOutputs = {"a", "b"}
  Configs <- MCConfigs
INVARIANTS
  GroupsAccountForBatch
  FailureRevokesBatch
  EveryTokenReconciled
PROPERTIES
  DecisionsStand
  TokensLeaveTheWorker
  UsesOwnershipAsSpecified
