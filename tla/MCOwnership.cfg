SPECIFICATION Spec
CONSTANTS
  NumTokens = 2
  MaxBatch = 2
  MaxGeneration = 2
  RawToken <- MCRawToken
  MaxMint = 2
  ZeroChecksum <- MCZeroChecksum
  PoolCapacity = 1
  MaxLeaseGeneration = 2
  Terminal = {"output"}
  MaxWriterGeneration = 2
  OutputCapacity = 1
INVARIANTS
  TokensAccountedFor
  StaleHandleNeverResolves
  RawAuthorityExact
PROPERTIES
  TerminalIsFinal
  ImplementsLifecycle
CHECK_DEADLOCK FALSE
