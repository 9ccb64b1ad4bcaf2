SPECIFICATION Spec
CONSTANTS
  Path <- MCPath
  Content = {1, 2}
  Absent = 0
  AcceptedTrees <- MCAcceptedTrees
  MaxCommits = 6
  MaxTurns = 3
  Turns <- MCTurns
  BatchSizes = {1, 4}
  Repetitions = 3
  BatchOrder <- MCBatchOrder
  VariantOrder <- MCVariantOrder
  IndependentRuns = 2
  SamplesPerRun = 1
  PacketsPerSecond = 1000000
  M2Sources <- MCSources
  M2Environment = "data"
  M2EvolvedPaths = {"tool"}
  M2Outputs <- MCM2Outputs
  FuzzTargets <- MCFuzzTargets
  FuzzSources <- MCFuzzSources
  FuzzSeeds <- MCFuzzSeeds
  FuzzDictionary <- MCFuzzDictionary
  M3Sources <- MCSources
  M3Environment = "data"
  M3EvolvedPaths = {"tool"}
  M3Launches <- MCM3Launches
INVARIANTS
  AcceptedEvidenceWasMeasured
  GateMeasuresItsCommit
  AcceptedSamplesAreComplete
  NegativeControlsReject
CHECK_DEADLOCK FALSE
