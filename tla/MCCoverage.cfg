SPECIFICATION GatesSpec
CONSTANTS
  Root = "root"
  Repository <- MCRepository
  Name <- MCName
  M1Ids = {"A"}
  M2OnlyIds = {"B"}
  M3OnlyIds = {"C"}
  Catalogue = {"A", "B", "C", "D"}
  ExistingPaths = {"design.md", "code.zig"}
  AcceptedStatuses = {"passing"}
  Unknown = "unknown"
  Sources <- MCSources
  InitialMap <- MCInitialMap
  Line <- MCLine
  TestsIn <- MCTestsIn
  M3Files = {"b"}
  VersionMatches <- MCVersionMatches
INVARIANTS
  WalkFindsTheClosure
  ParsedAsWritten
  EarlierGatesStillPass
  SelfTestsRefuseForgeries
PROPERTIES
  WalkEnds
CHECK_DEADLOCK FALSE
