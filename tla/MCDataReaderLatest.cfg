SPECIFICATION MCSpec
CONSTANTS
  Nothing = Nothing
  MaxCommits = 3
  CommitTimes = {Nothing}
  Forms = {"list"}
  EntryKinds = {"complete"}
  OddEntries = 0
  RowKinds <- MCRowKinds
  WindowSizes = {2}
  MaxRows = 1
  Paths <- MCPaths
  FileContents <- MCFileContents
  BatchSizes = {2}
INVARIANTS
  LatestDeltaReadIsASnapshot
CHECK_DEADLOCK FALSE
