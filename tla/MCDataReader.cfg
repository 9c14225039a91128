SPECIFICATION MCSpec
CONSTANTS
  Nothing = Nothing
  MaxCommits = 3
  CommitTimes = {Nothing, 1, 2}
  Forms = {"list", "inline", "sidecar", "avro"}
  EntryKinds = {"complete", "uncounted", "orc", "pathless"}
  OddEntries = 1
  RowKinds <- MCRowKinds
  WindowSizes = {0, 2}
  MaxRows = 4
  Paths <- MCPaths
  FileContents <- MCFileContents
  BatchSizes = {0, 2}
INVARIANTS
  TypeOK
  DeltaReadIsSnapshot
  IcebergReadIsSnapshot
  BatchesPartitionTheSource
CHECK_DEADLOCK FALSE
