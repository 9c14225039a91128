SPECIFICATION Spec
CONSTANTS
  ColumnCount = 2
  Facts = {"", "nulls", "duplicates", "range", "sparse", "late", "drifted"}
  Contracts <- MCContracts
  Datasets <- MCDatasets
INVARIANTS
  TypeOK
  BlockingChecksRunFirst
  ReportIsDeterministic
  FailuresAreMentioned
  OnlyNamesakesMask
PROPERTY
  Returns
