SPECIFICATION Spec
CONSTANTS
  None = None
  NoText = NoText
  Text <- MCText
  Json <- MCJson
  Sanitizers <- MCSanitizers
  Values <- MCValues
  Clean <- MCClean
  ValueOf <- MCValueOf
  PolicyOfSanitizer <- MCPolicyOfSanitizer
  Events <- MCEvents
  CheckList <- MCCheckList
  Fails <- MCFails
  RowFailures <- MCRowFailures
  Sources <- MCSources
  OptionSpace <- MCOptions
  MaxLines = 4
INVARIANTS
  TypeOK
  EveryRecordAccounted
  MicroBatchesFull
  FindingsNameTheirRecords
  PolicyHolds
  LimitsHold
  TruncationIsHonest
  EngineSeesSanitized
PROPERTIES
  Terminates
