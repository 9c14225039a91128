SPECIFICATION GuardSpec
CONSTANTS
  None = None
  NoText = NoText
  Text <- MCText
  Sources <- MCSources
  U64 = 16
  Policies <- MCPolicies
  MaxLines = 5
INVARIANTS
  StopRestsOnMeasuredData
  LoopsAreThoseOfSomeWindow
