SPECIFICATION Spec
CONSTANTS
  TicksPerSecond = 2
  WindowTypes <- MCWindowTypes
  MaxTime = 4
  MaxEvents = 3
INVARIANTS
  TypeOK
  EveryEventInOneWindow
  OnlyLateEventsReopen
  OpenWindowsBounded
CHECK_DEADLOCK FALSE
