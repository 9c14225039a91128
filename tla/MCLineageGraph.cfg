SPECIFICATION GraphSpec
CONSTANTS
  Tables <- MCTables
  Dangling <- MCDangling
  MaxEdges = 4
  None = None
INVARIANT
  EachEdgeFollowedOnce
PROPERTY
  ImpactIsReachability
