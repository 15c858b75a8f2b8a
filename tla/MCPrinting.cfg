SPECIFICATION Spec
CONSTANTS
  MaxPages = 2
  Prints = {"p1", "p2", "p3"}
INVARIANTS
  FollowsTheTemplate
  MergesOfWrittenRows
  CountsItsPages
  NoBrowserIsLost
PROPERTY EveryPrintEnds
CHECK_DEADLOCK FALSE
