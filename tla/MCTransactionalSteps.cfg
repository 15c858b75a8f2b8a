SPECIFICATION FairSpec
CONSTANTS
  Plans <- MCPlans
INVARIANTS
  AllOrNothing
  ReturnedClean
  OwnConnection
PROPERTIES
  EverythingEnds
\* a request that has ended stops
CHECK_DEADLOCK FALSE
