SPECIFICATION FairSpec
CONSTANTS
  Plans <- MCPlans
  TraceIds = {t1, t2}
INVARIANTS
  UncatchablePasses
  HandlersAreToldTheTruth
  ScopeIsTraced
PROPERTIES
  TimeoutSettles
\* a request that has ended stops
CHECK_DEADLOCK FALSE
