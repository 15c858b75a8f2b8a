SPECIFICATION FairSpec
CONSTANTS
  Programs <- MCPrograms
INVARIANTS
  NearestHandlerHandles
  ContentSurvives
PROPERTIES
  EverythingReturns
\* a pipeline that has responded stops
CHECK_DEADLOCK FALSE
