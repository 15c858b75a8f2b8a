SPECIFICATION FairSpec
CONSTANTS
  MaxRows <- MCMaxRows
  FetchSize <- MCFetchSize
INVARIANTS
  OneBatchAtATime
  CompleteWhenResolved
PROPERTIES
  FailureFencesQueue
  DeliversInOrder
  SettlesOnceOpen
\* a settled load stops
CHECK_DEADLOCK FALSE
