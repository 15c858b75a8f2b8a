SPECIFICATION Spec
CONSTANTS
  r1 = r1
  r2 = r2
  Steps <- MCSteps
  Calls <- MCCalls
  JsonTexts <- MCJsonTexts
  Requests = {r1, r2}
  CacheEnabled = TRUE
  Refusals = 1
SYMMETRY Symmetry
INVARIANTS
  StatementsMeanTheirTemplates
  BulkSavesAPrefix
  LoadedAsSaved
CHECK_DEADLOCK FALSE
