SPECIFICATION Spec
CONSTANTS
  t1 = t1
  t2 = t2
  Triggers = {t1, t2}
  Environments <- MCEnvironments
  SourceLists <- MCSourceLists
  Definition <- MCDefinition
  Malformed <- malformed
  Texts <- MCTexts
  Requests <- MCRequests
  RedressedIn <- MCRedressedIn
  RunsAt <- MCRunsAt
  MeantAt <- MCMeantAt
INVARIANTS
  TriggeredAsWritten
  ServedAfterInit
  ServedAsDefined
