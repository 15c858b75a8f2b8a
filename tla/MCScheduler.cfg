SPECIFICATION FairSpec
CONSTANTS
  Instances = {n1, n2}
  Codes = {report}
  CronJobs = {j1, j2}
  MaxRound <- MCMaxRound
  MaxTicks <- MCMaxTicks
INVARIANTS
  OneRunPerRound
  LogTellsWhatHappened
PROPERTIES
  StopsWithItsEntry
  LockedRoundRuns
\* the rounds are bounded
CHECK_DEADLOCK FALSE
