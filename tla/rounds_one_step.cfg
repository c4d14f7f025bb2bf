SPECIFICATION FairRounds
CONSTANTS
  s1 = s1
  Steps = {s1}
  Runs <- ManifestRuns
  MaxRuns = 2
  Nobody = nobody
  MaxAborts = 2
  CrashAt <- CrashAnywhere
  Outsiders = TRUE
  Budgeted = TRUE
INVARIANTS
  NoResend
  LedgerIsTrue
PROPERTY
  EveryRunAttempted
CHECK_DEADLOCK FALSE
