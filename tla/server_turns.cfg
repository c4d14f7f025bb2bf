SPECIFICATION FairSpec
CONSTANTS
  c1 = c1
  c2 = c2
  Clients = {c1, c2}
  MaxThreads = 2
  MaxTurns = 2
  HistoryLimit = 1
  MaxSaveFailures = 1
  MaxCrashes = 2
INVARIANTS
  OneTurnPerThread
  IdsNotReused
  ToldStands
  HistoryIsDurable
PROPERTY
  ThreadsBecomeFree
CHECK_DEADLOCK FALSE
