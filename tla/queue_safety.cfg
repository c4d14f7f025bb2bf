SPECIFICATION FairSpec
CONSTANTS
  w1 = w1
  w2 = w2
  Workers = {w1, w2}
  Operator = operator
  Runs <- TwoRuns
  Eligible <- EligibleSome
  Timeout = 3
  Absent = absent
  Empty = empty
  Garbled = garbled
  MaxTime = 4
  MaxFaults = 1
  CrashAt <- WorkerPC
INVARIANTS
  Exclusive
  WorkIsClaimed
PROPERTIES
  ReportStable
  EventuallyReported
