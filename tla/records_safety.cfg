CONSTANTS
  t1 = t1
  t2 = t2
  Turns = {t1, t2}
  Sessions = {"s1", "s2"}
  NoFile = NoFile
  Threshold = 2
  Distillers = {d1}
  Requests <- MCRequests
  Limit = 2
  MaxFaults = 1
SPECIFICATION Spec
SYMMETRY Symmetry
CHECK_DEADLOCK FALSE
INVARIANTS
  RecordsWellFormed
  AppliedStands
  SummaryCovers
  DiaryKeepsUp
  ArchiveComesFirst
