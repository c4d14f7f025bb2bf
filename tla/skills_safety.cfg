SPECIFICATION Spec
CONSTANTS
  Commands = {c1, c2, c3, c4}
  Requests <- Asked
  NoFile = NoFile
  NoText = NoText
  MaxAtWork = 2
  MaxFaults = 1
INVARIANTS
  SkillWellFormed
  HistoryIsWhole
  GateHolds
SYMMETRY Alike
CHECK_DEADLOCK FALSE
