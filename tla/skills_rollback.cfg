SPECIFICATION Spec
CONSTANTS
  Commands = {c1, c2, c3, c4}
  Requests <- Asked
  NoFile = NoFile
  NoText = NoText
  MaxAtWork = 1
  MaxFaults = 0
INVARIANTS
  UndoIsThere
SYMMETRY Alike
CHECK_DEADLOCK FALSE
