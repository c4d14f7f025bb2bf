CONSTANTS
  p1 = p1
  p2 = p2
  w1 = w1
  w2 = w2
  b1 = b1
  b2 = b2
  Procs = {p1, p2}
  Workers = {w1, w2}
  Batches = {b1, b2}
  Ids = {c1}
  Keys = {k1}
  MaxRepeated = 1
  NoBatch = NoBatch
  NoCheckpoint = NoCheckpoint
  MaxCrashes = 1
SPECIFICATION Spec
SYMMETRY Alike
INVARIANTS
  IdsUnique
  ReceiptsStand
  ManifestDispatched
  CollectedIsBacked
CHECK_DEADLOCK FALSE
