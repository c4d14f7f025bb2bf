SPECIFICATION RulesSpec
CONSTANTS
  Turns = {t1, t2}
  Rollbacks = {b1}
  s1 = s1
  s2 = s2
  Signatures = {s1, s2}
  Batches <- Some
  Edits = {e1}
  MinRepeats = 2
  MaxObserved = 6
  NoRule = NoRule
  Fine = Fine
  MaxMishaps = 1
INVARIANTS
  RulesWellFormed
  ChangesHaveEvidence
  JournalAccounts
PROPERTIES
  RollbackRestores
SYMMETRY Alike
CHECK_DEADLOCK FALSE
