SPECIFICATION Spec
CONSTANTS
  a = a
  b = b
  Owners = {a, b}
  TotalBudget = 4
  SystemBytes = 1
  Sizes = {1, 2}
  ReservationTtl = 1
  MaxTime = 2
  MaxTokens = 3
  MaxAllocations = 3
SYMMETRY Symmetry
INVARIANTS
  BudgetWellFormed
  CommitsItsToken
