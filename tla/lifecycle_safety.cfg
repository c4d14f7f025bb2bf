SPECIFICATION EngineSpec
CONSTANTS
  DeferLimit = 2
  MaxDeferred = 2
  MaxClock = 2
  MaxCrashes = 1
INVARIANTS
  EngineWellFormed
  AnswersHold
