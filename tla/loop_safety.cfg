SPECIFICATION FairSpec
CONSTANTS
  MaxToolRounds = 2
  MaxModelRetries = 2
  MaxNotes = 2
INVARIANTS
  StopTakesEffect
  GuidanceReachesModel
  AnswersAreVerified
PROPERTIES
  ImplementsLiveTurn
CHECK_DEADLOCK FALSE
