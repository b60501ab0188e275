SPECIFICATION Spec
CONSTANTS
  Id <- MCId
  KindOf <- MCKindOf
  Task <- MCTask
  Offers <- MCOffers
  MAX_ASKS = 2
  MAX_STEPS = 2
INVARIANTS
  NoGuessReachesACall
CHECK_DEADLOCK FALSE
