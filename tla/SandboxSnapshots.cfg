SPECIFICATION Spec
CONSTANTS
  Worker = {w1, w2}
  Key = {}
  NoKey = NoKey
  MaxRefund = 1
  MaxDraft = 1
  MaxNumber <- MCMaxNumber
  MaxCrashes = 1
INVARIANT AnsweredSurvives
CHECK_DEADLOCK FALSE
