SPECIFICATION Spec
CONSTANTS
  Worker = {w1, w2}
  Key = {k1}
  NoKey = NoKey
  MaxRefund = 2
  MaxDraft = 0
  MaxNumber <- MCMaxNumber
  MaxCrashes = 0
INVARIANT OneRefundPerKey
CHECK_DEADLOCK FALSE
