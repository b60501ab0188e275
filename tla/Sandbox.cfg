SPECIFICATION Spec
CONSTANTS
  Worker = {w1, w2}
  Key = {k1}
  NoKey = NoKey
  MaxRefund = 2
  MaxDraft = 1
  MaxNumber <- MCMaxNumber
  MaxCrashes = 1
SYMMETRY Symmetry
INVARIANTS
  RetriedKeyKeepsItsRefund
  AnsweredIsKept
  NumbersAreUnique
CHECK_DEADLOCK FALSE
