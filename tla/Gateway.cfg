SPECIFICATION Spec
CONSTANTS
  Caller = {agent, other}
  Worker = {w1, w2}
  RPM = 1
  TPD = 1
  Usage = {0, 1}
  SECOND = 2
  MINUTE = 2
  DAY = 1
  Durable = {TRUE, FALSE}
  MaxClock = 8
  MaxRequests = 3
  MaxRestarts = 1
SYMMETRY Symmetry
INVARIANTS
  RateHolds
  OvershootIsBounded
  RetryAfterIsEnough
CHECK_DEADLOCK FALSE
