CONSTANTS
  r1 = r1
  r2 = r2
  Request <- MCRequest
  MaxLogins = 2
  MaxRequests = 3
  MaxExpiries = 2
  MaxMishaps = 2
SPECIFICATION Spec
SYMMETRY Symmetry
INVARIANTS
  NoTokenIsSpentTwice
  StoreFollowsUi
  SignOutIsFinal
  SomebodyRenews
  NobodyWaitsInVain
PROPERTIES
  StaysSignedIn
CHECK_DEADLOCK FALSE
