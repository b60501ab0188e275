CONSTANTS
  a1 = a1
  a2 = a2
  Caller <- MCCaller
  Name = {"dana", "erin"}
  Role = {"manager", "privacy", "offline_access"}
  ASSIGNABLE_ROLES = {"manager", "privacy"}
  MaxUsers = 2
  MaxRequests = 3
  MaxFaults = 1
  MaxRoles = 2
SPECIFICATION AdminSpec
SYMMETRY Symmetry
INVARIANTS
  MutationsAreAudited
CHECK_DEADLOCK FALSE
