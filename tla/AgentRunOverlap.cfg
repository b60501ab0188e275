SPECIFICATION Spec
CONSTANTS
  alice = alice
  mia = mia
  gus = gus
  Person <- MCPerson
  Managers <- MCPerson
  Tenant <- MCTenant
  TenantOf <- MCTenantOf
  RolesOf <- MCRolesOf
  Request <- MCRequest
  NoOne = NoOne
  NoKey = NoKey
  ApprovalId = {a1, a2}
  Thread = {t1}
  Replica = {r1, r2}
  Worker = {w1, w2}
  Id <- MCId
  KnownId <- MCId
  Value <- MCValue
  Proposal <- MCGaps
  Answer <- MCAnswers1
  Fault <- MCNoFaults
  MAX_ASKS = 1
  MAX_STEPS = 1
  MaxRuns = 2
  MaxRestarts = 1
  MaxOverlaps = 1
SYMMETRY Symmetry
INVARIANTS
  HeldCallsAreApproved
  ResumedApprovalPaysOnce
PROPERTIES
  HeldSpec
CHECK_DEADLOCK FALSE
