SPECIFICATION Spec
CONSTANTS
  alice = alice
  mia = mia
  gus = gus
  Person <- MCPerson
  Managers <- MCPerson
  Tenant <- MCTenant
  TenantOf <- MCTenantOf
  RolesOf <- MCRolesOf
  Request <- MCRequest
  NoOne = NoOne
  NoKey = NoKey
  ApprovalId = {a1, a2}
  Thread = {t1}
  Replica = {r1}
  Worker = {w1, w2}
  Id <- MCId
  KnownId <- MCId
  Value <- MCValue
  Proposal <- MCKept
  Answer <- MCAnswers2
  Fault <- MCNoFaults
  MAX_ASKS = 1
  MAX_STEPS = 2
  MaxRuns = 1
  MaxRestarts = 0
  MaxOverlaps = 0
INVARIANT EveryHoldNamesItsApproval
CHECK_DEADLOCK FALSE
