SPECIFICATION Spec
CONSTANTS
  alice = alice
  mia = mia
  gus = gus
  Person <- MCPerson
  Managers <- MCPerson
  Tenant <- MCTenant
  TenantOf <- MCTenantOf
  RolesOf <- MCRolesOf
  Request <- MCRequest
  NoOne = NoOne
  NoKey = NoKey
  ApprovalId = {a1}
  Thread = {t1}
  Replica = {r1}
  Worker = {w1, w2}
  Id <- MCId
  KnownId <- MCId
  Value <- MCValue
  Proposal <- MCLarge
  Answer <- MCAnswers1
  Fault <- MCNoFaults
  MAX_ASKS = 1
  MAX_STEPS = 1
  MaxRuns = 1
  MaxRestarts = 1
  MaxOverlaps = 0
INVARIANT OneRefundPerApproval
CHECK_DEADLOCK FALSE
