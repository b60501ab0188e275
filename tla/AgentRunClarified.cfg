SPECIFICATION PatientSpec
CONSTANTS
  alice = alice
  mia = mia
  gus = gus
  Person <- MCPerson
  Managers <- MCPerson
  Tenant <- MCTenant
  TenantOf <- MCTenantOf
  RolesOf <- MCRolesOf
  Request <- MCRequest
  NoOne = NoOne
  NoKey = NoKey
  ApprovalId = {a1, a2}
  Thread = {t1}
  Replica = {r1}
  Worker = {w1}
  Id <- MCId
  KnownId <- MCId
  Value <- MCValue
  Proposal <- MCNoSum
  Answer <- MCAnswers
  Fault <- MCNoFaults
  MAX_ASKS = 2
  MAX_STEPS = 1
  MaxRuns = 1
  MaxRestarts = 0
  MaxOverlaps = 0
PROPERTIES
  ApprovedHoldIsCarriedOut
CHECK_DEADLOCK FALSE
