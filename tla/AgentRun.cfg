SPECIFICATION PatientSpec
CONSTANTS
  alice = alice
  mia = mia
  gus = gus
  Person <- MCPerson3
  Managers <- MCPerson3
  Tenant <- MCTenant
  TenantOf <- MCTenantOf3
  RolesOf <- MCRolesOf3
  Request <- MCRequest3
  NoOne = NoOne
  NoKey = NoKey
  ApprovalId = {a1, a2}
  Thread = {t1}
  Replica = {r1}
  Worker = {w1, w2}
  Id <- MCId
  KnownId <- MCId
  Value <- MCValue
  Proposal <- MCEverything
  Answer <- MCAnswers2
  Fault <- MCFaults
  MAX_ASKS = 2
  MAX_STEPS = 3
  MaxRuns = 1
  MaxRestarts = 0
  MaxOverlaps = 0
INVARIANTS
  NoTwinInTheQueue
  HoldNamesItsApproval
  ReceiptMatchesCall
PROPERTIES
  EveryRequestIsAnswered
  ApprovedHoldIsCarriedOut
CHECK_DEADLOCK FALSE
