SPECIFICATION Spec
CONSTANTS
  alice = alice
  grace = grace
  Account <- MCAccount
  Seed <- MCSeed
  TenantOf <- MCTenantOf
  Assignable = {"support_rep", "manager"}
  Thread = {t1, t2}
  Tool = {"tickets.reply.draft"}
  NoOne = NoOne
  NoToken = NoToken
  Life = 2
  SandboxAuth = TRUE
  MaxTime = 3
  MaxSignIns = 2
  MaxCalls = 2
  MaxChanges = 1
  MaxRestarts = 1
SYMMETRY Symmetry
INVARIANTS
  VendorActsAsDecided
  DisablingTakesHold
  RoleChangesLag
  VendorLagIsBounded
  EachCallReadsTheRoles
CHECK_DEADLOCK FALSE
