SPECIFICATION Spec
CONSTANTS
  alice = alice
  grace = grace
  Account <- MCAccount
  Seed <- MCSeed
  TenantOf <- MCTenantOf
  Assignable = {"support_rep", "manager"}
  Thread = {t1}
  Tool = {"tickets.reply.draft"}
  NoOne = NoOne
  NoToken = NoToken
  Life = 3
  SandboxAuth = TRUE
  MaxTime = 4
  MaxSignIns = 2
  MaxCalls = 1
  MaxChanges = 1
  MaxRestarts = 1
INVARIANTS
  VendorLagsByALifetime
CHECK_DEADLOCK FALSE
