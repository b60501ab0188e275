SPECIFICATION QuerySpec
CONSTANTS
  Tenants <- MCAnyone
  RoleSets <- MCRoleSets
  Tools <- MCTools
  Amounts <- MCAmounts
  Agents <- MCAgents
INVARIANTS
  RiskyCallsAreHeld
  OfferedIsCallable
