SPECIFICATION FairSpec
CONSTANTS
  tools = tools
  agent = agent
  Workload = {agent, tools}
  Self = tools
  Thread = {t1, t2}
  TTL = 3
  FetchTime = 2
  FailClosed = {TRUE, FALSE}
  MaxRestarts = 1
  Outages = TRUE
INVARIANTS
  StalenessIsBounded
PROPERTIES
  RevocationTakesHold
