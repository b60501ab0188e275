CONSTANTS
  forwarder = forwarder
  handler = handler
  w1 = w1
  Thread <- MCThread
  Forwarder = forwarder
  Writer <- MCWriter
  Kind <- MCKind
  Tenant <- MCTenant
  Tool <- MCTool
  TTL = 2
  Life = 2
  Grain = 1
  FetchTime = 1
  ConnectTime = 1
  SendTime = 1
  Span = 4
  Margin = 1
  Nap = 3
  QueueMax = 2
  MaxInMemory = 2
  MaxEvents = 3
  MaxElsewhere = 1
  MaxWork = 2
  MaxRestarts = 1
SPECIFICATION FairSpec
INVARIANTS
  StoredOnce
  NewestFirst
  BackendsAgree
  NoExpiredCertificate
PROPERTIES
  TokenIsFreshWhenSent
  QueueDrains
CHECK_DEADLOCK FALSE
