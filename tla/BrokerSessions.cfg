\* Connections come and go: two agents or browsers at a time, one browser instance that
\* reconnects, two requests, two leases, one command; the clock stands still.
SPECIFICATION Spec
CONSTANTS
  Conns = {c1, c2, c3}
  Instances = {i1}
  Requests = {r1, r2}
  Leases = {l1, l2}
  Commands = {k1}
  None = None
  Pipelines = FALSE
  Browser = c1
  BrowserInstance = i1
  MaxTime = 1
  ScopeChoices <- ScrollOnly
  Kinds = {"scroll"}
  ByteChoices = {1}
  GrantTTLs = {1}
  RequestTTL = 1
  MaxLeaseTTL = 1
  IdleTimeout = 1
  UseLimit = 1
  MaxInFlight = 1
  CommandsPerWindow = 1
  CommandWindow = 1
  EgressBudget = 1
  SnapshotMax = 1
  PendingPerSession = 2
  PendingGlobal = 2
  RequestsPerSession = 2
  RequestsGlobal = 2
  RateWindow = 1
  RequestRecordLimit = 2
  LeaseRecordLimit = 2
  Retention = 2
  MaintenanceInterval = 1
SYMMETRY PoolsAndSessions
INVARIANTS TypeOK AuthorityEndsWithSession LeaseTrail
PROPERTIES EndStaysFinal ImplementsAuthority
CHECK_DEADLOCK FALSE
