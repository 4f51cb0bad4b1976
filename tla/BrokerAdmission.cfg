\* Requests and grants without commands: rate windows, pending limits, the capacity of
\* both Maps, retention and pruning, over the clock.
SPECIFICATION SteadySpec
CONSTANTS
  Conns = {c1, c2, c3}
  Instances = {i1}
  Requests = {r1, r2, r3, r4}
  Leases = {l1, l2}
  Commands = {}
  None = None
  Pipelines = FALSE
  Browser = c1
  BrowserInstance = i1
  MaxTime = 3
  ScopeChoices <- ScrollOnly
  Kinds = {"scroll"}
  ByteChoices = {}
  GrantTTLs = {1}
  RequestTTL = 1
  MaxLeaseTTL = 1
  IdleTimeout = 1
  UseLimit = 1
  MaxInFlight = 1
  CommandsPerWindow = 1
  CommandWindow = 1
  EgressBudget = 1
  SnapshotMax = 1
  PendingPerSession = 1
  PendingGlobal = 2
  RequestsPerSession = 2
  RequestsGlobal = 3
  RateWindow = 2
  RequestRecordLimit = 2
  LeaseRecordLimit = 1
  Retention = 2
  MaintenanceInterval = 2
SYMMETRY PoolsAndAgents
INVARIANTS RecordsBounded RateWindowsHold
PROPERTY RecordsRetained
CHECK_DEADLOCK FALSE
