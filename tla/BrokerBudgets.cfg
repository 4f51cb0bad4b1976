\* One lease and three concurrent calls under it: uses, slots, egress, lifetime and idle
\* time run out while the browser, its connection and the audit log fail.
SPECIFICATION Spec
CONSTANTS
  Conns = {c1, c2}
  Instances = {i1}
  Requests = {r1}
  Leases = {l1}
  Commands = {k1, k2, k3}
  None = None
  Pipelines = FALSE
  Browser = c1
  BrowserInstance = i1
  MaxTime = 3
  ScopeChoices <- SnapshotScopes
  Kinds = {"snapshot"}
  ByteChoices = {2, 3}
  GrantTTLs = {1, 3}
  RequestTTL = 1
  MaxLeaseTTL = 3
  IdleTimeout = 2
  UseLimit = 3
  MaxInFlight = 2
  CommandsPerWindow = 2
  CommandWindow = 1
  EgressBudget = 3
  SnapshotMax = 2
  PendingPerSession = 1
  PendingGlobal = 1
  RequestsPerSession = 1
  RequestsGlobal = 1
  RateWindow = 2
  RequestRecordLimit = 1
  LeaseRecordLimit = 1
  Retention = 4
  MaintenanceInterval = 2
SYMMETRY Pools
INVARIANTS InFlightMatches UsesAccounted EgressAccounted
PROPERTY LeasesUsedInTime
CHECK_DEADLOCK FALSE
