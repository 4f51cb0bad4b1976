\* An agent and the connections of two browsers register, replace one another, change
\* their instance, upgrade and close around one lease and a call under it, which always
\* comes back.
SPECIFICATION ReconnectSpec
CONSTANTS
  Conns = {c1, c2, c3}
  Instances = {i1, i2}
  Requests = {r1}
  Leases = {l1}
  Commands = {k1}
  None = None
  Pipelines = FALSE
  Browser = c1
  BrowserInstance = i1
  MaxTime = 2
  ScopeChoices <- SnapshotScopes
  Kinds = {"snapshot"}
  ByteChoices = {1, 2}
  GrantTTLs = {1}
  RequestTTL = 1
  MaxLeaseTTL = 1
  IdleTimeout = 1
  UseLimit = 1
  MaxInFlight = 1
  CommandsPerWindow = 1
  CommandWindow = 2
  EgressBudget = 1
  SnapshotMax = 1
  PendingPerSession = 1
  PendingGlobal = 1
  RequestsPerSession = 1
  RequestsGlobal = 1
  RateWindow = 2
  RequestRecordLimit = 1
  LeaseRecordLimit = 1
  Retention = 3
  MaintenanceInterval = 1
 
PROPERTY CommandsSettle
CHECK_DEADLOCK FALSE
