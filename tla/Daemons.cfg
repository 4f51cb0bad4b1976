SPECIFICATION Spec
CONSTANTS
  None = None
  Daemons = {d1, d2, d3}
  Clients = {c1}
  MaxFaults = 1
  MaxSwitches = 1
INVARIANTS TypeOK SecretShared StartsExclude
PROPERTIES KillStops StartsSucceed
CHECK_DEADLOCK FALSE
