SPECIFICATION Spec
CONSTANTS
  None = None
  Daemons = {d1, d2}
  Clients = {c1}
  MaxFaults = 0
  MaxSwitches = 1

PROPERTY KillClosesConnections
CHECK_DEADLOCK FALSE
