SPECIFICATION GrantedSpec
CONSTANTS
  None = None
  r1 = r1
  r2 = r2
  l1 = l1
  tab1 = tab1
  u1 = u1
  Tasks = {t1, t2}
  Tabs = {tab1}
  Requests = {r1, r2}
  Leases = {l1, l2}
  Commands = {k1}
  Urls = {u1}
  UseLimit = 2
  PendingShown = 10
  MaxHandlers = 3
  MaxEvents = 1
  MaxPorts = 2
  MaxDocs = 2
SYMMETRY Symmetry
PROPERTY NavigatesWithConsent
CHECK_DEADLOCK FALSE
