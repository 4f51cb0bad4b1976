SPECIFICATION Spec
CONSTANTS
  None = None
  Client = Client
  Stranger = Stranger
  Home = Home
  Elsewhere = Elsewhere
  Witnesses = {w1, w2}
  Actions <- MCActions
  Grants <- MCGrants
  Ttl = 3
  IdleTimeout = 2
  UseLimit = 2
  ReceiptTtl = 2
  MaxTime = 3
  MaxDocument = 1
  MaxEpoch = 1
  MaxPrepared = 2
  MaxReceipts = 1
INVARIANTS TypeOK EngineAgrees CommitsAsApproved
PROPERTIES NeverRegained
CHECK_DEADLOCK FALSE
SYMMETRY Symmetry
