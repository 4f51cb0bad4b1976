----------------------------- MODULE MCExtension -----------------------------
(* Values for the constants of Extension, shared by its configurations. *)
EXTENDS Extension

CONSTANTS r1, r2, l1, tab1, u1

Symmetry == Permutations(Tasks)

\* The worker is registered and has granted l1 for the request r1; r2 has not been made,
\* or the popup shows it.
GrantedInit ==
  /\ standing = [l \in Leases |-> IF l = l1 THEN "live" ELSE "unissued"]
  /\ under = [k \in Commands |-> None] /\ outcome = [k \in Commands |-> "idle"]
  /\ awake = TRUE /\ task = [t \in Tasks |-> <<>>] /\ started = 0 /\ happened = 0
  /\ \E shown \in BOOLEAN :
       /\ storage = [pending |-> IF shown THEN <<r2>> ELSE <<>>, grant |-> l1]
       /\ asked = (r1 :> "closed" @@ r2 :> IF shown THEN "pending" ELSE "unused")
  /\ nativePort = 1 /\ lastPort = 1 /\ portState = "open"
  /\ authenticated = 1 /\ brokerConnected = TRUE /\ authQueue = <<>>
  /\ reconnectTimer = FALSE /\ expiryTimer = l1 /\ dueRevokes = {}
  /\ page = [tab \in Tabs |-> [url |-> u1, bridge |-> IF tab = tab1 THEN 1 ELSE 0]]
  /\ lastDoc = 1 /\ tabEvents = {}
  /\ toExt = <<>> /\ toBroker = <<>>
  /\ admitted = TRUE /\ joined = TRUE /\ registered = TRUE /\ closing = 0
  /\ granted = [l \in Leases |->
       IF l = l1 THEN [request |-> r1, tab |-> tab1, doc |-> 1, url |-> u1] ELSE NoConsent]
  /\ answering = {} /\ expired = {} /\ torn = {} /\ effect = [k \in Commands |-> NoEffect]

GrantedSpec == GrantedInit /\ [][Next]_vars

=============================================================================
