---------------------------- MODULE LeaseAuthority ----------------------------
(***************************************************************************)
(* What the broker promises about leases, without sessions, clocks,        *)
(* budgets or audit: a lease is issued once, lives, and is over for good;  *)
(* a call is dispatched under a lease that is live at that moment, at most *)
(* UseLimit times for one lease; and a call ends once.  Ending is never    *)
(* prevented: any set of live leases may end together with anything else,  *)
(* because every call into the broker first sweeps the lapsed ones.        *)
(*                                                                         *)
(* BrokerState implements this module (BrokerState!ImplementsAuthority),   *)
(* and Extension uses it as the broker at the other end of its port.       *)
(***************************************************************************)
EXTENDS Naturals, FiniteSets

CONSTANTS
  Leases,    \* lease ids
  Commands,  \* calls of the agents
  None,      \* no lease
  UseLimit   \* LEASE_USE_LIMIT

VARIABLES
  standing,  \* standing[l]: unissued, live or over
  under,     \* under[k]: the lease call k was dispatched under
  outcome    \* outcome[k]: idle, running, result or error

authority == <<standing, under, outcome>>

LiveLeases == {l \in Leases : standing[l] = "live"}

\* The leases of E are over.
Over(E) == [l \in Leases |-> IF l \in E THEN "over" ELSE standing[l]]

Uses(l) == Cardinality({k \in Commands : under[k] = l})

AuthorityInit ==
  /\ standing = [l \in Leases |-> "unissued"]
  /\ under = [k \in Commands |-> None]
  /\ outcome = [k \in Commands |-> "idle"]

\* A grant creates lease l.
Issue(l, E) ==
  /\ standing[l] = "unissued"
  /\ standing' = [Over(E) EXCEPT ![l] = "live"]
  /\ UNCHANGED <<under, outcome>>

\* Revocation, expiry, disconnection, exhaustion.
End(E) ==
  /\ standing' = Over(E)
  /\ UNCHANGED <<under, outcome>>

\* Call k is sent to the browser under lease l.
Dispatch(k, l, E) ==
  /\ outcome[k] = "idle"
  /\ standing[l] = "live" /\ l \notin E
  /\ Uses(l) < UseLimit
  /\ standing' = Over(E)
  /\ under' = [under EXCEPT ![k] = l]
  /\ outcome' = [outcome EXCEPT ![k] = "running"]

\* Call k returns to its agent.
Finish(k, how, E) ==
  /\ outcome[k] = "running"
  /\ standing' = Over(E)
  /\ outcome' = [outcome EXCEPT ![k] = how]
  /\ UNCHANGED under

AuthorityNext ==
  \E E \in SUBSET LiveLeases :
    \/ \E l \in Leases : Issue(l, E)
    \/ End(E)
    \/ \E k \in Commands, l \in Leases : Dispatch(k, l, E)
    \/ \E k \in Commands, how \in {"result", "error"} : Finish(k, how, E)

AuthoritySpec == AuthorityInit /\ [][AuthorityNext]_authority

=============================================================================
