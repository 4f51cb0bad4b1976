---------------------------- MODULE MCBrokerState ----------------------------
(* Values for the constants of BrokerState, shared by its configurations. *)
EXTENDS BrokerState, TLC

\* The connection and instance that SteadyInit starts with.
CONSTANTS Browser, BrowserInstance

\* One scope set, for the runs that are not about scopes.
ScrollOnly == {{"page.scroll"}}

\* Reading and its egress.
SnapshotScopes == {{"page.a11y.read", "data.egress.model"}}

Pools == Permutations(Requests) \cup Permutations(Leases) \cup Permutations(Commands)
PoolsAndSessions == Pools \cup Permutations(Conns) \cup Permutations(Instances)
PoolsAndAgents == Pools \cup Permutations(Conns \ {Browser})

\* Connections have been made, and the browser's has registered.
Connected(states) ==
  /\ now = 1
  /\ request = [r \in Requests |-> NoRequest]
  /\ lease = [l \in Leases |-> NoLease]
  /\ command = [k \in Commands |-> NoCommand]
  /\ sessionWindow = [c \in Conns |-> NoWindow]
  /\ globalWindow = NoWindow
  /\ conn = states
  /\ instanceOf = [c \in Conns |-> IF c = Browser THEN BrowserInstance ELSE None]
  /\ browsers = [i \in Instances |-> IF i = BrowserInstance THEN Browser ELSE None]
  /\ nextMaintenanceAt = now + MaintenanceInterval

-----------------------------------------------------------------------------
(* The reconnections run starts where an agent and two browsers are connected, one of   *)
(* which has registered, and has all that they do from there.                           *)
Agent == CHOOSE c \in Conns \ {Browser} : TRUE

ReconnectInit == Connected([c \in Conns |-> IF c = Agent THEN "agent" ELSE "browser"])

ReconnectSpec == ReconnectInit /\ [][Next]_vars /\ Fairness

-----------------------------------------------------------------------------
(* The admission run starts where every connection but one is an agent's and that one  *)
(* is the browser's, and keeps them: connections that come and go are the subject of   *)
(* the sessions and reconnections runs.                                                *)
SteadyInit ==
  Connected([c \in Conns |-> IF c = Browser THEN "browser" ELSE "agent"])

SteadyNext ==
  \/ \E c \in Conns : ReadOrRefused(c) \/ AgentCall(c) \/ BrowserCall(c)
  \/ \E l \in Leases : GrantAnswered(l)
  \/ Tick

SteadySpec == SteadyInit /\ [][SteadyNext]_vars

=============================================================================
