-------------------------- MODULE MCDaemonLifecycle --------------------------
(* The instances of DaemonLifecycle for TLC. *)
EXTENDS DaemonLifecycle
=============================================================================
