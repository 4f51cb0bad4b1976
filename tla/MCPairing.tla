------------------------------ MODULE MCPairing ------------------------------
(* The instance of Pairing for TLC. *)
EXTENDS Pairing

Symmetry == Permutations(Conns) \cup Permutations(Keys)
=============================================================================
