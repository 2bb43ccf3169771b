--------------------------- MODULE MCReplication ---------------------------
(* The instance of Replication for TLC. *)
EXTENDS Replication, TLC

Symmetry == Permutations(Slaves) \cup Permutations(Links)
=============================================================================
