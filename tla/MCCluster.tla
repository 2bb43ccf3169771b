----------------------------- MODULE MCCluster -----------------------------
(* The instance of Cluster for TLC. *)
EXTENDS Cluster, TLC

\* The failed master stays away, with two epochs for elections; it comes back;
\* voters reboot.
ClusterScenes == {[back |-> FALSE, epochs |-> 3, reboots |-> 0],
                  [back |-> TRUE, epochs |-> 2, reboots |-> 0],
                  [back |-> FALSE, epochs |-> 2, reboots |-> 2]}

Symmetry == Permutations(Voters)
=============================================================================
