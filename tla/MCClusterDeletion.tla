-------------------------- MODULE MCClusterDeletion --------------------------
(* Model values for the runs of ClusterDeletion. *)
EXTENDS ClusterDeletion, TLC

CONSTANTS a1, a2, a3, s1

OneSet == [i \in Instances |-> s1]
Symmetry == Permutations(Instances)
=============================================================================
