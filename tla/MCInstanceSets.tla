---------------------------- MODULE MCInstanceSets ----------------------------
(* Small instances of InstanceSets for TLC.                                *)
EXTENDS InstanceSets, TLC

CONSTANTS a1, a2, a3, b1, b2, s1, s2

\* All names in one set; two sets.
OneSet  == [i \in Instances |-> s1]
TwoSets == [i \in Instances |-> IF i \in {b1, b2} THEN s2 ELSE s1]

Replicas1  == [s \in Sets |-> 1]
Replicas2  == [s \in Sets |-> 2]
Replicas3  == [s \in Sets |-> 3]
Replicas21 == [s \in Sets |-> IF s = s1 THEN 2 ELSE 1]

\* Names of one set are interchangeable.
Symmetry == Permutations({a1, a2, a3} \cap Instances)
=============================================================================
