-------------------------- MODULE MCServiceDelivery --------------------------
(* Instances of ServiceDelivery.                                           *)
EXTENDS ServiceDelivery

CONSTANTS db, mq, p1, p2

Symmetry == Permutations(Packages) \cup Permutations(Pods)

(* At most one of the instances is updated.                                *)
OneUpdate == \E i \in Instances : \A j \in Instances \ {i} : desired[j] = 1

=============================================================================
