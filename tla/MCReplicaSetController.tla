---------------------- MODULE MCReplicaSetController ----------------------
(* Small instances of ReplicaSetController for TLC.                        *)
EXTENDS ReplicaSetController, TLC

(* Pod names are interchangeable, and so are request goroutines.           *)
Symmetry == Permutations(PodIds) \cup Permutations(Handlers)
=============================================================================
