--------------------------- MODULE MCPodLifecycle ---------------------------
(* Small instances of PodLifecycle for TLC.                                *)
EXTENDS PodLifecycle, TLC

(* Request goroutines are interchangeable.                                 *)
Symmetry == Permutations(Threads)
=============================================================================
