----------------------- MODULE MCDeploymentController -----------------------
(* Small instances of DeploymentController for TLC.                        *)
EXTENDS DeploymentController, TLC

(* Pod names are interchangeable, and so are request goroutines.           *)
Symmetry == Permutations(PodIds) \cup Permutations(Clients)
=============================================================================
