------------------------ MODULE MCTransitionManager ------------------------
(* Small instances of TransitionManager for TLC.                           *)
EXTENDS TransitionManager, TLC

(* Sequences and threads are interchangeable where no fairness is used.    *)
Symmetry == Permutations(Seqs) \cup Permutations(Threads)
=============================================================================
