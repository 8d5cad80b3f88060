---------------------------- MODULE MCPooledWalk ----------------------------
(* The callers and the pooled objects are interchangeable. *)
EXTENDS PooledWalk

Symmetric == Permutations(Callers) \cup Permutations(Scratches) \cup Permutations(Slices)
=============================================================================
