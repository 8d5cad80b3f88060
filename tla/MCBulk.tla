------------------------------- MODULE MCBulk -------------------------------
(***************************************************************************)
(* A small instance of Bulk.                                               *)
(***************************************************************************)
EXTENDS Bulk

MCPathOf == [k \in Keys |-> [b \in 0 .. Depth - 1 |-> (k \div 2 ^ (Depth - 1 - b)) % 2]]

MCSymmetry == Permutations(Values)
=============================================================================
