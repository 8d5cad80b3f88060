----------------------------- MODULE MCSMTProofs ----------------------------
(***************************************************************************)
(* The instance of MCSMT for the tree with its verifier.                   *)
(***************************************************************************)
EXTENDS SMTProofs

MCPathOf == [k \in Keys |-> [b \in 0 .. Depth - 1 |-> (k \div 2 ^ (Depth - 1 - b)) % 2]]
=============================================================================
