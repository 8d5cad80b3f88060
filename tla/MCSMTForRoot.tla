---------------------------- MODULE MCSMTForRoot ----------------------------
(***************************************************************************)
(* A small instance of SMTForRoot.                                         *)
(***************************************************************************)
EXTENDS SMTForRoot

MCPathOf == [k \in Keys |-> [b \in 0 .. Depth - 1 |-> (k \div 2 ^ (Depth - 1 - b)) % 2]]
=============================================================================
