--------------------------- MODULE MCBulkForRoot ----------------------------
(***************************************************************************)
(* A small instance of BulkForRoot.                                        *)
(***************************************************************************)
EXTENDS BulkForRoot

MCPathOf == [k \in Keys |-> [b \in 0 .. Depth - 1 |-> (k \div 2 ^ (Depth - 1 - b)) % 2]]
=============================================================================
