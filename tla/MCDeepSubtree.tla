--------------------------- MODULE MCDeepSubtree ----------------------------
(***************************************************************************)
(* A small instance of DeepSubtree: the tree starts with the root of one   *)
(* of two maps, one with every key and one with a gap.                     *)
(***************************************************************************)
EXTENDS DeepSubtree

MCPathOf == [k \in Keys |-> [b \in 0 .. Depth - 1 |-> (k \div 2 ^ (Depth - 1 - b)) % 2]]

\* Every one of the keys ks has the same value.
MCMap(ks) ==
    [p \in Paths |-> IF \E k \in ks : MCPathOf[k] = p THEN CHOOSE v \in Values : TRUE
                     ELSE Absent]

MCFull == {MCMap(Keys)}
MCPeerMaps == MCFull \cup {MCMap(Keys \ {0})}
=============================================================================
