----------------------------- MODULE TreeHasher -----------------------------
(***************************************************************************)
(* The hashing layer of the tree (treehasher.go) and the bit arithmetic on *)
(* paths that the tree is navigated by (utils.go).                         *)
(*                                                                         *)
(* A path is the digest of a key: Depth bits, numbered from the most       *)
(* significant one.  A digest is modelled as the one-element sequence that *)
(* holds its preimage, so hashing is injective (collision resistance),     *)
(* never yields the all-zero placeholder, and the preimage of a digest can *)
(* be read back; it is what the node store keeps under that digest.        *)
(***************************************************************************)
EXTENDS Integers

CONSTANTS Depth,         \* pathSize() * 8, the number of bits of a path
          DefaultValue   \* the empty value, which means "no entry"

ASSUME DepthAssumption == Depth \in Nat \ {0}

Bits  == {0, 1}
Paths == [0 .. Depth - 1 -> Bits]

Placeholder == << >>
Digest(data) == <<data>>

\* The data the store holds under a digest: Set is only ever called with the
\* pair that digestLeaf or digestNode returned.
Data(hash) == hash[1]

RawData(bytes)            == [kind |-> "raw", bytes |-> bytes]
LeafData(path, valueHash) == [kind |-> "leaf", path |-> path, valueHash |-> valueHash]
NodeData(left, right)     == [kind |-> "node", left |-> left, right |-> right]

digest(value)               == Digest(RawData(value))
digestLeaf(path, valueHash) == Digest(LeafData(path, valueHash))
digestNode(left, right)     == Digest(NodeData(left, right))

isLeaf(data) == data.kind = "leaf"

\* The parent of `current`, which hangs on the side that bit i of the path
\* selects, and of its sibling.
digestParent(path, i, sibling, current) ==
    IF path[i] = 1 THEN digestNode(sibling, current)
                   ELSE digestNode(current, sibling)

\* The children of an inner node: the one on the path at bit i, and the other.
childOnPath(data, path, i)  == IF path[i] = 1 THEN data.right ELSE data.left
childOffPath(data, path, i) == IF path[i] = 1 THEN data.left ELSE data.right

\* The number of leading bits that two paths share.
countCommonPrefix(p, q) ==
    CHOOSE c \in 0 .. Depth :
        /\ \A b \in 0 .. c - 1 : p[b] = q[b]
        /\ c < Depth => p[c] # q[c]

=============================================================================
