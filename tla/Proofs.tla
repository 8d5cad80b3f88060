------------------------------- MODULE Proofs -------------------------------
(***************************************************************************)
(* Merkle proofs (proofs.go): verification, and the compact form that      *)
(* replaces placeholder side nodes by bits of a mask.                      *)
(*                                                                         *)
(* SideNodes run from the leaf to the root.  Optional data (nil in the     *)
(* code) is a sequence of at most one element.  All digests have the same  *)
(* size, so the size checks of sanityCheck hold by construction.           *)
(***************************************************************************)
EXTENDS TreeHasher, Sequences

CONSTANT BitsPerByte   \* 8 in the code; smaller, masks of several bytes occur

ASSUME ByteAssumption == BitsPerByte \in Nat \ {0}

sanityCheck(proof) ==
    /\ Len(proof.SideNodes) <= Depth
    /\ proof.SiblingData # << >> /\ proof.SideNodes # << >> =>
         proof.SideNodes[1] = Digest(proof.SiblingData[1])

\* The hashes that verification recomputes, from the leaf (0) to the root.
recompute(hashes, path, leaf) ==
    LET n == Len(hashes)
        up[j \in 0 .. n] ==
            IF j = 0 THEN leaf
            ELSE digestParent(path, n - j, hashes[j], up[j - 1])
    IN  up

\* What the leaf must be for the proof to show that path has this value: the
\* default value means a placeholder or an unrelated leaf.
claimedLeaf(proof, path, value) ==
    IF value # DefaultValue THEN digestLeaf(path, digest(value))
    ELSE IF proof.NonMembershipLeafData = << >> THEN Placeholder
    ELSE LET data == proof.NonMembershipLeafData[1]
         IN  digestLeaf(data.path, data.valueHash)

\* Mutant: the leaf at the path itself is accepted too.
unrelatedLeafAny(proof, path) ==
    proof.NonMembershipLeafData # << >> =>
        isLeaf(proof.NonMembershipLeafData[1])

\* A leaf at the very path is no evidence that the path is empty.
unrelatedLeaf(proof, path) ==
    proof.NonMembershipLeafData # << >> =>
        proof.NonMembershipLeafData[1].path # path

VerifyProof(proof, root, path, value) ==
    /\ sanityCheck(proof)
    /\ value = DefaultValue => unrelatedLeaf(proof, path)
    /\ recompute(proof.SideNodes, path, claimedLeaf(proof, path, value))
           [Len(proof.SideNodes)] = root

-----------------------------------------------------------------------------
\* Compact proofs.

\* The number of mask bits: whole bytes.
maskBits(n) == ((n + BitsPerByte - 1) \div BitsPerByte) * BitsPerByte

\* How many of the first j bits of the mask have the given value.
count(mask, bit) ==
    LET c[j \in 0 .. Len(mask)] ==
            IF j = 0 THEN 0
            ELSE IF mask[j] = bit THEN c[j - 1] + 1 ELSE c[j - 1]
    IN  c

countSetBits(mask) == count(mask, 1)[Len(mask)]

\* The side nodes that remain of the first j when placeholders are left out.
compacted(hashes) ==
    LET kept[j \in 0 .. Len(hashes)] ==
            IF j = 0 THEN << >>
            ELSE IF hashes[j] = Placeholder THEN kept[j - 1]
            ELSE Append(kept[j - 1], hashes[j])
    IN  kept

\* Mutant: the padding bits of the last mask byte are set.
CompactProofPadded(proof) ==
    LET n == Len(proof.SideNodes)
    IN  [SideNodes |-> compacted(proof.SideNodes)[n],
         NonMembershipLeafData |-> proof.NonMembershipLeafData,
         BitMask |-> [b \in 1 .. maskBits(n) |->
                        IF b > n \/ proof.SideNodes[b] = Placeholder THEN 1 ELSE 0],
         NumSideNodes |-> n,
         SiblingData |-> proof.SiblingData]

CompactProof(proof) ==
    LET n == Len(proof.SideNodes)
    IN  [SideNodes |-> compacted(proof.SideNodes)[n],
         NonMembershipLeafData |-> proof.NonMembershipLeafData,
         BitMask |-> [b \in 1 .. maskBits(n) |->
                        IF b <= n /\ proof.SideNodes[b] = Placeholder THEN 1 ELSE 0],
         NumSideNodes |-> n,
         SiblingData |-> proof.SiblingData]

compactSanityCheck(proof) ==
    /\ proof.NumSideNodes \in 0 .. Depth
    /\ Len(proof.BitMask) = maskBits(proof.NumSideNodes)
    /\ proof.NumSideNodes > 0 =>
         Len(proof.SideNodes) = proof.NumSideNodes - countSetBits(proof.BitMask)

\* How many supplied side nodes are used up before bit b.
position(mask, b) == count(mask, 0)[b - 1]

DecompactProof(proof) ==
    [SideNodes |-> [b \in 1 .. proof.NumSideNodes |->
                      IF proof.BitMask[b] = 1 THEN Placeholder
                      ELSE proof.SideNodes[position(proof.BitMask, b) + 1]],
     NonMembershipLeafData |-> proof.NonMembershipLeafData,
     SiblingData |-> proof.SiblingData]

VerifyCompactProof(proof, root, path, value) ==
    /\ compactSanityCheck(proof)
    /\ VerifyProof(DecompactProof(proof), root, path, value)
=============================================================================
