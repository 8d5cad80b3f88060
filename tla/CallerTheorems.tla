--------------------------- MODULE CallerTheorems ---------------------------
(***************************************************************************)
(* What callers that hold roots and proofs can rely on, in three parts:    *)
(* verifiers, partial trees that are built from proofs, and calls that     *)
(* name the root they are for.  All of it holds for every depth, key set,  *)
(* value set, mask width, number of store failures, set of peers and       *)
(* number of roots that a caller holds.                                    *)
(*                                                                         *)
(* Proofs are sound and complete: a verifier that knows a root accepts no  *)
(* value but the committed one, whoever made the proof; the proofs of      *)
(* Prove and ProveUpdatable are the ones that the map determines, are      *)
(* accepted, and survive compaction.                                       *)
(***************************************************************************)
EXTENDS DeepInvariant, SMTProofs, SMTForRoot, SMTTheorems

-----------------------------------------------------------------------------
\* The hashes that verification recomputes.

ClimbStep(hashes, path, leaf, n, j, g) ==
    IF j = 0 THEN leaf ELSE digestParent(path, n - j, hashes[j], g[j - 1])

ClimbTable(hashes, path, leaf, n, k, g) ==
    [j \in 0 .. k |-> ClimbStep(hashes, path, leaf, n, j, g)]

\* The recursion of recompute has a solution up to every height.
LEMMA ClimbTableExists ==
  ASSUME NEW s, NEW p, NEW leaf, NEW n
  PROVE  \A k \in Nat : \E g : g = ClimbTable(s, p, leaf, n, k, g)
<1> DEFINE T == {k \in Nat : ~ \E g : g = ClimbTable(s, p, leaf, n, k, g)}
<1>1. SUFFICES ASSUME T # {} PROVE FALSE
  OBVIOUS
<1>2. PICK k \in T : \A m \in T : k <= m
  BY <1>1, LeastElement
<1>3. CASE k = 0
  <2> DEFINE g0 == ClimbTable(s, p, leaf, n, 0, << >>)
  <2>1. g0 = ClimbTable(s, p, leaf, n, 0, g0)
    BY DEF ClimbTable, ClimbStep
  <2> QED BY <2>1, <1>3, <1>2
<1>4. CASE k # 0
  <2>1. k - 1 \in Nat /\ ~ (k <= k - 1) /\ k \in Nat
    BY <1>4
  <2>2. PICK g : g = ClimbTable(s, p, leaf, n, k - 1, g)
    BY <2>1, <1>2
  <2> DEFINE G == ClimbTable(s, p, leaf, n, k, g)
  <2>3. \A j \in 0 .. k - 1 : G[j] = g[j]
    BY <2>1, <2>2 DEF ClimbTable
  <2>4. ASSUME NEW j \in 0 .. k
        PROVE  ClimbStep(s, p, leaf, n, j, g) = ClimbStep(s, p, leaf, n, j, G)
    <3> HIDE DEF G
    <3>1. j # 0 => G[j - 1] = g[j - 1]
      BY <2>1, <2>3
    <3> QED BY <3>1 DEF ClimbStep
  <2>5. G = ClimbTable(s, p, leaf, n, k, G)
    BY <2>4 DEF ClimbTable
  <2> QED BY <2>5, <1>2
<1> QED BY <1>3, <1>4

\* recompute satisfies its recursion equation.
LEMMA RecomputeUnfolds ==
  ASSUME NEW s, Len(s) \in Nat, NEW p, NEW leaf
  PROVE  LET up == recompute(s, p, leaf)
         IN  /\ up[0] = leaf
             /\ \A j \in 1 .. Len(s) : up[j] = digestParent(p, Len(s) - j, s[j], up[j - 1])
<1> DEFINE n  == Len(s)
           up == recompute(s, p, leaf)
<1>1. PICK g : g = ClimbTable(s, p, leaf, n, n, g)
  BY ClimbTableExists
<1>2. up = ClimbTable(s, p, leaf, n, n, up)
  BY <1>1 DEF recompute, ClimbTable, ClimbStep
<1> HIDE DEF up
<1>3. \A j \in 0 .. n : up[j] = ClimbStep(s, p, leaf, n, j, up)
  BY <1>2 DEF ClimbTable
<1> QED BY <1>3 DEF ClimbStep, up

-----------------------------------------------------------------------------
\* Soundness: no proof convinces the verifier of a wrong value.

\* Equal parents have equal children on the path.
LEMMA ParentInjective ==
  ASSUME NEW p \in Paths, NEW d \in 0 .. Depth - 1, NEW a, NEW b, NEW x, NEW y,
         digestParent(p, d, a, x) = digestParent(p, d, b, y)
  PROVE  x = y
  BY DigestFacts DEF digestParent, digestNode, NodeData

\* Equal leaves have equal paths and equal value hashes.
LEMMA LeafInjective ==
  ASSUME NEW p, NEW q, NEW x, NEW y, digestLeaf(p, x) = digestLeaf(q, y)
  PROVE  p = q /\ x = y
<1>1. LeafData(p, x) = LeafData(q, y)
  BY DigestFacts DEF digestLeaf
<1>2. LeafData(p, x).path = p /\ LeafData(q, y).path = q
  BY DigestFacts
<1>3. LeafData(p, x).valueHash = x /\ LeafData(q, y).valueHash = y
  BY DigestFacts
<1> QED BY <1>1, <1>2, <1>3

\* When the recomputed root is the root of a map, every recomputed hash is the
\* node of the map's tree at its level of the path.
LEMMA ClimbMeetsTree ==
  ASSUME NEW m \in Maps, NEW p \in Paths, NEW s, Len(s) \in 0 .. Depth, NEW leaf,
         recompute(s, p, leaf)[Len(s)] = SubtreeRoot(EntriesOf(m), 0)
  PROVE  \A d \in 0 .. Len(s) : recompute(s, p, leaf)[Len(s) - d]
                                  = SubtreeRoot(Below(EntriesOf(m), p, d), d)
<1> DEFINE n  == Len(s)
           L  == EntriesOf(m)
           up == recompute(s, p, leaf)
           T  == {d \in 0 .. n : up[n - d] # SubtreeRoot(Below(L, p, d), d)}
<1>0. n \in Nat /\ Depth \in Nat /\ L \in SUBSET Entries
  BY DepthAssumption, MapEntries
<1>1. \A j \in 1 .. n : up[j] = digestParent(p, n - j, s[j], up[j - 1])
  BY <1>0, RecomputeUnfolds
<1>2. SUFFICES ASSUME T # {} PROVE FALSE
  OBVIOUS
<1>3. T \subseteq Nat
  BY <1>0
<1>4. PICK d \in T : \A c \in T : d <= c
  BY <1>2, <1>3, LeastElement
<1>5. d \in 0 .. n /\ up[n - d] # SubtreeRoot(Below(L, p, d), d)
  BY <1>4
<1>6. d # 0
  <2>1. 0 \in 0 .. Depth - 1
    BY DepthAssumption
  <2>2. Below(L, p, 0) = L
    BY <1>0, <2>1, BelowSplits
  <2> QED BY <1>0, <1>5, <2>2
<1> DEFINE c == d - 1
           A == Below(L, p, c)
<1>7. /\ c \in 0 .. n /\ c \in 0 .. Depth - 1 /\ c + 1 = d /\ ~ (d <= c)
      /\ n - c \in 1 .. n /\ n - (n - c) = c /\ n - c - 1 = n - d
  BY <1>0, <1>5, <1>6
<1>8. up[n - c] = SubtreeRoot(A, c)
  BY <1>4, <1>7
<1> HIDE DEF T, up, L, n, c
<1>9. SubtreeRoot(A, c) = digestParent(p, c, s[n - c], up[n - d])
  BY <1>1, <1>7, <1>8
<1>10. A \in SUBSET Entries /\ c \in 0 .. Depth /\ c < Depth
  <2>1. A \in SUBSET Entries
    BY <1>0, <1>7, BelowSplits
  <2>2. c \in 0 .. Depth /\ c < Depth
    BY <1>0, <1>7
  <2> QED BY <2>1, <2>2
<1>11. Big(A)
  <2>1. SubtreeRoot(A, c) # Placeholder /\ ~ isLeaf(Data(SubtreeRoot(A, c)))
    BY <1>9, DigestFacts DEF digestParent, digestNode
  <2>2. /\ SubtreeRoot(A, c) = Placeholder <=> A = {}
        /\ A # {} => (isLeaf(Data(SubtreeRoot(A, c))) <=> ~ Big(A))
    BY <1>10, RootShape
  <2> QED BY <2>1, <2>2
<1>12. digestParent(p, c, SubtreeRoot(Beside(L, p, c + 1), c + 1),
                    SubtreeRoot(Below(L, p, c + 1), c + 1)) = SubtreeRoot(A, c)
  BY <1>0, <1>7, <1>11, InnerNode
<1>13. up[n - d] = SubtreeRoot(Below(L, p, d), d)
  BY <1>7, <1>9, <1>12, ParentInjective
<1> QED BY <1>5, <1>13

\* The default value stands for no entry, as a caller sees it.
ValueIn(m, p) == IF m[p] = Absent THEN DefaultValue ELSE m[p]

\* Against the root of a map, VerifyProof accepts no value but the one the map
\* has at that key, whatever the proof holds: side nodes that lie, that are too
\* few or too many, or an unrelated leaf that does not exist (proofs.go,
\* verifyProofWithUpdates).
THEOREM VerifierSound ==
  ASSUME NEW m \in Maps, NEW p \in Paths, NEW v \in AnyValue,
         NEW proof, Len(proof.SideNodes) \in Nat,
         VerifyProof(proof, SubtreeRoot(EntriesOf(m), 0), p, v)
  PROVE  v = ValueIn(m, p)
<1> DEFINE n    == Len(proof.SideNodes)
           L    == EntriesOf(m)
           B    == Below(L, p, n)
           leaf == claimedLeaf(proof, p, v)
           up   == recompute(proof.SideNodes, p, leaf)
<1>1. /\ n \in 0 .. Depth /\ Depth \in Nat
      /\ v = DefaultValue => unrelatedLeaf(proof, p)
      /\ up[n] = SubtreeRoot(L, 0)
  BY DepthAssumption DEF VerifyProof, sanityCheck
<1>2. \A d \in 0 .. n : up[n - d] = SubtreeRoot(Below(L, p, d), d)
  <2>1. PICK s : s = proof.SideNodes
    OBVIOUS
  <2> QED BY <1>1, <2>1, ClimbMeetsTree
<1>3. up[0] = leaf
  BY RecomputeUnfolds
<1>4. leaf = SubtreeRoot(B, n)
  BY <1>1, <1>2, <1>3
<1>5. /\ L \in SUBSET Entries /\ ~ Big(Below(L, p, Depth))
      /\ \A w : <<p, w>> \in L <=> w \in Values /\ m[p] = w
      /\ m[p] \in Values <=> m[p] # Absent
      /\ \A e \in L : e \in Entries /\ e = <<e[1], m[e[1]]>>
  BY MapEntries
<1>6. B \in SUBSET Entries /\ (n < Depth \/ ~ Big(B))
  <2>1. B \in SUBSET Entries
    BY <1>5 DEF Below
  <2>2. n < Depth \/ n = Depth
    BY <1>1
  <2> QED BY <1>5, <2>1, <2>2
<1>7. m[p] # Absent => <<p, m[p]>> \in B
  BY <1>5 DEF Below
<1>8. /\ SubtreeRoot(B, n) = Placeholder <=> B = {}
      /\ B # {} => (isLeaf(Data(SubtreeRoot(B, n))) <=> ~ Big(B))
  BY <1>1, <1>6, RootShape
<1> HIDE DEF B, L, leaf, up, n
<1>9. ASSUME leaf # Placeholder, isLeaf(Data(leaf))
      PROVE  \E e \in L : B = {e} /\ leaf = EntryHash(e)
  <2>1. B # {} /\ ~ Big(B)
    BY <1>4, <1>8, <1>9
  <2>2. PICK e \in B : B = {e}
    BY <2>1, BigFacts
  <2>3. e \in Entries /\ e \in L
    BY <1>6 DEF B, Below
  <2> QED BY <1>1, <1>4, <2>2, <2>3, SubtreeRootCases
<1>10. CASE v # DefaultValue
  <2>1. leaf = digestLeaf(p, digest(v)) /\ v \in Values
    BY <1>10 DEF leaf, claimedLeaf, AnyValue
  <2>2. leaf # Placeholder /\ isLeaf(Data(leaf))
    BY <2>1, DigestFacts DEF digestLeaf
  <2>3. PICK e \in L : B = {e} /\ leaf = EntryHash(e)
    BY <1>9, <2>2
  <2>4. e[1] = p /\ e[2] = v
    <3>1. digestLeaf(e[1], digest(e[2])) = digestLeaf(p, digest(v))
      BY <2>1, <2>3 DEF EntryHash
    <3>2. e[1] = p /\ digest(e[2]) = digest(v)
      BY <3>1, LeafInjective
    <3> QED BY <3>2, DigestFacts
  <2>5. e = <<p, m[p]>> /\ e[2] = m[p]
    BY <1>5, <2>4
  <2> QED BY <2>1, <2>4, <2>5, ValuesAssumption DEF ValueIn
<1>11. CASE v = DefaultValue /\ proof.NonMembershipLeafData = << >>
  <2>1. leaf = Placeholder
    BY <1>11 DEF leaf, claimedLeaf
  <2>2. m[p] = Absent
    BY <1>4, <1>7, <1>8, <2>1
  <2> QED BY <1>11, <2>2 DEF ValueIn
<1>12. CASE v = DefaultValue /\ proof.NonMembershipLeafData # << >>
  <2> DEFINE data == proof.NonMembershipLeafData[1]
  <2>1. leaf = digestLeaf(data.path, data.valueHash) /\ data.path # p
    BY <1>1, <1>12 DEF leaf, claimedLeaf, unrelatedLeaf
  <2>2. leaf # Placeholder /\ isLeaf(Data(leaf))
    BY <2>1, DigestFacts DEF digestLeaf
  <2>3. PICK e \in L : B = {e} /\ leaf = EntryHash(e)
    BY <1>9, <2>2
  <2>4. e[1] = data.path
    <3>1. digestLeaf(e[1], digest(e[2])) = digestLeaf(data.path, data.valueHash)
      BY <2>1, <2>3 DEF EntryHash
    <3> QED BY <3>1, LeafInjective
  <2>5. m[p] = Absent
    BY <1>7, <2>1, <2>3, <2>4
  <2> QED BY <1>12, <2>5 DEF ValueIn
<1> QED BY <1>10, <1>11, <1>12

-----------------------------------------------------------------------------
\* The proof that a map determines.

\* The walk ends at the first level with at most one entry below, and a map has
\* such a level.
LEMMA WalkLength ==
  ASSUME NEW m \in Maps, NEW p \in Paths
  PROVE  LET L == EntriesOf(m)
             n == walkLength(L, p)
         IN  /\ n \in 0 .. Depth /\ ~ Big(Below(L, p, n))
             /\ \A c \in 0 .. n - 1 : Big(Below(L, p, c))
             /\ \A d \in 0 .. Depth :
                  ~ Big(Below(L, p, d)) /\ (\A c \in 0 .. d - 1 : Big(Below(L, p, c)))
                     => n = d
<1> DEFINE L == EntriesOf(m)
           T == {d \in 0 .. Depth : ~ Big(Below(L, p, d))}
           Ends(d) == ~ Big(Below(L, p, d)) /\ (\A c \in 0 .. d - 1 : Big(Below(L, p, c)))
           n == walkLength(L, p)
<1>0. Depth \in Nat
  BY DepthAssumption
<1>1. Depth \in T /\ T \subseteq Nat
  BY <1>0, MapEntries
<1>2. PICK d \in T : \A c \in T : d <= c
  BY <1>1, LeastElement
<1>3. d \in 0 .. Depth /\ Ends(d)
  <2> SUFFICES ASSUME NEW c \in 0 .. d - 1, ~ Big(Below(L, p, c)) PROVE FALSE
    BY <1>2
  <2>1. d \in 0 .. Depth
    BY <1>2
  <2>2. c \in 0 .. Depth /\ ~ (d <= c)
    BY <1>0, <2>1
  <2> QED BY <1>2, <2>2
<1> HIDE DEF L, T
<1>4. n = CHOOSE x \in 0 .. Depth : Ends(x)
  BY DEF walkLength
<1> HIDE DEF n
<1>5. n \in 0 .. Depth /\ Ends(n)
  BY <1>3, <1>4
<1>6. ASSUME NEW x \in 0 .. Depth, Ends(x) PROVE n = x
  <2>1. ~ (n < x) /\ ~ (x < n)
    BY <1>5, <1>6, <1>0
  <2> QED BY <1>5, <1>0, <2>1
<1> QED BY <1>5, <1>6 DEF L, n

\* The side nodes of the proof for p that ends at level n, and the entry that
\* may be found at its end.
SidesOf(m, p, n) ==
    [j \in 1 .. n |-> SubtreeRoot(Beside(EntriesOf(m), p, n + 1 - j), n + 1 - j)]
OthersOf(m, p, n) == {e \in Below(EntriesOf(m), p, n) : e[1] # p}

\* The fields of the proof of a map.
LEMMA ProofFields ==
  ASSUME NEW m, NEW p, NEW u, NEW n, n = walkLength(EntriesOf(m), p)
  PROVE  /\ ProofOf(m, p, u).SideNodes = SidesOf(m, p, n)
         /\ OthersOf(m, p, n) = {} => ProofOf(m, p, u).NonMembershipLeafData = << >>
         /\ \A e : OthersOf(m, p, n) = {e} =>
              ProofOf(m, p, u).NonMembershipLeafData = <<LeafData(e[1], digest(e[2]))>>
         /\ ProofOf(m, p, u).SiblingData =
              IF u /\ n > 0 THEN <<Data(SidesOf(m, p, n)[1])>> ELSE << >>
<1>1. ProofOf(m, p, u).SideNodes = SidesOf(m, p, n)
  BY Zenon DEF ProofOf, SidesOf
<1>2. OthersOf(m, p, n) = {} => ProofOf(m, p, u).NonMembershipLeafData = << >>
  BY Zenon DEF ProofOf, OthersOf
<1>3. ASSUME NEW e, OthersOf(m, p, n) = {e}
      PROVE  ProofOf(m, p, u).NonMembershipLeafData = <<LeafData(e[1], digest(e[2]))>>
  <2> DEFINE other == OthersOf(m, p, walkLength(EntriesOf(m), p))
             x == CHOOSE x \in other : TRUE
  <2>1. ProofOf(m, p, u).NonMembershipLeafData =
          IF other = {} THEN << >> ELSE <<LeafData(x[1], digest(x[2]))>>
    BY DEF ProofOf, OthersOf
  <2>2. other = {e}
    BY <1>3
  <2>3. x = e
    BY <2>2
  <2> HIDE DEF other, x
  <2> QED BY <2>1, <2>2, <2>3
<1>4. ProofOf(m, p, u).SiblingData =
        IF u /\ n > 0 THEN <<Data(SidesOf(m, p, n)[1])>> ELSE << >>
  <2> DEFINE w == walkLength(EntriesOf(m), p)
  <2>1. ProofOf(m, p, u).SiblingData =
          IF u /\ w > 0 THEN <<Data(SidesOf(m, p, w)[1])>> ELSE << >>
    BY DEF ProofOf, SidesOf
  <2> HIDE DEF w
  <2> QED BY <2>1 DEF w
<1> QED BY <1>1, <1>2, <1>3, <1>4

\* What Prove and ProveUpdatable return is the proof of the map.
LEMMA ProofReturned ==
  ASSUME TypeOK, CallInvariant, ProveReturn
  PROVE  \E u \in BOOLEAN :
           LET proof == ProofOf(oldMap, op.path, u)
           IN  /\ reply'.SideNodes = proof.SideNodes
               /\ reply'.NonMembershipLeafData = proof.NonMembershipLeafData
               /\ reply'.SiblingData = proof.SiblingData
<1> DEFINE n == Len(side)
           nonMember == IF oldLeaf # Placeholder /\ oldLeafPath # op.path
                        THEN <<Data(oldLeaf)>> ELSE << >>
           sibling == IF op.getSiblingData /\ side # << >>
                      THEN <<Data(sideNodes(0))>> ELSE << >>
<1>0. PICK u \in BOOLEAN : u = TRUE <=> op.getSiblingData
  OBVIOUS
<1>1. PICK m : m = oldMap
  OBVIOUS
<1>2. PICK p : p = op.path
  OBVIOUS
<1>3. /\ pc = "proof" /\ RootInv /\ WalkInv /\ m \in Maps /\ p \in Paths
      /\ pc \notin {"idle", "root", "walk"}
  <2>1. pc = "proof"
    BY DEF ProveReturn
  <2> QED BY <1>1, <1>2, <2>1 DEF CallInvariant, RootInv, TypeOK, CallTypeOK
<1>4. n \in 0 .. Depth /\ Depth \in Nat /\ (side = << >> <=> n = 0)
  <2>1. Len(side) \in Nat /\ Len(side) <= Depth /\ (side = << >> <=> Len(side) = 0)
    BY SliceFacts DEF TypeOK, SliceTypeOK, IsSlice
  <2> QED BY <2>1, DepthAssumption
<1>5. /\ \A d \in 1 .. n : side[d] = SubtreeRoot(Beside(EntriesOf(m), p, d), d)
      /\ \A d \in 0 .. n - 1 : Big(Below(EntriesOf(m), p, d))
      /\ ~ Big(Below(EntriesOf(m), p, n))
  BY <1>1, <1>2, <1>3 DEF WalkInv, oldBeside, oldBelow
<1>6. walkLength(EntriesOf(m), p) = n
  BY <1>3, <1>4, <1>5, WalkLength
<1>7. PICK k : k = n
  OBVIOUS
<1>8. /\ ProofOf(m, p, u).SideNodes = SidesOf(m, p, n)
      /\ OthersOf(m, p, n) = {} => ProofOf(m, p, u).NonMembershipLeafData = << >>
      /\ \A e : OthersOf(m, p, n) = {e} =>
           ProofOf(m, p, u).NonMembershipLeafData = <<LeafData(e[1], digest(e[2]))>>
      /\ ProofOf(m, p, u).SiblingData =
           IF u /\ n > 0 THEN <<Data(SidesOf(m, p, n)[1])>> ELSE << >>
  BY <1>6, <1>7, ProofFields
<1>9. [j \in 1 .. n |-> sideNodes(j - 1)] = SidesOf(m, p, n)
  <2> SUFFICES ASSUME NEW j \in 1 .. n
               PROVE  sideNodes(j - 1)
                        = SubtreeRoot(Beside(EntriesOf(m), p, n + 1 - j), n + 1 - j)
    BY DEF SidesOf
  <2>1. n - (j - 1) = n + 1 - j /\ n + 1 - j \in 1 .. n
    BY <1>4
  <2> QED BY <1>5, <2>1 DEF sideNodes, Reversed
<1>10. nonMember = ProofOf(m, p, u).NonMembershipLeafData
  <2>1. CASE oldBelow(n) = {} /\ oldLeaf = Placeholder
    <3>1. OthersOf(m, p, n) = {}
      BY <1>1, <1>2, <2>1 DEF oldBelow, OthersOf
    <3> QED BY <1>8, <2>1, <3>1
  <2>2. ASSUME NEW e \in Entries, oldBelow(n) = {e}, oldLeaf = EntryHash(e),
               oldLeaf # Placeholder, oldLeafPath = e[1]
        PROVE  nonMember = ProofOf(m, p, u).NonMembershipLeafData
    <3>1. Data(oldLeaf) = LeafData(e[1], digest(e[2]))
      BY <2>2, DigestFacts DEF EntryHash, digestLeaf
    <3>2. OthersOf(m, p, n) = IF e[1] # p THEN {e} ELSE {}
      BY <1>1, <1>2, <2>2 DEF oldBelow, OthersOf
    <3> QED BY <1>2, <1>8, <2>2, <3>1, <3>2
  <2> QED BY <1>3, <2>1, <2>2, LeafFound
<1>11. sibling = ProofOf(m, p, u).SiblingData
  <2>1. n > 0 => sideNodes(0) = SidesOf(m, p, n)[1]
    <3> SUFFICES ASSUME n > 0 PROVE sideNodes(0) = SidesOf(m, p, n)[1]
      OBVIOUS
    <3>1. 1 \in 1 .. n /\ 1 - 1 = 0
      BY <1>4
    <3>2. [j \in 1 .. n |-> sideNodes(j - 1)][1] = sideNodes(1 - 1)
      BY <3>1
    <3> QED BY <1>9, <3>1, <3>2
  <2>2. side # << >> <=> n > 0
    BY <1>4
  <2> QED BY <1>0, <1>8, <2>1, <2>2
<1>12. /\ reply'.SideNodes = [j \in 1 .. n |-> sideNodes(j - 1)]
       /\ reply'.NonMembershipLeafData = nonMember
       /\ reply'.SiblingData = sibling
  BY DEF ProveReturn, Return
<1> HIDE DEF nonMember, sibling
<1> QED BY <1>1, <1>2, <1>8, <1>9, <1>10, <1>11, <1>12

-----------------------------------------------------------------------------
\* Every reply that is a proof is the proof of the map under its root.

\* The root and the path of a proof that was returned.
ProofInvariant ==
    proved => /\ reply.path \in Paths
              /\ CommittedMap(reply.root) \in Maps
              /\ reply.root = SubtreeRoot(EntriesOf(CommittedMap(reply.root)), 0)
              /\ ProofCanonical

\* A reply agrees with the proof of a map when it does field by field.
LEMMA FieldByField ==
  ASSUME NEW r, NEW m, NEW p, NEW u
  PROVE  (\A f \in DOMAIN ProofOf(m, p, u) : r[f] = ProofOf(m, p, u)[f]) <=>
            /\ r.SideNodes = ProofOf(m, p, u).SideNodes
            /\ r.NonMembershipLeafData = ProofOf(m, p, u).NonMembershipLeafData
            /\ r.SiblingData = ProofOf(m, p, u).SiblingData
<1> DEFINE proof == ProofOf(m, p, u)
<1>1. DOMAIN proof = {"SideNodes", "NonMembershipLeafData", "SiblingData"}
  BY DEF ProofOf
<1> HIDE DEF proof
<1>2. (\A f \in DOMAIN proof : r[f] = proof[f]) <=>
            /\ r.SideNodes = proof.SideNodes
            /\ r.NonMembershipLeafData = proof.NonMembershipLeafData
            /\ r.SiblingData = proof.SiblingData
  BY <1>1
<1> QED BY <1>2 DEF proof

\* A step leaves the reply alone, returns no proof, or is the end of Prove.
LEMMA ReplyStep ==
  ASSUME [Next]_vars
  PROVE  reply' = reply \/ reply'.status # "proof" \/ ProveReturn
<1>1. CASE UNCHANGED vars
  BY <1>1 DEF vars
<1>2. CASE Call
  <2>1. PICK o : Begin(o)
    BY <1>2 DEF Call, Update, Delete, Prove, ProveUpdatable, ProveForRoot
  <2> QED BY <2>1 DEF Begin, NoReply
<1>3. CASE FillRoot \/ FillStep \/ FillSibling
  BY <1>3 DEF FillRoot, FillStep, FillSibling, Goto
<1>4. CASE AlreadyEmpty \/ DeleteValue \/ SetValue
  BY <1>4 DEF AlreadyEmpty, DeleteValue, SetValue, ReturnRoot, ReturnError, Return
<1>5. CASE DeletePathNode
  BY <1>5 DEF DeletePathNode, Goto
<1>6. CASE BubbleLeaf \/ BubbleSkip \/ BubbleNode
  BY <1>6 DEF BubbleLeaf, BubbleSkip, BubbleNode, NextSideNode, Goto
<1>7. CASE SetLeaf
  BY <1>7 DEF SetLeaf, RemoveStale, Goto, ReturnRoot, Return
<1>8. CASE Fork \/ DeleteOldLeaf \/ DeleteOldValue \/ DeleteStale
  BY <1>8 DEF Fork, DeleteOldLeaf, DeleteOldValue, DeleteStale, RemoveStale, Goto
<1>9. CASE SpineSkip \/ SpineNode
  BY <1>9 DEF SpineSkip, SpineNode, NextSpine, Goto
<1>10. CASE InvalidKey \/ StoreFault
  BY <1>10 DEF InvalidKey, StoreFault, OnError, ReturnError, Return, Goto
<1> QED BY <1>1, <1>2, <1>3, <1>4, <1>5, <1>6, <1>7, <1>8, <1>9, <1>10 DEF Next, Step

\* Every step keeps the invariant.
LEMMA ProofInvariantStep ==
  ASSUME TypeOK, CallInvariant, ProofInvariant, [Next]_vars
  PROVE  ProofInvariant'
<1>1. CASE reply' = reply
  BY <1>1 DEF ProofInvariant, ProofCanonical, proved
<1>2. CASE reply'.status # "proof"
  BY <1>2 DEF ProofInvariant, proved
<1>3. CASE ProveReturn
  <2>1. reply'.root = op.root /\ reply'.path = op.path /\ pc = "proof"
    BY <1>3 DEF ProveReturn, Return
  <2>2. /\ op.root = root /\ op.path \in Paths /\ oldMap \in Maps
        /\ root = SubtreeRoot(EntriesOf(oldMap), 0)
    BY <2>1 DEF TypeOK, CallTypeOK, CallInvariant, CallInv, RootInv
  <2>3. CommittedMap(reply'.root) = oldMap
    BY <2>1, <2>2 DEF oldMap
  <2>4. \E u \in BOOLEAN :
           LET proof == ProofOf(CommittedMap(reply'.root), reply'.path, u)
           IN  /\ reply'.SideNodes = proof.SideNodes
               /\ reply'.NonMembershipLeafData = proof.NonMembershipLeafData
               /\ reply'.SiblingData = proof.SiblingData
    BY <1>3, <2>1, <2>3, ProofReturned
  <2>5. ProofCanonical'
    <3>1. PICK r : r = reply'
      OBVIOUS
    <3>2. \E u \in BOOLEAN :
             LET proof == ProofOf(CommittedMap(r.root), r.path, u)
             IN  \A f \in DOMAIN proof : r[f] = proof[f]
      BY <2>4, <3>1, FieldByField
    <3> QED BY <3>1, <3>2 DEF ProofCanonical
  <2> QED BY <2>1, <2>2, <2>3, <2>5 DEF ProofInvariant
<1> QED BY <1>1, <1>2, <1>3, ReplyStep

\* The invariant holds in every reachable state.
LEMMA ProofInvariantHolds == Spec => []ProofInvariant
<1>1. Init => ProofInvariant
  BY DEF Init, NoReply, ProofInvariant, proved
<1>2. TypeOK /\ CallInvariant /\ ProofInvariant /\ [Next]_vars => ProofInvariant'
  BY ProofInvariantStep
<1> QED BY <1>1, <1>2, TypeCorrect, InvariantHolds, PTL DEF Spec

\* Prove and ProveUpdatable return the proof that the map alone determines,
\* although stores may have failed in earlier calls (smt.go, doProveForRoot).
THEOREM ProofsAreCanonical == Spec => []ProofCanonical
<1>1. ProofInvariant => ProofCanonical
  BY DEF ProofInvariant, ProofCanonical
<1> QED BY <1>1, ProofInvariantHolds, PTL

-----------------------------------------------------------------------------
\* Completeness: the proof of a map is accepted.

\* A node of a map's tree is the hash of its data.
LEMMA NodeOfData ==
  ASSUME NEW L \in SUBSET Entries, NEW d \in 0 .. Depth, L # {}, d < Depth \/ ~ Big(L)
  PROVE  Digest(Data(SubtreeRoot(L, d))) = SubtreeRoot(L, d)
<1>1. CASE Big(L)
  BY <1>1, SubtreeRootCases, DigestFacts DEF digestNode
<1>2. CASE ~ Big(L)
  <2>1. PICK e \in L : L = {e}
    BY <1>2, BigFacts
  <2>2. SubtreeRoot(L, d) = EntryHash(e)
    BY <2>1, SubtreeRootCases
  <2> QED BY <2>2, DigestFacts DEF EntryHash, digestLeaf
<1> QED BY <1>1, <1>2

\* The first side node of a map's proof is the hash of its sibling data, and no
\* proof is longer than a path.
LEMMA MapProofSane ==
  ASSUME NEW m \in Maps, NEW p \in Paths, NEW u \in BOOLEAN, NEW proof,
         proof.SideNodes = ProofOf(m, p, u).SideNodes,
         proof.SiblingData = ProofOf(m, p, u).SiblingData
  PROVE  /\ sanityCheck(proof)
         /\ Len(proof.SideNodes) = walkLength(EntriesOf(m), p)
<1> DEFINE L == EntriesOf(m)
<1>1. PICK n : n = walkLength(L, p)
  OBVIOUS
<1>2. /\ n \in 0 .. Depth /\ ~ Big(Below(L, p, n)) /\ Depth \in Nat
      /\ \A c \in 0 .. n - 1 : Big(Below(L, p, c))
  BY <1>1, WalkLength, DepthAssumption
<1>3. /\ proof.SideNodes = SidesOf(m, p, n)
      /\ proof.SiblingData = IF u /\ n > 0 THEN <<Data(SidesOf(m, p, n)[1])>> ELSE << >>
  BY <1>1, ProofFields
<1>4. Len(proof.SideNodes) = n
  BY <1>2, <1>3 DEF SidesOf
<1>5. ASSUME n > 0
      PROVE  SidesOf(m, p, n)[1] = Digest(Data(SidesOf(m, p, n)[1]))
  <2> DEFINE c == n - 1
             S == Beside(L, p, n)
  <2>1. c \in 0 .. Depth - 1 /\ c + 1 = n /\ c \in 0 .. n - 1 /\ n \in 1 .. Depth
    BY <1>2, <1>5
  <2>2. SidesOf(m, p, n)[1] = SubtreeRoot(S, n)
    <3>1. 1 \in 1 .. n /\ n + 1 - 1 = n
      BY <2>1
    <3> QED BY <3>1 DEF SidesOf
  <2>3. S \in SUBSET Entries /\ (n < Depth \/ ~ Big(S))
    BY <2>1, BesideSmall
  <2>4. Below(L, p, c) = Below(L, p, c + 1) \cup Beside(L, p, c + 1)
    BY <2>1, MapEntries, BelowSplits
  <2>5. S # {}
    BY <1>2, <2>1, <2>4
  <2>6. Digest(Data(SubtreeRoot(S, n))) = SubtreeRoot(S, n)
    BY <1>2, <2>3, <2>5, NodeOfData
  <2> QED BY <2>2, <2>6
<1>6. proof.SiblingData # << >> => n > 0 /\ proof.SiblingData[1] = Data(SidesOf(m, p, n)[1])
  BY <1>3
<1>7. Len(proof.SideNodes) <= Depth
  BY <1>2, <1>4
<1> QED BY <1>1, <1>3, <1>4, <1>5, <1>6, <1>7 DEF sanityCheck

\* Recomputed along the proof of a map, from the node at the end of the walk,
\* every hash is the node of the map's tree at its level.
LEMMA MapProofClimbs ==
  ASSUME NEW m \in Maps, NEW p \in Paths, NEW n, n = walkLength(EntriesOf(m), p), NEW s,
         s = SidesOf(m, p, n), NEW leaf, leaf = SubtreeRoot(Below(EntriesOf(m), p, n), n)
  PROVE  recompute(s, p, leaf)[n] = SubtreeRoot(EntriesOf(m), 0)
<1> DEFINE L  == EntriesOf(m)
           up == recompute(s, p, leaf)
           T  == {j \in 0 .. n : up[j] # SubtreeRoot(Below(L, p, n - j), n - j)}
<1>0. n \in 0 .. Depth /\ Depth \in Nat /\ \A c \in 0 .. n - 1 : Big(Below(L, p, c))
  BY WalkLength, DepthAssumption
<1>1. Len(s) = n /\ L \in SUBSET Entries
  BY <1>0, MapEntries DEF SidesOf
<1>2. up[0] = leaf /\ \A j \in 1 .. n : up[j] = digestParent(p, n - j, s[j], up[j - 1])
  BY <1>0, <1>1, RecomputeUnfolds
<1> HIDE DEF up, L
<1>3. T = {}
  <2> SUFFICES ASSUME T # {} PROVE FALSE
    OBVIOUS
  <2>1. T \subseteq Nat
    BY <1>0
  <2>2. PICK j \in T : \A k \in T : j <= k
    BY <2>1, LeastElement
  <2>3. j \in 0 .. n /\ up[j] # SubtreeRoot(Below(L, p, n - j), n - j)
    BY <2>2
  <2>4. j # 0
    BY <1>0, <1>2, <2>3 DEF L
  <2> DEFINE c == n - j
  <2>5. /\ j - 1 \in 0 .. n /\ ~ (j <= j - 1) /\ c \in 0 .. n - 1 /\ c \in 0 .. Depth - 1
        /\ n - (j - 1) = c + 1 /\ j \in 1 .. n /\ n + 1 - j = c + 1
    BY <1>0, <2>3, <2>4
  <2>6. up[j - 1] = SubtreeRoot(Below(L, p, c + 1), c + 1)
    BY <2>2, <2>5
  <2>7. s[j] = SubtreeRoot(Beside(L, p, c + 1), c + 1)
    BY <2>5 DEF SidesOf, L
  <2>8. up[j] = digestParent(p, c, s[j], up[j - 1])
    BY <1>2, <2>5
  <2>9. digestParent(p, c, s[j], up[j - 1]) = SubtreeRoot(Below(L, p, c), c)
    BY <1>0, <1>1, <2>5, <2>6, <2>7, InnerNode
  <2> QED BY <2>3, <2>8, <2>9
<1>4. up[n] = SubtreeRoot(Below(L, p, 0), 0)
  <2>1. n \in 0 .. n /\ n - n = 0
    BY <1>0
  <2> QED BY <1>3, <2>1
<1>5. Below(L, p, 0) = L
  <2>1. 0 \in 0 .. Depth - 1
    BY DepthAssumption
  <2> QED BY <1>1, <2>1, BelowSplits
<1> QED BY <1>4, <1>5 DEF up, L

\* The verifier accepts the proof of a map for the value the map has.
LEMMA MapProofAccepted ==
  ASSUME NEW m \in Maps, NEW p \in Paths, NEW u \in BOOLEAN, NEW proof,
         proof.SideNodes = ProofOf(m, p, u).SideNodes,
         proof.NonMembershipLeafData = ProofOf(m, p, u).NonMembershipLeafData,
         proof.SiblingData = ProofOf(m, p, u).SiblingData
  PROVE  VerifyProof(proof, SubtreeRoot(EntriesOf(m), 0), p, ValueIn(m, p))
<1> DEFINE L == EntriesOf(m)
           v == ValueIn(m, p)
           leaf == claimedLeaf(proof, p, v)
<1>1. PICK n : n = walkLength(L, p)
  OBVIOUS
<1> DEFINE B == Below(L, p, n)
<1>2. sanityCheck(proof) /\ Len(proof.SideNodes) = n
  BY <1>1, MapProofSane
<1>3. /\ n \in 0 .. Depth /\ ~ Big(B)
  BY <1>1, WalkLength
<1>4. /\ proof.SideNodes = SidesOf(m, p, n)
      /\ OthersOf(m, p, n) = {} => proof.NonMembershipLeafData = << >>
      /\ \A e : OthersOf(m, p, n) = {e} =>
           proof.NonMembershipLeafData = <<LeafData(e[1], digest(e[2]))>>
  <2>1. /\ ProofOf(m, p, u).SideNodes = SidesOf(m, p, n)
        /\ OthersOf(m, p, n) = {} => ProofOf(m, p, u).NonMembershipLeafData = << >>
        /\ \A e : OthersOf(m, p, n) = {e} =>
             ProofOf(m, p, u).NonMembershipLeafData = <<LeafData(e[1], digest(e[2]))>>
        /\ ProofOf(m, p, u).SiblingData =
             IF u /\ n > 0 THEN <<Data(SidesOf(m, p, n)[1])>> ELSE << >>
    BY <1>1, ProofFields
  <2> QED BY <2>1, Zenon
<1>5. /\ L \in SUBSET Entries
      /\ \A w : <<p, w>> \in L <=> w \in Values /\ m[p] = w
      /\ m[p] \in Values <=> m[p] # Absent
      /\ \A e \in L : e \in Entries /\ e = <<e[1], m[e[1]]>>
  BY MapEntries
<1>6. m[p] # Absent => <<p, m[p]>> \in B
  BY <1>5 DEF Below
<1>7. \A e \in B : e \in L
  BY DEF Below
<1> HIDE DEF L, B, leaf
<1>8. leaf = SubtreeRoot(B, n) /\ (v = DefaultValue => unrelatedLeaf(proof, p))
  <2>1. CASE B = {}
    <3>1. m[p] = Absent /\ v = DefaultValue
      BY <1>6, <2>1 DEF ValueIn
    <3>2. proof.NonMembershipLeafData = << >>
      BY <1>4, <2>1 DEF OthersOf, B, L
    <3>3. leaf = Placeholder /\ unrelatedLeaf(proof, p)
      BY <3>1, <3>2 DEF leaf, claimedLeaf, unrelatedLeaf
    <3> QED BY <1>3, <2>1, <3>3, SubtreeRootCases
  <2>2. CASE B # {}
    <3>1. PICK e \in B : B = {e}
      BY <1>3, <2>2, BigFacts
    <3>2. e \in Entries /\ e = <<e[1], m[e[1]]>> /\ SubtreeRoot(B, n) = EntryHash(e)
      BY <1>3, <1>5, <1>7, <3>1, SubtreeRootCases
    <3>3. CASE e[1] = p
      <4>1. e[2] = m[p] /\ m[p] \in Values
        BY <1>5, <1>7, <3>2, <3>3
      <4>2. v = m[p] /\ v # DefaultValue
        BY <4>1, ValuesAssumption DEF ValueIn
      <4>3. leaf = digestLeaf(p, digest(m[p]))
        BY <4>2 DEF leaf, claimedLeaf
      <4> QED BY <3>2, <3>3, <4>1, <4>2, <4>3 DEF EntryHash
    <3>4. CASE e[1] # p
      <4>1. m[p] = Absent /\ v = DefaultValue
        BY <1>6, <3>1, <3>4 DEF ValueIn
      <4>2. OthersOf(m, p, n) = {e}
        BY <3>1, <3>4 DEF OthersOf, B, L
      <4>3. proof.NonMembershipLeafData = <<LeafData(e[1], digest(e[2]))>>
        BY <1>4, <4>2
      <4>4. /\ proof.NonMembershipLeafData # << >>
            /\ proof.NonMembershipLeafData[1] = LeafData(e[1], digest(e[2]))
        BY <4>3
      <4>5. /\ proof.NonMembershipLeafData[1].path = e[1]
            /\ proof.NonMembershipLeafData[1].valueHash = digest(e[2])
        BY <4>4, DigestFacts
      <4>6. leaf = digestLeaf(e[1], digest(e[2])) /\ unrelatedLeaf(proof, p)
        BY <3>4, <4>1, <4>4, <4>5 DEF leaf, claimedLeaf, unrelatedLeaf
      <4> QED BY <3>2, <4>6 DEF EntryHash
    <3> QED BY <3>3, <3>4
  <2> QED BY <2>1, <2>2
<1>9. recompute(proof.SideNodes, p, leaf)[n] = SubtreeRoot(L, 0)
  BY <1>1, <1>4, <1>8, MapProofClimbs DEF B, L
<1> QED BY <1>2, <1>8, <1>9 DEF VerifyProof, leaf, L

\* A proof that Prove returned convinces the verifier of the committed value at
\* its key, and of no other value at any key (smt.go, doProveForRoot; proofs.go,
\* verifyProofWithUpdates).
THEOREM ProofsDecide == Spec => []ProofDecides
<1>1. ASSUME ProofInvariant, proved
      PROVE  /\ VerifyProof(reply, reply.root, reply.path, valueOf(reply.path))
             /\ \A p \in Paths : \A v \in AnyValue :
                    VerifyProof(reply, reply.root, p, v) => v = valueOf(p)
  <2>1. PICK r : r = reply
    OBVIOUS
  <2>2. PICK m : m = CommittedMap(r.root)
    OBVIOUS
  <2>3. m \in Maps /\ r.path \in Paths /\ r.root = SubtreeRoot(EntriesOf(m), 0)
    BY <1>1, <2>1, <2>2 DEF ProofInvariant
  <2>4. \A p \in Paths : valueOf(p) = ValueIn(m, p)
    BY <2>1, <2>2 DEF valueOf, ValueIn, CommittedMap
  <2>5. PICK u \in BOOLEAN : /\ r.SideNodes = ProofOf(m, r.path, u).SideNodes
                             /\ r.NonMembershipLeafData = ProofOf(m, r.path, u).NonMembershipLeafData
                             /\ r.SiblingData = ProofOf(m, r.path, u).SiblingData
    <3>1. PICK u \in BOOLEAN :
             \A f \in DOMAIN ProofOf(m, r.path, u) : r[f] = ProofOf(m, r.path, u)[f]
      BY <1>1, <2>1, <2>2 DEF ProofInvariant, ProofCanonical
    <3> QED BY <3>1, FieldByField
  <2>6. VerifyProof(r, r.root, r.path, ValueIn(m, r.path))
    BY <2>3, <2>5, MapProofAccepted
  <2>7. Len(r.SideNodes) \in Nat
    <3>1. Len(r.SideNodes) = walkLength(EntriesOf(m), r.path)
      BY <2>3, <2>5, MapProofSane
    <3>2. walkLength(EntriesOf(m), r.path) \in 0 .. Depth
      BY <2>3, WalkLength
    <3> QED BY <3>1, <3>2, DepthAssumption
  <2>8. \A p \in Paths : \A v \in AnyValue :
           VerifyProof(r, r.root, p, v) => v = ValueIn(m, p)
    BY <2>3, <2>7, VerifierSound
  <2> QED BY <2>1, <2>3, <2>4, <2>6, <2>8
<1>2. ProofInvariant => ProofDecides
  BY <1>1 DEF ProofDecides
<1> QED BY <1>2, ProofInvariantHolds, PTL

-----------------------------------------------------------------------------
\* Compaction loses nothing.

CountStep(mask, bit, j, g) ==
    IF j = 0 THEN 0 ELSE IF mask[j] = bit THEN g[j - 1] + 1 ELSE g[j - 1]

CountTable(mask, bit, k, g) == [j \in 0 .. k |-> CountStep(mask, bit, j, g)]

\* The recursion of count has a solution up to every length.
LEMMA CountTableExists ==
  ASSUME NEW mask, NEW bit
  PROVE  \A k \in Nat : \E g : g = CountTable(mask, bit, k, g)
<1> DEFINE T == {k \in Nat : ~ \E g : g = CountTable(mask, bit, k, g)}
<1>1. SUFFICES ASSUME T # {} PROVE FALSE
  OBVIOUS
<1>2. PICK k \in T : \A m \in T : k <= m
  BY <1>1, LeastElement
<1>3. CASE k = 0
  <2> DEFINE g0 == CountTable(mask, bit, 0, << >>)
  <2>1. g0 = CountTable(mask, bit, 0, g0)
    BY DEF CountTable, CountStep
  <2> QED BY <2>1, <1>3, <1>2
<1>4. CASE k # 0
  <2>1. k - 1 \in Nat /\ ~ (k <= k - 1) /\ k \in Nat
    BY <1>4
  <2>2. PICK g : g = CountTable(mask, bit, k - 1, g)
    BY <2>1, <1>2
  <2> DEFINE G == CountTable(mask, bit, k, g)
  <2>3. \A j \in 0 .. k - 1 : G[j] = g[j]
    BY <2>1, <2>2 DEF CountTable
  <2>4. ASSUME NEW j \in 0 .. k PROVE CountStep(mask, bit, j, g) = CountStep(mask, bit, j, G)
    <3> HIDE DEF G
    <3>1. j # 0 => G[j - 1] = g[j - 1]
      BY <2>1, <2>3
    <3> QED BY <3>1 DEF CountStep
  <2>5. G = CountTable(mask, bit, k, G)
    BY <2>4 DEF CountTable
  <2> QED BY <2>5, <1>2
<1> QED BY <1>3, <1>4

\* count satisfies its recursion equation.
LEMMA CountUnfolds ==
  ASSUME NEW mask, Len(mask) \in Nat, NEW bit
  PROVE  LET c == count(mask, bit)
         IN  /\ c[0] = 0
             /\ \A j \in 1 .. Len(mask) :
                  c[j] = IF mask[j] = bit THEN c[j - 1] + 1 ELSE c[j - 1]
             /\ \A j \in 0 .. Len(mask) : c[j] \in Nat
<1> DEFINE n == Len(mask)
           c == count(mask, bit)
<1>1. PICK g : g = CountTable(mask, bit, n, g)
  BY CountTableExists
<1>2. c = CountTable(mask, bit, n, c)
  BY <1>1 DEF count, CountTable, CountStep
<1> HIDE DEF c
<1>3. \A j \in 0 .. n : c[j] = CountStep(mask, bit, j, c)
  BY <1>2 DEF CountTable
<1>4. c[0] = 0 /\ \A j \in 1 .. n : c[j] = IF mask[j] = bit THEN c[j - 1] + 1 ELSE c[j - 1]
  BY <1>3 DEF CountStep
<1>5. \A j \in 0 .. n : c[j] \in Nat
  <2> DEFINE T == {j \in 0 .. n : c[j] \notin Nat}
  <2> SUFFICES ASSUME T # {} PROVE FALSE
    OBVIOUS
  <2>0. T \subseteq Nat
    OBVIOUS
  <2>1. PICK j \in T : \A k \in T : j <= k
    BY <2>0, LeastElement
  <2>2. j \in 0 .. n /\ c[j] \notin Nat
    BY <2>1
  <2>3. j # 0
    BY <1>4, <2>2
  <2>4. j \in 1 .. n /\ j - 1 \in 0 .. n /\ ~ (j <= j - 1)
    BY <2>2, <2>3
  <2>5. c[j - 1] \in Nat
    BY <2>1, <2>4
  <2> QED BY <1>4, <2>2, <2>4, <2>5
<1> QED BY <1>4, <1>5 DEF c

KeptStep(s, j, g) ==
    IF j = 0 THEN << >>
    ELSE IF s[j] = Placeholder THEN g[j - 1] ELSE Append(g[j - 1], s[j])

KeptTable(s, k, g) == [j \in 0 .. k |-> KeptStep(s, j, g)]

\* The recursion of compacted has a solution up to every length.
LEMMA KeptTableExists ==
  ASSUME NEW s
  PROVE  \A k \in Nat : \E g : g = KeptTable(s, k, g)
<1> DEFINE T == {k \in Nat : ~ \E g : g = KeptTable(s, k, g)}
<1>1. SUFFICES ASSUME T # {} PROVE FALSE
  OBVIOUS
<1>2. PICK k \in T : \A m \in T : k <= m
  BY <1>1, LeastElement
<1>3. CASE k = 0
  <2> DEFINE g0 == KeptTable(s, 0, << >>)
  <2>1. g0 = KeptTable(s, 0, g0)
    BY DEF KeptTable, KeptStep
  <2> QED BY <2>1, <1>3, <1>2
<1>4. CASE k # 0
  <2>1. k - 1 \in Nat /\ ~ (k <= k - 1) /\ k \in Nat
    BY <1>4
  <2>2. PICK g : g = KeptTable(s, k - 1, g)
    BY <2>1, <1>2
  <2> DEFINE G == KeptTable(s, k, g)
  <2>3. \A j \in 0 .. k - 1 : G[j] = g[j]
    BY <2>1, <2>2 DEF KeptTable
  <2>4. ASSUME NEW j \in 0 .. k PROVE KeptStep(s, j, g) = KeptStep(s, j, G)
    <3> HIDE DEF G
    <3>1. j # 0 => G[j - 1] = g[j - 1]
      BY <2>1, <2>3
    <3> QED BY <3>1 DEF KeptStep
  <2>5. G = KeptTable(s, k, G)
    BY <2>4 DEF KeptTable
  <2> QED BY <2>5, <1>2
<1> QED BY <1>3, <1>4

\* compacted satisfies its recursion equation.
LEMMA CompactedUnfolds ==
  ASSUME NEW s, Len(s) \in Nat
  PROVE  LET kept == compacted(s)
         IN  /\ kept[0] = << >>
             /\ \A j \in 1 .. Len(s) :
                  kept[j] = IF s[j] = Placeholder THEN kept[j - 1]
                            ELSE Append(kept[j - 1], s[j])
<1> DEFINE n == Len(s)
           kept == compacted(s)
<1>1. PICK g : g = KeptTable(s, n, g)
  BY KeptTableExists
<1>2. kept = KeptTable(s, n, kept)
  BY <1>1 DEF compacted, KeptTable, KeptStep
<1> HIDE DEF kept
<1>3. \A j \in 0 .. n : kept[j] = KeptStep(s, j, kept)
  BY <1>2 DEF KeptTable
<1> QED BY <1>3 DEF KeptStep, kept

\* The mask has a bit for every side node.
LEMMA MaskLongEnough ==
  ASSUME NEW n \in Nat
  PROVE  maskBits(n) \in Nat /\ n <= maskBits(n)
<1> DEFINE B == BitsPerByte
           a == n + B - 1
           q == a \div B
<1>1. B \in Nat /\ B > 0 /\ a \in Nat
  BY ByteAssumption
<1>2. q \in Nat /\ a = B * q + (a % B) /\ a % B \in 0 .. B - 1
  BY <1>1
<1> HIDE DEF q, B
<1>3. q * B = B * q /\ B * q \in Nat
  BY <1>1, <1>2
<1> QED BY <1>1, <1>2, <1>3 DEF maskBits, q, B

\* The mask that CompactProof makes for the side nodes s.
MaskOf(s) == [b \in 1 .. maskBits(Len(s)) |->
                 IF b <= Len(s) /\ s[b] = Placeholder THEN 1 ELSE 0]

\* After j side nodes, the cleared bits count the nodes kept, the set bits the
\* others, and every node kept is at the position that its bit gives it.
LEMMA KeptInPlace ==
  ASSUME NEW s, Len(s) \in Nat
  PROVE  LET kept == compacted(s)
             zero == count(MaskOf(s), 0)
             one  == count(MaskOf(s), 1)
         IN  \A j \in 0 .. Len(s) :
                /\ Len(kept[j]) = zero[j] /\ zero[j] + one[j] = j
                /\ \A a \in 1 .. j : s[a] # Placeholder =>
                      zero[a - 1] < zero[j] /\ kept[j][zero[a - 1] + 1] = s[a]
<1> DEFINE n == Len(s)
           mask == MaskOf(s)
           kept == compacted(s)
           zero == count(mask, 0)
           one  == count(mask, 1)
           S == {s[b] : b \in 1 .. n}
           Placed(j) == \A a \in 1 .. j : s[a] # Placeholder =>
                           zero[a - 1] < zero[j] /\ kept[j][zero[a - 1] + 1] = s[a]
           Good(j) == /\ kept[j] \in Seq(S) /\ Len(kept[j]) = zero[j]
                      /\ zero[j] + one[j] = j /\ Placed(j)
           T == {j \in 0 .. n : ~ Good(j)}
<1>1. maskBits(n) \in Nat /\ n <= maskBits(n)
  BY MaskLongEnough
<1>2. /\ Len(mask) = maskBits(n)
      /\ \A b \in 1 .. n : mask[b] = IF s[b] = Placeholder THEN 1 ELSE 0
  BY <1>1 DEF MaskOf
<1> HIDE DEF mask, kept, zero, one, S
<1>3. /\ zero[0] = 0 /\ one[0] = 0
      /\ \A j \in 1 .. n : zero[j] = IF mask[j] = 0 THEN zero[j - 1] + 1 ELSE zero[j - 1]
      /\ \A j \in 1 .. n : one[j] = IF mask[j] = 1 THEN one[j - 1] + 1 ELSE one[j - 1]
      /\ \A j \in 0 .. n : zero[j] \in Nat /\ one[j] \in Nat
  <2>1. \A j : j \in 0 .. n => j \in 0 .. Len(mask)
    BY <1>1, <1>2
  <2>2. \A j : j \in 1 .. n => j \in 1 .. Len(mask)
    BY <1>1, <1>2
  <2>3. /\ zero[0] = 0
        /\ \A j \in 1 .. Len(mask) : zero[j] = IF mask[j] = 0 THEN zero[j - 1] + 1 ELSE zero[j - 1]
        /\ \A j \in 0 .. Len(mask) : zero[j] \in Nat
    BY <1>1, <1>2, CountUnfolds DEF zero
  <2>4. /\ one[0] = 0
        /\ \A j \in 1 .. Len(mask) : one[j] = IF mask[j] = 1 THEN one[j - 1] + 1 ELSE one[j - 1]
        /\ \A j \in 0 .. Len(mask) : one[j] \in Nat
    BY <1>1, <1>2, CountUnfolds DEF one
  <2> QED BY <2>1, <2>2, <2>3, <2>4
<1>4. /\ kept[0] = << >>
      /\ \A j \in 1 .. n : kept[j] = IF s[j] = Placeholder THEN kept[j - 1]
                                     ELSE Append(kept[j - 1], s[j])
  BY CompactedUnfolds DEF kept
<1>5. T = {}
  <2> SUFFICES ASSUME T # {} PROVE FALSE
    OBVIOUS
  <2>0. T \subseteq Nat
    OBVIOUS
  <2>1. PICK j \in T : \A k \in T : j <= k
    BY <2>0, LeastElement
  <2>2. j \in 0 .. n /\ ~ Good(j)
    BY <2>1
  <2>3. j # 0
    <3>1. << >> \in Seq(S) /\ Len(<< >>) = 0
      OBVIOUS
    <3>2. Good(0)
      BY <1>3, <1>4, <3>1
    <3> QED BY <2>2, <3>2
  <2> DEFINE i1 == j - 1
  <2>4. /\ j \in 1 .. n /\ i1 \in 0 .. n /\ ~ (j <= i1) /\ j = i1 + 1
    BY <2>2, <2>3
  <2>5. Good(i1)
    BY <2>1, <2>4
  <2>6. zero[i1] \in Nat /\ one[i1] \in Nat
    BY <1>3, <2>4
  <2> HIDE DEF T
  <2>7. CASE s[j] = Placeholder
    <3>1. /\ zero[j] = zero[i1] /\ one[j] = one[i1] + 1 /\ kept[j] = kept[i1]
      BY <1>2, <1>3, <1>4, <2>4, <2>7
    <3>2. Placed(j)
      <4> SUFFICES ASSUME NEW a \in 1 .. j, s[a] # Placeholder
                   PROVE  zero[a - 1] < zero[j] /\ kept[j][zero[a - 1] + 1] = s[a]
        OBVIOUS
      <4>1. a \in 1 .. i1
        BY <2>4, <2>7
      <4> QED BY <2>5, <3>1, <4>1
    <3>3. zero[j] + one[j] = j
      BY <2>4, <2>5, <2>6, <3>1
    <3> QED BY <2>2, <2>5, <3>1, <3>2, <3>3
  <2>8. CASE s[j] # Placeholder
    <3>1. /\ zero[j] = zero[i1] + 1 /\ one[j] = one[i1] /\ kept[j] = Append(kept[i1], s[j])
      <4>1. mask[j] = 0
        BY <1>2, <2>4, <2>8
      <4>2. zero[j] = zero[i1] + 1
        BY <1>3, <2>4, <4>1
      <4>3. one[j] = one[i1]
        BY <1>3, <2>4, <4>1
      <4>4. kept[j] = Append(kept[i1], s[j])
        BY <1>4, <2>4, <2>8
      <4> QED BY <4>2, <4>3, <4>4
    <3>2. s[j] \in S
      BY <2>4 DEF S
    <3>3. /\ kept[j] \in Seq(S) /\ Len(kept[j]) = Len(kept[i1]) + 1
          /\ kept[j][Len(kept[i1]) + 1] = s[j]
          /\ \A x \in 1 .. Len(kept[i1]) : kept[j][x] = kept[i1][x]
      BY <2>5, <3>1, <3>2
    <3>4. Placed(j)
      <4> SUFFICES ASSUME NEW a \in 1 .. j, s[a] # Placeholder
                   PROVE  zero[a - 1] < zero[j] /\ kept[j][zero[a - 1] + 1] = s[a]
        OBVIOUS
      <4>1. CASE a = j
        BY <2>4, <2>5, <2>6, <3>1, <3>3, <4>1
      <4>2. CASE a # j
        <5>1. a \in 1 .. i1 /\ a - 1 \in 0 .. n
          BY <2>4, <4>2
        <5>2. zero[a - 1] < zero[i1] /\ kept[i1][zero[a - 1] + 1] = s[a] /\ zero[a - 1] \in Nat
          BY <1>3, <2>5, <5>1
        <5>3. zero[a - 1] + 1 \in 1 .. Len(kept[i1])
          BY <2>5, <2>6, <5>2
        <5> QED BY <2>6, <3>1, <3>3, <5>2, <5>3
      <4> QED BY <4>1, <4>2
    <3>5. zero[j] + one[j] = j /\ Len(kept[j]) = zero[j]
      <4>1. Len(kept[i1]) = zero[i1] /\ zero[i1] + one[i1] = i1
        BY <2>5
      <4>2. zero[j] + one[j] = i1 + 1
        BY <2>4, <2>6, <3>1, <4>1
      <4> QED BY <2>4, <3>1, <3>3, <4>1, <4>2
    <3> QED BY <2>2, <3>3, <3>4, <3>5
  <2> QED BY <2>7, <2>8
<1>6. \A j \in 0 .. n : Good(j)
  BY <1>5
<1> QED BY <1>6 DEF kept, zero, one, mask

\* The padding bits of the last mask byte count for nothing.
LEMMA PaddingClear ==
  ASSUME NEW s, Len(s) \in Nat
  PROVE  countSetBits(MaskOf(s)) = count(MaskOf(s), 1)[Len(s)]
<1> DEFINE n == Len(s)
           mask == MaskOf(s)
           one == count(mask, 1)
           T == {j \in n .. maskBits(n) : one[j] # one[n]}
<1>1. maskBits(n) \in Nat /\ n <= maskBits(n)
  BY MaskLongEnough
<1>2. Len(mask) = maskBits(n) /\ \A b \in n + 1 .. maskBits(n) : mask[b] = 0
  BY <1>1 DEF MaskOf
<1> HIDE DEF mask, one
<1>3. \A j \in 1 .. maskBits(n) : one[j] = IF mask[j] = 1 THEN one[j - 1] + 1 ELSE one[j - 1]
  BY <1>1, <1>2, CountUnfolds DEF one
<1>4. T = {}
  <2> SUFFICES ASSUME T # {} PROVE FALSE
    OBVIOUS
  <2>0. T \subseteq Nat
    BY <1>1
  <2>1. PICK j \in T : \A k \in T : j <= k
    BY <2>0, LeastElement
  <2>2. j \in n .. maskBits(n) /\ one[j] # one[n]
    BY <2>1
  <2>3. j # n
    BY <2>2
  <2>4. /\ j \in n + 1 .. maskBits(n) /\ j - 1 \in n .. maskBits(n) /\ ~ (j <= j - 1)
        /\ j \in 1 .. maskBits(n)
    BY <1>1, <2>2, <2>3
  <2>5. one[j - 1] = one[n]
    BY <2>1, <2>4
  <2> QED BY <1>2, <1>3, <2>2, <2>4, <2>5
<1>5. one[maskBits(n)] = one[n]
  <2>1. maskBits(n) \in n .. maskBits(n)
    BY <1>1
  <2> QED BY <1>4, <2>1
<1> QED BY <1>2, <1>5 DEF countSetBits, one, mask

\* The compact form of a proof passes its size checks and decompacts to the
\* proof, whatever its side nodes are (proofs.go, CompactProof, sanityCheck and
\* DecompactProof).
THEOREM CompactionLossless ==
  ASSUME NEW proof, IsSlice(proof.SideNodes), Len(proof.SideNodes) <= Depth
  PROVE  LET compact == CompactProof(proof)
             back    == DecompactProof(compact)
         IN  /\ compactSanityCheck(compact)
             /\ back.SideNodes = proof.SideNodes
             /\ back.NonMembershipLeafData = proof.NonMembershipLeafData
             /\ back.SiblingData = proof.SiblingData
<1>1. PICK s : s = proof.SideNodes
  OBVIOUS
<1> DEFINE n == Len(s)
           compact == CompactProof(proof)
           back == DecompactProof(compact)
           mask == MaskOf(s)
           kept == compacted(s)
<1>2. n \in Nat /\ n <= Depth /\ s = [j \in 1 .. n |-> s[j]] /\ Depth \in Nat
  BY <1>1, DepthAssumption DEF IsSlice
<1>3. /\ compact.SideNodes = kept[n] /\ compact.BitMask = mask /\ compact.NumSideNodes = n
      /\ compact.NonMembershipLeafData = proof.NonMembershipLeafData
      /\ compact.SiblingData = proof.SiblingData
  BY <1>1 DEF CompactProof, MaskOf
<1>4. maskBits(n) \in Nat /\ n <= maskBits(n)
  BY <1>2, MaskLongEnough
<1>5. /\ Len(mask) = maskBits(n)
      /\ \A b \in 1 .. n : mask[b] = IF s[b] = Placeholder THEN 1 ELSE 0
  BY <1>2, <1>4 DEF MaskOf
<1>6. /\ Len(kept[n]) = count(mask, 0)[n] /\ count(mask, 0)[n] + count(mask, 1)[n] = n
      /\ \A a \in 1 .. n : s[a] # Placeholder => kept[n][count(mask, 0)[a - 1] + 1] = s[a]
  <2>1. n \in 0 .. n
    BY <1>2
  <2> QED BY <1>2, <2>1, KeptInPlace
<1>7. countSetBits(mask) = count(mask, 1)[n]
  BY <1>2, PaddingClear
<1>8. count(mask, 0)[n] \in Nat /\ count(mask, 1)[n] \in Nat
  <2>1. n \in 0 .. Len(mask) /\ Len(mask) \in Nat
    BY <1>2, <1>4, <1>5
  <2> QED BY <2>1, CountUnfolds
<1> HIDE DEF compact, mask, kept
<1>9. compactSanityCheck(compact)
  BY <1>2, <1>3, <1>5, <1>6, <1>7, <1>8 DEF compactSanityCheck
<1>10. back.SideNodes = s
  <2>1. back.SideNodes = [b \in 1 .. n |-> IF mask[b] = 1 THEN Placeholder
                                          ELSE kept[n][count(mask, 0)[b - 1] + 1]]
    BY <1>3 DEF DecompactProof, position
  <2>2. \A b \in 1 .. n : (IF mask[b] = 1 THEN Placeholder
                           ELSE kept[n][count(mask, 0)[b - 1] + 1]) = s[b]
    BY <1>5, <1>6
  <2>3. back.SideNodes = [b \in 1 .. n |-> s[b]]
    BY <2>1, <2>2
  <2> QED BY <1>2, <2>3
<1>11. /\ back.NonMembershipLeafData = proof.NonMembershipLeafData
       /\ back.SiblingData = proof.SiblingData
  BY <1>3 DEF DecompactProof
<1> QED BY <1>1, <1>9, <1>10, <1>11 DEF compact

\* CompactProof accepts every proof that Prove returned, and the compact form
\* verifies for exactly the same keys and values (proofs.go, CompactProof and
\* VerifyCompactProof).
THEOREM CompactProofsAgree == Spec => []CompactAgrees
<1>1. ASSUME ProofInvariant, proved
      PROVE  /\ sanityCheck(reply)
             /\ \A p \in Paths : \A v \in AnyValue :
                    VerifyCompactProof(CompactProof(reply), reply.root, p, v)
                        <=> VerifyProof(reply, reply.root, p, v)
  <2>1. PICK r : r = reply
    OBVIOUS
  <2>2. PICK m : m = CommittedMap(r.root)
    OBVIOUS
  <2>3. m \in Maps /\ r.path \in Paths
    BY <1>1, <2>1, <2>2 DEF ProofInvariant
  <2>4. PICK u \in BOOLEAN : /\ r.SideNodes = ProofOf(m, r.path, u).SideNodes
                             /\ r.SiblingData = ProofOf(m, r.path, u).SiblingData
    <3>1. PICK u \in BOOLEAN :
             \A f \in DOMAIN ProofOf(m, r.path, u) : r[f] = ProofOf(m, r.path, u)[f]
      BY <1>1, <2>1, <2>2 DEF ProofInvariant, ProofCanonical
    <3> QED BY <3>1, FieldByField
  <2>5. PICK n : n = walkLength(EntriesOf(m), r.path)
    OBVIOUS
  <2>6. sanityCheck(r) /\ Len(r.SideNodes) = n
    BY <2>3, <2>4, <2>5, MapProofSane
  <2>7. n \in Nat /\ n <= Depth
    BY <2>3, <2>5, WalkLength, DepthAssumption
  <2>8. IsSlice(r.SideNodes)
    <3>1. r.SideNodes = SidesOf(m, r.path, n)
      BY <2>4, <2>5, ProofFields
    <3>2. SidesOf(m, r.path, n) = [j \in 1 .. n |-> SidesOf(m, r.path, n)[j]]
      BY DEF SidesOf
    <3> QED BY <2>6, <2>7, <3>1, <3>2 DEF IsSlice
  <2> DEFINE compact == CompactProof(r)
             back == DecompactProof(compact)
  <2>9. /\ compactSanityCheck(compact)
        /\ back.SideNodes = r.SideNodes
        /\ back.NonMembershipLeafData = r.NonMembershipLeafData
        /\ back.SiblingData = r.SiblingData
    BY <2>6, <2>7, <2>8, CompactionLossless
  <2> HIDE DEF compact, back
  <2>10. ASSUME NEW p \in Paths, NEW v \in AnyValue
         PROVE  VerifyProof(back, r.root, p, v) <=> VerifyProof(r, r.root, p, v)
    <3>1. claimedLeaf(back, p, v) = claimedLeaf(r, p, v)
      BY <2>9 DEF claimedLeaf
    <3>2. sanityCheck(back) <=> sanityCheck(r)
      BY <2>9 DEF sanityCheck
    <3>3. unrelatedLeaf(back, p) <=> unrelatedLeaf(r, p)
      BY <2>9 DEF unrelatedLeaf
    <3> QED BY <2>9, <3>1, <3>2, <3>3 DEF VerifyProof
  <2>11. \A p \in Paths : \A v \in AnyValue :
            VerifyCompactProof(CompactProof(r), r.root, p, v) <=> VerifyProof(r, r.root, p, v)
    BY <2>9, <2>10 DEF VerifyCompactProof, compact, back
  <2> QED BY <2>1, <2>6, <2>11
<1>2. ProofInvariant => CompactAgrees
  BY <1>1 DEF CompactAgrees
<1> QED BY <1>2, ProofInvariantHolds, PTL

-----------------------------------------------------------------------------
(***************************************************************************)
(* The partial tree of DeepSubtree: its roots are right whatever branches  *)
(* it lacks, what it answers is what its root commits to, and the branches *)
(* that were added stay readable and writable.                             *)
(***************************************************************************)

\* The invariants of the tree do not depend on complete stores.

\* A partial tree starts with the root of a peer's map.
LEMMA DeepInitial == DeepInit => TypeOK /\ CallInvariant
<1> SUFFICES ASSUME DeepInit PROVE TypeOK /\ CallInvariant
  OBVIOUS
<1>1. PICK m \in PeerMaps : root = SubtreeRoot(EntriesOf(m), 0)
  BY DEF DeepInit
<1>2. m \in Maps /\ CommittedMap(root) = m
  BY <1>1, PeerAssumption, CommittedMapOfRoot
<1>3. RootInv
  BY <1>1, <1>2 DEF RootInv, oldMap
<1>4. pc = "idle"
  BY DEF DeepInit
<1>5. CallInvariant
  BY <1>3, <1>4 DEF CallInvariant, CallInv, WalkInv, OrphanInv, BubbleInv, SpineInv, ResultInv
<1>6. IsSlice(<< >>) /\ Len(<< >>) = 0 /\ Depth \in Nat /\ MaxFaults \in Nat
  BY SliceFacts, DepthAssumption, SMTAssumption
<1>7. CallTypeOK
  BY <1>6 DEF DeepInit, CallTypeOK, Labels, DeleteLabels, UpdateLabels
<1>8. SliceTypeOK /\ LoopTypeOK
  BY <1>6 DEF DeepInit, SliceTypeOK, LoopTypeOK
<1>9. FlagTypeOK
  BY DEF DeepInit, FlagTypeOK
<1> QED BY <1>5, <1>7, <1>8, <1>9 DEF TypeOK

\* What AddBranch does, complete or not: it stores the value of a proof that
\* the verifier accepts against the root, and no node is removed.
branchEffect(k, value, proof) ==
    /\ VerifyProof(proof, root, PathOf[k], value)
    /\ values' = values \/ (value # DefaultValue /\ values' = [values EXCEPT ![PathOf[k]] = value])
    /\ nodes \subseteq nodes'
    /\ UNCHANGED <<root, pc, op, locals, reply, clean>>
    /\ faults' \in {faults, faults + 1} /\ faults' <= MaxFaults

LEMMA BranchEffect ==
  ASSUME TypeOK, CallInvariant, GiveBranch
  PROVE  \E k \in Keys, value \in AnyValue : \E proof :
            /\ Len(proof.SideNodes) \in Nat
            /\ branchEffect(k, value, proof)
            /\ AddBranch(k, value, proof) \/ AddBranchFails(k, value, proof)
<1>a. PICK k \in Keys :
         \E proof \in PeerProofs[k] \cup
                {ProofOf(CommittedMap(root), PathOf[k], updatable) : updatable \in BOOLEAN} :
            \E value \in AnyValue :
               AddBranch(k, value, proof) \/ AddBranchFails(k, value, proof)
  BY DEF GiveBranch
<1>b. PICK proof \in PeerProofs[k] \cup
             {ProofOf(CommittedMap(root), PathOf[k], updatable) : updatable \in BOOLEAN} :
         \E value \in AnyValue :
            AddBranch(k, value, proof) \/ AddBranchFails(k, value, proof)
  BY <1>a
<1>1. PICK value \in AnyValue : AddBranch(k, value, proof) \/ AddBranchFails(k, value, proof)
  BY <1>b
<1>2. PathOf[k] \in Paths /\ CommittedMap(root) \in Maps
  BY SMTAssumption DEF CallInvariant, RootInv, oldMap
<1>3. PICK m \in Maps, u \in BOOLEAN : proof = ProofOf(m, PathOf[k], u)
  BY <1>b, <1>2, PeerAssumption DEF PeerProofs
<1>4. Len(proof.SideNodes) \in Nat
  <2>1. Len(proof.SideNodes) = walkLength(EntriesOf(m), PathOf[k])
    BY <1>2, <1>3, MapProofSane
  <2> QED BY <1>2, <2>1, WalkLength, DepthAssumption
<1>5. faults \in 0 .. MaxFaults /\ MaxFaults \in Nat
  BY SMTAssumption DEF TypeOK, CallTypeOK
<1>6. ASSUME NEW n, StoreBranch(proof, PathOf[k], value, n)
      PROVE  /\ values' = values \/ (value # DefaultValue /\
                                     values' = [values EXCEPT ![PathOf[k]] = value])
             /\ nodes \subseteq nodes' /\ UNCHANGED <<root, pc, op, locals, reply>>
  BY <1>6 DEF StoreBranch
<1>7. CASE AddBranch(k, value, proof)
  <2>1. /\ VerifyProof(proof, root, PathOf[k], value) /\ UNCHANGED clean
        /\ faults' = faults
    BY <1>7 DEF AddBranch, accepts
  <2>2. \E n : StoreBranch(proof, PathOf[k], value, n)
    BY <1>7 DEF AddBranch
  <2>3. faults' \in {faults, faults + 1} /\ faults' <= MaxFaults
    BY <1>5, <2>1
  <2>4. branchEffect(k, value, proof)
    BY <1>6, <2>1, <2>2, <2>3 DEF branchEffect
  <2> QED BY <1>4, <1>7, <2>4
<1>8. CASE AddBranchFails(k, value, proof)
  <2>1. VerifyProof(proof, root, PathOf[k], value) /\ UNCHANGED clean
    BY <1>8 DEF AddBranchFails, accepts
  <2>2. faults' = faults + 1 /\ faults < MaxFaults
    BY <1>8 DEF AddBranchFails
  <2>3. \/ UNCHANGED <<tree, pc, op, locals, reply>>
        \/ \E n : StoreBranch(proof, PathOf[k], value, n)
    BY <1>8 DEF AddBranchFails
  <2> QED BY <1>1, <1>4, <1>5, <1>6, <1>8, <2>1, <2>2, <2>3 DEF branchEffect, tree
<1> QED BY <1>1, <1>7, <1>8

\* The invariant looks at the root and at the running call only.
LEMMA CallInvariantKept ==
  ASSUME CallInvariant, UNCHANGED <<root, pc, op, locals>>
  PROVE  CallInvariant'
<1>1. UNCHANGED <<root, pc, op, side, pnodes, i, cur, npr, err>>
  BY DEF locals
<1>2. oldMap' = oldMap /\ newMap' = newMap
  BY <1>1 DEF oldMap, newMap
<1>3. /\ \A d : newBelow(d)' = newBelow(d) /\ oldBelow(d)' = oldBelow(d)
      /\ \A d : oldBeside(d)' = oldBeside(d)
  BY <1>1, <1>2 DEF newBelow, oldBelow, oldBeside
<1>4. keyIsEmpty' = keyIsEmpty /\ commonPrefixCount' = commonPrefixCount
  BY <1>1 DEF keyIsEmpty, commonPrefixCount, oldLeafPath, oldLeaf, pathNodes, Reversed
<1>5. topLevel' = topLevel /\ newLeaf' = newLeaf /\ spineLevel' = spineLevel
  BY <1>1, <1>4 DEF topLevel, newLeaf, spineLevel
<1>6. RootInv' /\ CallInv' /\ OrphanInv'
  BY <1>1, <1>2 DEF CallInvariant, RootInv, CallInv, OrphanInv
<1>7. WalkInv'
  BY <1>1, <1>3 DEF CallInvariant, WalkInv
<1>8. BubbleInv'
  BY <1>1, <1>3, <1>4 DEF CallInvariant, BubbleInv
<1>9. SpineInv' /\ ResultInv'
  BY <1>1, <1>2, <1>3, <1>4, <1>5 DEF CallInvariant, SpineInv, ResultInv
<1> QED BY <1>6, <1>7, <1>8, <1>9 DEF CallInvariant

\* Adding a branch leaves a value store.
LEMMA BranchTypes ==
  ASSUME TypeOK, NEW k \in Keys, NEW value \in AnyValue, NEW proof,
         branchEffect(k, value, proof)
  PROVE  TypeOK'
<1>1. UNCHANGED <<root, pc, op, side, pnodes, i, cur, npr, err, reply>>
  BY DEF branchEffect, locals
<1>2. values' \in [Paths -> Values \cup {Absent}]
  BY SMTAssumption DEF branchEffect, TypeOK, CallTypeOK, AnyValue
<1>3. faults' \in 0 .. MaxFaults
  BY SMTAssumption DEF branchEffect, TypeOK, CallTypeOK
<1>4. CallTypeOK'
  BY <1>1, <1>2, <1>3 DEF TypeOK, CallTypeOK
<1>5. SliceTypeOK' /\ LoopTypeOK' /\ FlagTypeOK'
  BY <1>1 DEF TypeOK, SliceTypeOK, LoopTypeOK, FlagTypeOK
<1> QED BY <1>4, <1>5 DEF TypeOK

\* Every step of a call keeps the type invariant and the call invariant.
LEMMA StepKeeps == TypeOK /\ CallInvariant /\ Step => TypeOK' /\ CallInvariant'
<1>1. TypeOK /\ Step => TypeOK'
  BY TypeStep
<1> QED BY <1>1, StepEffect

\* So do all steps of the partial tree.
LEMMA DeepKeeps == TypeOK /\ CallInvariant /\ [DeepNext]_deepVars => TypeOK' /\ CallInvariant'
<1> SUFFICES ASSUME TypeOK, CallInvariant, [DeepNext]_deepVars PROVE TypeOK' /\ CallInvariant'
  OBVIOUS
<1>1. CASE GiveBranch
  <2>0. PICK k \in Keys, value \in AnyValue : \E proof : branchEffect(k, value, proof)
    BY <1>1, BranchEffect
  <2>1. PICK proof : branchEffect(k, value, proof)
    BY <2>0
  <2>2. TypeOK'
    BY <2>1, BranchTypes
  <2> QED BY <2>1, <2>2, CallInvariantKept DEF branchEffect
<1>2. CASE DeepCall
  BY <1>2, TypeCall, InvCall DEF DeepCall
<1>3. CASE DeepStep
  BY <1>3, StepKeeps DEF DeepStep
<1>4. CASE UNCHANGED deepVars
  <2>1. UNCHANGED vars
    BY <1>4 DEF deepVars
  <2>2. TypeOK'
    BY <2>1 DEF vars, tree, locals, TypeOK, CallTypeOK, SliceTypeOK, LoopTypeOK, FlagTypeOK,
       IsSlice
  <2> QED BY <2>1, <2>2, InvStutter
<1> QED BY <1>1, <1>2, <1>3, <1>4 DEF DeepNext

\* In the partial tree too, no call indexes outside its slices, and the slices and
\* the running hash stand for the reference tree (smt.go on the stores of
\* deepsubtree.go).
THEOREM PartialCallsFollow == DeepSpec => [](TypeOK /\ CallInvariant)
  BY DeepInitial, DeepKeeps, PTL DEF DeepSpec

\* Whatever branches the partial tree lacks, and however its calls fail, a call
\* that succeeds publishes the root that the complete tree would have, and one
\* that fails leaves the root alone (Update and Delete of
\* DeepSparseMerkleSubTree).
THEOREM PartialRootsAreRight == DeepSpec => PartialRootsRight
<1>1. TypeOK /\ CallInvariant /\ [DeepNext]_deepVars => [pc = "idle" \/ Map!Next]_(Map!vars)
  <2> SUFFICES ASSUME TypeOK, CallInvariant, [DeepNext]_deepVars
               PROVE  [pc = "idle" \/ Map!Next]_(Map!vars)
    OBVIOUS
  <2>1. CASE GiveBranch
    BY <2>1 DEF GiveBranch
  <2>2. CASE DeepCall
    <3>1. PICK o : Begin(o)
      BY <2>2 DEF DeepCall, Call, Update, Delete, Prove, ProveUpdatable, ProveForRoot
    <3> QED BY <3>1 DEF Begin
  <2>3. CASE DeepStep
    <3>1. [Map!Next]_(Map!vars)
      BY <2>3, RefineStep DEF DeepStep
    <3> QED BY <3>1
  <2>4. CASE UNCHANGED deepVars
    BY <2>4 DEF deepVars, vars, tree, locals, Map!vars
  <2> QED BY <2>1, <2>2, <2>3, <2>4 DEF DeepNext
<1> QED BY <1>1, PartialCallsFollow, PTL DEF DeepSpec, PartialRootsRight

-----------------------------------------------------------------------------
\* What the value store says is what the root commits to.

\* Three steps of a call touch the value store; no other one changes the root.
LEMMA QuietSteps ==
  ASSUME TypeOK, CallInvariant, Step, ~ DeleteValue, ~ DeleteOldValue, ~ SetValue
  PROVE  UNCHANGED <<values, root>>
<1>1. CASE FillRoot \/ FillStep \/ FillSibling
  BY <1>1 DEF FillRoot, FillStep, FillSibling, Goto
<1>2. CASE AlreadyEmpty
  <2>1. pc # "idle" /\ values' = values /\ (root' = op.root \/ root' = root)
    BY <1>2 DEF AlreadyEmpty, ReturnRoot
  <2> QED BY <2>1 DEF CallInvariant, CallInv
<1>3. CASE DeletePathNode
  BY <1>3 DEF DeletePathNode, Goto
<1>4. CASE BubbleLeaf \/ BubbleSkip \/ BubbleNode
  BY <1>4 DEF BubbleLeaf, BubbleSkip, BubbleNode, NextSideNode, Goto
<1>5. CASE SetLeaf
  BY <1>5 DEF SetLeaf, RemoveStale, Goto, ReturnRoot
<1>6. CASE Fork \/ DeleteOldLeaf \/ DeleteStale
  BY <1>6 DEF Fork, DeleteOldLeaf, DeleteStale, RemoveStale, Goto
<1>7. CASE SpineSkip \/ SpineNode
  BY <1>7 DEF SpineSkip, SpineNode, NextSpine, Goto
<1>8. CASE ProveReturn
  BY <1>8 DEF ProveReturn, tree
<1>9. CASE InvalidKey \/ StoreFault
  BY <1>9 DEF InvalidKey, StoreFault, OnError, ReturnError, Goto
<1> QED BY <1>1, <1>2, <1>3, <1>4, <1>5, <1>6, <1>7, <1>8, <1>9 DEF Step

\* The three steps that touch the value store.
LEMMA ValueSteps ==
  ASSUME TypeOK, CallInvariant, DeleteValue \/ DeleteOldValue \/ SetValue
  PROVE  /\ op.path \in Paths /\ values \in [Paths -> Values \cup {Absent}]
         /\ \/ values' = [values EXCEPT ![op.path] = Absent]
            \/ values' = [values EXCEPT ![op.path] = op.value] /\ oldMap'[op.path] = op.value
         /\ \A p \in Paths : p # op.path => oldMap'[p] = oldMap[p]
<1>1. /\ pc \in {"unset", "oldvalue", "value"}
      /\ op.path \in Paths /\ values \in [Paths -> Values \cup {Absent}]
  BY DEF DeleteValue, DeleteOldValue, SetValue, TypeOK, CallTypeOK
<1>2. oldMap \in Maps /\ newMap \in Maps
      /\ newMap[op.path] = (IF op.value = DefaultValue THEN Absent ELSE op.value)
      /\ \A p \in Paths : p # op.path => newMap[p] = oldMap[p]
  <2>1. oldMap \in Maps /\ newMap \in Maps
    BY <1>1, NewMapFacts DEF CallInvariant, RootInv
  <2> QED BY <1>1, <2>1 DEF newMap, Maps
<1>3. CASE DeleteOldValue
  <2>1. root' = root /\ values' = [values EXCEPT ![op.path] = Absent]
    BY <1>3 DEF DeleteOldValue, RemoveStale, Goto
  <2>2. oldMap' = oldMap
    BY <2>1 DEF oldMap
  <2> QED BY <1>1, <2>1, <2>2
<1>4. CASE DeleteValue
  <2>1. values' = [values EXCEPT ![op.path] = Absent]
    BY <1>4 DEF DeleteValue
  <2>2. succeeds \/ fails
    BY <1>4, StepWritten
  <2>3. oldMap' = newMap \/ oldMap' = oldMap
    BY <2>2 DEF succeeds, fails
  <2> QED BY <1>1, <1>2, <2>1, <2>3
<1>5. CASE SetValue
  <2>1. values' = [values EXCEPT ![op.path] = op.value] /\ pc = "value"
    BY <1>5 DEF SetValue
  <2>2. reply'.status = "ok"
    BY <1>5 DEF SetValue, ReturnRoot, Return
  <2>3. succeeds
    BY <1>5, <2>2, StepWritten DEF fails
  <2>4. op.value \in Values
    BY <2>1 DEF TypeOK, CallTypeOK, UpdateLabels
  <2> QED BY <1>1, <1>2, <2>1, <2>3, <2>4, ValuesAssumption DEF succeeds
<1> QED BY <1>3, <1>4, <1>5

\* Every step keeps the value store within the committed map.
LEMMA ValuesSoundStep ==
  ASSUME TypeOK, CallInvariant, ValuesSound, [DeepNext]_deepVars
  PROVE  ValuesSound'
<1>1. ASSUME UNCHANGED <<values, root>> PROVE ValuesSound'
  BY <1>1 DEF ValuesSound, oldMap
<1>2. CASE GiveBranch
  <2>0. PICK k \in Keys, value \in AnyValue : \E proof :
           Len(proof.SideNodes) \in Nat /\ branchEffect(k, value, proof)
    BY <1>2, BranchEffect
  <2>1. PICK proof :
           Len(proof.SideNodes) \in Nat /\ branchEffect(k, value, proof)
    BY <2>0
  <2>2. root' = root /\ oldMap \in Maps /\ root = SubtreeRoot(EntriesOf(oldMap), 0)
    BY <2>1 DEF branchEffect, CallInvariant, RootInv
  <2>3. PathOf[k] \in Paths
    BY SMTAssumption
  <2>4. value = ValueIn(oldMap, PathOf[k])
    <3>1. PICK m \in Maps : m = oldMap
      BY <2>2
    <3>2. VerifyProof(proof, SubtreeRoot(EntriesOf(m), 0), PathOf[k], value)
      BY <2>1, <2>2, <3>1 DEF branchEffect
    <3> QED BY <2>1, <2>3, <3>1, <3>2, VerifierSound
  <2>5. value # DefaultValue => value = oldMap[PathOf[k]]
    BY <2>4 DEF ValueIn
  <2>6. oldMap' = oldMap
    BY <2>2 DEF oldMap
  <2> QED BY <2>1, <2>3, <2>5, <2>6 DEF branchEffect, ValuesSound, TypeOK, CallTypeOK
<1>3. CASE DeepCall
  <2>1. PICK o : Begin(o)
    BY <1>3 DEF DeepCall, Call, Update, Delete, Prove, ProveUpdatable, ProveForRoot
  <2> QED BY <1>1, <2>1 DEF Begin, tree
<1>4. CASE DeepStep
  <2>1. CASE DeleteValue \/ DeleteOldValue \/ SetValue
    BY <2>1, ValueSteps DEF ValuesSound
  <2>2. CASE ~ (DeleteValue \/ DeleteOldValue \/ SetValue)
    BY <1>1, <1>4, <2>2, QuietSteps DEF DeepStep
  <2> QED BY <2>1, <2>2
<1>5. CASE UNCHANGED deepVars
  BY <1>1, <1>5 DEF deepVars, vars, tree
<1> QED BY <1>2, <1>3, <1>4, <1>5 DEF DeepNext

\* A value in the store is the committed one, in every reachable state.
LEMMA ValuesStaySound == DeepSpec => []ValuesSound
<1>1. DeepInit => ValuesSound
  BY DEF DeepInit, ValuesSound
<1> QED BY <1>1, ValuesSoundStep, PartialCallsFollow, PTL DEF DeepSpec

\* GetDescend and HasDescend never answer with a value that the root does not
\* commit to: not for keys whose branch is missing, not after branches that were
\* refused or stored in part, and not after failed calls (deepsubtree.go,
\* GetDescend).
THEOREM GetDescendIsSound == DeepSpec => []GetDescendSound
<1>1. CallInvariant /\ ValuesSound => GetDescendSound
  <2> SUFFICES ASSUME CallInvariant, ValuesSound, NEW k \in Keys
               PROVE  GetDescend(k) \in {committed(k), NoAnswer}
    BY DEF GetDescendSound
  <2> DEFINE p    == PathOf[k]
             leaf == Descent(root, p)[Depth]
  <2>1. p \in Paths /\ oldMap[p] = CommittedValue(root, p)
    BY SMTAssumption DEF oldMap, CommittedMap
  <2>2. oldMap \in Maps
    BY DEF CallInvariant, RootInv
  <2>3. CASE leaf = Placeholder \/ Data(leaf).path # p
    <3>1. CommittedValue(root, p) = Absent
      BY <2>3 DEF CommittedValue
    <3> QED BY <2>3, <3>1 DEF GetDescend, committed
  <2>4. CASE ~ (leaf = Placeholder \/ Data(leaf).path # p)
    <3>1. GetDescend(k) = NoAnswer \/ (values[p] # Absent /\ GetDescend(k) = values[p])
      BY <2>4 DEF GetDescend
    <3>2. values[p] # Absent => values[p] = CommittedValue(root, p)
      BY <2>1 DEF ValuesSound
    <3> QED BY <3>1, <3>2 DEF committed
  <2> QED BY <2>3, <2>4
<1> QED BY <1>1, PartialCallsFollow, ValuesStaySound, PTL

-----------------------------------------------------------------------------
\* What is left of the added branches while a call runs.

\* The parts of the invariant that the root, the call and the added paths
\* determine.
LEMMA DeepFrame ==
  ASSUME UNCHANGED <<root, op>>, added' = added
  PROVE  /\ oldMap' = oldMap /\ newMap' = newMap /\ offNodes' = offNodes
         /\ \A D : oldNodes(D)' = oldNodes(D)
         /\ \A D : newNodes(D)' = newNodes(D)
         /\ addedNodes' = addedNodes /\ keptNodes' = keptNodes
         /\ \A p : siblingOf(p)' = siblingOf(p)
<1>1. /\ oldMap' = oldMap /\ newMap' = newMap /\ offNodes' = offNodes
      /\ \A D : oldNodes(D)' = oldNodes(D)
      /\ \A D : newNodes(D)' = newNodes(D)
  BY StoreFrame
<1>2. addedNodes' = addedNodes
  BY <1>1 DEF addedNodes
<1>3. \A p : siblingOf(p)' = siblingOf(p)
  BY <1>1 DEF siblingOf
<1> QED BY <1>1, <1>2, <1>3 DEF keptNodes

\* A step of a call adds no branch, and a change of the root uses the updatable
\* ones up.
LEMMA StepBranches ==
  ASSUME BranchTypeOK, DeepStep
  PROVE  /\ added' = added
         /\ root' = root => branch' = branch /\ siblings' = siblings
         /\ root' # root => siblings' = {}
<1>1. branch' = IF root' = root THEN branch
                ELSE [k \in Keys |-> IF branch[k] = "updatable" THEN "spent" ELSE branch[k]]
  BY DEF DeepStep
<1>2. \A k \in Keys : branch'[k] # "none" <=> branch[k] # "none"
  BY <1>1
<1>3. added' = added
  BY <1>2 DEF added
<1>4. root' = root => branch' = branch /\ siblings' = siblings
  <2> SUFFICES ASSUME root' = root PROVE branch' = branch /\ siblings' = siblings
    OBVIOUS
  <2>1. branch' = branch /\ oldMap' = oldMap
    BY <1>1 DEF oldMap
  <2> QED BY <2>1 DEF siblings, siblingOf
<1>5. root' # root => siblings' = {}
  <2> SUFFICES ASSUME root' # root PROVE siblings' = {}
    OBVIOUS
  <2>1. {j \in Keys : branch'[j] = "updatable"} = {}
    BY <1>1
  <2> QED BY <2>1 DEF siblings
<1> QED BY <1>3, <1>4, <1>5

\* Before a call writes, everything it needs of an added branch is there.
LEMMA NodesAtHand ==
  ASSUME addedNodes \cup siblings \subseteq nodes
  PROVE  /\ keptNodes \subseteq nodes
         /\ op.path \in added => oldNodes(0 .. Depth) \subseteq nodes
         /\ \A k \in Keys : branch[k] = "updatable" => siblingOf(PathOf[k]) \subseteq nodes
  BY DEF keptNodes, addedNodes, oldNodes, siblings

\* The added paths are paths.
LEMMA AddedPaths == added \subseteq Paths
  BY SMTAssumption DEF added

\* In the new tree a node of an added branch is on the path of the call, or it was
\* there before and is off that path.
LEMMA AddedAfter ==
  ASSUME TypeOK, CallInvariant, pc # "idle", NEW p \in added
  PROVE  OnPath(EntriesOf(newMap), p, 0 .. Depth) \subseteq newNodes(0 .. Depth) \cup keptNodes
<1> DEFINE L == EntriesOf(oldMap)
           K == EntriesOf(newMap)
           c == op.path
<1>1. oldMap \in Maps /\ newMap \in Maps /\ c \in Paths /\ p \in Paths
  BY NewMapFacts, AddedPaths DEF CallInvariant, RootInv
<1>2. \A e \in Entries : e[1] # c => (e \in L <=> e \in K)
  <2>1. \A x \in Paths : x # c => newMap[x] = oldMap[x]
    BY <1>1 DEF newMap, Maps
  <2> QED BY <2>1 DEF EntriesOf, Entries
<1>3. L \subseteq Entries /\ K \subseteq Entries
  BY DEF EntriesOf
<1> SUFFICES ASSUME NEW h \in OnPath(K, p, 0 .. Depth) PROVE h \in newNodes(0 .. Depth) \cup keptNodes
  OBVIOUS
<1>4. PICK d \in 0 .. Depth : Below(K, p, d) # {} /\ h = SubtreeRoot(Below(K, p, d), d)
  BY DEF OnPath
<1>5. CASE ~ Leaves(c, p, d)
  <2>1. Below(K, p, d) = Below(K, c, d)
    BY <1>5, BelowAlong
  <2> QED BY <1>4, <2>1, OnPathNodes DEF newNodes
<1>6. CASE Leaves(c, p, d)
  <2>1. \A x : (\A b \in 0 .. d - 1 : x[1][b] = p[b]) => Leaves(c, x[1], d) /\ x[1] # c
    BY <1>6 DEF Leaves
  <2>2. Below(K, p, d) = Below(L, p, d)
    BY <1>2, <1>3, <2>1 DEF Below
  <2>3. PICK e \in Below(L, p, d) : TRUE
    BY <1>4, <2>2
  <2>4. e \in L /\ Leaves(c, e[1], d) /\ ~ Leaves(p, e[1], d)
    BY <2>1, <2>3 DEF Below, Leaves
  <2>5. Below(L, e[1], d) = Below(L, p, d)
    BY <2>4, BelowAlong
  <2>6. h \in offNodes
    BY <1>4, <2>2, <2>4, <2>5, OffPathNodes DEF offNodes
  <2>7. h \in OnPath(L, p, 0 .. Depth)
    BY <1>4, <2>2, OnPathNodes
  <2> QED BY <2>6, <2>7 DEF keptNodes, addedNodes
<1> QED BY <1>5, <1>6

\* The sibling at the end of the walk of a call is off its path.
LEMMA SiblingOff ==
  ASSUME TypeOK, CallInvariant, pc \notin {"idle", "root", "walk"}
  PROVE  /\ walkLength(EntriesOf(oldMap), op.path) = Len(side)
         /\ siblingOf(op.path) \subseteq offNodes
         /\ Len(side) # 0 => siblingOf(op.path) = {side[Len(side)]}
<1> DEFINE n == Len(side)
           L == EntriesOf(oldMap)
<1>1. /\ Depth \in Nat /\ n \in 0 .. Depth
      /\ oldMap \in Maps /\ op.path \in Paths /\ L \in SUBSET Entries
  BY RunningCall
<1>2. ~ Big(oldBelow(n)) /\ \A d \in 0 .. n - 1 : Big(oldBelow(d))
  BY DEF CallInvariant, WalkInv
<1>3. walkLength(L, op.path) = n
  BY <1>1, <1>2, WalkLength DEF oldBelow
<1>4. CASE n = 0
  BY <1>3, <1>4 DEF siblingOf
<1>5. CASE n # 0
  <2>1. n \in 1 .. Depth /\ n \in 1 .. n /\ n - 1 \in 0 .. n - 1
    BY <1>1, <1>5
  <2>2. side[n] = SubtreeRoot(oldBeside(n), n)
    BY <2>1 DEF CallInvariant, WalkInv
  <2>3. oldBelow(n - 1) = oldBelow(n) \cup oldBeside(n)
    BY <2>1, OldParent DEF CallInvariant
  <2>4. oldBeside(n) # {}
    BY <1>2, <2>1, <2>3
  <2>5. side[n] \in offNodes
    BY <1>1, <2>1, <2>2, <2>4, BesideOff DEF offNodes, oldBeside
  <2>6. siblingOf(op.path) = {side[n]}
    BY <1>3, <1>5, <2>2 DEF siblingOf, oldBeside
  <2> QED BY <1>3, <2>5, <2>6
<1> QED BY <1>4, <1>5

-----------------------------------------------------------------------------
\* The invariant of the partial stores, action by action, while no call fails.

\* The stores between two calls.
LEMMA PartIdle ==
  ASSUME pc' = "idle", (addedNodes \cup siblings)' \subseteq nodes',
         \A p \in added' : values'[p] = oldMap'[p]
  PROVE  PartInvariant'
  BY DEF PartInvariant, ReadPartInv, DeletePartInv, UpdatePartInv

\* The walk reads, and leaves the stores as they are.
LEMMA PartWalk ==
  ASSUME TypeOK, CallInvariant, BranchTypeOK, PartInvariant, clean = TRUE, DeepStep,
         FillRoot \/ FillStep \/ FillSibling, TypeOK', CallInvariant'
  PROVE  PartInvariant'
<1>1. /\ UNCHANGED <<root, op, nodes, values, err>> /\ i' = 0
      /\ pc \in {"root", "walk", "sibling"}
      /\ pc' \in {"walk", "sibling", "proof", "orphan", "leaf"}
  BY DEF FillRoot, FillStep, FillSibling, Goto, afterWalk
<1>2. added' = added /\ branch' = branch /\ siblings' = siblings
  BY <1>1, StepBranches
<1>3. /\ oldMap' = oldMap /\ \A D : oldNodes(D)' = oldNodes(D)
      /\ addedNodes' = addedNodes /\ keptNodes' = keptNodes
      /\ \A p : siblingOf(p)' = siblingOf(p)
  BY <1>1, <1>2, DeepFrame
<1>4. /\ addedNodes \cup siblings \subseteq nodes
      /\ \A p \in added : values[p] = oldMap[p]
  BY <1>1 DEF PartInvariant, ReadPartInv, reading
<1>5. /\ keptNodes \subseteq nodes
      /\ op.path \in added => oldNodes(0 .. Depth) \subseteq nodes
      /\ \A k \in Keys : branch[k] = "updatable" => siblingOf(PathOf[k]) \subseteq nodes
  BY <1>4, NodesAtHand
<1>6. oldNodes(0 .. Len(side') - i') \subseteq oldNodes(0 .. Depth)
  <2>a. SliceTypeOK'
    BY DEF TypeOK
  <2>b. IsSlice(side') /\ Len(side') <= Depth
    BY <2>a DEF SliceTypeOK
  <2>1. Len(side') \in Nat /\ Len(side') <= Depth
    BY <2>b DEF IsSlice
  <2>2. 0 .. Len(side') - i' \subseteq 0 .. Depth
    BY <1>1, <2>1, DepthAssumption
  <2> QED BY <2>2 DEF oldNodes, OnPath
<1>7. ReadPartInv' /\ UpdatePartInv'
  BY <1>1, <1>2, <1>3, <1>4 DEF ReadPartInv, UpdatePartInv
<1>8. oldLeft(0 .. Len(side) - i)'
  BY <1>1, <1>2, <1>3, <1>5, <1>6 DEF oldLeft
<1>9. DeletePartInv'
  BY <1>1, <1>2, <1>3, <1>5, <1>8 DEF DeletePartInv
<1> QED BY <1>7, <1>9 DEF PartInvariant

\* Finding the key empty, and proving, change nothing.
LEMMA PartNoWrite ==
  ASSUME TypeOK, CallInvariant, BranchTypeOK, PartInvariant, clean = TRUE, DeepStep,
         AlreadyEmpty \/ ProveReturn
  PROVE  PartInvariant'
<1>1. pc' = "idle" /\ root' = root
  BY DEF AlreadyEmpty, ReturnRoot, ProveReturn, Return, tree, CallInvariant, CallInv
<1>2. UNCHANGED <<nodes, values>>
  BY DEF AlreadyEmpty, ProveReturn, tree
<1>3. /\ addedNodes \cup siblings \subseteq nodes
      /\ \A p \in added : values[p] = oldMap[p]
  BY DEF AlreadyEmpty, ProveReturn, PartInvariant, ReadPartInv, reading
<1>4. added' = added /\ siblings' = siblings
  BY <1>1, StepBranches
<1>5. oldMap' = oldMap
  BY <1>1 DEF oldMap
<1>6. addedNodes' = addedNodes
  BY <1>4, <1>5 DEF addedNodes
<1> QED BY <1>1, <1>2, <1>3, <1>4, <1>5, <1>6, PartIdle

\* The new tree has no nodes where the deleted leaf was.
LEMMA DeletedPathEmpty ==
  ASSUME TypeOK, CallInvariant, pc \in {"orphan", "bubble"}, ~ keyIsEmpty
  PROVE  newNodes(Len(side) .. Depth) = {}
<1>1. pc \notin {"idle", "root", "walk"}
  OBVIOUS
<1>2. newBelow(Len(side)) = {}
  BY LeafDeleted
<1>3. Depth \in Nat /\ Len(side) \in 0 .. Depth
  BY <1>1, RunningCall
<1>4. \A c \in Len(side) .. Depth : newBelow(c) \subseteq newBelow(Len(side))
  BY <1>3 DEF newBelow, Below
<1>5. \A c \in Len(side) .. Depth : Below(EntriesOf(newMap), op.path, c) = {}
  BY <1>2, <1>4 DEF newBelow
<1> QED BY <1>5 DEF newNodes, OnPath

\* The orphans are the nodes of the call's path only: what is kept for other
\* branches stays.
LEMMA PartOrphan ==
  ASSUME TypeOK, CallInvariant, BranchTypeOK, PartInvariant, clean = TRUE, DeepStep,
         DeletePathNode
  PROVE  PartInvariant'
<1> DEFINE n == Len(side)
           d == n - i
           h == pathNodes(i)
<1>1. /\ pc = "orphan" /\ ~ keyIsEmpty /\ nodes' = nodes \ {h}
      /\ UNCHANGED <<root, op, side, pnodes, values, err, faults>>
      /\ pc' \in {"orphan", "bubble", "unset"}
      /\ pc' = "orphan" => i' = i + 1
      /\ pc' = "bubble" => i' = 0 /\ ~ (i + 1 < Len(pnodes))
      /\ pc' = "unset" => side = << >> /\ ~ (i + 1 < Len(pnodes))
  BY DEF DeletePathNode, Goto
<1>2. /\ Depth \in Nat /\ n \in Nat /\ n <= Depth /\ i \in 0 .. n /\ Len(pnodes) = n + 1
  BY <1>1, DepthAssumption DEF TypeOK, SliceTypeOK, LoopTypeOK, IsSlice
<1>3. /\ d \in 0 .. Depth /\ h = SubtreeRoot(oldBelow(d), d)
      /\ \A c \in 0 .. d - 1 : Big(oldBelow(c))
      /\ i > 0 => Big(oldBelow(d))
  BY <1>1, <1>2, PathNodeAt
<1>4. Big(oldBelow(d)) \/ \E x : oldBelow(d) = {x} /\ x[1] = op.path
  <2>1. \E x : oldBelow(n) = {x} /\ x[1] = op.path
    BY <1>1, OwnLeaf DEF keyIsEmpty
  <2>2. i > 0 \/ d = n
    BY <1>2
  <2> HIDE DEF d, n
  <2> QED BY <1>3, <2>1, <2>2
<1>5. h \notin offNodes /\ h \notin oldNodes(0 .. d - 1)
  <2>1. newNodes({}) = {} /\ {} \in SUBSET (0 .. Depth)
    BY DEF newNodes, OnPath
  <2> HIDE DEF d, h
  <2>2. (offNodes \cup oldNodes(0 .. d) \cup newNodes({})) \ {h}
          = offNodes \cup oldNodes(0 .. d - 1) \cup newNodes({})
    BY <1>1, <1>3, <1>4, <2>1, DeepestRemoved
  <2> QED BY <2>2
<1>6. /\ added' = added /\ branch' = branch
  BY <1>1, StepBranches
<1>7. /\ oldMap' = oldMap /\ newMap' = newMap
      /\ \A D : oldNodes(D)' = oldNodes(D)
      /\ \A D : newNodes(D)' = newNodes(D)
      /\ keptNodes' = keptNodes /\ \A p : siblingOf(p)' = siblingOf(p)
      /\ keyIsEmpty' = keyIsEmpty
  BY <1>1, <1>6, DeepFrame, SliceFrame
<1>8. err = FALSE /\ ~ reading /\ keptNodes \subseteq nodes
  <2>1. err = FALSE /\ ~ reading
    BY <1>1 DEF TypeOK, FlagTypeOK, reading
  <2> QED BY <1>1, <2>1 DEF PartInvariant, DeletePartInv
<1>9. keptNodes \subseteq nodes'
  BY <1>1, <1>5, <1>8 DEF keptNodes
<1>10. \A k \in Keys : branch'[k] = "updatable" /\ PathOf[k] = op.path =>
          siblingOf(op.path) \subseteq nodes'
  <2>1. siblingOf(op.path) \subseteq offNodes
    BY <1>1, SiblingOff
  <2>2. \A k \in Keys : branch[k] = "updatable" /\ PathOf[k] = op.path =>
           siblingOf(op.path) \subseteq nodes
    BY <1>1 DEF PartInvariant, DeletePartInv
  <2> QED BY <1>1, <1>5, <1>6, <2>1, <2>2
<1>11. op.path \in added => oldNodes(0 .. d - 1) \subseteq nodes'
  <2>1. op.path \in added => oldNodes(0 .. d) \subseteq nodes
    BY <1>1 DEF PartInvariant, DeletePartInv, oldLeft
  <2>2. oldNodes(0 .. d - 1) \subseteq oldNodes(0 .. d)
    <3>1. 0 .. d - 1 \subseteq 0 .. d
      BY <1>3
    <3> QED BY <3>1 DEF oldNodes, OnPath
  <2> QED BY <1>1, <1>5, <2>1, <2>2
<1>12. \A p \in added : values[p] = oldMap[p]
  BY <1>1 DEF PartInvariant, ReadPartInv
<1>13. ReadPartInv' /\ UpdatePartInv'
  BY <1>1, <1>6, <1>7, <1>12 DEF ReadPartInv, UpdatePartInv, reading
<1>14. CASE pc' = "orphan"
  <2>1. Len(side') - i' = d - 1
    BY <1>1, <1>2, <1>14
  <2> HIDE DEF d, h
  <2>2. oldLeft(0 .. Len(side) - i)'
    BY <1>1, <1>6, <1>7, <1>11, <2>1 DEF oldLeft
  <2>3. DeletePartInv'
    BY <1>1, <1>6, <1>7, <1>9, <1>10, <1>14, <2>2 DEF DeletePartInv
  <2> QED BY <1>13, <2>3 DEF PartInvariant
<1>15. CASE pc' \in {"bubble", "unset"}
  <2>1. newNodes(n .. Depth) = {}
    BY <1>1, DeletedPathEmpty
  <2>2. pc' = "bubble" => Len(side') - i' = n
    BY <1>1, <1>2
  <2>3. pc' = "unset" => n = 0
    BY <1>1
  <2> HIDE DEF d, h, n
  <2>4. DeletePartInv'
    BY <1>1, <1>6, <1>7, <1>8, <1>9, <1>10, <1>15, <2>1, <2>2, <2>3 DEF DeletePartInv
  <2> QED BY <1>13, <2>4 DEF PartInvariant
<1> QED BY <1>1, <1>14, <1>15

\* The new path comes level by level.
LEMMA PartBubble ==
  ASSUME TypeOK, CallInvariant, BranchTypeOK, PartInvariant, clean = TRUE, DeepStep,
         BubbleLeaf \/ BubbleSkip \/ BubbleNode
  PROVE  PartInvariant'
<1> DEFINE n == Len(side)
           d == n - i
<1>1. /\ pc = "bubble" /\ UNCHANGED <<root, op, side, pnodes, values, err, faults>>
      /\ \/ pc' = "bubble" /\ i' = i + 1
         \/ pc' = "unset" /\ ~ (i + 1 < n)
  BY DEF BubbleLeaf, BubbleSkip, BubbleNode, NextSideNode, Goto
<1>2. Depth \in Nat /\ n \in Nat /\ i \in 0 .. n - 1 /\ n <= Depth
  BY <1>1, DepthAssumption DEF TypeOK, SliceTypeOK, LoopTypeOK, IsSlice
<1>3. d \in 1 .. Depth /\ d - 1 \in Int /\ (d - 1) + 1 = d /\ d - 1 <= Depth /\ Depth \in Int
  BY <1>2
<1>4. cur' = SubtreeRoot(newBelow(d - 1), d - 1) /\ newBelow(d - 1) # {}
  BY BubbleStep
<1>5. /\ err = FALSE /\ ~ keyIsEmpty /\ ~ reading
      /\ newNodes(d .. Depth) \subseteq nodes /\ keptNodes \subseteq nodes
  <2>1. err = FALSE /\ ~ keyIsEmpty /\ ~ reading
    BY <1>1 DEF TypeOK, FlagTypeOK, CallInvariant, BubbleInv, reading
  <2> QED BY <1>1, <2>1 DEF PartInvariant, DeletePartInv
<1>6. nodes \cup {cur'} \subseteq nodes'
  <2>1. CASE BubbleLeaf
    BY <2>1 DEF BubbleLeaf
  <2>2. CASE BubbleNode
    BY <2>2 DEF BubbleNode
  <2>3. CASE BubbleSkip
    <3>1. i > 0 /\ cur' = cur /\ nodes' = nodes
      BY <2>3 DEF BubbleSkip
    <3>2. newBelow(d) # {} /\ cur = SubtreeRoot(newBelow(d), d)
      BY <1>1, <3>1, BubbleLevel
    <3>3. d \in d .. Depth
      BY <1>3
    <3>4. cur \in newNodes(d .. Depth)
      BY <3>2, <3>3, OnPathNodes DEF newNodes, newBelow
    <3> QED BY <1>5, <3>1, <3>4
  <2> QED BY <2>1, <2>2, <2>3
<1>7. newNodes(d - 1 .. Depth) = newNodes(d .. Depth) \cup {cur'}
  <2> HIDE DEF d
  <2> DEFINE c == d - 1
  <2>1. c \in Int /\ c + 1 = d /\ c <= Depth /\ c <= c + 1
    BY <1>3
  <2>2. cur' = SubtreeRoot(newBelow(c), c) /\ newBelow(c) # {}
    BY <1>4
  <2> HIDE DEF c
  <2>3. newNodes(c .. Depth) = newNodes(c + 1 .. Depth) \cup {cur'}
    BY <1>3, <2>1, <2>2, OnPathLevels DEF newNodes, newBelow
  <2> QED BY <2>1, <2>3 DEF c
<1>8. newNodes(d - 1 .. Depth) \subseteq nodes' /\ keptNodes \subseteq nodes'
  BY <1>5, <1>6, <1>7
<1>9. added' = added
  BY StepBranches
<1>10. /\ oldMap' = oldMap /\ keptNodes' = keptNodes
       /\ \A D : newNodes(D)' = newNodes(D)
       /\ keyIsEmpty' = keyIsEmpty
  BY <1>1, <1>9, DeepFrame, SliceFrame
<1>11. \A p \in added : values[p] = oldMap[p]
  BY <1>1 DEF PartInvariant, ReadPartInv
<1>12. ReadPartInv' /\ UpdatePartInv'
  BY <1>1, <1>9, <1>10, <1>11 DEF ReadPartInv, UpdatePartInv, reading
<1>13. CASE pc' = "bubble"
  <2>1. Len(side') - i' = d - 1 /\ i' # 0
    BY <1>1, <1>2, <1>13
  <2> HIDE DEF d
  <2>2. DeletePartInv'
    BY <1>1, <1>5, <1>8, <1>10, <1>13, <2>1 DEF DeletePartInv
  <2> QED BY <1>12, <2>2 DEF PartInvariant
<1>14. CASE pc' = "unset"
  <2>1. d - 1 = 0
    BY <1>1, <1>2, <1>14
  <2>2. newNodes(0 .. Depth) \subseteq nodes'
    BY <1>8, <2>1
  <2>3. DeletePartInv'
    BY <1>1, <1>5, <1>8, <1>10, <1>14, <2>2 DEF DeletePartInv
  <2> QED BY <1>12, <2>3 DEF PartInvariant
<1> QED BY <1>1, <1>13, <1>14

\* The last write of a call: the map changes, and with it the root.
LEMMA PartWritten ==
  ASSUME TypeOK, CallInvariant, BranchTypeOK, PartInvariant, clean = TRUE, DeepStep,
         DeleteValue \/ SetValue, clean' = TRUE
  PROVE  PartInvariant'
<1>1. reply'.status # "error"
  BY DEF DeepStep
<1>2. /\ pc \in {"unset", "value"} /\ op.kind = "update" /\ ReturnRoot(cur)
      /\ UNCHANGED nodes /\ err = FALSE
  <2>1. CASE SetValue
    BY <2>1 DEF SetValue, TypeOK, CallTypeOK, UpdateLabels, FlagTypeOK
  <2>2. CASE DeleteValue
    <3>1. err = FALSE
      BY <1>1, <2>2 DEF DeleteValue, ReturnError, Return, TypeOK, FlagTypeOK
    <3> QED BY <2>2, <3>1 DEF DeleteValue, TypeOK, CallTypeOK, DeleteLabels
  <2> QED BY <2>1, <2>2
<1>3. cur = SubtreeRoot(EntriesOf(newMap), 0)
  BY <1>2 DEF CallInvariant, ResultInv
<1>4. oldMap' = newMap /\ pc' = "idle"
  <2>1. oldMap' = newMap
    BY <1>2, <1>3, InvReturnNew
  <2> QED BY <1>2, <2>1 DEF ReturnRoot, Return
<1>5. /\ oldMap \in Maps /\ newMap \in Maps /\ op.path \in Paths
      /\ values \in [Paths -> Values \cup {Absent}]
      /\ newMap[op.path] = (IF op.value = DefaultValue THEN Absent ELSE op.value)
      /\ \A p \in Paths : p # op.path => newMap[p] = oldMap[p]
  <2>1. oldMap \in Maps /\ newMap \in Maps /\ op.path \in Paths
    BY <1>2, NewMapFacts DEF CallInvariant, RootInv
  <2> QED BY <2>1 DEF newMap, Maps, TypeOK, CallTypeOK
<1>6. newMap[op.path] # oldMap[op.path] /\ newMap[op.path] = values'[op.path]
      /\ \A p \in added : p # op.path => values'[p] = values[p] /\ values[p] = oldMap[p]
  <2>1. CASE DeleteValue
    <3>1. /\ pc = "unset" /\ values' = [values EXCEPT ![op.path] = Absent]
          /\ op.value = DefaultValue
      BY <2>1 DEF DeleteValue, TypeOK, CallTypeOK, DeleteLabels
    <3>2. ~ keyIsEmpty /\ \A p \in added : values[p] = oldMap[p]
      BY <3>1 DEF PartInvariant, DeletePartInv, ReadPartInv
    <3>3. oldMap[op.path] # Absent
      BY <3>1, <3>2, OwnLeaf DEF keyIsEmpty
    <3> QED BY <1>5, <3>1, <3>2, <3>3, AddedPaths
  <2>2. CASE SetValue
    <3>1. /\ pc = "value" /\ values' = [values EXCEPT ![op.path] = op.value]
          /\ op.value \in Values
      BY <2>2 DEF SetValue, TypeOK, CallTypeOK, UpdateLabels
    <3>2. /\ oldMap[op.path] # op.value
          /\ \A p \in added : p # op.path => values[p] = oldMap[p]
      BY <3>1 DEF PartInvariant, UpdatePartInv, ReadPartInv
    <3> QED BY <1>5, <3>1, <3>2, AddedPaths, ValuesAssumption
  <2> QED BY <2>1, <2>2
<1>7. root' # root
  BY <1>4, <1>6 DEF oldMap
<1>8. added' = added /\ siblings' = {}
  BY <1>7, StepBranches
<1>9. newNodes(0 .. Depth) \subseteq nodes /\ keptNodes \subseteq nodes
  BY <1>2 DEF PartInvariant, DeletePartInv, UpdatePartInv, reading
<1>10. \A p \in added : OnPath(EntriesOf(newMap), p, 0 .. Depth) \subseteq nodes
  BY <1>2, <1>9, AddedAfter
<1>11. addedNodes' \subseteq nodes'
  BY <1>2, <1>4, <1>8, <1>10 DEF addedNodes
<1>12. \A p \in added' : values'[p] = oldMap'[p]
  BY <1>4, <1>5, <1>6, <1>8, AddedPaths
<1> QED BY <1>4, <1>8, <1>11, <1>12, PartIdle

\* The step to the stale nodes of the old path, or to the spine if there are none.
LEMMA PartStale ==
  ASSUME TypeOK, CallInvariant, pc \in UpdateLabels,
         NEW index \in 1 .. Len(side) + 1, RemoveStale(index),
         UNCHANGED <<side, pnodes>>, added' = added,
         keptNodes \subseteq nodes', newNodes(topLevel .. Depth) \subseteq nodes',
         op.path \in added => oldNodes(0 .. Len(side) - index) \subseteq nodes',
         oldMap[op.path] # op.value,
         \A p \in added : p # op.path => values'[p] = oldMap[p]
  PROVE  PartInvariant'
<1>1. /\ UNCHANGED <<root, op>>
      /\ index < Len(pnodes) => pc' = "stale" /\ i' = index
      /\ ~ (index < Len(pnodes)) => pc' = "spine" /\ i' = 0
  BY DEF RemoveStale, Goto
<1>2. /\ oldMap' = oldMap /\ keptNodes' = keptNodes
      /\ \A D : oldNodes(D)' = oldNodes(D)
      /\ \A D : newNodes(D)' = newNodes(D)
      /\ topLevel' = topLevel
  BY <1>1, DeepFrame, SliceFrame
<1>3. /\ Depth \in Nat /\ Len(side) \in Nat /\ Len(pnodes) = Len(side) + 1
      /\ topLevel \in Len(side) .. Depth /\ index \in Nat /\ index > 0
  <2>1. Len(side) \in Nat
    BY DEF TypeOK, SliceTypeOK, IsSlice
  <2>2. Len(pnodes) = Len(side) + 1
    BY DEF TypeOK, SliceTypeOK, UpdateLabels
  <2> QED BY <2>1, <2>2, DepthAssumption, TopNodes
<1>4. pc' \in {"stale", "spine"}
  BY <1>1
<1>5. ReadPartInv' /\ DeletePartInv'
  BY <1>1, <1>2, <1>4 DEF ReadPartInv, DeletePartInv, reading
<1>6. CASE pc' = "stale"
  <2>1. i' = index /\ i' > 0
    BY <1>1, <1>3, <1>6
  <2>2. oldLeft(0 .. Len(side) - i)'
    BY <1>1, <1>2, <2>1 DEF oldLeft
  <2>3. UpdatePartInv'
    BY <1>1, <1>2, <1>6, <2>1, <2>2 DEF UpdatePartInv
  <2> QED BY <1>5, <2>3 DEF PartInvariant
<1>7. CASE pc' = "spine"
  <2>1. spineLevel' = topLevel
    <3>1. i' = 0
      BY <1>1, <1>7
    <3> QED BY <1>2, <1>3, <3>1 DEF spineLevel
  <2>2. UpdatePartInv'
    BY <1>1, <1>2, <1>7, <2>1 DEF UpdatePartInv
  <2> QED BY <1>5, <2>2 DEF PartInvariant
<1> QED BY <1>4, <1>6, <1>7

\* The end of the walk of an update that goes on has another value.
LEMMA ValueDiffers ==
  ASSUME TypeOK, CallInvariant, pc \in UpdateLabels,
         \/ commonPrefixCount # Depth
         \/ oldLeaf = Placeholder
         \/ Data(oldLeaf).valueHash # digest(op.value)
  PROVE  oldMap[op.path] # op.value
<1>1. /\ pc \notin {"idle", "root", "walk"} /\ op.path \in Paths /\ op.value \in Values
      /\ oldMap \in Maps
  BY UpdateFacts DEF UpdateLabels, TypeOK, CallTypeOK, CallInvariant, RootInv
<1>2. CASE oldLeaf = Placeholder
  <2>1. oldMap[op.path] = Absent
    BY <1>1, <1>2, LeafFound DEF CallInvariant
  <2> QED BY <1>1, <2>1, ValuesAssumption
<1>3. CASE oldLeaf # Placeholder
  <2>1. PICK e \in Entries :
           /\ oldLeafPath = e[1] /\ Data(oldLeaf).valueHash = digest(e[2])
           /\ oldMap[op.path] = IF e[1] = op.path THEN e[2] ELSE Absent
    BY <1>1, <1>3, LeafFound DEF CallInvariant
  <2>2. CASE e[1] # op.path
    BY <1>1, <2>1, <2>2, ValuesAssumption
  <2>3. CASE e[1] = op.path
    <3>1. commonPrefixCount = Depth
      BY <1>1, <1>3, <2>1, <2>3, CommonPrefix DEF commonPrefixCount
    <3> QED BY <1>3, <2>1, <2>3, <3>1
  <2> QED BY <2>2, <2>3
<1> QED BY <1>2, <1>3

\* Storing the new leaf.
LEMMA PartSetLeaf ==
  ASSUME TypeOK, CallInvariant, BranchTypeOK, PartInvariant, clean = TRUE, DeepStep, SetLeaf
  PROVE  PartInvariant'
<1>1. /\ pc = "leaf" /\ pc \in UpdateLabels /\ pc \notin {"idle", "root", "walk"}
      /\ nodes' = nodes \cup {newLeaf} /\ UNCHANGED <<values, faults>>
  BY DEF SetLeaf, UpdateLabels
<1>2. /\ addedNodes \cup siblings \subseteq nodes
      /\ \A p \in added : values[p] = oldMap[p]
  BY <1>1 DEF PartInvariant, ReadPartInv, reading
<1>3. /\ keptNodes \subseteq nodes
      /\ op.path \in added => oldNodes(0 .. Depth) \subseteq nodes
  BY <1>2, NodesAtHand
<1>4. Len(side) \in 0 .. Depth /\ added' = added
  BY <1>1, UpdateFacts, StepBranches
<1>5. CASE /\ pc' \in {"fork", "oldleaf"} /\ UNCHANGED <<root, op, side, pnodes, err>>
           /\ pc' = "oldleaf" => oldLeaf # Placeholder
                                 /\ Data(oldLeaf).valueHash # digest(op.value)
           /\ pc' = "fork" => commonPrefixCount # Depth
  <2>1. /\ oldMap' = oldMap /\ oldLeaf' = oldLeaf /\ newLeaf' = newLeaf
        /\ addedNodes' = addedNodes
    BY <1>4, <1>5, DeepFrame, SliceFrame
  <2>2. pc' = "oldleaf" => oldLeaf # newLeaf
    BY <1>5, DigestFacts DEF newLeaf, digestLeaf
  <2>3. oldMap[op.path] # op.value
    BY <1>1, <1>5, ValueDiffers
  <2>4. ReadPartInv' /\ DeletePartInv'
    BY <1>1, <1>2, <1>4, <1>5, <2>1 DEF ReadPartInv, DeletePartInv, reading
  <2>5. UpdatePartInv'
    BY <1>1, <1>2, <1>5, <2>1, <2>2, <2>3 DEF UpdatePartInv
  <2> QED BY <2>4, <2>5 DEF PartInvariant
<1>6. CASE oldLeaf = Placeholder /\ RemoveStale(1) /\ UNCHANGED <<side, pnodes, err>>
  <2>1. commonPrefixCount = Depth
    BY <1>6 DEF commonPrefixCount
  <2>2. oldMap[op.path] # op.value
    BY <1>1, <1>6, ValueDiffers
  <2>3. oldNodes(0 .. Len(side) - 1) \subseteq oldNodes(0 .. Depth)
    <3>1. 0 .. Len(side) - 1 \subseteq 0 .. Depth
      BY <1>4, DepthAssumption
    <3> QED BY <3>1 DEF oldNodes, OnPath
  <2>4. newNodes(topLevel .. Depth) = {newLeaf}
    BY <1>1, <2>1, TopNodes
  <2>5. 1 \in 1 .. Len(side) + 1
    BY <1>4
  <2> QED BY <1>1, <1>2, <1>3, <1>4, <1>6, <2>2, <2>3, <2>4, <2>5, PartStale
<1>7. CASE ReturnRoot(root)
  <2>1. root' = root /\ pc' = "idle"
    BY <1>7 DEF ReturnRoot, Return
  <2>2. oldMap' = oldMap /\ siblings' = siblings
    BY <2>1, StepBranches DEF oldMap
  <2>3. addedNodes' = addedNodes
    BY <1>4, <2>2 DEF addedNodes
  <2> QED BY <1>1, <1>2, <1>4, <2>1, <2>2, <2>3, PartIdle
<1> QED BY <1>5, <1>6, <1>7 DEF SetLeaf, Goto

\* The fork, and the removal of the old leaf, the old value and the stale nodes.
LEMMA PartReplace ==
  ASSUME TypeOK, CallInvariant, BranchTypeOK, PartInvariant, clean = TRUE, DeepStep,
         Fork \/ DeleteOldLeaf \/ DeleteOldValue \/ DeleteStale
  PROVE  PartInvariant'
<1> DEFINE n == Len(side)
<1>1. /\ pc \in {"fork", "oldleaf", "oldvalue", "stale"} /\ pc \in UpdateLabels
      /\ pc \notin {"idle", "root", "walk"}
      /\ UNCHANGED <<root, op, side, pnodes, err, faults>>
  BY DEF Fork, DeleteOldLeaf, DeleteOldValue, DeleteStale, UpdateLabels, RemoveStale, Goto
<1>2. /\ n \in 0 .. Depth /\ Depth \in Nat
      /\ op.path \in Paths /\ oldMap \in Maps /\ added' = added
      /\ values \in [Paths -> Values \cup {Absent}]
  BY <1>1, UpdateFacts, StepBranches DEF CallInvariant, RootInv, TypeOK, CallTypeOK
<1>3. oldNodes(0 .. n - 1) \subseteq oldNodes(0 .. Depth)
  <2>1. 0 .. n - 1 \subseteq 0 .. Depth
    BY <1>2
  <2> QED BY <2>1 DEF oldNodes, OnPath
<1>4. 1 \in 1 .. n + 1 /\ 0 \in 0 .. n /\ n - 0 = n
  BY <1>2
<1>a. oldMap[op.path] # op.value
  BY <1>1 DEF PartInvariant, UpdatePartInv
<1>5. CASE Fork
  <2>1. /\ pc = "fork" /\ RemoveStale(1) /\ commonPrefixCount # Depth /\ values' = values
        /\ nodes' = nodes \cup
              {digestParent(op.path, commonPrefixCount, oldLeaf, newLeaf)}
    BY <1>5 DEF Fork, CallInvariant, SpineInv
  <2>2. /\ addedNodes \cup {newLeaf} \subseteq nodes
        /\ \A p \in added : values[p] = oldMap[p]
    BY <2>1 DEF PartInvariant, UpdatePartInv, ReadPartInv
  <2>3. keptNodes \subseteq nodes /\ (op.path \in added => oldNodes(0 .. Depth) \subseteq nodes)
    BY <2>2 DEF keptNodes, addedNodes, oldNodes
  <2>4. newNodes(topLevel .. Depth) =
           {newLeaf, digestParent(op.path, commonPrefixCount, oldLeaf, newLeaf)}
    BY <1>1, <2>1, TopNodes
  <2> QED BY <1>1, <1>2, <1>3, <1>4, <1>a, <2>1, <2>2, <2>3, <2>4, PartStale
<1>6. CASE DeleteOldLeaf
  <2>1. /\ pc = "oldleaf" /\ pc' = "oldvalue" /\ nodes' = nodes \ {oldLeaf}
        /\ values' = values /\ commonPrefixCount = Depth
    BY <1>6 DEF DeleteOldLeaf, Goto, CallInvariant, SpineInv
  <2>2. /\ addedNodes \cup {newLeaf} \subseteq nodes
        /\ oldLeaf # Placeholder /\ oldLeaf # newLeaf
        /\ \A p \in added : values[p] = oldMap[p]
    BY <2>1 DEF PartInvariant, UpdatePartInv, ReadPartInv
  <2>3. oldLeafPath = op.path
    <3>1. oldLeafPath \in Paths
      BY <1>1, <2>2, LeafFound DEF CallInvariant, Entries
    <3> QED BY <1>2, <2>1, <2>2, <3>1, CommonPrefix DEF commonPrefixCount
  <2>4. \E x : oldBelow(n) = {x} /\ x[1] = op.path
    BY <1>1, <2>2, <2>3, OwnLeaf
  <2>5. oldLeaf = SubtreeRoot(oldBelow(n), n) /\ \A c \in 0 .. n - 1 : Big(oldBelow(c))
    BY <1>1, <1>4, PathNodeAt DEF oldLeaf
  <2>6. oldLeaf \notin offNodes /\ oldLeaf \notin oldNodes(0 .. n - 1)
    <3>1. newNodes({}) = {} /\ {} \in SUBSET (0 .. Depth)
      BY DEF newNodes, OnPath
    <3>2. (offNodes \cup oldNodes(0 .. n) \cup newNodes({})) \ {oldLeaf}
            = offNodes \cup oldNodes(0 .. n - 1) \cup newNodes({})
      BY <1>1, <1>2, <2>4, <2>5, <3>1, DeepestRemoved
    <3> QED BY <3>2
  <2>7. keptNodes \subseteq nodes' /\ newLeaf \in nodes'
        /\ (op.path \in added => oldNodes(0 .. n - 1) \subseteq nodes')
    BY <1>3, <2>1, <2>2, <2>6 DEF keptNodes, addedNodes, oldNodes
  <2>8. /\ oldMap' = oldMap /\ keptNodes' = keptNodes /\ \A D : oldNodes(D)' = oldNodes(D)
        /\ oldLeaf' = oldLeaf /\ newLeaf' = newLeaf
    BY <1>1, <1>2, DeepFrame, SliceFrame
  <2>9. ReadPartInv' /\ DeletePartInv'
    BY <1>2, <2>1, <2>2, <2>8 DEF ReadPartInv, DeletePartInv, reading
  <2>10. oldLeft(0 .. Len(side) - 1)'
    BY <1>1, <1>2, <2>7, <2>8 DEF oldLeft
  <2>11. UpdatePartInv'
    BY <1>1, <1>a, <2>1, <2>2, <2>7, <2>8, <2>10 DEF UpdatePartInv
  <2> QED BY <2>9, <2>11 DEF PartInvariant
<1>7. CASE DeleteOldValue
  <2>1. /\ pc = "oldvalue" /\ RemoveStale(1) /\ commonPrefixCount = Depth /\ nodes' = nodes
        /\ values' = [values EXCEPT ![op.path] = Absent]
    BY <1>7 DEF DeleteOldValue, CallInvariant, SpineInv
  <2>2. /\ keptNodes \subseteq nodes /\ newLeaf \in nodes
        /\ op.path \in added => oldNodes(0 .. n - 1) \subseteq nodes
        /\ \A p \in added : values[p] = oldMap[p]
    BY <2>1 DEF PartInvariant, UpdatePartInv, ReadPartInv, oldLeft
  <2>3. newNodes(topLevel .. Depth) = {newLeaf}
    BY <1>1, <2>1, TopNodes
  <2>4. \A p \in added : p # op.path => values'[p] = oldMap[p]
    BY <1>2, <2>1, <2>2, AddedPaths
  <2> QED BY <1>1, <1>2, <1>4, <1>a, <2>1, <2>2, <2>3, <2>4, PartStale
<1>8. CASE DeleteStale
  <2> DEFINE d == n - i
             D == topLevel .. Depth
             h == pathNodes(i)
  <2>1. /\ pc = "stale" /\ RemoveStale(i + 1) /\ nodes' = nodes \ {h}
        /\ values' = values
    BY <1>8 DEF DeleteStale
  <2>2. /\ i > 0 /\ keptNodes \subseteq nodes /\ newNodes(D) \subseteq nodes
        /\ op.path \in added => oldNodes(0 .. d) \subseteq nodes
        /\ \A p \in added : p # op.path => values[p] = oldMap[p]
    BY <2>1 DEF PartInvariant, UpdatePartInv, ReadPartInv, oldLeft
  <2>3. i \in 0 .. n
    BY <2>1 DEF TypeOK, LoopTypeOK
  <2>4. /\ d \in 0 .. Depth /\ h = SubtreeRoot(oldBelow(d), d)
        /\ \A c \in 0 .. d - 1 : Big(oldBelow(c))
    BY <1>1, <2>3, PathNodeAt
  <2>5. D \in SUBSET (0 .. Depth) /\ \A c \in D : c # d
    <3>1. topLevel \in n .. Depth
      BY <1>1, TopNodes
    <3> QED BY <1>2, <2>2, <2>3, <3>1
  <2>6. Big(oldBelow(d))
    <3>1. i > 0 => Big(oldBelow(d))
      BY <1>1, <2>3, PathNodeAt
    <3> QED BY <2>2, <3>1
  <2>7. n - (i + 1) = d - 1 /\ i + 1 \in 1 .. n + 1 /\ 0 .. d - 1 \subseteq 0 .. d
    BY <1>2, <2>2, <2>3
  <2>8. oldNodes(0 .. d - 1) \subseteq oldNodes(0 .. d)
    BY <2>7 DEF oldNodes, OnPath
  <2> HIDE DEF d, D, h
  <2>9. (offNodes \cup oldNodes(0 .. d) \cup newNodes(D)) \ {h}
          = offNodes \cup oldNodes(0 .. d - 1) \cup newNodes(D)
    BY <1>1, <2>4, <2>5, <2>6, DeepestRemoved
  <2>10. h \notin offNodes /\ h \notin oldNodes(0 .. d - 1) /\ h \notin newNodes(D)
    BY <2>9
  <2>11. /\ keptNodes \subseteq nodes' /\ newNodes(D) \subseteq nodes'
         /\ op.path \in added => oldNodes(0 .. n - (i + 1)) \subseteq nodes'
    BY <2>1, <2>2, <2>7, <2>8, <2>10 DEF keptNodes
  <2>12. newNodes(topLevel .. Depth) \subseteq nodes'
    BY <2>11 DEF D
  <2> QED BY <1>1, <1>2, <1>a, <2>1, <2>2, <2>7, <2>11, <2>12, PartStale
<1> QED BY <1>5, <1>6, <1>7, <1>8

\* The spine grows by one level per iteration that has a sibling.
LEMMA PartSpine ==
  ASSUME TypeOK, CallInvariant, BranchTypeOK, PartInvariant, clean = TRUE, DeepStep,
         SpineSkip \/ SpineNode
  PROVE  PartInvariant'
<1> DEFINE l == Depth - i
           t == IF l - 1 < topLevel THEN l - 1 ELSE topLevel
<1>1. /\ pc = "spine" /\ pc \in UpdateLabels
      /\ UNCHANGED <<root, op, side, pnodes, values, err, faults>>
      /\ \/ pc' = "spine" /\ i' = i + 1
         \/ pc' = "value" /\ ~ (i + 1 < Depth)
  BY DEF SpineSkip, SpineNode, NextSpine, Goto, UpdateLabels
<1>2. /\ l \in 1 .. Depth /\ topLevel \in 0 .. Depth
      /\ spineHasSibling <=> l <= topLevel
      /\ l <= topLevel =>
           digestParent(op.path, Depth - 1 - i, spineSibling, cur)
             = SubtreeRoot(newBelow(l - 1), l - 1)
  BY <1>1, SpineStep
<1>3. i \in 0 .. Depth - 1 /\ Depth \in Nat
  BY <1>1, DepthAssumption DEF TypeOK, LoopTypeOK
<1>4. /\ keptNodes \subseteq nodes /\ newNodes(spineLevel .. Depth) \subseteq nodes
      /\ oldMap[op.path] # op.value
      /\ \A p \in added : p # op.path => values[p] = oldMap[p]
  BY <1>1 DEF PartInvariant, UpdatePartInv, ReadPartInv
<1>5. keptNodes \subseteq nodes' /\ newNodes(t .. Depth) \subseteq nodes'
  <2>1. CASE SpineSkip
    <3>1. nodes' = nodes /\ ~ (l <= topLevel)
      BY <1>2, <2>1 DEF SpineSkip
    <3>2. spineLevel = t
      BY <1>2, <1>3, <3>1 DEF spineLevel
    <3> QED BY <1>4, <3>1, <3>2
  <2>2. CASE SpineNode
    <3>1. /\ l <= topLevel /\ nodes' = nodes \cup {cur'}
          /\ cur' = digestParent(op.path, Depth - 1 - i, spineSibling, cur)
      BY <1>2, <2>2 DEF SpineNode
    <3>2. t = l - 1 /\ spineLevel = l
      BY <1>2, <1>3, <3>1 DEF spineLevel
    <3> DEFINE c == l - 1
    <3>3. c \in Int /\ c + 1 = l /\ c <= Depth /\ c <= c + 1 /\ Depth \in Int /\ c \in 0 .. Depth
      BY <1>2, <1>3
    <3>4. cur' = SubtreeRoot(newBelow(c), c)
      BY <1>2, <3>1
    <3> HIDE DEF c, l, t
    <3>5. newBelow(c) # {}
      BY <1>1, <3>3, NewMapFacts, UpdateFacts DEF CallInvariant
    <3>6. newNodes(c .. Depth) = newNodes(c + 1 .. Depth) \cup {cur'}
      BY <3>3, <3>4, <3>5, OnPathLevels DEF newNodes, newBelow
    <3>7. t = c
      BY <3>2 DEF c
    <3> QED BY <1>4, <3>1, <3>2, <3>3, <3>6, <3>7
  <2> QED BY <2>1, <2>2
<1>6. added' = added
  BY StepBranches
<1>7. /\ oldMap' = oldMap /\ keptNodes' = keptNodes
      /\ \A D : newNodes(D)' = newNodes(D)
      /\ topLevel' = topLevel
  BY <1>1, <1>6, DeepFrame, SliceFrame
<1>8. ReadPartInv' /\ DeletePartInv'
  BY <1>1, <1>4, <1>6, <1>7 DEF ReadPartInv, DeletePartInv, reading
<1>9. CASE pc' = "spine"
  <2>1. spineLevel' = t
    <3>1. Depth - i' = l - 1 /\ topLevel' = topLevel
      BY <1>1, <1>3, <1>7, <1>9
    <3> QED BY <3>1 DEF spineLevel
  <2> HIDE DEF t
  <2>2. UpdatePartInv'
    BY <1>1, <1>4, <1>5, <1>7, <1>9, <2>1 DEF UpdatePartInv
  <2> QED BY <1>8, <2>2 DEF PartInvariant
<1>10. CASE pc' = "value"
  <2>1. t = 0
    BY <1>1, <1>2, <1>3, <1>10
  <2> HIDE DEF t
  <2>2. UpdatePartInv'
    BY <1>1, <1>4, <1>5, <1>7, <1>10, <2>1 DEF UpdatePartInv
  <2> QED BY <1>8, <2>2 DEF PartInvariant
<1> QED BY <1>1, <1>9, <1>10

\* An error ends the call, or leaves deleteWithSideNodes before any value is
\* touched.
LEMMA PartError ==
  ASSUME TypeOK, CallInvariant, BranchTypeOK, PartInvariant, clean = TRUE, DeepStep,
         InvalidKey \/ StoreFault, clean' = TRUE
  PROVE  PartInvariant'
<1>1. reply'.status # "error" /\ added' = added
  BY StepBranches DEF DeepStep
<1>2. OnError /\ (keyMissing \/ callsStore)
  BY DEF InvalidKey, StoreFault
<1>3. pc \in {"orphan", "bubble"}
  <2> SUFFICES ASSUME pc \notin {"orphan", "bubble"} PROVE FALSE
    OBVIOUS
  <2>1. ReturnError
    BY <1>2 DEF OnError
  <2> QED BY <1>1, <2>1 DEF ReturnError, Return
<1>4. pc' = "unset" /\ err' = TRUE /\ UNCHANGED <<root, op, side, pnodes, values, nodes>>
  BY <1>2, <1>3 DEF OnError, Goto
<1>5. ~ keyIsEmpty
  <2>1. CASE pc = "orphan"
    BY <1>2, <2>1 DEF keyMissing, callsStore
  <2>2. CASE pc = "bubble"
    BY <2>2 DEF CallInvariant, BubbleInv
  <2> QED BY <1>3, <2>1, <2>2
<1>6. oldMap' = oldMap /\ keyIsEmpty' = keyIsEmpty
  BY <1>1, <1>4, DeepFrame, SliceFrame
<1>7. \A p \in added : values[p] = oldMap[p]
  BY <1>3 DEF PartInvariant, ReadPartInv
<1>8. ReadPartInv' /\ UpdatePartInv'
  BY <1>1, <1>4, <1>6, <1>7 DEF ReadPartInv, UpdatePartInv, reading
<1>9. DeletePartInv'
  BY <1>4, <1>5, <1>6 DEF DeletePartInv
<1> QED BY <1>8, <1>9 DEF PartInvariant

\* A step of a call keeps the invariant.
LEMMA PartStep ==
  ASSUME TypeOK, CallInvariant, BranchTypeOK, PartInvariant, DeepStep,
         TypeOK', CallInvariant'
  PROVE  PartInvariant'
<1>1. CASE clean' # TRUE
  <2>1. ~ clean'
    BY <1>1 DEF DeepStep, BranchTypeOK
  <2> QED BY <2>1 DEF PartInvariant
<1>2. CASE clean' = TRUE
  <2>1. clean = TRUE
    BY <1>2 DEF DeepStep, BranchTypeOK
  <2> QED BY <1>2, <2>1, PartWalk, PartNoWrite, PartOrphan, PartBubble, PartWritten,
         PartSetLeaf, PartReplace, PartSpine, PartError DEF DeepStep, Step
<1> QED BY <1>1, <1>2

\* Beginning a call leaves the stores and the branches as they are.
LEMMA PartCall ==
  ASSUME BranchTypeOK, PartInvariant, DeepCall
  PROVE  PartInvariant' /\ BranchTypeOK'
<1>a. /\ \A p, v, r, b : UpdateOp(p, v, r, b).getSiblingData = FALSE
      /\ \A p, r, b : ProveOp(p, r, b).kind # "update"
  BY DEF UpdateOp, ProveOp
<1>1. PICK o : Begin(o) /\ (o.kind = "update" => o.getSiblingData = FALSE)
  BY <1>a DEF DeepCall, Call, Update, Delete, Prove, ProveUpdatable, ProveForRoot
<1>2. /\ pc = "idle" /\ pc' = "root" /\ op' = o
      /\ UNCHANGED <<nodes, values, root, err, branch, clean>>
  BY <1>1 DEF Begin, tree, locals, DeepCall
<1>3. oldMap' = oldMap /\ added' = added
  BY <1>2 DEF oldMap, added
<1>4. addedNodes' = addedNodes /\ siblings' = siblings
  BY <1>2, <1>3 DEF addedNodes, siblings, siblingOf
<1>5. PartInvariant'
  BY <1>2, <1>3, <1>4 DEF PartInvariant, ReadPartInv, DeletePartInv, UpdatePartInv, reading
<1> QED BY <1>1, <1>2, <1>5 DEF BranchTypeOK

\* The types of the history variables.
LEMMA BranchTypeStep ==
  ASSUME TypeOK, BranchTypeOK, DeepStep
  PROVE  BranchTypeOK'
<1>1. /\ branch' \in [Keys -> {"none", "added", "updatable", "spent"}]
      /\ clean' \in BOOLEAN
  BY DEF BranchTypeOK, DeepStep
<1>2. pc # "idle"
  BY DEF DeepStep, Step, FillRoot, FillStep, FillSibling, AlreadyEmpty, DeletePathNode,
         BubbleLeaf, BubbleSkip, BubbleNode, DeleteValue, SetLeaf, Fork, DeleteOldLeaf,
         DeleteOldValue, DeleteStale, SpineSkip, SpineNode, SetValue, ProveReturn,
         InvalidKey, StoreFault, keyMissing, callsStore
<1>3. pc' = "idle" \/ op' = op
  BY DEF DeepStep, Step, FillRoot, FillStep, FillSibling, AlreadyEmpty, DeletePathNode,
         BubbleLeaf, BubbleSkip, BubbleNode, DeleteValue, SetLeaf, Fork, DeleteOldLeaf,
         DeleteOldValue, DeleteStale, SpineSkip, SpineNode, SetValue, ProveReturn,
         InvalidKey, StoreFault, OnError, NextSideNode, NextSpine, RemoveStale, Goto,
         ReturnRoot, ReturnError, Return
<1>4. pc' = "sibling" => op.getSiblingData = TRUE
  <2>1. CASE FillStep
    BY <2>1 DEF FillStep, Goto, afterWalk
  <2>2. CASE ~ FillStep
    BY <2>2 DEF DeepStep, Step, FillRoot, FillSibling, AlreadyEmpty, DeletePathNode,
         BubbleLeaf, BubbleSkip, BubbleNode, DeleteValue, SetLeaf, Fork, DeleteOldLeaf,
         DeleteOldValue, DeleteStale, SpineSkip, SpineNode, SetValue, ProveReturn,
         InvalidKey, StoreFault, OnError, NextSideNode, NextSpine, RemoveStale, Goto,
         ReturnRoot, ReturnError, Return, afterWalk
  <2> QED BY <2>1, <2>2
<1> QED BY <1>1, <1>2, <1>3, <1>4 DEF BranchTypeOK

-----------------------------------------------------------------------------
\* What AddBranch stores.

\* The elements of a sequence, and of two sequences in a row.
InSeq(h, s) == \E j \in 1 .. Len(s) : s[j] = h

LEMMA ConcatHolds ==
  ASSUME NEW S, NEW s \in Seq(S), NEW t \in Seq(S)
  PROVE  /\ s \o t \in Seq(S)
         /\ \A h : InSeq(h, s) \/ InSeq(h, t) => InSeq(h, s \o t)
<1>1. s \o t \in Seq(S) /\ Len(s \o t) = Len(s) + Len(t) /\ Len(s) \in Nat /\ Len(t) \in Nat
  OBVIOUS
<1>2. \A j \in 1 .. Len(s) : j \in 1 .. Len(s \o t) /\ (s \o t)[j] = s[j]
  BY <1>1
<1>3. \A j \in 1 .. Len(t) : Len(s) + j \in 1 .. Len(s \o t) /\ (s \o t)[Len(s) + j] = t[j]
  BY <1>1
<1> QED BY <1>1, <1>2, <1>3 DEF InSeq

LEMMA SingleHolds ==
  ASSUME NEW S, NEW x \in S
  PROVE  <<x>> \in Seq(S) /\ InSeq(x, <<x>>) /\ << >> \in Seq(S)
<1>1. <<x>> \in Seq(S) /\ Len(<<x>>) = 1 /\ <<x>>[1] = x /\ << >> \in Seq(S)
  OBVIOUS
<1>2. 1 \in 1 .. Len(<<x>>)
  BY <1>1
<1> QED BY <1>1, <1>2 DEF InSeq

LEMMA TabulatedHolds ==
  ASSUME NEW S, NEW n \in Nat, NEW f, \A j \in 1 .. n : f[j] \in S
  PROVE  LET s == [j \in 1 .. n |-> f[j]]
         IN  s \in Seq(S) /\ \A j \in 1 .. n : InSeq(f[j], s)
<1> DEFINE s == [j \in 1 .. n |-> f[j]]
<1>1. s \in Seq(S) /\ Len(s) = n
  OBVIOUS
<1>2. \A j \in 1 .. n : s[j] = f[j]
  OBVIOUS
<1> HIDE DEF s
<1>3. \A j \in 1 .. n : InSeq(f[j], s)
  BY <1>1, <1>2 DEF InSeq
<1> QED BY <1>1, <1>3 DEF s

\* The node writes of AddBranch: the hashes that verification recomputed, and the
\* sibling if the proof has its data.
LEMMA BranchWrites ==
  ASSUME NEW proof, NEW p, NEW value, Len(proof.SideNodes) \in Nat
  PROVE  LET n    == Len(proof.SideNodes)
             leaf == claimedLeaf(proof, p, value)
             up   == recompute(proof.SideNodes, p, leaf)
             all  == branchNodes(proof, p, value)
         IN  /\ leaf # Placeholder => InSeq(leaf, all)
             /\ \A j \in 1 .. n : InSeq(up[j], all)
             /\ proof.SiblingData # << >> /\ proof.SideNodes # << >> =>
                  InSeq(proof.SideNodes[1], all)
<1> DEFINE n    == Len(proof.SideNodes)
           leaf == claimedLeaf(proof, p, value)
           up   == recompute(proof.SideNodes, p, leaf)
           all  == branchNodes(proof, p, value)
           side1 == proof.SideNodes[1]
           S    == {up[j] : j \in 1 .. n} \cup {leaf, side1}
           a    == IF leaf = Placeholder THEN << >> ELSE <<leaf>>
           b    == [j \in 1 .. n |-> up[j]]
           withSibling == proof.SiblingData # << >> /\ proof.SideNodes # << >>
           c    == IF withSibling THEN <<side1>> ELSE << >>
<1>1. all = (a \o b) \o c
  BY DEF branchNodes, updates
<1>2. leaf \in S /\ side1 \in S /\ \A j \in 1 .. n : up[j] \in S
  OBVIOUS
<1> HIDE DEF n, leaf, up, all, side1, S, withSibling
<1>3. n \in Nat
  BY DEF n
<1>4. a \in Seq(S) /\ (leaf # Placeholder => InSeq(leaf, a))
  BY <1>2, SingleHolds
<1>5. c \in Seq(S) /\ (withSibling => InSeq(side1, c))
  BY <1>2, SingleHolds
<1>6. b \in Seq(S) /\ \A j \in 1 .. n : InSeq(up[j], b)
  BY <1>2, <1>3, TabulatedHolds
<1> HIDE DEF a, b, c
<1>7. a \o b \in Seq(S) /\ \A h : InSeq(h, a) \/ InSeq(h, b) => InSeq(h, a \o b)
  BY <1>4, <1>6, ConcatHolds
<1>8. \A h : InSeq(h, a \o b) \/ InSeq(h, c) => InSeq(h, all)
  BY <1>1, <1>5, <1>7, ConcatHolds
<1>9. leaf # Placeholder => InSeq(leaf, all)
  BY <1>4, <1>7, <1>8
<1>10. \A j \in 1 .. n : InSeq(up[j], all)
  BY <1>6, <1>7, <1>8
<1>11. withSibling => InSeq(side1, all)
  BY <1>5, <1>8
<1> QED BY <1>9, <1>10, <1>11 DEF n, leaf, up, all, side1, withSibling

\* An accepted proof has a side node for every level of the walk, the first one
\* being the node beside its end, and AddBranch stores every node of the walk.
LEMMA BranchCovers ==
  ASSUME NEW m \in Maps, NEW p \in Paths, NEW value, NEW proof,
         Len(proof.SideNodes) \in Nat,
         VerifyProof(proof, SubtreeRoot(EntriesOf(m), 0), p, value)
  PROVE  LET L == EntriesOf(m)
             n == Len(proof.SideNodes)
             all == branchNodes(proof, p, value)
         IN  /\ n = walkLength(L, p)
             /\ \A h \in OnPath(L, p, 0 .. Depth) : InSeq(h, all)
             /\ n # 0 => proof.SideNodes[1] = SubtreeRoot(Beside(L, p, n), n)
<1> DEFINE L    == EntriesOf(m)
           n    == Len(proof.SideNodes)
           all  == branchNodes(proof, p, value)
           leaf == claimedLeaf(proof, p, value)
           up   == recompute(proof.SideNodes, p, leaf)
<1>1. n \in 0 .. Depth /\ Depth \in Nat /\ up[n] = SubtreeRoot(L, 0) /\ n \in Nat
  <2>1. n <= Depth /\ up[n] = SubtreeRoot(L, 0)
    BY DEF VerifyProof, sanityCheck
  <2> QED BY <2>1, DepthAssumption
<1>2. /\ up[0] = leaf
      /\ \A j \in 1 .. n : up[j] = digestParent(p, n - j, proof.SideNodes[j], up[j - 1])
  BY RecomputeUnfolds
<1>3. \A d \in 0 .. n : up[n - d] = SubtreeRoot(Below(L, p, d), d)
  BY <1>1, ClimbMeetsTree
<1>4. /\ leaf # Placeholder => InSeq(leaf, all)
      /\ \A j \in 1 .. n : InSeq(up[j], all)
  BY BranchWrites
<1>5. leaf = Placeholder \/ isLeaf(Data(leaf))
  BY DigestFacts DEF claimedLeaf, digestLeaf
<1>6. \A d \in 0 .. Depth :
         LET A == Below(L, p, d)
         IN  /\ A \in SUBSET Entries
             /\ SubtreeRoot(A, d) = Placeholder <=> A = {}
             /\ A # {} => (isLeaf(Data(SubtreeRoot(A, d))) <=> ~ Big(A))
  BY BelowShape
<1> HIDE DEF L, all, leaf, up, n
<1>7. ~ Big(Below(L, p, n))
  <2>1. n \in 0 .. n /\ n - n = 0
    BY <1>1
  <2>2. leaf = SubtreeRoot(Below(L, p, n), n)
    BY <1>2, <1>3, <2>1
  <2>3. ~ Big({})
    BY BigFacts
  <2> QED BY <1>1, <1>5, <1>6, <2>2, <2>3
<1>8. ASSUME NEW c \in 0 .. n - 1 PROVE Big(Below(L, p, c))
  <2>1. c \in 0 .. n /\ n - c \in 1 .. n /\ c \in 0 .. Depth
    BY <1>1
  <2>2. SubtreeRoot(Below(L, p, c), c)
          = digestParent(p, n - (n - c), proof.SideNodes[n - c], up[n - c - 1])
    BY <1>2, <1>3, <2>1
  <2>3. \A d, a, b : digestParent(p, d, a, b) # Placeholder
                     /\ ~ isLeaf(Data(digestParent(p, d, a, b)))
    BY DigestFacts DEF digestParent, digestNode
  <2> QED BY <1>6, <2>1, <2>2, <2>3
<1>9. n = walkLength(L, p)
  BY <1>1, <1>7, <1>8, WalkLength DEF L
<1>10. OnPath(L, p, 0 .. Depth) = OnPath(L, p, 0 .. n)
  <2>1. 0 \in 0 .. n
    BY <1>1
  <2> QED BY <1>1, <1>7, <2>1, PathEnds DEF L
<1>11. ASSUME NEW h \in OnPath(L, p, 0 .. n) PROVE InSeq(h, all)
  <2>1. PICK d \in 0 .. n : Below(L, p, d) # {} /\ h = SubtreeRoot(Below(L, p, d), d)
    BY DEF OnPath
  <2>2. h = up[n - d] /\ d \in 0 .. Depth
    BY <1>1, <1>3, <2>1
  <2>3. CASE n - d = 0
    <3>1. h = leaf /\ h # Placeholder
      BY <1>2, <1>6, <2>1, <2>2, <2>3
    <3> QED BY <1>4, <3>1
  <2>4. CASE n - d # 0
    <3>1. n - d \in 1 .. n
      BY <1>1, <2>4
    <3> QED BY <1>4, <2>2, <3>1
  <2> QED BY <2>3, <2>4
<1>12. ASSUME n # 0 PROVE proof.SideNodes[1] = SubtreeRoot(Beside(L, p, n), n)
  <2> DEFINE c == n - 1
  <2>1. /\ c \in 0 .. n - 1 /\ c \in 0 .. n /\ c \in 0 .. Depth - 1 /\ c + 1 = n
        /\ n - c = 1 /\ 1 \in 1 .. n
    BY <1>1, <1>12
  <2>2. Big(Below(L, p, c))
    BY <1>8, <2>1
  <2>3. up[1] = SubtreeRoot(Below(L, p, c), c)
    BY <1>3, <2>1
  <2>4. up[1] = digestParent(p, c, proof.SideNodes[1], up[1 - 1])
    BY <1>2, <2>1
  <2> HIDE DEF c
  <2>5. L \in SUBSET Entries
    BY MapEntries DEF L
  <2>6. digestParent(p, c, SubtreeRoot(Beside(L, p, c + 1), c + 1),
                     SubtreeRoot(Below(L, p, c + 1), c + 1)) = SubtreeRoot(Below(L, p, c), c)
    BY <2>1, <2>2, <2>5, InnerNode
  <2>7. \A d, a, b, x, y : digestParent(p, d, a, x) = digestParent(p, d, b, y) => a = b
    BY DigestFacts DEF digestParent, digestNode, NodeData
  <2> QED BY <2>1, <2>3, <2>4, <2>6, <2>7
<1> QED BY <1>9, <1>10, <1>11, <1>12 DEF L, n, all

\* Adding a branch makes its nodes, its value and its sibling available; one that
\* is stored in part does no harm.
LEMMA PartBranch ==
  ASSUME TypeOK, CallInvariant, BranchTypeOK, ValuesSound, PartInvariant, GiveBranch
  PROVE  PartInvariant' /\ BranchTypeOK'
<1>0. PICK k \in Keys, value \in AnyValue : \E proof :
         /\ Len(proof.SideNodes) \in Nat
         /\ branchEffect(k, value, proof)
         /\ AddBranch(k, value, proof) \/ AddBranchFails(k, value, proof)
  BY BranchEffect
<1>a. PICK proof :
         /\ Len(proof.SideNodes) \in Nat
         /\ branchEffect(k, value, proof)
         /\ AddBranch(k, value, proof) \/ AddBranchFails(k, value, proof)
  BY <1>0
<1> DEFINE p == PathOf[k]
           L == EntriesOf(oldMap)
           n == Len(proof.SideNodes)
           all == branchNodes(proof, p, value)
<1>1. /\ pc = "idle" /\ pc' = "idle" /\ UNCHANGED <<root, op, clean>>
      /\ nodes \subseteq nodes'
      /\ values' = values \/ (value # DefaultValue /\ values' = [values EXCEPT ![p] = value])
  BY <1>a DEF GiveBranch, branchEffect
<1>2. /\ oldMap \in Maps /\ p \in Paths /\ values \in [Paths -> Values \cup {Absent}]
      /\ oldMap' = oldMap
  BY <1>1, SMTAssumption DEF CallInvariant, RootInv, oldMap, TypeOK, CallTypeOK
<1>3. VerifyProof(proof, SubtreeRoot(L, 0), p, value)
  BY <1>a DEF branchEffect, CallInvariant, RootInv
<1>4. PICK m \in Maps : m = oldMap
  BY <1>2
<1>5. value = ValueIn(oldMap, p)
  BY <1>a, <1>2, <1>3, <1>4, VerifierSound
<1>6. /\ n = walkLength(L, p)
      /\ \A h \in OnPath(L, p, 0 .. Depth) : InSeq(h, all)
      /\ n # 0 => proof.SideNodes[1] = SubtreeRoot(Beside(L, p, n), n)
  BY <1>a, <1>2, <1>3, <1>4, BranchCovers
<1>7. /\ value # DefaultValue => value = oldMap[p]
      /\ value = DefaultValue => oldMap[p] = Absent
  BY <1>2, <1>5, ValuesAssumption DEF ValueIn, Maps
<1>8. \A q \in Paths : values[q] = oldMap[q] => values'[q] = oldMap'[q]
  BY <1>1, <1>2, <1>7
<1>9. branch' \in [Keys -> {"none", "added", "updatable", "spent"}]
      /\ \A j \in Keys : j # k => branch'[j] = branch[j]
  BY <1>a DEF AddBranch, AddBranchFails, BranchTypeOK
<1>10. BranchTypeOK'
  BY <1>1, <1>9 DEF BranchTypeOK
<1>11. CASE ~ clean
  BY <1>1, <1>10, <1>11 DEF PartInvariant
<1>12. CASE clean
  <2>1. /\ addedNodes \cup siblings \subseteq nodes
        /\ \A q \in added : values[q] = oldMap[q]
    BY <1>1, <1>12 DEF PartInvariant, ReadPartInv, reading
  <2>2. CASE AddBranchFails(k, value, proof)
    <3>1. branch' = branch
      BY <2>2 DEF AddBranchFails
    <3>2. added' = added
      BY <3>1 DEF added
    <3>3. addedNodes' = addedNodes /\ siblings' = siblings
      BY <1>2, <3>1, <3>2 DEF addedNodes, siblings, siblingOf
    <3>4. \A q \in added' : values'[q] = oldMap'[q]
      BY <1>8, <2>1, <3>2, AddedPaths
    <3>5. (addedNodes \cup siblings)' \subseteq nodes'
      BY <1>1, <2>1, <3>3
    <3> QED BY <1>1, <1>10, <3>4, <3>5, PartIdle
  <2>3. CASE AddBranch(k, value, proof)
    <3>1. /\ nodes' = nodes \cup {all[j] : j \in 1 .. Len(all)}
          /\ values' = IF value = DefaultValue THEN values ELSE [values EXCEPT ![p] = value]
          /\ branch' = [branch EXCEPT ![k] =
                           IF proof.SiblingData # << >> \/ proof.SideNodes = << >>
                           THEN "updatable" ELSE IF @ = "none" THEN "added" ELSE @]
      BY <2>3 DEF AddBranch, StoreBranch
    <3>2. \A h : InSeq(h, all) => h \in nodes'
      BY <3>1 DEF InSeq
    <3>3. added' = added \cup {p}
      <4>1. branch'[k] # "none" /\ \A j \in Keys : j # k => branch'[j] = branch[j]
        BY <3>1 DEF BranchTypeOK
      <4>2. added' = {PathOf[j] : j \in {x \in Keys : branch'[x] # "none"}}
        BY DEF added
      <4> QED BY <4>1, <4>2 DEF added
    <3>4. addedNodes' \subseteq nodes'
      <4>1. addedNodes' = addedNodes \cup OnPath(L, p, 0 .. Depth)
        BY <1>2, <3>3 DEF addedNodes
      <4> QED BY <1>1, <1>6, <2>1, <3>2, <4>1
    <3>5. ASSUME NEW j \in Keys, branch'[j] = "updatable"
          PROVE  siblingOf(PathOf[j]) \subseteq nodes'
      <4>1. CASE branch[j] = "updatable"
        BY <1>1, <2>1, <4>1 DEF siblings
      <4>2. CASE branch[j] # "updatable"
        <5>1. j = k /\ (proof.SiblingData # << >> \/ proof.SideNodes = << >>)
          BY <3>1, <3>5, <4>2 DEF BranchTypeOK
        <5>2. CASE n = 0
          <6>1. siblingOf(p) = {}
            BY <1>6, <5>2 DEF siblingOf
          <6> QED BY <5>1, <6>1
        <5>3. CASE n # 0
          <6>1. proof.SideNodes # << >>
            BY <5>3, SliceFacts
          <6>2. InSeq(proof.SideNodes[1], all)
            BY <1>a, <5>1, <6>1, BranchWrites
          <6>3. siblingOf(p) = {proof.SideNodes[1]}
            BY <1>6, <5>3 DEF siblingOf
          <6> QED BY <3>2, <5>1, <6>2, <6>3
        <5> QED BY <5>2, <5>3
      <4> QED BY <4>1, <4>2
    <3>6. siblings' \subseteq nodes'
      <4>1. \A q : siblingOf(q)' = siblingOf(q)
        BY <1>2 DEF siblingOf
      <4>2. siblings' = UNION {siblingOf(PathOf[x]) : x \in {j \in Keys : branch'[j] = "updatable"}}
        BY <4>1 DEF siblings
      <4> QED BY <3>5, <4>2
    <3>7. values'[p] = oldMap'[p]
      <4>1. CASE value # DefaultValue
        BY <1>2, <1>7, <3>1, <4>1
      <4>2. CASE value = DefaultValue
        BY <1>2, <1>7, <3>1, <4>2 DEF ValuesSound
      <4> QED BY <4>1, <4>2
    <3>8. \A q \in added' : values'[q] = oldMap'[q]
      BY <1>8, <2>1, <3>3, <3>7, AddedPaths
    <3>9. (addedNodes \cup siblings)' \subseteq nodes'
      BY <3>4, <3>6
    <3> QED BY <1>1, <1>10, <3>8, <3>9, PartIdle
  <2> QED BY <1>a, <2>2, <2>3
<1> QED BY <1>11, <1>12

\* The invariant of the partial stores.
LEMMA PartKeeps ==
  ASSUME TypeOK, CallInvariant, ValuesSound, BranchTypeOK, PartInvariant,
         [DeepNext]_deepVars, TypeOK', CallInvariant'
  PROVE  BranchTypeOK' /\ PartInvariant'
<1>1. CASE UNCHANGED deepVars
  <2>1. /\ UNCHANGED <<nodes, values, root, pc, op, side, pnodes, i, cur, npr, err>>
        /\ UNCHANGED <<branch, clean>>
    BY <1>1 DEF deepVars, vars, tree, locals
  <2>2. added' = added
    BY <2>1 DEF added
  <2>3. /\ oldMap' = oldMap /\ newMap' = newMap /\ offNodes' = offNodes
        /\ \A D : oldNodes(D)' = oldNodes(D)
        /\ \A D : newNodes(D)' = newNodes(D)
        /\ addedNodes' = addedNodes /\ keptNodes' = keptNodes
        /\ \A p : siblingOf(p)' = siblingOf(p)
    BY <2>1, <2>2, DeepFrame
  <2>4. /\ oldLeaf' = oldLeaf /\ keyIsEmpty' = keyIsEmpty /\ newLeaf' = newLeaf
        /\ topLevel' = topLevel
    BY <2>1, SliceFrame
  <2>5. spineLevel' = spineLevel /\ siblings' = siblings /\ reading' = reading
    BY <2>1, <2>3, <2>4 DEF spineLevel, siblings, reading
  <2>6. BranchTypeOK'
    BY <2>1 DEF BranchTypeOK
  <2>7. clean => ReadPartInv'
    BY <2>1, <2>2, <2>3, <2>5 DEF PartInvariant, ReadPartInv
  <2>8. clean => DeletePartInv'
    BY <2>1, <2>2, <2>3, <2>4, <2>5 DEF PartInvariant, DeletePartInv, oldLeft
  <2>9. clean => UpdatePartInv'
    BY <2>1, <2>2, <2>3, <2>4, <2>5 DEF PartInvariant, UpdatePartInv, oldLeft
  <2> QED BY <2>1, <2>6, <2>7, <2>8, <2>9 DEF PartInvariant
<1> QED BY <1>1, PartBranch, PartCall, PartStep, BranchTypeStep DEF DeepNext

LEMMA PartHolds == DeepSpec => [](BranchTypeOK /\ PartInvariant)
<1>1. DeepInit => BranchTypeOK /\ PartInvariant
  <2> SUFFICES ASSUME DeepInit PROVE BranchTypeOK /\ PartInvariant
    OBVIOUS
  <2>1. pc = "idle" /\ branch = [k \in Keys |-> "none"] /\ clean = TRUE
    BY DEF DeepInit
  <2>2. added = {} /\ siblings = {}
    BY <2>1 DEF added, siblings
  <2>3. addedNodes = {}
    BY <2>2 DEF addedNodes
  <2>4. BranchTypeOK
    BY <2>1 DEF BranchTypeOK
  <2> QED BY <2>1, <2>2, <2>3, <2>4
       DEF PartInvariant, ReadPartInv, DeletePartInv, UpdatePartInv
<1>2. TypeOK /\ CallInvariant /\ ValuesSound /\ BranchTypeOK /\ PartInvariant
        /\ [DeepNext]_deepVars /\ TypeOK' /\ CallInvariant' => BranchTypeOK' /\ PartInvariant'
  BY PartKeeps
<1> QED BY <1>1, <1>2, PartialCallsFollow, ValuesStaySound, PTL DEF DeepSpec

-----------------------------------------------------------------------------
\* What a call on an added key finds.

\* The nodes that the walk of a call on an added key reads are in the store.
LEMMA BranchWalks ==
  ASSUME TypeOK, CallInvariant, PartInvariant, clean, op.path \in added, pc \in {"root", "walk"}
  PROVE  ~ keyMissing
<1> DEFINE n == Len(side)
<1>1. op.path \in added => oldNodes(0 .. Depth) \subseteq nodes
  <2>1. addedNodes \cup siblings \subseteq nodes
    BY DEF PartInvariant, ReadPartInv, reading
  <2> QED BY <2>1, NodesAtHand
<1>2. /\ Depth \in Nat /\ n \in 0 .. Depth /\ 0 \in 0 .. Depth
      /\ oldMap \in Maps /\ op.path \in Paths
  BY RunningCall
<1>3. \A d \in 0 .. Depth : SubtreeRoot(oldBelow(d), d) \in nodes \cup {Placeholder}
  <2> SUFFICES ASSUME NEW d \in 0 .. Depth, oldBelow(d) # {}
               PROVE  SubtreeRoot(oldBelow(d), d) \in oldNodes(0 .. Depth)
    BY <1>1, SubtreeRootCases
  <2> QED BY OnPathNodes DEF oldNodes, oldBelow
<1>4. CASE pc = "root"
  <2>1. op.root = SubtreeRoot(EntriesOf(oldMap), 0)
    BY <1>4 DEF CallInvariant, CallInv, RootInv
  <2>2. oldBelow(0) = EntriesOf(oldMap)
    BY DEF oldBelow, Below
  <2> QED BY <1>2, <1>3, <1>4, <2>1, <2>2 DEF keyMissing
<1>5. CASE pc = "walk"
  <2>1. n + 1 \in 0 .. Depth /\ nextNode = SubtreeRoot(oldBelow(n + 1), n + 1)
    <3>1. n \in 0 .. Depth - 1 /\ nextNode = SubtreeRoot(oldBelow(n + 1), n + 1)
      BY <1>5, NextChildren
    <3> QED BY <1>2, <3>1
  <2> QED BY <1>3, <1>5, <2>1 DEF keyMissing
<1> QED BY <1>4, <1>5

\* A call on an added key finds all it asks the stores for, except the sibling of
\* the leaf that a delete removes.
LEMMA BranchServes ==
  ASSUME TypeOK, CallInvariant, BranchTypeOK, PartInvariant, clean,
         pc # "idle", op.kind = "update", op.path \in added, ~ (pc = "bubble" /\ i = 0)
  PROVE  ~ keyMissing
<1> DEFINE n == Len(side)
           d == n - i
<1>1. /\ Depth \in Nat /\ n \in 0 .. Depth /\ 0 \in 0 .. n
      /\ oldMap \in Maps /\ op.path \in Paths /\ EntriesOf(oldMap) \in SUBSET Entries
  BY RunningCall, DepthAssumption
<1>2. CASE pc = "orphan" /\ ~ keyIsEmpty
  <2>1. oldNodes(0 .. d) \subseteq nodes
    BY <1>2 DEF PartInvariant, DeletePartInv, oldLeft
  <2>2. i \in 0 .. n
    BY <1>2 DEF TypeOK, LoopTypeOK
  <2>3. /\ d \in 0 .. d /\ pathNodes(i) = SubtreeRoot(oldBelow(d), d)
        /\ oldBelow(n) \subseteq oldBelow(d)
    BY <1>1, <1>2, <2>2, PathNodeAt
  <2>4. oldBelow(n) # {}
    BY <1>1, <1>2, OwnLeaf DEF keyIsEmpty
  <2>5. pathNodes(i) \in oldNodes(0 .. d)
    BY <2>3, <2>4, OnPathNodes DEF oldNodes, oldBelow
  <2> QED BY <1>2, <2>1, <2>5 DEF keyMissing
<1>3. CASE pc = "stale"
  <2>1. i > 0 /\ oldNodes(0 .. d) \subseteq nodes
    BY <1>3 DEF PartInvariant, UpdatePartInv, oldLeft
  <2>2. i \in 0 .. n
    BY <1>3 DEF TypeOK, LoopTypeOK
  <2>3. /\ d \in 0 .. d /\ pathNodes(i) = SubtreeRoot(oldBelow(d), d)
        /\ i > 0 => Big(oldBelow(d))
    BY <1>1, <1>3, <2>2, PathNodeAt
  <2>4. oldBelow(d) # {}
    BY <2>1, <2>3 DEF Big
  <2>5. pathNodes(i) \in oldNodes(0 .. d)
    BY <2>3, <2>4, OnPathNodes DEF oldNodes, oldBelow
  <2> QED BY <1>3, <2>1, <2>5 DEF keyMissing
<1>4. CASE pc = "oldleaf"
  <2>1. addedNodes \subseteq nodes /\ oldLeaf # Placeholder
    BY <1>4 DEF PartInvariant, UpdatePartInv
  <2>2. oldBelow(n) # {}
    BY <1>1, <1>4, <2>1, LeafFound DEF CallInvariant
  <2>3. oldLeaf \in oldNodes(0 .. Depth)
    BY <1>1, <1>4, <2>2, OldPathEnds
  <2>4. oldLeaf \in nodes
    BY <2>1, <2>3 DEF addedNodes, oldNodes
  <2> QED BY <1>4, <2>4 DEF keyMissing
<1>5. CASE pc \in {"unset", "oldvalue"}
  <2>1. values[op.path] = oldMap[op.path]
    BY <1>5 DEF PartInvariant, ReadPartInv
  <2>2. oldLeaf # Placeholder /\ oldLeafPath = op.path
    <3>1. CASE pc = "unset"
      BY <3>1 DEF PartInvariant, DeletePartInv, keyIsEmpty
    <3>2. CASE pc = "oldvalue"
      <4>1. oldLeaf # Placeholder /\ commonPrefixCount = Depth
        BY <3>2 DEF PartInvariant, UpdatePartInv, CallInvariant, SpineInv
      <4>2. oldLeafPath \in Paths
        BY <3>2, <4>1, LeafFound DEF CallInvariant, Entries
      <4> QED BY <1>1, <4>1, <4>2, CommonPrefix DEF commonPrefixCount
    <3> QED BY <1>5, <3>1, <3>2
  <2>3. values[op.path] # Absent
    BY <1>5, <2>1, <2>2, OwnLeaf
  <2> QED BY <1>5, <2>3 DEF keyMissing
<1>6. CASE pc \in {"root", "walk"}
  BY <1>6, BranchWalks
<1>7. CASE pc = "sibling"
  BY <1>7 DEF BranchTypeOK
<1>8. CASE \/ pc \notin {"root", "walk", "sibling", "orphan", "bubble", "oldleaf", "stale",
                         "unset", "oldvalue"}
           \/ pc = "orphan" /\ keyIsEmpty
           \/ pc = "bubble" /\ i # 0
  BY <1>8 DEF keyMissing
<1> QED BY <1>2, <1>3, <1>4, <1>5, <1>6, <1>7, <1>8

\* Until a call fails, a key whose branch was added can be written with any
\* value but the default one, whatever was written to it and to its neighbours
\* since: Update finds every node and value it needs (updateWithSideNodes on the
\* stores of deepsubtree.go).
THEOREM BranchesStayWritable == DeepSpec => []AddedWritable
<1>1. TypeOK /\ CallInvariant /\ BranchTypeOK /\ PartInvariant => AddedWritable
  <2> SUFFICES ASSUME TypeOK, CallInvariant, BranchTypeOK, PartInvariant, clean, keyMissing,
                      NEW k \in Keys, branch[k] # "none", writing(k)
               PROVE  op.value = DefaultValue
    BY DEF AddedWritable
  <2>1. pc # "idle" /\ op.kind = "update" /\ op.path \in added
    BY DEF writing, added
  <2>2. pc = "bubble"
    BY <2>1, BranchServes
  <2> QED BY <2>2 DEF TypeOK, CallTypeOK, DeleteLabels
<1> QED BY <1>1, PartialCallsFollow, PartHolds, PTL

\* Until a call fails, and as long as the root is the one that an updatable branch
\* was added under, its key can be written and deleted: the sibling that
\* deleteWithSideNodes reads is there too (AddBranch in deepsubtree.go).
THEOREM UpdatableWhileFresh == DeepSpec => []FreshUpdatable
<1>1. TypeOK /\ CallInvariant /\ BranchTypeOK /\ PartInvariant => FreshUpdatable
  <2> SUFFICES ASSUME TypeOK, CallInvariant, BranchTypeOK, PartInvariant, clean, keyMissing,
                      NEW k \in Keys, writing(k), branch[k] = "updatable"
               PROVE  FALSE
    BY DEF FreshUpdatable
  <2>1. pc # "idle" /\ op.kind = "update" /\ op.path \in added /\ op.path = PathOf[k]
    BY DEF writing, added
  <2>2. pc = "bubble" /\ i = 0
    BY <2>1, BranchServes
  <2>3. siblingOf(op.path) \subseteq nodes
    BY <2>1, <2>2 DEF PartInvariant, DeletePartInv
  <2>4. Len(side) \in Nat /\ 0 \in 0 .. Len(side) - 1
    BY <2>2 DEF TypeOK, SliceTypeOK, IsSlice, LoopTypeOK
  <2>5. Len(side) # 0 /\ Len(side) - 0 = Len(side)
    BY <2>4
  <2>6. siblingOf(op.path) = {side[Len(side)]}
    BY <2>2, <2>5, SiblingOff
  <2>7. sideNodes(i) = side[Len(side)]
    BY <2>2, <2>5 DEF sideNodes, Reversed
  <2> QED BY <2>2, <2>3, <2>6, <2>7 DEF keyMissing
<1> QED BY <1>1, PartialCallsFollow, PartHolds, PTL

\* Until a call fails, a key whose branch was added can be read with Get and
\* with GetDescend, whatever was written to it or to other keys since: the
\* descent never meets a node that is missing, and the value is the committed one
\* (AddBranch and GetDescend in deepsubtree.go, Get in smt.go).
THEOREM BranchesStayReadable == DeepSpec => []AddedReadable
<1>1. TypeOK /\ CallInvariant /\ PartInvariant => AddedReadable
  <2> SUFFICES ASSUME TypeOK, CallInvariant, PartInvariant, clean, pc = "idle",
                      NEW k \in Keys, branch[k] # "none"
               PROVE  Get(k) = committed(k) /\ GetDescend(k) = committed(k)
    BY DEF AddedReadable
  <2> DEFINE p  == PathOf[k]
             L  == EntriesOf(oldMap)
             at == Descent(root, p)
             leaf == at[Depth]
  <2>1. /\ oldMap \in Maps /\ p \in Paths /\ root = SubtreeRoot(L, 0) /\ p \in added
        /\ oldMap[p] = CommittedValue(root, p)
    BY SMTAssumption DEF CallInvariant, RootInv, added, oldMap, CommittedMap
  <2>2. addedNodes \subseteq nodes /\ values[p] = oldMap[p]
    BY <2>1 DEF PartInvariant, ReadPartInv, reading
  <2>3. Get(k) = committed(k)
    <3>1. root = Placeholder => oldMap[p] = Absent
      <4> SUFFICES ASSUME root = Placeholder PROVE oldMap[p] = Absent
        OBVIOUS
      <4>1. L \in SUBSET Entries
        BY <2>1, MapEntries
      <4>2. 0 \in 0 .. Depth /\ 0 < Depth
        BY DepthAssumption
      <4>3. L = {}
        BY <2>1, <4>1, <4>2, RootShape
      <4>4. /\ <<p, oldMap[p]>> \in L <=> oldMap[p] \in Values
            /\ oldMap[p] \in Values <=> oldMap[p] # Absent
        BY <2>1, MapEntries
      <4> QED BY <4>3, <4>4
    <3> QED BY <2>1, <2>2, <3>1 DEF Get, committed
  <2>4. ASSUME NEW d \in 0 .. Depth PROVE at[d] \in nodes \cup {Placeholder}
    <3>1. PICK c \in 0 .. d : at[d] = SubtreeRoot(Below(L, p, c), c)
      BY <2>1, DescentLevels
    <3>2. c \in 0 .. Depth
      BY DepthAssumption
    <3>3. CASE Below(L, p, c) = {}
      BY <3>1, <3>2, <3>3, SubtreeRootCases
    <3>4. CASE Below(L, p, c) # {}
      <4>1. at[d] \in OnPath(L, p, 0 .. Depth)
        BY <3>1, <3>2, <3>4 DEF OnPath
      <4> QED BY <2>1, <2>2, <4>1 DEF addedNodes
    <3> QED BY <3>3, <3>4
  <2>5. ~ \E d \in 0 .. Depth - 1 : at[d] \notin nodes \cup {Placeholder}
    <3>1. \A d \in 0 .. Depth - 1 : d \in 0 .. Depth
      BY DepthAssumption
    <3> QED BY <2>4, <3>1
  <2>6. CASE leaf = Placeholder \/ Data(leaf).path # p
    <3>1. CommittedValue(root, p) = Absent
      BY <2>6 DEF CommittedValue
    <3> QED BY <2>3, <2>5, <2>6, <3>1 DEF GetDescend, committed
  <2>7. CASE ~ (leaf = Placeholder \/ Data(leaf).path # p)
    <3>1. CommittedValue(root, p) # Absent
      <4>1. PICK m \in Maps : m = oldMap
        BY <2>1
      <4>2. PICK c \in 0 .. Depth : ~ Big(Below(L, p, c)) /\ leaf = SubtreeRoot(Below(L, p, c), c)
        BY <2>1, <4>1, DescentRests
      <4>3. Below(L, p, c) # {} /\ Below(L, p, c) \in SUBSET Entries
        <5>1. Below(L, p, c) # {}
          BY <2>7, <4>2, SubtreeRootCases
        <5> QED BY <2>1, <5>1, MapEntries DEF Below
      <4>4. PICK e \in Below(L, p, c) : Below(L, p, c) = {e}
        BY <4>2, <4>3, BigFacts
      <4>5. leaf = EntryHash(e) /\ e \in Entries
        BY <4>2, <4>3, <4>4, SubtreeRootCases
      <4>6. e[1] = p
        BY <2>7, <4>5, DigestFacts DEF EntryHash, digestLeaf
      <4>7. e \in L
        BY <4>4 DEF Below
      <4>8. oldMap[p] = e[2] /\ e[2] \in Values
        BY <4>5, <4>6, <4>7 DEF EntriesOf, Entries
      <4> QED BY <2>1, <4>8, ValuesAssumption
    <3> QED BY <2>1, <2>2, <2>3, <2>5, <2>7, <3>1 DEF GetDescend, committed
  <2> QED BY <2>3, <2>6, <2>7
<1> QED BY <1>1, PartialCallsFollow, PartHolds, PTL

-----------------------------------------------------------------------------
(***************************************************************************)
(* Calls that name a root.  A call is on one tree while the stores hold    *)
(* the nodes of others, and the tree's own root is another one still.      *)
(* What a call does between its start and its return is what it would do   *)
(* on a tree whose root is the one it was given, so the proof takes the    *)
(* call invariant of SMTInvariant for that tree, by instance.              *)
(***************************************************************************)
\* The running call as Update or Prove would make it on a tree whose root is
\* the one that the call was given.
ownOp == [kind |-> op.kind, path |-> op.path, value |-> op.value, root |-> op.root,
          getSiblingData |-> op.getSiblingData, publish |-> (op.kind = "update")]

Own == INSTANCE SMTTheorems WITH root <- op.root, op <- ownOp

\* A root that the reference tree has, for the map that it commits to.
canonical(r) == CommittedMap(r) \in Maps /\ r = SubtreeRoot(EntriesOf(CommittedMap(r)), 0)

\* The inductive invariant: the caller holds roots of reference trees only, and
\* a running call is what the same call would be on a tree with the given root.
HeldInv == (\A r \in held : canonical(r)) /\ root \in held
NamedInv ==
    pc # "idle" => /\ op.root \in held /\ op.publish = FALSE /\ reply = NoReply
                   /\ Own!CallInvariant
NamedRootsInvariant == TypeOK /\ HeldInv /\ NamedInv

\* A call that began on a complete tree still covers what it needs of it.
WholeInvariant == pc # "idle" /\ whole => Own!CoverInvariant

\* Digests do not depend on the state, so the instance has the same ones.
LEMMA SameDigests ==
  /\ Own!Placeholder = Placeholder /\ Own!Paths = Paths
  /\ \A h : Own!Data(h) = Data(h)
  /\ \A x : Own!isLeaf(x) = isLeaf(x)
  /\ \A x : Own!digest(x) = digest(x)
  /\ \A p, x : Own!digestLeaf(p, x) = digestLeaf(p, x)
  /\ \A p, d, s, x : Own!digestParent(p, d, s, x) = digestParent(p, d, s, x)
  /\ \A x, p, d : Own!childOnPath(x, p, d) = childOnPath(x, p, d)
  /\ \A x, p, d : Own!childOffPath(x, p, d) = childOffPath(x, p, d)
  /\ \A p, q : Own!countCommonPrefix(p, q) = countCommonPrefix(p, q)
  BY DEF Placeholder, Own!Placeholder, Paths, Own!Paths, Bits, Own!Bits, Data, Own!Data,
     isLeaf, Own!isLeaf, digest, Own!digest, digestLeaf, Own!digestLeaf,
     digestNode, Own!digestNode, Digest, Own!Digest, RawData, Own!RawData,
     LeafData, Own!LeafData, NodeData, Own!NodeData, digestParent, Own!digestParent,
     childOnPath, Own!childOnPath, childOffPath, Own!childOffPath,
     countCommonPrefix, Own!countCommonPrefix

\* Nor do the reference trees and what a root commits to.
LEMMA SameTrees ==
  /\ Own!Maps = Maps /\ Own!Entries = Entries
  /\ \A m : Own!EntriesOf(m) = EntriesOf(m)
  /\ \A L, d : Own!SubtreeRoot(L, d) = SubtreeRoot(L, d)
  /\ \A L : Own!TreeNodes(L) = TreeNodes(L)
  /\ \A r : Own!CommittedMap(r) = CommittedMap(r)
<1>1. Own!Maps = Maps /\ Own!Entries = Entries
  BY SameDigests DEF Maps, Own!Maps, Entries, Own!Entries
<1>2. \A m : Own!EntriesOf(m) = EntriesOf(m)
  BY <1>1 DEF EntriesOf, Own!EntriesOf
<1>3. Own!SubtreeRootAt = SubtreeRootAt
  BY DEF SubtreeRootAt, Own!SubtreeRootAt, Entries, Own!Entries, Paths, Own!Paths, Bits, Own!Bits,
     EntryHash, Own!EntryHash, Half, Own!Half, digestNode, Own!digestNode,
     digestLeaf, Own!digestLeaf, digest, Own!digest, Digest, Own!Digest,
     RawData, Own!RawData, LeafData, Own!LeafData, NodeData, Own!NodeData,
     Placeholder, Own!Placeholder
<1>4. \A L, d : Own!SubtreeRoot(L, d) = SubtreeRoot(L, d)
  BY <1>3 DEF SubtreeRoot, Own!SubtreeRoot
<1>5. \A r, p : Own!CommittedValue(r, p) = CommittedValue(r, p)
  BY DEF CommittedValue, Own!CommittedValue, Descent, Own!Descent, Placeholder, Own!Placeholder,
     isLeaf, Own!isLeaf, Data, Own!Data, childOnPath, Own!childOnPath,
     digest, Own!digest, Digest, Own!Digest, RawData, Own!RawData
<1>6. \A r : Own!CommittedMap(r) = CommittedMap(r)
  BY <1>5, SameDigests DEF CommittedMap, Own!CommittedMap
<1>7. \A L, p, d : Own!Below(L, p, d) = Below(L, p, d)
  BY DEF Below, Own!Below
<1>8. \A L : Own!TreeNodes(L) = TreeNodes(L)
  <2> TAKE L
  <2>1. \A x : x \in Own!TreeNodes(L) <=> x \in TreeNodes(L)
    BY <1>4, <1>7 DEF TreeNodes, Own!TreeNodes
  <2> QED BY <2>1 DEF TreeNodes, Own!TreeNodes
<1> QED BY <1>1, <1>2, <1>4, <1>6, <1>8

\* The instance keeps the constants and what is assumed of them.
LEMMA SameAssumptions == Own!DepthAssumption /\ Own!ValuesAssumption /\ Own!SMTAssumption
  BY DepthAssumption, ValuesAssumption, SMTAssumption, SameDigests
     DEF Own!DepthAssumption, Own!ValuesAssumption, Own!SMTAssumption

\* A call that is well typed is well typed on the tree that it names.
LEMMA SameTypes == TypeOK => Own!TypeOK
  BY SameDigests DEF TypeOK, Own!TypeOK, CallTypeOK, Own!CallTypeOK, ownOp,
     SliceTypeOK, Own!SliceTypeOK, LoopTypeOK, Own!LoopTypeOK, FlagTypeOK, Own!FlagTypeOK,
     IsSlice, Own!IsSlice, Labels, Own!Labels, DeleteLabels, Own!DeleteLabels,
     UpdateLabels, Own!UpdateLabels

\* What the walk found is the same, too.
LEMMA SameLeaf ==
  /\ Own!oldLeaf = oldLeaf /\ Own!oldLeafPath = oldLeafPath
  /\ Own!keyIsEmpty = keyIsEmpty /\ Own!commonPrefixCount = commonPrefixCount
  /\ Own!newLeaf = newLeaf
  /\ \A k : Own!sideNodes(k) = sideNodes(k) /\ Own!pathNodes(k) = pathNodes(k)
  BY SameDigests DEF oldLeaf, Own!oldLeaf, oldLeafPath, Own!oldLeafPath, keyIsEmpty,
     Own!keyIsEmpty, commonPrefixCount, Own!commonPrefixCount, newLeaf, Own!newLeaf,
     sideNodes, Own!sideNodes, pathNodes, Own!pathNodes, Reversed, Own!Reversed, ownOp

\* A step within a call does not look at the tree's own root.
LEMMA SameInside ==
  ASSUME TypeOK, pc # "idle", Step, pc' # "idle"
  PROVE  Own!Step
<1>0. \A label, index : Goto(label, index) => Own!Goto(label, index)
  BY DEF Goto, Own!Goto, ownOp
<1>1. CASE FillRoot
  <2>1. Own!FillRoot
    BY <1>0, <1>1, SameDigests DEF FillRoot, Own!FillRoot, afterWalk, Own!afterWalk, ownOp
  <2> QED BY <2>1 DEF Own!Step
<1>2. CASE FillStep
  <2>1. Own!FillStep
    BY <1>0, <1>2, SameDigests DEF FillStep, Own!FillStep, afterWalk, Own!afterWalk, ownOp,
       nextNode, Own!nextNode, nextSide, Own!nextSide, nextData, Own!nextData,
       walkEnds, Own!walkEnds
  <2> QED BY <2>1 DEF Own!Step
<1>3. CASE FillSibling
  <2>1. Own!FillSibling
    BY <1>0, <1>3 DEF FillSibling, Own!FillSibling, afterWalk, Own!afterWalk, ownOp
  <2> QED BY <2>1 DEF Own!Step
<1>4. CASE DeletePathNode
  <2>1. Own!DeletePathNode
    BY <1>0, <1>4, SameLeaf DEF DeletePathNode, Own!DeletePathNode
  <2> QED BY <2>1 DEF Own!Step
<1>5. NextSideNode => Own!NextSideNode
  BY <1>0 DEF NextSideNode, Own!NextSideNode
<1>6. CASE BubbleLeaf
  <2>1. Own!BubbleLeaf
    BY <1>5, <1>6, SameLeaf, SameDigests DEF BubbleLeaf, Own!BubbleLeaf
  <2> QED BY <2>1 DEF Own!Step
<1>7. CASE BubbleSkip
  <2>1. Own!BubbleSkip
    BY <1>5, <1>7, SameLeaf, SameDigests DEF BubbleSkip, Own!BubbleSkip
  <2> QED BY <2>1 DEF Own!Step
<1>8. CASE BubbleNode
  <2>1. Own!BubbleNode
    BY <1>5, <1>8, SameLeaf, SameDigests DEF BubbleNode, Own!BubbleNode, ownOp
  <2> QED BY <2>1 DEF Own!Step
<1>9. \A index : RemoveStale(index) => Own!RemoveStale(index)
  BY <1>0 DEF RemoveStale, Own!RemoveStale
<1>10. CASE SetLeaf
  <2>1. ~ ReturnRoot(root)
    BY DEF ReturnRoot, Return
  <2>2. Own!SetLeaf
    BY <1>0, <1>9, <1>10, <2>1, SameLeaf, SameDigests DEF SetLeaf, Own!SetLeaf, ownOp
  <2> QED BY <2>2 DEF Own!Step
<1>11. CASE Fork
  <2>1. Own!Fork
    BY <1>9, <1>11, SameLeaf, SameDigests DEF Fork, Own!Fork, ownOp
  <2> QED BY <2>1 DEF Own!Step
<1>12. CASE DeleteOldLeaf
  <2>1. Own!DeleteOldLeaf
    BY <1>0, <1>12, SameLeaf DEF DeleteOldLeaf, Own!DeleteOldLeaf
  <2> QED BY <2>1 DEF Own!Step
<1>13. CASE DeleteOldValue
  <2>1. Own!DeleteOldValue
    BY <1>9, <1>13 DEF DeleteOldValue, Own!DeleteOldValue, ownOp
  <2> QED BY <2>1 DEF Own!Step
<1>14. CASE DeleteStale
  <2>1. Own!DeleteStale
    BY <1>9, <1>14, SameLeaf DEF DeleteStale, Own!DeleteStale
  <2> QED BY <2>1 DEF Own!Step
<1>15. /\ spineHasSibling <=> Own!spineHasSibling
       /\ Own!spineSibling = spineSibling
       /\ NextSpine => Own!NextSpine
  BY <1>0, SameLeaf, SameDigests DEF spineHasSibling, Own!spineHasSibling, spineSibling,
     Own!spineSibling, offsetOfSideNodes, Own!offsetOfSideNodes, NextSpine, Own!NextSpine
<1>16. CASE SpineSkip
  <2>1. Own!SpineSkip
    BY <1>15, <1>16 DEF SpineSkip, Own!SpineSkip
  <2> QED BY <2>1 DEF Own!Step
<1>17. CASE SpineNode
  <2>1. Own!SpineNode
    BY <1>15, <1>17, SameDigests DEF SpineNode, Own!SpineNode, ownOp
  <2> QED BY <2>1 DEF Own!Step
<1>18. CASE InvalidKey \/ StoreFault
  <2>1. keyMissing <=> Own!keyMissing
    BY SameLeaf, SameDigests DEF keyMissing, Own!keyMissing, ownOp, nextNode, Own!nextNode,
       nextData, Own!nextData
  <2>2. callsStore <=> Own!callsStore
    BY <1>15, <2>1, SameLeaf, SameDigests DEF callsStore, Own!callsStore, ownOp,
       nextNode, Own!nextNode, nextData, Own!nextData
  <2>3. OnError => Own!OnError
    BY <1>0 DEF OnError, Own!OnError, ReturnError, Return
  <2>4. Own!InvalidKey \/ Own!StoreFault
    BY <1>18, <2>1, <2>2, <2>3 DEF InvalidKey, Own!InvalidKey, StoreFault, Own!StoreFault
  <2> QED BY <2>4 DEF Own!Step
<1>19. ~ (AlreadyEmpty \/ DeleteValue \/ SetValue \/ ProveReturn)
  BY DEF AlreadyEmpty, DeleteValue, SetValue, ProveReturn, ReturnRoot, ReturnError, Return
<1> QED BY <1>1, <1>2, <1>3, <1>4, <1>6, <1>7, <1>8, <1>10, <1>11, <1>12, <1>13, <1>14, <1>16,
           <1>17, <1>18, <1>19 DEF Step

\* A step within a call keeps the tree's own root, the call and the reply.
LEMMA InsideFrame ==
  ASSUME Step, pc' # "idle"
  PROVE  UNCHANGED <<root, op, reply>>
<1>1. CASE FillRoot \/ FillStep \/ FillSibling \/ DeletePathNode \/ BubbleLeaf \/ BubbleSkip
           \/ BubbleNode
  BY <1>1 DEF FillRoot, FillStep, FillSibling, DeletePathNode, BubbleLeaf, BubbleSkip,
     BubbleNode, NextSideNode, Goto
<1>2. CASE SetLeaf \/ Fork \/ DeleteOldLeaf \/ DeleteOldValue \/ DeleteStale \/ SpineSkip
           \/ SpineNode
  BY <1>2 DEF SetLeaf, Fork, DeleteOldLeaf, DeleteOldValue, DeleteStale, SpineSkip, SpineNode,
     RemoveStale, NextSpine, Goto, ReturnRoot, Return
<1>3. CASE InvalidKey \/ StoreFault
  BY <1>3 DEF InvalidKey, StoreFault, OnError, Goto, ReturnError, Return
<1>4. ~ (AlreadyEmpty \/ DeleteValue \/ SetValue \/ ProveReturn)
  BY DEF AlreadyEmpty, DeleteValue, SetValue, ProveReturn, ReturnRoot, ReturnError, Return
<1> QED BY <1>1, <1>2, <1>3, <1>4 DEF Step

\* The map that the call asks for is the one that the call invariant speaks of.
LEMMA SameWanted ==
  ASSUME pc # "idle"
  PROVE  Own!oldMap = CommittedMap(op.root) /\ Own!newMap = wanted
<1>1. Own!oldMap = CommittedMap(op.root)
  BY SameTrees DEF Own!oldMap
<1>2. Own!newMap = wanted
  BY <1>1 DEF Own!newMap, wanted, ownOp
<1> QED BY <1>1, <1>2

\* The steps that end a call with a root.
LEMMA OkReturns ==
  ASSUME Step, pc' = "idle", reply'.status = "ok"
  PROVE  AlreadyEmpty \/ SetValue \/ (DeleteValue /\ ~ err) \/ SetLeaf
  BY DEF Step, FillRoot, FillStep, FillSibling, DeletePathNode, BubbleLeaf, BubbleSkip,
     BubbleNode, NextSideNode, Goto, Fork, DeleteOldLeaf, DeleteOldValue, DeleteStale,
     SpineSkip, SpineNode, RemoveStale, NextSpine, InvalidKey, StoreFault, OnError,
     DeleteValue, ProveReturn, ReturnError, Return, afterWalk

\* Setting the value that is there already returns the tree's own root, and is
\* the only way for SetLeaf to end a call.
LEMMA SameValueReturn ==
  ASSUME NamedRootsInvariant, pc # "idle", SetLeaf, pc' = "idle"
  PROVE  setsSameValue /\ reply'.root = root
<1>0. TypeOK /\ Own!TypeOK /\ Own!CallInvariant
  BY SameTypes DEF NamedRootsInvariant, NamedInv
<1>1. /\ pc = "leaf" /\ oldLeaf # Placeholder /\ commonPrefixCount = Depth
      /\ Data(oldLeaf).valueHash = digest(op.value) /\ reply'.root = root
  BY DEF SetLeaf, RemoveStale, Goto, ReturnRoot, Return
<1>2. Own!RootInv /\ Own!WalkInv /\ Own!oldLeaf # Own!Placeholder
  BY <1>0, <1>1, SameLeaf, SameDigests DEF Own!CallInvariant
<1>3. PICK e \in Entries :
         /\ oldLeafPath = e[1] /\ Data(oldLeaf).valueHash = digest(e[2])
         /\ Own!oldMap[op.path] = IF e[1] = op.path THEN e[2] ELSE Absent
  BY <1>0, <1>1, <1>2, SameAssumptions, Own!LeafFound, SameLeaf, SameDigests, SameTrees DEF ownOp
<1>4. e[1] = op.path
  <2>1. e[1] \in Paths /\ op.path \in Paths /\ countCommonPrefix(op.path, e[1]) = Depth
    BY <1>0, <1>1, <1>3 DEF commonPrefixCount, Entries, TypeOK, CallTypeOK
  <2> QED BY <2>1, CommonPrefix
<1>5. e[2] = op.value
  BY <1>1, <1>3, DigestFacts
<1>6. setsSameValue
  BY <1>3, <1>4, <1>5, SameWanted DEF setsSameValue
<1> QED BY <1>1, <1>6

\* A call that succeeds returns a reference root: that of the map it was asked
\* for, or the tree's own when it sets the value that is there already.
LEMMA ReturnedRoot ==
  ASSUME NamedRootsInvariant, pc # "idle", Step, pc' = "idle"
  PROVE  /\ root' = root
         /\ reply'.status = "ok" => /\ canonical(reply'.root)
                                    /\ ~ setsSameValue => CommittedMap(reply'.root) = wanted
<1>1. /\ TypeOK /\ Own!TypeOK /\ Own!CallInvariant /\ op.publish = FALSE
      /\ canonical(op.root) /\ canonical(root)
  BY SameTypes DEF NamedRootsInvariant, NamedInv, HeldInv
<1>2. root' = root
  BY <1>1 DEF Step, FillRoot, FillStep, FillSibling, DeletePathNode, BubbleLeaf, BubbleSkip,
     BubbleNode, NextSideNode, Goto, SetLeaf, Fork, DeleteOldLeaf, DeleteOldValue, DeleteStale,
     SpineSkip, SpineNode, RemoveStale, NextSpine, InvalidKey, StoreFault, OnError,
     AlreadyEmpty, DeleteValue, SetValue, ProveReturn, ReturnRoot, ReturnError, Return, tree
<1>3. SUFFICES ASSUME reply'.status = "ok"
               PROVE  /\ canonical(reply'.root)
                      /\ ~ setsSameValue => CommittedMap(reply'.root) = wanted
  BY <1>2
<1>4. AlreadyEmpty \/ SetValue \/ (DeleteValue /\ ~ err) \/ SetLeaf
  BY <1>3, OkReturns
<1>5. CASE AlreadyEmpty
  <2>1. pc = "orphan" /\ keyIsEmpty /\ reply'.root = op.root
    BY <1>5 DEF AlreadyEmpty, ReturnRoot, Return
  <2>2. Own!oldMap[ownOp.path] = Absent
    <3>1. Own!RootInv /\ Own!WalkInv /\ Own!keyIsEmpty
      BY <1>1, <2>1, SameLeaf DEF Own!CallInvariant
    <3> QED BY <1>1, <2>1, <3>1, SameAssumptions, Own!LeafFound DEF Own!keyIsEmpty
  <2>3. ownOp.value = DefaultValue /\ Own!RootInv
    BY <1>1, <2>1 DEF Own!CallInvariant, TypeOK, CallTypeOK, DeleteLabels, ownOp
  <2>4. Own!newMap = Own!oldMap
    BY <1>1, <2>1, <2>2, <2>3, SameAssumptions, Own!SameMap
  <2> QED BY <1>1, <2>1, <2>4, SameWanted
<1>6. CASE SetValue \/ (DeleteValue /\ ~ err)
  <2>1. reply'.root = cur /\ (pc = "value" \/ (pc = "unset" /\ err = FALSE))
    BY <1>1, <1>6 DEF SetValue, DeleteValue, ReturnRoot, Return, TypeOK, FlagTypeOK
  <2>2. cur = SubtreeRoot(EntriesOf(Own!newMap), 0)
    BY <1>1, <2>1, SameTrees DEF Own!CallInvariant, Own!ResultInv
  <2>3. Own!newMap \in Maps
    BY <1>1, SameTrees, SameAssumptions, Own!NewMapFacts DEF Own!CallInvariant
  <2>4. CommittedMap(cur) = Own!newMap
    BY <2>2, <2>3, CommittedMapOfRoot
  <2> QED BY <2>1, <2>2, <2>3, <2>4, SameWanted DEF canonical
<1>7. CASE SetLeaf
  BY <1>1, <1>7, SameValueReturn
<1> QED BY <1>4, <1>5, <1>6, <1>7

\* A call starts on a root that the caller holds.
LEMMA NamedCall ==
  ASSUME NamedRootsInvariant, CallForRoot
  PROVE  NamedRootsInvariant'
<1>1. PICK r \in held, k \in Keys :
         \/ \E v \in Values \cup {DefaultValue} : UpdateForRoot(k, v, r)
         \/ \E updatable \in BOOLEAN : ProveForRoot(k, r, updatable)
  BY DEF CallForRoot
<1>2. PathOf[k] \in Paths /\ held' = held
  BY SMTAssumption DEF CallForRoot
<1>3. PICK o : /\ Begin(o) /\ o.kind \in {"update", "prove"} /\ o.path \in Paths
               /\ o.value \in Values \cup {DefaultValue} /\ o.root = r /\ o.publish = FALSE
  <2>1. CASE \E v \in Values \cup {DefaultValue} : UpdateForRoot(k, v, r)
    <3>1. PICK v \in Values \cup {DefaultValue} : Begin(UpdateOp(PathOf[k], v, r, FALSE))
      BY <2>1 DEF UpdateForRoot
    <3> QED BY <1>2, <3>1 DEF UpdateOp
  <2>2. CASE \E updatable \in BOOLEAN : ProveForRoot(k, r, updatable)
    <3>1. PICK updatable \in BOOLEAN : Begin(ProveOp(PathOf[k], r, updatable))
      BY <2>2 DEF ProveForRoot
    <3> QED BY <1>2, <3>1 DEF ProveOp
  <2> QED BY <1>1, <2>1, <2>2
<1>4. TypeOK'
  BY <1>3, TypeBegin DEF NamedRootsInvariant
<1>5. pc' = "root" /\ op' = o /\ reply' = NoReply /\ root' = root
  BY <1>3 DEF Begin, tree
<1>6. HeldInv' /\ canonical(r)
  BY <1>2, <1>5 DEF NamedRootsInvariant, HeldInv
<1>7. Own!CallInvariant'
  <2>1. Own!RootInv'
    BY <1>3, <1>5, <1>6, SameTrees DEF Own!RootInv, Own!oldMap, canonical
  <2>2. Own!CallInv'
    BY <1>3, <1>5 DEF Own!CallInv, ownOp
  <2> QED BY <1>5, <2>1, <2>2 DEF Own!CallInvariant, Own!WalkInv, Own!OrphanInv, Own!BubbleInv,
     Own!SpineInv, Own!ResultInv
<1> QED BY <1>2, <1>3, <1>4, <1>5, <1>6, <1>7 DEF NamedRootsInvariant, NamedInv

\* A step of a call keeps the invariant: within the call it is a step on the tree
\* that the call names, and the root that it returns is of a reference tree.
LEMMA NamedStep ==
  ASSUME NamedRootsInvariant, StepForRoot
  PROVE  NamedRootsInvariant'
<1>1. /\ TypeOK /\ HeldInv /\ Step /\ pc # "idle"
      /\ held' = held \cup IF reply'.status = "ok" THEN {reply'.root} ELSE {}
  <2>1. Step => pc # "idle"
    BY DEF Step, FillRoot, FillStep, FillSibling, DeletePathNode, BubbleLeaf, BubbleSkip,
       BubbleNode, SetLeaf, Fork, DeleteOldLeaf, DeleteOldValue, DeleteStale,
       SpineSkip, SpineNode, InvalidKey, StoreFault, keyMissing, callsStore,
       AlreadyEmpty, DeleteValue, SetValue, ProveReturn
  <2> QED BY <2>1 DEF NamedRootsInvariant, StepForRoot
<1>2. TypeOK'
  BY <1>1, TypeStep
<1>3. CASE pc' = "idle"
  <2>1. HeldInv'
    BY <1>1, <1>3, ReturnedRoot DEF HeldInv
  <2> QED BY <1>2, <1>3, <2>1 DEF NamedRootsInvariant, NamedInv
<1>4. CASE pc' # "idle"
  <2>1. /\ UNCHANGED <<root, op, reply>> /\ op.root \in held /\ op.publish = FALSE
        /\ reply = NoReply /\ Own!CallInvariant
    BY <1>1, <1>4, InsideFrame DEF NamedRootsInvariant, NamedInv
  <2>2. held' = held
    BY <1>1, <2>1 DEF NoReply
  <2>3. Own!CallInvariant'
    BY <1>1, <1>4, <2>1, SameTypes, SameInside, SameAssumptions, Own!StepEffect
  <2> QED BY <1>1, <1>2, <2>1, <2>2, <2>3 DEF NamedRootsInvariant, NamedInv, HeldInv
<1> QED BY <1>3, <1>4

\* Every step keeps the invariant.
LEMMA NamedKeeps == NamedRootsInvariant /\ [RootNext]_rootVars => NamedRootsInvariant'
<1> SUFFICES ASSUME NamedRootsInvariant, [RootNext]_rootVars PROVE NamedRootsInvariant'
  OBVIOUS
<1>1. CASE \E r \in held : SetRoot(r)
  <2>1. PICK r \in held : SetRoot(r)
    BY <1>1
  <2>2. pc' = "idle" /\ root' = r /\ UNCHANGED <<values, pc, op, locals, faults, held>>
    BY <2>1 DEF SetRoot
  <2>3. TypeOK'
    BY <2>2 DEF NamedRootsInvariant, TypeOK, CallTypeOK, SliceTypeOK, LoopTypeOK, FlagTypeOK,
       IsSlice, locals
  <2> QED BY <2>2, <2>3 DEF NamedRootsInvariant, HeldInv, NamedInv
<1>2. CASE UNCHANGED rootVars
  <2>1. UNCHANGED <<values, root, pc, op, side, pnodes, i, cur, npr, err, reply, faults, held>>
    BY <1>2 DEF rootVars, vars, tree, locals
  <2>2. TypeOK'
    BY <2>1 DEF NamedRootsInvariant, TypeOK, CallTypeOK, SliceTypeOK, LoopTypeOK, FlagTypeOK,
       IsSlice
  <2>3. Own!CallInvariant => Own!CallInvariant'
    <3>1. UNCHANGED Own!vars
      BY <1>2 DEF rootVars, vars, tree, locals, Own!vars, Own!tree, Own!locals, ownOp
    <3> QED BY <3>1, SameAssumptions, Own!InvStutter
  <2> QED BY <2>1, <2>2, <2>3 DEF NamedRootsInvariant, HeldInv, NamedInv
<1> QED BY <1>1, <1>2, NamedCall, NamedStep DEF RootNext

\* Whichever roots a caller names and whatever order it names them in, every root
\* it is given is one of the reference tree, and a running call has gathered the
\* path and the siblings of the tree it was given, not of the tree's own root
\* (UpdateForRoot, ProveForRoot and SetRoot in smt.go).
THEOREM NamedRootsHold == RootSpec => []NamedRootsInvariant
<1>1. RootInit => NamedRootsInvariant
  <2> SUFFICES ASSUME RootInit PROVE NamedRootsInvariant
    OBVIOUS
  <2>1. TypeOK /\ CallInvariant
    BY TypeInit, InvInit DEF RootInit
  <2>2. pc = "idle" /\ root = Placeholder /\ held = {Placeholder}
    BY DEF RootInit, Init
  <2>3. canonical(root)
    BY <2>1 DEF CallInvariant, RootInv, oldMap, canonical
  <2> QED BY <2>1, <2>2, <2>3 DEF NamedRootsInvariant, HeldInv, NamedInv
<1> QED BY <1>1, NamedKeeps, PTL DEF RootSpec

\* A call that succeeds and changes its key returns the root of the given root's
\* map with that key set, whichever other trees share the stores and whichever
\* store calls fail (ChangesNamedRoot).
THEOREM NamedRootsChange == RootSpec => ChangesNamedRoot
<1>1. NamedRootsInvariant /\ [RootNext]_rootVars
         => [returns /\ ~ setsSameValue => CommittedMap(reply'.root) = wanted]_rootVars
  <2> SUFFICES ASSUME NamedRootsInvariant, RootNext, returns, ~ setsSameValue
               PROVE  CommittedMap(reply'.root) = wanted
    OBVIOUS
  <2>1. Step /\ pc # "idle" /\ pc' = "idle" /\ reply'.status = "ok"
    BY DEF returns, RootNext, CallForRoot, StepForRoot, SetRoot
  <2> QED BY <2>1, ReturnedRoot
<1> QED BY <1>1, NamedRootsHold, PTL DEF RootSpec, ChangesNamedRoot

\* The same for complete trees: a call notes at its start whether its tree is
\* complete, and no step of it loses what it needs.
LEMMA WholeKeeps ==
  ASSUME NamedRootsInvariant, WholeInvariant, [RootNext]_rootVars, NamedRootsInvariant'
  PROVE  WholeInvariant'
<1>1. CASE CallForRoot
  <2>1. PICK r \in held, k \in Keys :
           /\ whole' = Complete(r)
           /\ \/ \E v \in Values \cup {DefaultValue} : UpdateForRoot(k, v, r)
              \/ \E updatable \in BOOLEAN : ProveForRoot(k, r, updatable)
    BY <1>1 DEF CallForRoot
  <2>2. PICK o : Begin(o) /\ o.root = r
    <3>1. CASE \E v \in Values \cup {DefaultValue} : UpdateForRoot(k, v, r)
      <4>1. PICK v \in Values \cup {DefaultValue} : Begin(UpdateOp(PathOf[k], v, r, FALSE))
        BY <3>1 DEF UpdateForRoot
      <4> QED BY <4>1 DEF UpdateOp
    <3>2. CASE \E updatable \in BOOLEAN : ProveForRoot(k, r, updatable)
      <4>1. PICK updatable \in BOOLEAN : Begin(ProveOp(PathOf[k], r, updatable))
        BY <3>2 DEF ProveForRoot
      <4> QED BY <4>1 DEF ProveOp
    <3> QED BY <2>1, <3>1, <3>2
  <2>3. pc' = "root" /\ op'.root = r /\ nodes' = nodes
    BY <2>2 DEF Begin, tree
  <2>4. Own!oldMap' = CommittedMap(r)
    BY <2>3, SameTrees DEF Own!oldMap
  <2>5. whole' => Own!TreeNodes(Own!EntriesOf(Own!oldMap')) \subseteq nodes'
    BY <2>1, <2>3, <2>4, SameTrees DEF Complete
  <2> QED BY <2>3, <2>5 DEF WholeInvariant, Own!CoverInvariant, Own!ReadCover, Own!DeleteCover,
       Own!UpdateCover
<1>2. CASE StepForRoot /\ pc' # "idle"
  <2>1. Step /\ whole' = whole /\ TypeOK /\ TypeOK'
    BY <1>2 DEF StepForRoot, NamedRootsInvariant
  <2>2. pc # "idle"
    BY <2>1 DEF Step, FillRoot, FillStep, FillSibling, DeletePathNode, BubbleLeaf, BubbleSkip,
       BubbleNode, SetLeaf, Fork, DeleteOldLeaf, DeleteOldValue, DeleteStale,
       SpineSkip, SpineNode, InvalidKey, StoreFault, keyMissing, callsStore,
       AlreadyEmpty, DeleteValue, SetValue, ProveReturn
  <2>3. Own!TypeOK /\ Own!CallInvariant /\ Own!Step /\ Own!CallInvariant'
    BY <1>2, <2>1, <2>2, SameTypes, SameInside DEF NamedRootsInvariant, NamedInv
  <2>4. Own!TypeOK'
    BY <2>3, SameAssumptions, Own!TypeStep
  <2>5. Own!CoverInvariant => Own!CoverInvariant'
    BY <1>2, <2>3, <2>4, SameAssumptions, Own!CoverStep
  <2> QED BY <2>1, <2>2, <2>5 DEF WholeInvariant
<1>3. CASE pc' = "idle"
  BY <1>3 DEF WholeInvariant
<1>4. CASE UNCHANGED rootVars
  <2>1. UNCHANGED <<nodes, pc, op, side, pnodes, i, err, whole>>
    BY <1>4 DEF rootVars, vars, tree, locals
  <2>2. Own!CoverInvariant => Own!CoverInvariant'
    BY <2>1, SameAssumptions, Own!CoverStutter DEF ownOp
  <2> QED BY <2>1, <2>2 DEF WholeInvariant
<1> QED BY <1>1, <1>2, <1>3, <1>4 DEF RootNext, SetRoot

\* A call that began on a complete tree leaves the tree that it returns complete.
LEMMA ReturnedTree ==
  ASSUME NamedRootsInvariant, WholeInvariant, pc # "idle", Step, pc' = "idle",
         reply'.status = "ok", whole, ~ setsSameValue
  PROVE  TreeNodes(EntriesOf(CommittedMap(reply'.root))) \subseteq nodes'
<1>1. Own!CoverInvariant /\ Own!oldMap = CommittedMap(op.root) /\ Own!newMap = wanted
  BY SameWanted DEF WholeInvariant
<1>2. CommittedMap(reply'.root) = wanted
  BY ReturnedRoot
<1>3. CASE SetValue \/ (DeleteValue /\ ~ err)
  <2>1. nodes' = nodes /\ (pc = "value" \/ (pc = "unset" /\ err = FALSE))
    BY <1>3 DEF SetValue, DeleteValue, NamedRootsInvariant, TypeOK, FlagTypeOK
  <2> QED BY <1>1, <1>2, <2>1, SameTrees DEF Own!CoverInvariant, Own!DeleteCover, Own!UpdateCover
<1>4. CASE AlreadyEmpty
  <2>1. nodes' = nodes /\ pc = "orphan" /\ keyIsEmpty /\ reply'.root = op.root
    BY <1>4 DEF AlreadyEmpty, ReturnRoot, Return
  <2> QED BY <1>1, <2>1, SameTrees, SameLeaf DEF Own!CoverInvariant, Own!ReadCover
<1> QED BY <1>3, <1>4, OkReturns, SameValueReturn

\* None of the nodes that a call deletes as orphans of the tree it was given is
\* needed by the tree it returns, also where the stores hold the nodes of other
\* trees (ReturnsCompleteTree).
THEOREM NamedTreesComplete == RootSpec => ReturnsCompleteTree
<1>1. RootInit => WholeInvariant
  BY DEF RootInit, Init, WholeInvariant
<1>2. RootSpec => []WholeInvariant
  BY <1>1, WholeKeeps, NamedRootsHold, PTL DEF RootSpec
<1>3. NamedRootsInvariant /\ WholeInvariant /\ [RootNext]_rootVars
         => [returns /\ whole /\ ~ setsSameValue => Complete(reply.root)']_rootVars
  <2> SUFFICES ASSUME NamedRootsInvariant, WholeInvariant, RootNext, returns, whole, ~ setsSameValue
               PROVE  Complete(reply.root)'
    OBVIOUS
  <2>1. Step /\ pc # "idle" /\ pc' = "idle" /\ reply'.status = "ok"
    BY DEF returns, RootNext, CallForRoot, StepForRoot, SetRoot
  <2> QED BY <2>1, ReturnedTree DEF Complete
<1> QED BY <1>2, <1>3, NamedRootsHold, PTL DEF RootSpec, ReturnsCompleteTree
=============================================================================
