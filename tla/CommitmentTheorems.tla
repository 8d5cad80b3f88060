------------------------- MODULE CommitmentTheorems -------------------------
(***************************************************************************)
(* Facts about the reference tree of module Commitment that hold for every *)
(* depth and every set of values: what a subtree's root is made of, and    *)
(* that the map a root commits to can be read back from it.                *)
(***************************************************************************)
EXTENDS Commitment, NumberTheorems

-----------------------------------------------------------------------------
\* Digests.

\* Hashing is injective, never yields the placeholder, and tells leaves from
\* inner nodes (treehasher.go).
LEMMA DigestFacts ==
  /\ \A d, e : Digest(d) = Digest(e) => d = e
  /\ \A d : Digest(d) # Placeholder /\ Data(Digest(d)) = d
  /\ \A p, v : /\ isLeaf(LeafData(p, v))
               /\ LeafData(p, v).path = p
               /\ LeafData(p, v).valueHash = v
  /\ \A l, r : /\ ~ isLeaf(NodeData(l, r))
               /\ NodeData(l, r).left = l
               /\ NodeData(l, r).right = r
  /\ \A v, w : digest(v) = digest(w) => v = w
  BY DEF Digest, Placeholder, Data, isLeaf, LeafData, NodeData, digest, RawData

-----------------------------------------------------------------------------
\* The recursion of SubtreeRootAt.

\* One unfolding of SubtreeRootAt, as a function of the recursive calls.
RootStep(h, L, g) ==
    IF L = {} THEN Placeholder
    ELSE IF \E e \in L : L = {e} THEN EntryHash(CHOOSE e \in L : TRUE)
    ELSE IF h = 0 THEN Placeholder
    ELSE digestNode(g[h - 1][Half(L, Depth - h, 0)],
                    g[h - 1][Half(L, Depth - h, 1)])

RootRow(h, g)   == [L \in SUBSET Entries |-> RootStep(h, L, g)]
RootTable(n, g) == [h \in 0 .. n |-> RootRow(h, g)]

\* The recursion equation has a solution up to every height.
LEMMA RootTableExists == \A n \in Nat : \E g : g = RootTable(n, g)
<1> DEFINE T == {n \in Nat : ~ \E g : g = RootTable(n, g)}
<1>1. SUFFICES ASSUME T # {} PROVE FALSE
  OBVIOUS
<1>2. PICK n \in T : \A m \in T : n <= m
  BY <1>1, LeastElement
<1>3. CASE n = 0
  <2> DEFINE g0 == RootTable(0, << >>)
  <2>1. g0 = RootTable(0, g0)
    BY DEF RootTable, RootRow, RootStep
  <2> QED BY <2>1, <1>3, <1>2
<1>4. CASE n # 0
  <2>1. n - 1 \in Nat /\ ~ (n <= n - 1) /\ n \in Nat
    BY <1>4
  <2>2. PICK g : g = RootTable(n - 1, g)
    BY <2>1, <1>2
  <2> DEFINE G == RootTable(n, g)
  <2>3. \A h \in 0 .. n - 1 : G[h] = g[h]
    BY <2>1, <2>2 DEF RootTable
  <2>4. ASSUME NEW h \in 0 .. n PROVE RootRow(h, g) = RootRow(h, G)
    <3> HIDE DEF G
    <3>1. h # 0 => G[h - 1] = g[h - 1]
      BY <2>1, <2>3
    <3> QED BY <3>1 DEF RootRow, RootStep
  <2>5. G = RootTable(n, G)
    BY <2>4 DEF RootTable
  <2> QED BY <2>5, <1>2
<1> QED BY <1>3, <1>4

\* SubtreeRootAt satisfies its recursion equation.
LEMMA SubtreeRootAtUnfolds == SubtreeRootAt = RootTable(Depth, SubtreeRootAt)
<1>1. PICK g : g = RootTable(Depth, g)
  BY RootTableExists, DepthAssumption
<1> QED BY <1>1 DEF SubtreeRootAt, RootTable, RootRow, RootStep

-----------------------------------------------------------------------------
\* The root of a subtree: empty, a bare leaf, or an inner node.

\* The three cases of the recursion, by level.
LEMMA SubtreeRootCases ==
  ASSUME NEW d \in 0 .. Depth
  PROVE  /\ SubtreeRoot({}, d) = Placeholder
         /\ \A e \in Entries : SubtreeRoot({e}, d) = EntryHash(e)
         /\ \A L \in SUBSET Entries : Big(L) /\ d < Depth =>
               SubtreeRoot(L, d) = digestNode(SubtreeRoot(Half(L, d, 0), d + 1),
                                              SubtreeRoot(Half(L, d, 1), d + 1))
<1>1. Depth - d \in 0 .. Depth /\ Depth \in Nat
  BY DepthAssumption
<1>2. \A L \in SUBSET Entries :
         SubtreeRoot(L, d) = RootStep(Depth - d, L, SubtreeRootAt)
  <2>1. RootTable(Depth, SubtreeRootAt)[Depth - d] = RootRow(Depth - d, SubtreeRootAt)
    BY <1>1 DEF RootTable
  <2>2. SubtreeRootAt[Depth - d] = RootRow(Depth - d, SubtreeRootAt)
    BY <2>1, SubtreeRootAtUnfolds
  <2> QED BY <2>2 DEF SubtreeRoot, RootRow
<1>3. SubtreeRoot({}, d) = Placeholder
  BY <1>2 DEF RootStep
<1>4. ASSUME NEW e \in Entries PROVE SubtreeRoot({e}, d) = EntryHash(e)
  <2>1. (CHOOSE f \in {e} : TRUE) = e
    OBVIOUS
  <2> QED BY <1>2, <2>1 DEF RootStep
<1>5. ASSUME NEW L \in SUBSET Entries, Big(L), d < Depth
      PROVE  SubtreeRoot(L, d) = digestNode(SubtreeRoot(Half(L, d, 0), d + 1),
                                            SubtreeRoot(Half(L, d, 1), d + 1))
  <2>1. Depth - d # 0 /\ Depth - (Depth - d) = d /\ Depth - d - 1 = Depth - (d + 1)
    BY <1>1, <1>5
  <2>2. SubtreeRoot(L, d) = RootStep(Depth - d, L, SubtreeRootAt)
    BY <1>2
  <2> QED BY <2>1, <2>2, <1>5 DEF RootStep, Big, SubtreeRoot
<1> QED BY <1>3, <1>4, <1>5

\* One level down, the entries below a node split into those on the path and
\* those beside it.
LEMMA BelowSplits ==
  ASSUME NEW L \in SUBSET Entries, NEW p \in Paths, NEW d \in 0 .. Depth - 1
  PROVE  /\ Below(L, p, 0) = L
         /\ Below(L, p, d) \in SUBSET Entries
         /\ Below(L, p, d + 1) = Half(Below(L, p, d), d, p[d])
         /\ Beside(L, p, d + 1) = Half(Below(L, p, d), d, 1 - p[d])
         /\ Below(L, p, d) = Below(L, p, d + 1) \cup Beside(L, p, d + 1)
<1>0. Depth \in Nat /\ d \in Nat /\ d + 1 - 1 = d /\ d + 1 - 2 = d - 1
  BY DepthAssumption
<1>1. \A e \in L : e[1] \in Paths /\ e[1][d] \in {0, 1} /\ p[d] \in {0, 1}
  BY DEF Entries, Paths, Bits
<1>2. \A e \in L : (\A b \in 0 .. d : e[1][b] = p[b]) <=>
                     (\A b \in 0 .. d - 1 : e[1][b] = p[b]) /\ e[1][d] = p[d]
  BY <1>0
<1>3. Below(L, p, 0) = L
  BY DEF Below
<1>4. Below(L, p, d + 1) = Half(Below(L, p, d), d, p[d])
  BY <1>0, <1>2 DEF Below, Half
<1>5. Beside(L, p, d + 1) = Half(Below(L, p, d), d, 1 - p[d])
  <2>1. \A e \in L : e[1][d] # p[d] <=> e[1][d] = 1 - p[d]
    BY <1>1
  <2> QED BY <1>0, <2>1 DEF Below, Beside, Half
<1>6. Below(L, p, d) = Below(L, p, d + 1) \cup Beside(L, p, d + 1)
  <2>1. \A e \in Below(L, p, d) : e[1][d] = p[d] \/ e[1][d] = 1 - p[d]
    BY <1>1 DEF Below
  <2> QED BY <1>4, <1>5, <2>1 DEF Half
<1> QED BY <1>3, <1>4, <1>5, <1>6 DEF Below

\* An inner node on the path p: its two children, and how it is put together
\* from them.
LEMMA InnerNode ==
  ASSUME NEW L \in SUBSET Entries, NEW p \in Paths, NEW d \in 0 .. Depth - 1,
         Big(Below(L, p, d))
  PROVE  LET node == SubtreeRoot(Below(L, p, d), d)
             on   == SubtreeRoot(Below(L, p, d + 1), d + 1)
             off  == SubtreeRoot(Beside(L, p, d + 1), d + 1)
         IN  /\ node # Placeholder /\ ~ isLeaf(Data(node))
             /\ childOnPath(Data(node), p, d) = on
             /\ childOffPath(Data(node), p, d) = off
             /\ digestParent(p, d, off, on) = node
<1> DEFINE node == SubtreeRoot(Below(L, p, d), d)
           on   == SubtreeRoot(Below(L, p, d + 1), d + 1)
           off  == SubtreeRoot(Beside(L, p, d + 1), d + 1)
           l    == SubtreeRoot(Half(Below(L, p, d), d, 0), d + 1)
           r    == SubtreeRoot(Half(Below(L, p, d), d, 1), d + 1)
<1>1. d \in 0 .. Depth /\ d < Depth
  BY DepthAssumption
<1>2. node = digestNode(l, r)
  BY <1>1, SubtreeRootCases, BelowSplits
<1>3. p[d] \in {0, 1}
  BY DEF Paths, Bits
<1>4. p[d] = 0 => on = l /\ off = r
  BY BelowSplits
<1>5. p[d] = 1 => on = r /\ off = l
  BY BelowSplits
<1>6. p[d] # 1 => p[d] = 0
  BY <1>3
<1> HIDE DEF node, on, off, l, r
<1>7. node # Placeholder /\ ~ isLeaf(Data(node))
      /\ Data(node).left = l /\ Data(node).right = r
  BY <1>2, DigestFacts DEF digestNode
<1>8. childOnPath(Data(node), p, d) = on /\ childOffPath(Data(node), p, d) = off
  BY <1>4, <1>5, <1>6, <1>7 DEF childOnPath, childOffPath
<1>9. digestParent(p, d, off, on) = node
  BY <1>2, <1>4, <1>5, <1>6 DEF digestParent
<1> QED BY <1>7, <1>8, <1>9 DEF node, on, off

\* What a walk can tell of a subtree from its root.
LEMMA RootShape ==
  ASSUME NEW L \in SUBSET Entries, NEW d \in 0 .. Depth, d < Depth \/ ~ Big(L)
  PROVE  /\ SubtreeRoot(L, d) = Placeholder <=> L = {}
         /\ L # {} => (isLeaf(Data(SubtreeRoot(L, d))) <=> ~ Big(L))
<1>1. CASE L = {}
  BY <1>1, SubtreeRootCases
<1>2. CASE \E e \in L : L = {e}
  <2>1. PICK e \in Entries : L = {e}
    BY <1>2
  <2>2. SubtreeRoot(L, d) = EntryHash(e)
    BY <2>1, SubtreeRootCases
  <2> QED BY <2>1, <2>2, DigestFacts DEF Big, EntryHash, digestLeaf
<1>3. CASE Big(L)
  <2>1. PICK l, r : SubtreeRoot(L, d) = digestNode(l, r)
    BY <1>3, SubtreeRootCases
  <2> QED BY <1>3, <2>1, DigestFacts DEF Big, digestNode
<1> QED BY <1>1, <1>2, <1>3 DEF Big

-----------------------------------------------------------------------------
\* Maps and their entries.

\* A map has at most one entry at a path, so the subtree at the deepest level is
\* empty or a bare leaf.
LEMMA MapEntries ==
  ASSUME NEW m \in Maps, NEW p \in Paths
  PROVE  /\ EntriesOf(m) \in SUBSET Entries
         /\ \A v : <<p, v>> \in EntriesOf(m) <=> v \in Values /\ m[p] = v
         /\ m[p] \in Values <=> m[p] # Absent
         /\ \A e \in EntriesOf(m) : e \in Entries /\ e = <<e[1], m[e[1]]>>
         /\ Below(EntriesOf(m), p, Depth) = {e \in EntriesOf(m) : e[1] = p}
         /\ ~ Big(Below(EntriesOf(m), p, Depth))
<1>1. EntriesOf(m) \in SUBSET Entries
  BY DEF EntriesOf
<1>2. \A v : <<p, v>> \in EntriesOf(m) <=> v \in Values /\ m[p] = v
  BY DEF EntriesOf, Entries
<1>3. \A e \in EntriesOf(m) : e \in Entries /\ e = <<e[1], m[e[1]]>>
  BY DEF EntriesOf, Entries
<1>4. Below(EntriesOf(m), p, Depth) = {e \in EntriesOf(m) : e[1] = p}
  <2>1. ASSUME NEW q \in Paths, \A b \in 0 .. Depth - 1 : q[b] = p[b] PROVE q = p
    <3>1. /\ q = [b \in 0 .. Depth - 1 |-> q[b]]
          /\ p = [b \in 0 .. Depth - 1 |-> p[b]]
      BY DEF Paths
    <3> QED BY <2>1, <3>1
  <2>2. \A e \in EntriesOf(m) : e[1] \in Paths
    BY DEF EntriesOf, Entries
  <2> QED BY <2>1, <2>2 DEF Below
<1>5. ~ Big(Below(EntriesOf(m), p, Depth))
  BY <1>3, <1>4 DEF Big
<1>6. m[p] \in Values <=> m[p] # Absent
  BY ValuesAssumption DEF Maps
<1> QED BY <1>1, <1>2, <1>3, <1>4, <1>5, <1>6

-----------------------------------------------------------------------------
\* Reading a tree back.

DescentStep(r, p, d, g) ==
    IF d = 0 THEN r
    ELSE IF g[d - 1] = Placeholder THEN Placeholder
    ELSE IF isLeaf(Data(g[d - 1])) THEN g[d - 1]
    ELSE childOnPath(Data(g[d - 1]), p, d - 1)

DescentTable(r, p, n, g) == [d \in 0 .. n |-> DescentStep(r, p, d, g)]

\* The recursion of Descent has a solution down to every level.
LEMMA DescentTableExists ==
  ASSUME NEW r, NEW p
  PROVE  \A n \in Nat : \E g : g = DescentTable(r, p, n, g)
<1> DEFINE T == {n \in Nat : ~ \E g : g = DescentTable(r, p, n, g)}
<1>1. SUFFICES ASSUME T # {} PROVE FALSE
  OBVIOUS
<1>2. PICK n \in T : \A m \in T : n <= m
  BY <1>1, LeastElement
<1>3. CASE n = 0
  <2> DEFINE g0 == DescentTable(r, p, 0, << >>)
  <2>1. g0 = DescentTable(r, p, 0, g0)
    BY DEF DescentTable, DescentStep
  <2> QED BY <2>1, <1>3, <1>2
<1>4. CASE n # 0
  <2>1. n - 1 \in Nat /\ ~ (n <= n - 1) /\ n \in Nat
    BY <1>4
  <2>2. PICK g : g = DescentTable(r, p, n - 1, g)
    BY <2>1, <1>2
  <2> DEFINE G == DescentTable(r, p, n, g)
  <2>3. \A d \in 0 .. n - 1 : G[d] = g[d]
    BY <2>1, <2>2 DEF DescentTable
  <2>4. ASSUME NEW d \in 0 .. n PROVE DescentStep(r, p, d, g) = DescentStep(r, p, d, G)
    <3> HIDE DEF G
    <3>1. d # 0 => G[d - 1] = g[d - 1]
      BY <2>1, <2>3
    <3> QED BY <3>1 DEF DescentStep
  <2>5. G = DescentTable(r, p, n, G)
    BY <2>4 DEF DescentTable
  <2> QED BY <2>5, <1>2
<1> QED BY <1>3, <1>4

\* Descent satisfies its recursion equation.
LEMMA DescentUnfolds ==
  ASSUME NEW r, NEW p, NEW d \in 0 .. Depth
  PROVE  Descent(r, p)[d] = DescentStep(r, p, d, Descent(r, p))
<1>1. PICK g : g = DescentTable(r, p, Depth, g)
  BY DescentTableExists, DepthAssumption
<1>2. Descent(r, p) = DescentTable(r, p, Depth, Descent(r, p))
  BY <1>1 DEF Descent, DescentTable, DescentStep
<1>3. DescentTable(r, p, Depth, Descent(r, p))[d] = DescentStep(r, p, d, Descent(r, p))
  BY DEF DescentTable
<1> QED BY <1>2, <1>3

\* Walking down the tree of a map along p, one stays on the path while two or
\* more entries are below, and then rests.
LEMMA DescentLevels ==
  ASSUME NEW m \in Maps, NEW p \in Paths
  PROVE  LET L == EntriesOf(m)
             g == Descent(SubtreeRoot(L, 0), p)
         IN  \A d \in 0 .. Depth : \E k \in 0 .. d :
                /\ Big(Below(L, p, k)) => k = d
                /\ g[d] = SubtreeRoot(Below(L, p, k), k)
<1> DEFINE L == EntriesOf(m)
           g == Descent(SubtreeRoot(L, 0), p)
           Walks(d) == Big(Below(L, p, d)) /\ g[d] = SubtreeRoot(Below(L, p, d), d)
           Rests(d) == \E k \in 0 .. d : /\ ~ Big(Below(L, p, k))
                                        /\ g[d] = SubtreeRoot(Below(L, p, k), k)
           T == {d \in 0 .. Depth : ~ (Walks(d) \/ Rests(d))}
<1>0. Depth \in Nat /\ L \in SUBSET Entries /\ \A d : Below(L, p, d) \in SUBSET Entries
  BY DepthAssumption, MapEntries DEF Below
<1>1. ASSUME T # {} PROVE FALSE
  <2>1. T \subseteq Nat
    BY <1>0
  <2>2. PICK d \in T : \A c \in T : d <= c
    BY <1>1, <2>1, LeastElement
  <2>3. d \in 0 .. Depth /\ ~ Walks(d) /\ ~ Rests(d)
    OBVIOUS
  <2>4. g[d] = DescentStep(SubtreeRoot(L, 0), p, d, g)
    BY <2>3, DescentUnfolds
  <2>5. CASE d = 0
    <3>1. g[d] = SubtreeRoot(Below(L, p, 0), 0)
      BY <2>4, <2>5, <1>0, BelowSplits, DepthAssumption DEF DescentStep
    <3> QED BY <2>3, <2>5, <3>1
  <2>6. CASE d # 0
    <3>1. d - 1 \in 0 .. Depth - 1 /\ d - 1 \in 0 .. Depth /\ d - 1 + 1 = d /\ ~ (d <= d - 1)
      BY <2>3, <2>6, <1>0
    <3>2. Walks(d - 1) \/ Rests(d - 1)
      BY <2>2, <3>1
    <3>3. CASE Walks(d - 1)
      <4>1. g[d] = SubtreeRoot(Below(L, p, d), d)
        BY <2>4, <2>6, <3>1, <3>3, <1>0, InnerNode DEF DescentStep
      <4> QED BY <4>1, <2>3
    <3>4. CASE Rests(d - 1)
      <4>1. PICK k \in 0 .. d - 1 : /\ ~ Big(Below(L, p, k))
                                   /\ g[d - 1] = SubtreeRoot(Below(L, p, k), k)
        BY <3>4
      <4>2. k \in 0 .. d /\ k \in 0 .. Depth
        BY <2>3, <1>0
      <4>3. g[d] = g[d - 1]
        BY <2>4, <2>6, <4>1, <4>2, <1>0, RootShape DEF DescentStep
      <4> QED BY <4>1, <4>2, <4>3, <2>3
    <3> QED BY <3>2, <3>3, <3>4
  <2> QED BY <2>5, <2>6
<1>2. \A d \in 0 .. Depth : Walks(d) \/ Rests(d)
  BY <1>1
<1>3. \A d \in 0 .. Depth : d \in 0 .. d
  BY <1>0
<1> QED BY <1>2, <1>3

LEMMA DescentRests ==
  ASSUME NEW m \in Maps, NEW p \in Paths
  PROVE  LET L == EntriesOf(m)
             g == Descent(SubtreeRoot(L, 0), p)
         IN  \E k \in 0 .. Depth :
                /\ ~ Big(Below(L, p, k))
                /\ g[Depth] = SubtreeRoot(Below(L, p, k), k)
<1>1. Depth \in 0 .. Depth
  BY DepthAssumption
<1>2. ~ Big(Below(EntriesOf(m), p, Depth))
  BY MapEntries
<1> QED BY <1>1, <1>2, DescentLevels

\* A root commits to one map only: the map read back from the root of a map's
\* tree is that map.
THEOREM CommittedMapOfRoot ==
  ASSUME NEW m \in Maps
  PROVE  CommittedMap(SubtreeRoot(EntriesOf(m), 0)) = m
<1> DEFINE L == EntriesOf(m)
           r == SubtreeRoot(L, 0)
<1>1. ASSUME NEW p \in Paths PROVE CommittedValue(r, p) = m[p]
  <2> DEFINE leaf == Descent(r, p)[Depth]
  <2>1. PICK k \in 0 .. Depth : /\ ~ Big(Below(L, p, k))
                               /\ leaf = SubtreeRoot(Below(L, p, k), k)
    BY DescentRests
  <2>2. L \in SUBSET Entries /\ Below(L, p, k) \in SUBSET Entries
    BY MapEntries DEF Below
  <2>3. CASE m[p] # Absent
    <3>1. m[p] \in Values /\ <<p, m[p]>> \in Below(L, p, k)
      BY <2>3, MapEntries DEF Below
    <3>2. Below(L, p, k) = {<<p, m[p]>>}
      BY <2>1, <3>1 DEF Big
    <3>3. leaf = EntryHash(<<p, m[p]>>)
      BY <2>1, <2>2, <3>1, <3>2, SubtreeRootCases
    <3> HIDE DEF leaf
    <3>4. /\ leaf # Placeholder /\ Data(leaf).path = p
          /\ Data(leaf).valueHash = digest(m[p])
      BY <3>3, DigestFacts DEF EntryHash, digestLeaf
    <3>5. (CHOOSE v \in Values : digest(v) = Data(leaf).valueHash) = m[p]
      BY <3>1, <3>4, DigestFacts
    <3> QED BY <3>4, <3>5 DEF CommittedValue, leaf
  <2>4. CASE m[p] = Absent
    <3>1. leaf = Placeholder \/ Data(leaf).path # p
      <4>1. CASE Below(L, p, k) = {}
        BY <4>1, <2>1, SubtreeRootCases
      <4>2. CASE Below(L, p, k) # {}
        <5>1. PICK e \in Below(L, p, k) : Below(L, p, k) = {e}
          BY <4>2, <2>1 DEF Big
        <5>2. e \in L /\ e \in Entries
          BY <2>2 DEF Below
        <5>3. e[1] # p
          BY <5>2, <2>4, MapEntries, ValuesAssumption DEF EntriesOf, Entries
        <5>4. leaf = EntryHash(e)
          BY <5>1, <5>2, <2>1, SubtreeRootCases
        <5> HIDE DEF leaf
        <5> QED BY <5>3, <5>4, DigestFacts DEF EntryHash, digestLeaf
      <4> QED BY <4>1, <4>2
    <3> QED BY <3>1, <2>4 DEF CommittedValue
  <2> QED BY <2>3, <2>4
<1>2. m = [p \in Paths |-> m[p]]
  BY DEF Maps
<1> QED BY <1>1, <1>2 DEF CommittedMap

-----------------------------------------------------------------------------
\* What one write does to the tree.

\* Two different entries, or a part with two, make a set big; a bare leaf does not.
LEMMA BigFacts ==
  /\ ~ Big({}) /\ \A x : ~ Big({x})
  /\ \A A, B : Big(A) /\ A \subseteq B => Big(B)
  /\ \A A, x, y : x \in A /\ y \in A /\ x # y => Big(A)
  /\ \A A : A # {} /\ ~ Big(A) => \E x \in A : A = {x}
  /\ \A A, x : Big(A) => \E y \in A : y # x
  BY DEF Big

\* The subtree beside a node of the deepest level holds at most one entry of a
\* map: its entries agree on all bits.
LEMMA BesideSmall ==
  ASSUME NEW m \in Maps, NEW p \in Paths, NEW d \in 1 .. Depth
  PROVE  /\ Beside(EntriesOf(m), p, d) \in SUBSET Entries
         /\ d < Depth \/ ~ Big(Beside(EntriesOf(m), p, d))
<1> DEFINE L == EntriesOf(m)
<1>1. Depth \in Nat
  BY DepthAssumption
<1>2. Beside(L, p, d) \in SUBSET Entries
  BY MapEntries DEF Beside
<1>3. Beside(L, p, Depth) \subseteq {e \in L : \A f \in L : f \in Beside(L, p, Depth) => f = e}
  <2> SUFFICES ASSUME NEW e \in Beside(L, p, Depth), NEW f \in Beside(L, p, Depth)
               PROVE  e \in L /\ f = e
    OBVIOUS
  <2>1. e \in L /\ f \in L /\ e[1] \in Paths /\ f[1] \in Paths
    BY MapEntries DEF Beside, Entries
  <2>2. Depth - 1 \in 0 .. Depth - 1
    BY DepthAssumption
  <2>3. \A b \in 0 .. Depth - 1 : e[1][b] = f[1][b]
    <3> TAKE b \in 0 .. Depth - 1
    <3>1. CASE b = Depth - 1
      <4>1. e[1][b] \in {0, 1} /\ f[1][b] \in {0, 1} /\ p[b] \in {0, 1}
        BY <2>1 DEF Paths, Bits
      <4>2. e[1][b] # p[b] /\ f[1][b] # p[b]
        BY <3>1 DEF Beside
      <4> QED BY <4>1, <4>2
    <3>2. CASE b # Depth - 1
      <4>1. b \in 0 .. Depth - 2
        BY <3>2, <1>1
      <4> QED BY <4>1 DEF Beside
    <3> QED BY <3>1, <3>2
  <2>4. /\ e[1] = [b \in 0 .. Depth - 1 |-> e[1][b]]
        /\ f[1] = [b \in 0 .. Depth - 1 |-> f[1][b]]
    BY <2>1 DEF Paths
  <2>5. e[1] = f[1]
    BY <2>3, <2>4
  <2> QED BY <2>1, <2>5, MapEntries
<1>4. ~ Big(Beside(L, p, Depth))
  <2>1. Beside(L, p, Depth) \subseteq L
    BY DEF Beside
  <2> QED BY <1>3, <2>1 DEF Big
<1> QED BY <1>1, <1>2, <1>4

\* Writing at a path changes the subtrees on that path by that one entry, and no
\* subtree beside it.
LEMMA UpdatedEntries ==
  ASSUME NEW m \in Maps, NEW k \in Maps, NEW p \in Paths,
         \A x \in Paths : x # p => k[x] = m[x]
  PROVE  /\ \A d \in 1 .. Depth : Beside(EntriesOf(k), p, d) = Beside(EntriesOf(m), p, d)
         /\ \A d \in 0 .. Depth : \A e : e \in Below(EntriesOf(k), p, d)
               <=> \/ k[p] # Absent /\ e = <<p, k[p]>>
                   \/ e \in Below(EntriesOf(m), p, d) /\ e[1] # p
<1> DEFINE L == EntriesOf(m)
           K == EntriesOf(k)
<1>1. ASSUME NEW e
      PROVE  e \in K <=> (k[p] # Absent /\ e = <<p, k[p]>>) \/ (e \in L /\ e[1] # p)
  <2>1. e \in K => e \in Entries /\ e[1] \in Paths /\ e = <<e[1], k[e[1]]>>
    BY DEF EntriesOf, Entries
  <2>2. e \in L => e \in Entries /\ e[1] \in Paths /\ e = <<e[1], m[e[1]]>>
    BY DEF EntriesOf, Entries
  <2>3. e = <<p, k[p]>> => (e \in K <=> k[p] # Absent)
    BY ValuesAssumption DEF EntriesOf, Entries, Maps
  <2>4. e \in Entries /\ e[1] # p => (e \in K <=> e \in L)
    BY DEF EntriesOf, Entries
  <2> QED BY <2>1, <2>2, <2>3, <2>4
<1> HIDE DEF L, K
<1>2. ASSUME NEW d \in 1 .. Depth PROVE Beside(K, p, d) = Beside(L, p, d)
  <2>1. d - 1 \in 0 .. Depth - 1
    BY DepthAssumption
  <2>2. \A e : e = <<p, k[p]>> => e[1] = p
    OBVIOUS
  <2> QED BY <1>1, <2>1, <2>2 DEF Beside
<1>3. ASSUME NEW d \in 0 .. Depth, NEW e
      PROVE  e \in Below(K, p, d) <=> \/ k[p] # Absent /\ e = <<p, k[p]>>
                                      \/ e \in Below(L, p, d) /\ e[1] # p
  <2>1. e = <<p, k[p]>> => e[1] = p
    OBVIOUS
  <2> QED BY <1>1, <2>1 DEF Below
<1> QED BY <1>2, <1>3 DEF L, K

\* countCommonPrefix is where two paths part, and the depth when they do not
\* (utils.go).
LEMMA CommonPrefix ==
  ASSUME NEW p \in Paths, NEW q \in Paths
  PROVE  LET c == countCommonPrefix(p, q)
         IN  /\ c \in 0 .. Depth
             /\ \A b \in 0 .. c - 1 : p[b] = q[b]
             /\ c < Depth => p[c] # q[c]
             /\ c = Depth <=> p = q
<1> DEFINE T == {b \in 0 .. Depth - 1 : p[b] # q[b]}
           Parts(c) == /\ \A b \in 0 .. c - 1 : p[b] = q[b]
                       /\ c < Depth => p[c] # q[c]
<1>0. Depth \in Nat
  BY DepthAssumption
<1>1. \E c \in 0 .. Depth : Parts(c)
  <2>1. CASE T = {}
    BY <1>0, <2>1
  <2>2. CASE T # {}
    <3>1. PICK c \in T : \A b \in T : c <= b
      <4>1. T \subseteq Nat
        BY <1>0
      <4> QED BY <2>2, <4>1, LeastElement
    <3>2. c \in 0 .. Depth /\ p[c] # q[c]
      BY <1>0
    <3>3. \A b \in 0 .. c - 1 : p[b] = q[b]
      <4> TAKE b \in 0 .. c - 1
      <4>1. b \in 0 .. Depth - 1 /\ ~ (c <= b)
        BY <1>0
      <4> QED BY <3>1, <4>1
    <3> QED BY <3>2, <3>3
  <2> QED BY <2>1, <2>2
<1> DEFINE c == countCommonPrefix(p, q)
<1>2. c \in 0 .. Depth /\ Parts(c)
  BY <1>1 DEF countCommonPrefix
<1>3. c = Depth <=> p = q
  <2>1. ASSUME c = Depth PROVE p = q
    <3>1. /\ p = [b \in 0 .. Depth - 1 |-> p[b]]
          /\ q = [b \in 0 .. Depth - 1 |-> q[b]]
      BY DEF Paths
    <3> QED BY <1>2, <2>1, <3>1
  <2>2. ASSUME p = q PROVE c = Depth
    BY <1>0, <1>2, <2>2
  <2> QED BY <2>1, <2>2
<1> QED BY <1>2, <1>3
=============================================================================
