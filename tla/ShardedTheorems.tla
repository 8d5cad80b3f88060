--------------------------- MODULE ShardedTheorems --------------------------
(***************************************************************************)
(* ShardedSMT is right for every number of shards, callers, scratches and  *)
(* pairs in a batch: calls that share the pooled slices do not disturb     *)
(* each other, a batch does what its parts do, and the combined root       *)
(* commits to every shard.                                                 *)
(***************************************************************************)
EXTENDS Sharded, CommitmentTheorems, FiniteSetTheorems, SequenceTheorems

-----------------------------------------------------------------------------
\* computeRoot.

LevelTable(t, n, g) ==
    [h \in 0 .. n |-> IF h = 0 THEN [s \in Shards |-> SubtreeRoot(EntriesOf(t[s]), 0)]
                      ELSE pairUp(g[h - 1])]

levels(t) == CHOOSE g : g = LevelTable(t, ShardBits, g)

\* The fold over the shard roots has a solution up to every level.
LEMMA LevelTableExists ==
  ASSUME NEW t
  PROVE  \A n \in Nat : \E g : g = LevelTable(t, n, g)
<1> DEFINE T == {n \in Nat : ~ \E g : g = LevelTable(t, n, g)}
<1>1. SUFFICES ASSUME T # {} PROVE FALSE
  OBVIOUS
<1>2. PICK n \in T : \A m \in T : n <= m
  BY <1>1, LeastElement
<1>3. CASE n = 0
  <2> DEFINE g0 == LevelTable(t, 0, << >>)
  <2>1. g0 = LevelTable(t, 0, g0)
    BY DEF LevelTable
  <2> QED BY <2>1, <1>3, <1>2
<1>4. CASE n # 0
  <2>1. n - 1 \in Nat /\ ~ (n <= n - 1) /\ n \in Nat
    BY <1>4
  <2>2. PICK g : g = LevelTable(t, n - 1, g)
    BY <2>1, <1>2
  <2> DEFINE G == LevelTable(t, n, g)
  <2>3. \A h \in 0 .. n - 1 : G[h] = g[h]
    BY <2>1, <2>2 DEF LevelTable
  <2>4. ASSUME NEW h \in 0 .. n, h # 0 PROVE g[h - 1] = G[h - 1]
    <3> HIDE DEF G
    <3> QED BY <2>1, <2>3, <2>4
  <2>5. G = LevelTable(t, n, G)
    BY <2>4 DEF LevelTable
  <2> QED BY <2>5, <1>2
<1> QED BY <1>3, <1>4

\* The combined root is the top of the table.
LEMMA LevelsUnfold ==
  ASSUME NEW t
  PROVE  /\ levels(t) = LevelTable(t, ShardBits, levels(t))
         /\ computeRoot(t) = levels(t)[ShardBits][0]
<1>1. PICK g : g = LevelTable(t, ShardBits, g)
  BY LevelTableExists, ShardedAssumption
<1>2. levels(t) = LevelTable(t, ShardBits, levels(t))
  BY <1>1 DEF levels
<1>3. computeRoot(t) = levels(t)[ShardBits][0]
  BY DEF computeRoot, levels, LevelTable
<1> QED BY <1>2, <1>3

\* Pairing up a level of an even length halves it.
LEMMA PairUpHalves ==
  ASSUME NEW level, NEW w \in Nat \ {0}, DOMAIN level = 0 .. 2 * w - 1
  PROVE  /\ DOMAIN pairUp(level) = 0 .. w - 1
         /\ \A j \in 0 .. w - 1 :
               pairUp(level)[j] = digestNode(level[2 * j], level[2 * j + 1])
<1>1. Cardinality(DOMAIN level) = 2 * w
  <2>1. 0 \in Int /\ 2 * w - 1 \in Int /\ ~ (0 > 2 * w - 1) /\ 2 * w - 1 - 0 + 1 = 2 * w
    OBVIOUS
  <2> QED BY <2>1, FS_Interval
<1>2. Cardinality(DOMAIN level) \div 2 = w
  BY <1>1
<1> QED BY <1>2 DEF pairUp

\* Level h has a node for every 2^h shards, and a node commits to the two nodes
\* below it.
LEMMA LevelFacts ==
  ASSUME NEW t, NEW h \in 0 .. ShardBits
  PROVE  /\ DOMAIN levels(t)[h] = 0 .. Pow2(ShardBits - h) - 1
         /\ h # 0 => \A j \in 0 .. Pow2(ShardBits - h) - 1 :
               levels(t)[h][j] = digestNode(levels(t)[h - 1][2 * j],
                                            levels(t)[h - 1][2 * j + 1])
<1> DEFINE g == levels(t)
<1>1. ShardBits \in Nat /\ g = LevelTable(t, ShardBits, g)
  BY ShardedAssumption, LevelsUnfold
<1> HIDE DEF g
<1>2. g[0] = [s \in Shards |-> SubtreeRoot(EntriesOf(t[s]), 0)]
  BY <1>1 DEF LevelTable
<1>3. \A k \in 0 .. ShardBits : k # 0 => g[k] = pairUp(g[k - 1])
  BY <1>1 DEF LevelTable
<1>4. ASSUME NEW k \in 0 .. ShardBits, k # 0,
             DOMAIN g[k - 1] = 0 .. Pow2(ShardBits - (k - 1)) - 1
      PROVE  /\ DOMAIN g[k] = 0 .. Pow2(ShardBits - k) - 1
             /\ \A j \in 0 .. Pow2(ShardBits - k) - 1 :
                   g[k][j] = digestNode(g[k - 1][2 * j], g[k - 1][2 * j + 1])
  <2>1. ShardBits - k \in Nat /\ ShardBits - (k - 1) = (ShardBits - k) + 1
    BY <1>1, <1>4
  <2>2. PICK w \in Nat \ {0} : w = Pow2(ShardBits - k)
    BY <2>1, PowerLaws
  <2>3. Pow2(ShardBits - (k - 1)) = 2 * w
    BY <2>1, <2>2, PowerLaws
  <2>4. PICK level : level = g[k - 1]
    OBVIOUS
  <2>5. g[k] = pairUp(level) /\ DOMAIN level = 0 .. 2 * w - 1
    BY <1>3, <1>4, <2>3, <2>4
  <2> QED BY <2>2, <2>4, <2>5, PairUpHalves
<1>5. \A k \in 0 .. ShardBits : DOMAIN g[k] = 0 .. Pow2(ShardBits - k) - 1
  <2> DEFINE T == {k \in 0 .. ShardBits : DOMAIN g[k] # 0 .. Pow2(ShardBits - k) - 1}
  <2>1. SUFFICES ASSUME T # {} PROVE FALSE
    OBVIOUS
  <2>2. T \subseteq Nat
    BY <1>1
  <2>3. PICK k \in T : \A m \in T : k <= m
    BY <2>1, <2>2, LeastElement
  <2>4. k \in 0 .. ShardBits
    OBVIOUS
  <2>5. CASE k = 0
    <3>1. ShardBits - 0 = ShardBits
      BY <1>1
    <3> QED BY <2>5, <3>1, <1>2 DEF Shards
  <2>6. CASE k # 0
    <3>1. k - 1 \in 0 .. ShardBits /\ ~ (k <= k - 1)
      BY <1>1, <2>4, <2>6
    <3> QED BY <1>4, <2>3, <2>4, <2>6, <3>1
  <2> QED BY <2>5, <2>6
<1>6. h # 0 => h - 1 \in 0 .. ShardBits
  BY <1>1
<1> QED BY <1>4, <1>5, <1>6 DEF g

-----------------------------------------------------------------------------
\* Walking down from a combined root.

BelowStep(r, s, d, g) ==
    IF d = 0 THEN r
    ELSE IF (s \div Pow2(ShardBits - d)) % 2 = 1 THEN Data(g[d - 1]).right
    ELSE Data(g[d - 1]).left

BelowTable(r, s, n, g) == [d \in 0 .. n |-> BelowStep(r, s, d, g)]

\* The walk has a solution down to every level.
LEMMA BelowTableExists ==
  ASSUME NEW r, NEW s
  PROVE  \A n \in Nat : \E g : g = BelowTable(r, s, n, g)
<1> DEFINE T == {n \in Nat : ~ \E g : g = BelowTable(r, s, n, g)}
<1>1. SUFFICES ASSUME T # {} PROVE FALSE
  OBVIOUS
<1>2. PICK n \in T : \A m \in T : n <= m
  BY <1>1, LeastElement
<1>3. CASE n = 0
  <2> DEFINE g0 == BelowTable(r, s, 0, << >>)
  <2>1. g0 = BelowTable(r, s, 0, g0)
    BY DEF BelowTable, BelowStep
  <2> QED BY <2>1, <1>3, <1>2
<1>4. CASE n # 0
  <2>1. n - 1 \in Nat /\ ~ (n <= n - 1) /\ n \in Nat
    BY <1>4
  <2>2. PICK g : g = BelowTable(r, s, n - 1, g)
    BY <2>1, <1>2
  <2> DEFINE G == BelowTable(r, s, n, g)
  <2>3. \A d \in 0 .. n - 1 : G[d] = g[d]
    BY <2>1, <2>2 DEF BelowTable
  <2>4. ASSUME NEW d \in 0 .. n PROVE BelowStep(r, s, d, g) = BelowStep(r, s, d, G)
    <3> HIDE DEF G
    <3>1. d # 0 => G[d - 1] = g[d - 1]
      BY <2>1, <2>3
    <3> QED BY <3>1 DEF BelowStep
  <2>5. G = BelowTable(r, s, n, G)
    BY <2>4 DEF BelowTable
  <2> QED BY <2>5, <1>2
<1> QED BY <1>3, <1>4

\* The root of a shard is at the end of the walk.
LEMMA BelowUnfolds ==
  ASSUME NEW r, NEW s
  PROVE  \E g : /\ g = BelowTable(r, s, ShardBits, g)
                /\ shardRootBelow(r, s) = g[ShardBits]
<1> DEFINE g == CHOOSE at : at = BelowTable(r, s, ShardBits, at)
<1>1. g = BelowTable(r, s, ShardBits, g)
  BY BelowTableExists, ShardedAssumption
<1>2. shardRootBelow(r, s) = g[ShardBits]
  BY DEF shardRootBelow, BelowTable, BelowStep
<1> QED BY <1>1, <1>2

\* Walking down from the combined root of t along the bits of s, one passes the
\* nodes above shard s and arrives at its root.
LEMMA WalkReachesShard ==
  ASSUME NEW t, NEW s \in Shards
  PROVE  shardRootBelow(computeRoot(t), s) = SubtreeRoot(EntriesOf(t[s]), 0)
<1> DEFINE r == computeRoot(t)
           L == levels(t)
           above(d) == s \div Pow2(ShardBits - d)
<1>1. ShardBits \in Nat /\ s \in Nat /\ s < Pow2(ShardBits)
  BY ShardedAssumption, PowerLaws DEF Shards
<1>2. L = LevelTable(t, ShardBits, L) /\ r = L[ShardBits][0]
  BY LevelsUnfold
<1> HIDE DEF r, L
<1>3. PICK g : g = BelowTable(r, s, ShardBits, g) /\ shardRootBelow(r, s) = g[ShardBits]
  BY BelowUnfolds
<1>4. \A d \in 0 .. ShardBits : g[d] = BelowStep(r, s, d, g)
  BY <1>3 DEF BelowTable
<1>5. g[0] = r
  BY <1>1, <1>4 DEF BelowStep
<1>6. ASSUME NEW d \in 0 .. ShardBits, d # 0, g[d - 1] = L[ShardBits - (d - 1)][above(d - 1)]
      PROVE  g[d] = L[ShardBits - d][above(d)]
  <2>1. PICK h \in 0 .. ShardBits : h = ShardBits - (d - 1)
    BY <1>1, <1>6
  <2>2. h # 0 /\ h - 1 = ShardBits - d /\ ShardBits - d \in Nat /\ h = (ShardBits - d) + 1
    BY <1>1, <1>6, <2>1
  <2>3. PICK w \in Nat \ {0} : w = Pow2(ShardBits - d)
    BY <2>2, PowerLaws
  <2>4. Pow2(h) = 2 * w
    BY <2>2, <2>3, PowerLaws
  <2>5. PICK q \in Nat : q = s \div w
    BY <1>1, Division
  <2>6. PICK j \in Nat : j = q \div 2
    OBVIOUS
  <2>7. above(d) = q /\ above(d - 1) = j
    BY <1>1, <2>1, <2>3, <2>4, <2>5, <2>6, HalfQuotient
  <2>8. j \in 0 .. Pow2(ShardBits - h) - 1
    <3>1. ShardBits - h \in Nat
      BY <1>1, <2>1
    <3>2. PICK u \in Nat \ {0} : u = Pow2(ShardBits - h)
      BY <3>1, PowerLaws
    <3>3. Pow2(ShardBits) = u * (2 * w)
      <4>1. (ShardBits - h) + h = ShardBits
        BY <1>1, <2>1
      <4> QED BY <2>4, <3>1, <3>2, <4>1, PowerSum
    <3>4. 2 * w \in Nat \ {0} /\ j = s \div (2 * w)
      BY <1>1, <2>5, <2>6, HalfQuotient
    <3>5. PICK x \in Nat \ {0} : x = 2 * w
      BY <3>4
    <3>6. j * x <= s /\ s < u * x
      BY <1>1, <3>3, <3>4, <3>5, Division
    <3>7. j < u
      <4>1. SUFFICES ASSUME u <= j PROVE FALSE
        BY <3>2
      <4>2. u * x <= j * x /\ u * x \in Nat /\ j * x \in Nat
        BY <4>1, TimesMonotone
      <4> QED BY <1>1, <3>6, <4>2
    <3> QED BY <3>2, <3>7
  <2>9. L[h][j] = digestNode(L[h - 1][2 * j], L[h - 1][2 * j + 1])
    BY <2>2, <2>8, LevelFacts DEF L
  <2>10. PICK x : x = L[h - 1][2 * j]
    OBVIOUS
  <2>11. PICK y : y = L[h - 1][2 * j + 1]
    OBVIOUS
  <2>12. g[d - 1] = digestNode(x, y)
    BY <1>6, <2>1, <2>7, <2>9, <2>10, <2>11
  <2>13. Data(g[d - 1]).left = x /\ Data(g[d - 1]).right = y
    BY <2>12, DigestFacts DEF digestNode, NodeData
  <2>14. g[d] = IF q % 2 = 1 THEN y ELSE x
    <3>1. g[d] = BelowStep(r, s, d, g)
      BY <1>4
    <3> QED BY <1>6, <2>3, <2>5, <2>13, <3>1 DEF BelowStep
  <2>15. q = IF q % 2 = 1 THEN 2 * j + 1 ELSE 2 * j
    BY <2>5, <2>6
  <2> QED BY <2>2, <2>7, <2>10, <2>11, <2>14, <2>15
<1>7. \A d \in 0 .. ShardBits : g[d] = L[ShardBits - d][above(d)]
  <2> DEFINE T == {d \in 0 .. ShardBits : g[d] # L[ShardBits - d][above(d)]}
  <2> HIDE DEF above
  <2>1. SUFFICES ASSUME T # {} PROVE FALSE
    OBVIOUS
  <2>2. T \subseteq Nat
    BY <1>1
  <2>3. PICK d \in T : \A m \in T : d <= m
    BY <2>1, <2>2, LeastElement
  <2>4. d \in 0 .. ShardBits /\ g[d] # L[ShardBits - d][above(d)]
    BY <2>3
  <2>5. CASE d = 0
    <3>1. ShardBits - 0 = ShardBits /\ Pow2(ShardBits) \in Nat \ {0}
      BY <1>1, PowerLaws
    <3>2. PICK x \in Nat \ {0} : x = Pow2(ShardBits)
      BY <3>1
    <3>3. s \div x = 0
      BY <1>1, <3>2
    <3>4. above(0) = 0
      BY <3>1, <3>2, <3>3 DEF above
    <3> QED BY <1>2, <1>5, <2>4, <2>5, <3>1, <3>4
  <2>6. CASE d # 0
    <3>1. d - 1 \in 0 .. ShardBits /\ ~ (d <= d - 1)
      BY <1>1, <2>4, <2>6
    <3>2. g[d - 1] = L[ShardBits - (d - 1)][above(d - 1)]
      BY <2>3, <3>1
    <3> QED BY <1>6, <2>4, <2>6, <3>2
  <2> QED BY <2>5, <2>6
<1>8. g[ShardBits] = L[0][s]
  <2>1. ShardBits \in 0 .. ShardBits /\ ShardBits - ShardBits = 0 /\ s \div 1 = s
    BY <1>1
  <2>2. above(ShardBits) = s
    BY <2>1, PowerLaws
  <2> QED BY <1>7, <2>1, <2>2
<1>9. L[0][s] = SubtreeRoot(EntriesOf(t[s]), 0)
  BY <1>1, <1>2 DEF LevelTable
<1> QED BY <1>3, <1>8, <1>9 DEF r

\* The combined root of a tree commits to the contents of every shard.
THEOREM ShardsOfRoot ==
  ASSUME NEW t \in Trees, NEW s \in Shards
  PROVE  CommittedMap(shardRootBelow(computeRoot(t), s)) = t[s]
<1>1. t[s] \in Maps
  BY DEF Trees
<1> QED BY <1>1, WalkReachesShard, CommittedMapOfRoot

-----------------------------------------------------------------------------
\* Parts of a batch.

\* A non-empty set of indices has a last one.
LEMMA LastIndex ==
  ASSUME NEW n \in Nat, NEW W \in SUBSET (1 .. n), W # {}
  PROVE  Max(W) \in W /\ \A j \in W : j <= Max(W)
<1> DEFINE T == {n - j : j \in W}
<1>1. T \subseteq Nat /\ T # {}
  <2>1. \A j \in W : j \in 1 .. n
    OBVIOUS
  <2>2. \A j \in W : n - j \in Nat
    BY <2>1
  <2> QED BY <2>2
<1>2. PICK x \in T : \A y \in T : x <= y
  BY <1>1, LeastElement
<1>3. PICK j \in W : x = n - j
  BY <1>2
<1>4. ASSUME NEW i \in W PROVE j >= i
  <2>1. n - i \in T
    OBVIOUS
  <2>2. n - j <= n - i
    BY <1>2, <1>3, <2>1
  <2> QED BY <2>2
<1>5. Max(W) \in W /\ \A i \in W : Max(W) >= i
  BY <1>4 DEF Max
<1> QED BY <1>5

\* There is only one last index.
LEMMA LastIs ==
  ASSUME NEW n \in Nat, NEW W \in SUBSET (1 .. n), NEW x \in W, \A j \in W : j <= x
  PROVE  Max(W) = x
<1>1. Max(W) \in W /\ \A j \in W : j <= Max(W)
  BY LastIndex
<1>2. PICK y \in W : y = Max(W)
  BY <1>1
<1>3. x \in 1 .. n /\ y \in 1 .. n
  OBVIOUS
<1>4. x <= y /\ y <= x
  BY <1>1, <1>2
<1>5. x = y
  BY <1>3, <1>4
<1> QED BY <1>2, <1>5

\* The pairs of a batch, and the value that a part writes at a path.
LEMMA PairFacts ==
  ASSUME NEW pairs \in Seq(Pairs), NEW I \in SUBSET DOMAIN pairs
  PROVE  /\ DOMAIN pairs = 1 .. Len(pairs) /\ Len(pairs) \in Nat
         /\ \A j \in DOMAIN pairs : /\ pairs[j] \in Pairs /\ pairs[j][1] \in Keys
                                    /\ IsWrite(pairs[j]) => pairs[j][2] \in Values
         /\ \A p : writesAt(pairs, I, p) # {} =>
               Max(writesAt(pairs, I, p)) \in writesAt(pairs, I, p)
<1>1. DOMAIN pairs = 1 .. Len(pairs) /\ Len(pairs) \in Nat
  OBVIOUS
<1>2. ASSUME NEW j \in DOMAIN pairs
      PROVE  /\ pairs[j] \in Pairs /\ pairs[j][1] \in Keys
             /\ IsWrite(pairs[j]) => pairs[j][2] \in Values
  <2>1. pairs[j] \in Pairs
    BY <1>1
  <2> QED BY <2>1 DEF Pairs, IsWrite, IsDelete
<1>3. ASSUME NEW p, writesAt(pairs, I, p) # {}
      PROVE  Max(writesAt(pairs, I, p)) \in writesAt(pairs, I, p)
  <2>1. writesAt(pairs, I, p) \in SUBSET (1 .. Len(pairs))
    BY <1>1 DEF writesAt, pairsAt
  <2> QED BY <1>1, <1>3, <2>1, LastIndex
<1> QED BY <1>1, <1>2, <1>3

\* A part of a batch leaves a map.
LEMMA PartIsMap ==
  ASSUME NEW m \in Maps, NEW pairs \in Seq(Pairs), NEW I \in SUBSET DOMAIN pairs
  PROVE  deletePart(m, pairs, I) \in Maps /\ batchPart(m, pairs, I) \in Maps
<1>1. deletePart(m, pairs, I) \in Maps
  BY DEF deletePart, Maps
<1>2. ASSUME NEW p \in Paths
      PROVE  batchPart(m, pairs, I)[p] \in Values \cup {Absent}
  <2>1. CASE writesAt(pairs, I, p) # {}
    <3>1. PICK x : x = Max(writesAt(pairs, I, p))
      OBVIOUS
    <3>2. x \in writesAt(pairs, I, p)
      BY <2>1, <3>1, PairFacts
    <3>3. x \in DOMAIN pairs /\ IsWrite(pairs[x])
      BY <3>2 DEF writesAt, pairsAt
    <3>4. pairs[x][2] \in Values
      BY <3>3, PairFacts
    <3> QED BY <2>1, <3>1, <3>4 DEF batchPart
  <2>2. CASE writesAt(pairs, I, p) = {}
    <3>1. deletePart(m, pairs, I)[p] \in Values \cup {Absent}
      BY <1>1 DEF Maps
    <3> QED BY <2>2, <3>1 DEF batchPart
  <2> QED BY <2>1, <2>2
<1>3. batchPart(m, pairs, I) = [p \in Paths |-> batchPart(m, pairs, I)[p]]
  BY DEF batchPart
<1> QED BY <1>1, <1>2, <1>3 DEF Maps

\* The empty part changes nothing.
LEMMA EmptyPart ==
  ASSUME NEW m \in Maps, NEW pairs
  PROVE  batchPart(m, pairs, {}) = m
<1>1. \A p : writesAt(pairs, {}, p) = {} /\ deletesAt(pairs, {}, p) = {}
  BY DEF writesAt, deletesAt, pairsAt
<1>2. deletePart(m, pairs, {}) = m
  BY <1>1 DEF deletePart, Maps
<1>3. batchPart(m, pairs, {}) = [p \in Paths |-> m[p]]
  BY <1>1, <1>2 DEF batchPart
<1> QED BY <1>3 DEF Maps

\* What a part leaves at a path is what was there, nothing, or what one of its
\* pairs writes there.
LEMMA PartTouches ==
  ASSUME NEW m \in Maps, NEW pairs \in Seq(Pairs), NEW I \in SUBSET DOMAIN pairs,
         NEW p \in Paths
  PROVE  /\ deletePart(m, pairs, I)[p] \in {m[p], Absent}
         /\ \/ batchPart(m, pairs, I)[p] \in {m[p], Absent}
            \/ \E j \in I : PathOf[pairs[j][1]] = p
<1>1. deletePart(m, pairs, I)[p] \in {m[p], Absent}
  BY DEF deletePart
<1>2. CASE writesAt(pairs, I, p) # {}
  BY <1>1, <1>2 DEF writesAt, pairsAt
<1>3. CASE writesAt(pairs, I, p) = {}
  BY <1>1, <1>3 DEF batchPart
<1> QED BY <1>1, <1>2, <1>3

\* What a part that failed leaves is what its deletes up to some index leave.
LEMMA BrokenIsMap ==
  ASSUME NEW m \in Maps, NEW pairs \in Seq(Pairs), NEW I \in SUBSET DOMAIN pairs,
         NEW k \in brokenPart(m, pairs, I)
  PROVE  k \in Maps /\ \A p \in Paths : k[p] \in {m[p], Absent}
<1>1. PICK n \in 0 .. Len(pairs) : k = deletePart(m, pairs, I \cap 1 .. n)
  BY DEF brokenPart
<1>2. PICK J \in SUBSET DOMAIN pairs : J = I \cap 1 .. n
  OBVIOUS
<1> QED BY <1>1, <1>2, PartIsMap, PartTouches

\* Two parts that consist of the same pairs.
samePairs(q, J, pairs, K) ==
    /\ \A i \in J : \E j \in K : q[i] = pairs[j]
    /\ \A j \in K : \E i \in J : q[i] = pairs[j]

\* They delete the same keys.
LEMMA SameDeletes ==
  ASSUME NEW m, NEW q, NEW pairs, NEW J, NEW K, samePairs(q, J, pairs, K)
  PROVE  deletePart(m, q, J) = deletePart(m, pairs, K)
<1>1. \A p : deletesAt(q, J, p) # {} <=> deletesAt(pairs, K, p) # {}
  BY DEF deletesAt, pairsAt, samePairs
<1> QED BY <1>1 DEF deletePart

\* A slice that holds a part of a batch, read up to its length, does to a map
\* what the part does: the slice keeps the order of the batch.
LEMMA SlicePart ==
  ASSUME NEW m \in Maps, NEW pairs \in Seq(Pairs), NEW I \in SUBSET DOMAIN pairs,
         NEW slice \in Slices, holds(slice, pairs, I),
         NEW q, q = SubSeq(slice.array, 1, slice.len)
  PROVE  /\ Batched(m, q) = batchPart(m, pairs, I)
         /\ Broken(m, q) \subseteq brokenPart(m, pairs, I)
<1>1. PICK n \in Nat : n = slice.len
  BY DEF Slices
<1>2. PICK f \in [1 .. n -> I] :
          /\ \A i, j \in 1 .. n : i < j => f[i] < f[j]
          /\ \A j \in I : \E i \in 1 .. n : f[i] = j
          /\ \A i \in 1 .. n : slice.array[i] = pairs[f[i]]
  BY <1>1 DEF holds
<1>3. DOMAIN q = 1 .. n /\ Len(q) = n /\ \A i \in 1 .. n : q[i] = pairs[f[i]]
  <2>1. slice.array \in Seq(Pairs) /\ n <= Len(slice.array)
    BY <1>1 DEF Slices, holds
  <2>2. PICK a \in Seq(Pairs) : a = slice.array
    BY <2>1
  <2>3. q = SubSeq(a, 1, n) /\ n <= Len(a)
    BY <1>1, <2>1, <2>2
  <2>4. DOMAIN q = 1 .. n /\ Len(q) = n /\ \A i \in 1 .. n : q[i] = a[i]
    <3>1. n \in 0 .. Len(a)
      BY <2>3
    <3>2. q = [i \in 1 .. n |-> a[i]]
      BY <2>3, <3>1, SubSeqRestrict DEF Restrict
    <3>3. \A i \in 1 .. n : a[i] \in Pairs
      BY <3>1
    <3>4. q \in Seq(Pairs) /\ Len(q) = n
      <4>1. q \in [1 .. n -> Pairs]
        BY <3>2, <3>3
      <4>2. q \in Seq(Pairs)
        BY <4>1, SeqDef
      <4>3. DOMAIN q = 1 .. Len(q) /\ DOMAIN q = 1 .. n /\ Len(q) \in Nat
        BY <4>1, <4>2, LenProperties
      <4> QED BY <4>2, <4>3
    <3> QED BY <3>2, <3>4
  <2> QED BY <1>2, <2>2, <2>4
<1>4. DOMAIN pairs = 1 .. Len(pairs) /\ Len(pairs) \in Nat
  BY PairFacts
<1>5. \A i \in 1 .. n : f[i] \in I /\ f[i] \in 1 .. Len(pairs)
  BY <1>2, <1>4
<1>6. \A i, j \in 1 .. n : i <= j <=> f[i] <= f[j]
  <2> TAKE i, j \in 1 .. n
  <2>1. f[i] \in Nat /\ f[j] \in Nat /\ i \in Nat /\ j \in Nat
    BY <1>5, <1>4
  <2>2. (i < j => f[i] < f[j]) /\ (j < i => f[j] < f[i]) /\ (i = j => f[i] = f[j])
    BY <1>2
  <2> QED BY <2>1, <2>2
<1>7. Batched(m, q) = batchPart(m, pairs, I)
  <2>1. deletePart(m, q, 1 .. n) = deletePart(m, pairs, I)
    <3>1. \A i \in 1 .. n : \E j \in I : q[i] = pairs[j]
      BY <1>3, <1>5
    <3>2. ASSUME NEW j \in I PROVE \E i \in 1 .. n : q[i] = pairs[j]
      <4>1. PICK i \in 1 .. n : f[i] = j
        BY <1>2
      <4> QED BY <1>3, <4>1
    <3>3. samePairs(q, 1 .. n, pairs, I)
      BY <3>1, <3>2 DEF samePairs
    <3> QED BY <3>3, SameDeletes
  <2>2. ASSUME NEW p \in Paths
        PROVE  batchPart(m, q, 1 .. n)[p] = batchPart(m, pairs, I)[p]
    <3> DEFINE V == writesAt(q, 1 .. n, p)
               W == writesAt(pairs, I, p)
    <3>1. \A i \in 1 .. n : i \in V <=> f[i] \in W
      BY <1>3, <1>5 DEF writesAt, pairsAt
    <3>2. \A j \in W : \E i \in V : f[i] = j
      <4> TAKE j \in W
      <4>1. j \in I
        BY DEF writesAt, pairsAt
      <4>2. PICK i \in 1 .. n : f[i] = j
        BY <1>2, <4>1
      <4> QED BY <3>1, <4>2
    <3>3. V \subseteq 1 .. n /\ W \subseteq 1 .. Len(pairs)
      BY <1>4 DEF writesAt, pairsAt
    <3>4. CASE V = {}
      <4>1. W = {}
        BY <3>2, <3>4
      <4> QED BY <2>1, <3>4, <4>1 DEF batchPart
    <3>5. CASE V # {}
      <4>1. PICK i \in V : i = Max(V)
        BY <3>3, <3>5, LastIndex
      <4>2. \A j \in V : j <= i
        BY <3>3, <3>5, <4>1, LastIndex
      <4>3. f[i] \in W /\ i \in 1 .. n
        BY <3>1, <3>3, <4>1
      <4>4. \A j \in W : j <= f[i]
        BY <1>6, <3>2, <3>3, <4>2, <4>3
      <4>5. Max(W) = f[i]
        <5> HIDE DEF W
        <5> QED BY <1>4, <3>3, <4>3, <4>4, LastIs
      <4>6. batchPart(m, q, 1 .. n)[p] = q[Max(V)][2]
        BY <3>5 DEF batchPart
      <4>7. batchPart(m, pairs, I)[p] = pairs[Max(W)][2]
        BY <4>3 DEF batchPart
      <4> QED BY <1>3, <4>1, <4>3, <4>5, <4>6, <4>7
    <3> QED BY <3>4, <3>5
  <2>3. batchPart(m, q, 1 .. n) = batchPart(m, pairs, I)
    BY <2>2 DEF batchPart
  <2> QED BY <1>3, <2>3 DEF Batched
<1>8. ASSUME NEW k \in Broken(m, q) PROVE k \in brokenPart(m, pairs, I)
  <2>1. PICK e \in 0 .. n : k = deletePart(m, q, (1 .. n) \cap 1 .. e)
    BY <1>3 DEF Broken, brokenPart
  <2>2. CASE e = 0
    <3>1. k = deletePart(m, pairs, I \cap 1 .. 0)
      <4>1. (1 .. n) \cap 1 .. e = {} /\ I \cap 1 .. 0 = {}
        BY <2>2
      <4>2. samePairs(q, {}, pairs, {})
        BY DEF samePairs
      <4>3. deletePart(m, q, {}) = deletePart(m, pairs, {})
        BY <4>2, SameDeletes
      <4> QED BY <2>1, <4>1, <4>3
    <3>2. 0 \in 0 .. Len(pairs)
      BY <1>4
    <3> QED BY <2>1, <3>1, <3>2 DEF brokenPart
  <2>3. CASE e # 0
    <3>1. e \in 1 .. n
      BY <2>3
    <3>2. PICK x \in 1 .. Len(pairs) : x = f[e]
      BY <1>5, <3>1
    <3>3. ASSUME NEW i \in (1 .. n) \cap 1 .. e
          PROVE  \E j \in I \cap 1 .. x : q[i] = pairs[j]
      <4>1. i \in 1 .. n /\ i <= e
        OBVIOUS
      <4>2. f[i] <= x /\ f[i] \in I /\ f[i] \in 1 .. Len(pairs)
        BY <1>5, <1>6, <3>1, <3>2, <4>1
      <4>3. f[i] \in I \cap 1 .. x
        BY <1>4, <4>2
      <4> QED BY <1>3, <4>1, <4>3
    <3>4. ASSUME NEW j \in I \cap 1 .. x
          PROVE  \E i \in (1 .. n) \cap 1 .. e : q[i] = pairs[j]
      <4>1. PICK i \in 1 .. n : f[i] = j
        BY <1>2
      <4>2. i <= e
        BY <1>6, <3>1, <3>2, <4>1
      <4>3. i \in (1 .. n) \cap 1 .. e
        BY <3>1, <4>2
      <4> QED BY <1>3, <4>1, <4>3
    <3>5. k = deletePart(m, pairs, I \cap 1 .. x)
      <4> DEFINE J == (1 .. n) \cap 1 .. e
                 K == I \cap 1 .. x
      <4>1. samePairs(q, J, pairs, K)
        BY <3>3, <3>4 DEF samePairs
      <4>2. k = deletePart(m, q, J)
        BY <2>1
      <4> HIDE DEF J, K
      <4>3. deletePart(m, q, J) = deletePart(m, pairs, K)
        BY <4>1, SameDeletes
      <4> QED BY <4>2, <4>3 DEF K
    <3>6. x \in 0 .. Len(pairs)
      BY <1>4
    <3> QED BY <3>5, <3>6 DEF brokenPart
  <2> QED BY <2>2, <2>3
<1> QED BY <1>7, <1>8

-----------------------------------------------------------------------------
\* Keys and shards.

\* The shards are finitely many, and every key has one of them and a path of its
\* own.
LEMMA KeyFacts ==
  /\ IsFiniteSet(Shards)
  /\ \A k \in Keys : PathOf[k] \in Paths /\ ShardOf[k] \in Shards
  /\ \A k, l \in Keys : PathOf[k] = PathOf[l] => k = l
<1>1. IsFiniteSet(Shards)
  <2>1. 0 \in Int /\ Pow2(ShardBits) - 1 \in Int
    BY ShardedAssumption, PowerLaws
  <2> QED BY <2>1, FS_Interval DEF Shards
<1>2. \A k \in Keys : PathOf[k] \in Paths /\ ShardOf[k] \in Shards
  BY ShardedAssumption
<1>3. \A k, l \in Keys : PathOf[k] = PathOf[l] => k = l
  BY ShardedAssumption DEF IsInjective
<1> QED BY <1>1, <1>2, <1>3

\* A tree stays at home when a shard changes only at paths of keys that belong
\* to it, and otherwise loses entries.
LEMMA HomeKept ==
  ASSUME NEW t \in Trees, atHome(t), NEW s \in Shards, NEW m \in Maps,
         \A k \in Keys : m[PathOf[k]] \in {t[s][PathOf[k]], Absent} \/ ShardOf[k] = s
  PROVE  [t EXCEPT ![s] = m] \in Trees /\ atHome([t EXCEPT ![s] = m])
<1> DEFINE u == [t EXCEPT ![s] = m]
<1>1. u \in Trees
  BY DEF Trees
<1>2. ASSUME NEW r \in Shards, NEW k \in Keys, u[r][PathOf[k]] # Absent
      PROVE  ShardOf[k] = r
  <2>1. CASE r = s
    <3>1. u[r] = m
      BY <2>1 DEF Trees
    <3> QED BY <1>2, <2>1, <3>1 DEF atHome
  <2>2. CASE r # s
    <3>1. u[r] = t[r]
      BY <2>2 DEF Trees
    <3> QED BY <1>2, <3>1 DEF atHome
  <2> QED BY <2>1, <2>2
<1> QED BY <1>1, <1>2 DEF atHome

\* So does a part of a batch that is routed to the shard.
LEMMA PartAtHome ==
  ASSUME NEW m \in Maps, NEW pairs \in Seq(Pairs), NEW s \in Shards, NEW k \in Keys
  PROVE  batchPart(m, pairs, routed(pairs, s))[PathOf[k]] \in {m[PathOf[k]], Absent}
         \/ ShardOf[k] = s
<1> DEFINE I == routed(pairs, s)
           p == PathOf[k]
<1>1. I \in SUBSET DOMAIN pairs /\ p \in Paths
  BY KeyFacts DEF routed
<1>2. CASE batchPart(m, pairs, I)[p] \in {m[p], Absent}
  BY <1>2
<1>3. CASE \E j \in I : PathOf[pairs[j][1]] = p
  <2>1. PICK j \in I : PathOf[pairs[j][1]] = p
    BY <1>3
  <2>2. pairs[j][1] \in Keys
    BY <1>1, PairFacts
  <2>3. pairs[j][1] = k
    BY <2>1, <2>2, KeyFacts
  <2> QED BY <2>3 DEF routed
<1> HIDE DEF I, p
<1> QED BY <1>1, <1>2, <1>3, PartTouches DEF I, p

-----------------------------------------------------------------------------
\* The invariant.

Invariant == JobTypeOK /\ ShardedInvariant

\* A call that runs has a job, and a caller that runs none is idle.
LEMMA JobFacts ==
  ASSUME JobTypeOK, NEW c \in Callers
  PROVE  /\ shard[c] \in Trees
         /\ job[c].pc \in {"bucket", "wait"} <=> busy(c)
         /\ busy(c) => /\ job[c] \in Jobs /\ job[c].scratch \in Scratches
                       /\ bucket[job[c].scratch] \in [Shards -> Slices]
<1>1. shard[c] \in Trees /\ job[c] \in {Idle} \cup Jobs
  BY DEF JobTypeOK
<1>2. Idle.pc = "idle"
  BY DEF Idle
<1>3. \A j \in Jobs : j.pc \in {"bucket", "wait"} /\ j.scratch \in Scratches
  BY DEF Jobs
<1>4. \A x \in Scratches : bucket[x] \in [Shards -> Slices]
  BY DEF JobTypeOK
<1> QED BY <1>1, <1>2, <1>3, <1>4 DEF busy

\* The invariant holds initially.
LEMMA InvariantInit == Init => Invariant
<1> SUFFICES ASSUME Init PROVE Invariant
  OBVIOUS
<1>1. [s \in Shards |-> [p \in Paths |-> Absent]] \in Trees
  BY DEF Trees, Maps
<1>2. EmptySlices \in [Shards -> Slices]
  <2>1. << >> \in Seq(Pairs)
    OBVIOUS
  <2> QED BY <2>1 DEF EmptySlices, Slices
<1>3. JobTypeOK
  BY <1>1, <1>2 DEF Init, JobTypeOK
<1>4. \A c \in Callers : ~busy(c)
  BY DEF Init, busy
<1>5. ScratchInv /\ BucketInv
  <2>1. \A x \in free, s \in Shards : bucket[x][s].len = 0
    BY DEF Init, EmptySlices
  <2> QED BY <1>4, <2>1 DEF ScratchInv, BucketInv
<1>6. ShardInv
  <2>1. \A c \in Callers : atHome(shard[c])
    BY KeyFacts DEF Init, atHome
  <2> QED BY <1>4, <2>1 DEF ShardInv
<1>7. ReplyInv
  <2>1. \A c \in Callers : reply[c].status = "none"
    BY DEF Init, NoReply
  <2> QED BY <2>1 DEF ReplyInv
<1> QED BY <1>3, <1>5, <1>6, <1>7 DEF Invariant, ShardedInvariant

\* A batch of no keys and a mismatch only change the reply.
LEMMA ReplyOnlyStep ==
  ASSUME Invariant, NEW c \in Callers, BulkUpdateEmpty(c) \/ BulkMismatch(c)
  PROVE  Invariant'
<1>1. /\ UNCHANGED <<shard, free, bucket, job>>
      /\ \/ reply' = [reply EXCEPT ![c] = Success(shard[c])]
         \/ reply' = [reply EXCEPT ![c] = Failure]
  BY DEF BulkUpdateEmpty, BulkMismatch
<1>2. JobTypeOK'
  BY <1>1 DEF Invariant, JobTypeOK
<1>3. ScratchInv' /\ BucketInv' /\ ShardInv'
  BY <1>1 DEF Invariant, ShardedInvariant, ScratchInv, BucketInv, ShardInv, busy
<1>4. ASSUME NEW d \in Callers, ~busy(d)', reply'[d].status = "ok"
      PROVE  reply'[d].root = computeRoot(shard'[d])
  <2>1. DOMAIN reply = Callers
    BY DEF Invariant, JobTypeOK
  <2>2. CASE d = c
    <3>1. reply'[d] = Success(shard[c]) \/ reply'[d] = Failure
      BY <1>1, <2>1, <2>2
    <3>2. Failure.status # "ok" /\ Success(shard[c]).root = computeRoot(shard[c])
      BY DEF Failure, Success
    <3> QED BY <1>1, <1>4, <2>2, <3>1, <3>2
  <2>3. CASE d # c
    <3>1. reply'[d] = reply[d] /\ ~busy(d)
      BY <1>1, <1>4, <2>1, <2>3 DEF busy
    <3> QED BY <1>1, <1>4, <3>1 DEF Invariant, ShardedInvariant, ReplyInv
  <2> QED BY <2>2, <2>3
<1> QED BY <1>2, <1>3, <1>4 DEF Invariant, ShardedInvariant, ReplyInv

\* Update changes the shard of its key.
LEMMA UpdateStep ==
  ASSUME Invariant, NEW c \in Callers, NEW pair \in Pairs, Update(c, pair)
  PROVE  Invariant'
<1> DEFINE s == ShardOf[pair[1]]
           m == ApplyPair(shard[c][s], pair)
<1>1. /\ UNCHANGED <<free, bucket, job>> /\ ~busy(c)
      /\ \/ /\ shard' = [shard EXCEPT ![c][s] = m]
            /\ reply' = [reply EXCEPT ![c] = Success(shard'[c])]
         \/ /\ reply' = [reply EXCEPT ![c] = Failure]
            /\ UNCHANGED shard
  BY DEF Update, busy
<1>2. /\ pair[1] \in Keys /\ s \in Shards /\ shard[c] \in Trees /\ shard[c][s] \in Maps
      /\ IsWrite(pair) => pair[2] \in Values
  <2>1. shard[c] \in Trees
    BY JobFacts DEF Invariant
  <2>2. pair[1] \in Keys /\ (IsWrite(pair) => pair[2] \in Values)
    BY DEF Pairs, IsWrite, IsDelete
  <2> QED BY <2>1, <2>2, KeyFacts DEF Trees
<1>3. m \in Maps
  BY <1>2 DEF ApplyPair, Maps, IsWrite
<1>4. ASSUME NEW k \in Keys
      PROVE  m[PathOf[k]] \in {shard[c][s][PathOf[k]], Absent} \/ ShardOf[k] = s
  <2>1. CASE k = pair[1]
    BY <2>1
  <2>2. CASE k # pair[1]
    <3>1. PathOf[k] # PathOf[pair[1]] /\ PathOf[k] \in Paths
      BY <1>2, <2>2, KeyFacts
    <3>2. m[PathOf[k]] = shard[c][s][PathOf[k]]
      BY <1>2, <3>1 DEF ApplyPair, Maps
    <3> QED BY <3>2
  <2> QED BY <2>1, <2>2
<1> HIDE DEF m, s
<1>5. DOMAIN shard = Callers /\ DOMAIN reply = Callers
  BY DEF Invariant, JobTypeOK
<1>6. /\ \A d \in Callers : d # c => shard'[d] = shard[d] /\ reply'[d] = reply[d]
      /\ shard'[c] \in {shard[c], [shard[c] EXCEPT ![s] = m]}
      /\ reply'[c] \in {Success(shard'[c]), Failure}
  BY <1>1, <1>5
<1>7. shard'[c] \in Trees /\ atHome(shard'[c])
  <2>1. atHome(shard[c])
    BY DEF Invariant, ShardedInvariant, ShardInv
  <2>2. [shard[c] EXCEPT ![s] = m] \in Trees /\ atHome([shard[c] EXCEPT ![s] = m])
    BY <1>2, <1>3, <1>4, <2>1, HomeKept
  <2> QED BY <1>2, <1>6, <2>1, <2>2
<1>8. JobTypeOK'
  <2>1. shard' \in [Callers -> Trees]
    <3>1. shard \in [Callers -> Trees] /\ shard' = [d \in Callers |-> shard'[d]]
      BY <1>1 DEF Invariant, JobTypeOK
    <3>2. \A d \in Callers : shard'[d] \in Trees
      BY <1>6, <1>7, <3>1
    <3> QED BY <3>1, <3>2
  <2>2. DOMAIN reply' = Callers
    BY <1>1, <1>5
  <2> QED BY <1>1, <2>1, <2>2 DEF Invariant, JobTypeOK
<1>9. ScratchInv' /\ BucketInv'
  BY <1>1 DEF Invariant, ShardedInvariant, ScratchInv, BucketInv, busy
<1>10. ShardInv'
  <2>1. ASSUME NEW d \in Callers
        PROVE  atHome(shard'[d]) /\ (busy(d)' => shardsOK(job'[d], shard'[d]))
    <3>1. CASE d = c
      BY <1>1, <1>7, <3>1 DEF busy
    <3>2. CASE d # c
      BY <1>1, <1>6, <3>2 DEF Invariant, ShardedInvariant, ShardInv, busy
    <3> QED BY <3>1, <3>2
  <2> QED BY <2>1 DEF ShardInv
<1>11. ReplyInv'
  <2>1. ASSUME NEW d \in Callers, ~busy(d)', reply'[d].status = "ok"
        PROVE  reply'[d].root = computeRoot(shard'[d])
    <3>1. CASE d = c
      <4>1. Failure.status # "ok" /\ \A t : Success(t).root = computeRoot(t)
        BY DEF Failure, Success
      <4> QED BY <1>6, <2>1, <3>1, <4>1
    <3>2. CASE d # c
      BY <1>1, <1>6, <2>1, <3>2 DEF Invariant, ShardedInvariant, ReplyInv, busy
    <3> QED BY <3>1, <3>2
  <2> QED BY <2>1 DEF ReplyInv
<1> QED BY <1>8, <1>9, <1>10, <1>11 DEF Invariant, ShardedInvariant

\* An empty slice holds the empty part.
LEMMA EmptyHolds ==
  ASSUME NEW slice \in Slices, slice.len = 0, NEW pairs
  PROVE  holds(slice, pairs, {})
<1>1. slice.len <= Len(slice.array)
  BY DEF Slices
<1> DEFINE f == [i \in 1 .. 0 |-> i]
<1>2. 1 .. slice.len = {} /\ f \in [1 .. slice.len -> {}]
  OBVIOUS
<1> QED BY <1>1, <1>2 DEF holds

\* A batch takes a free scratch, whose slices are empty.
LEMMA BulkUpdateStep ==
  ASSUME Invariant, NEW c \in Callers, NEW pairs \in Batches, NEW x \in Scratches,
         BulkUpdate(c, pairs, x)
  PROVE  Invariant'
<1> DEFINE new == [pc |-> "bucket", pairs |-> pairs, at |-> 1, scratch |-> x,
                   ks |-> [s \in Shards |-> 0], live |-> {}, wg |-> 0, err |-> FALSE,
                   base |-> shard[c]]
<1>1. /\ ~busy(c) /\ x \in free /\ free' = free \ {x} /\ job' = [job EXCEPT ![c] = new]
      /\ reply' = [reply EXCEPT ![c] = NoReply] /\ UNCHANGED <<shard, bucket>>
  BY DEF BulkUpdate, busy
<1>2. pairs \in Seq(Pairs)
  <2>1. PICK n \in 0 .. MaxBatch : pairs \in [1 .. n -> Pairs]
    BY DEF Batches, SeqOf
  <2>2. n \in Nat
    OBVIOUS
  <2> QED BY <2>1, <2>2, SeqDef
<1>3. new \in Jobs
  <2>1. shard[c] \in Trees
    BY JobFacts DEF Invariant
  <2> QED BY <1>2, <2>1 DEF Jobs
<1>4. /\ new # Idle /\ new.pc = "bucket" /\ new.pairs = pairs /\ new.at = 1
      /\ new.scratch = x /\ new.base = shard[c]
  <2>1. Idle.pc # "bucket"
    BY DEF Idle
  <2> QED BY <2>1
<1> HIDE DEF new
<1>5. job'[c] = new /\ \A d \in Callers : d # c => job'[d] = job[d] /\ reply'[d] = reply[d]
  BY <1>1 DEF Invariant, JobTypeOK
<1>6. \A d \in Callers : d # c => busy(d)' = busy(d)
  BY <1>5 DEF busy
<1>7. JobTypeOK'
  <2>1. job' \in [Callers -> {Idle} \cup Jobs]
    BY <1>1, <1>3 DEF Invariant, JobTypeOK
  <2> QED BY <1>1, <2>1 DEF Invariant, JobTypeOK
<1>8. \A s \in Shards : bucket[x][s] \in Slices /\ bucket[x][s].len = 0
  BY <1>1 DEF Invariant, ShardedInvariant, ScratchInv, JobTypeOK
<1>9. ScratchInv'
  <2>1. ASSUME NEW d \in Callers, busy(d)' PROVE job'[d].scratch \notin free'
    BY <1>1, <1>4, <1>5, <1>6, <2>1 DEF Invariant, ShardedInvariant, ScratchInv
  <2>2. ASSUME NEW d \in Callers, NEW e \in Callers, busy(d)', busy(e)', d # e
        PROVE  job'[d].scratch # job'[e].scratch
    BY <1>1, <1>4, <1>5, <1>6, <2>2 DEF Invariant, ShardedInvariant, ScratchInv
  <2>3. \A y \in free', s \in Shards : bucket'[y][s].len = 0
    BY <1>1 DEF Invariant, ShardedInvariant, ScratchInv
  <2> QED BY <2>1, <2>2, <2>3 DEF ScratchInv
<1>10. bucketOK(new, bucket[x])
  <2>1. 1 <= Len(pairs) + 1
    BY <1>2
  <2>2. \A s \in Shards : routed(pairs, s) \cap 1 .. 1 - 1 = {}
    OBVIOUS
  <2>3. \A s \in Shards : holds(bucket[x][s], pairs, {})
    BY <1>8, EmptyHolds
  <2> QED BY <1>4, <2>1, <2>2, <2>3 DEF bucketOK
<1>11. BucketInv'
  <2>1. ASSUME NEW d \in Callers, busy(d)'
        PROVE  bucketOK(job'[d], bucket'[job'[d].scratch])
    <3>1. CASE d = c
      BY <1>1, <1>4, <1>5, <1>10, <3>1
    <3>2. CASE d # c
      BY <1>1, <1>5, <1>6, <2>1, <3>2 DEF Invariant, ShardedInvariant, BucketInv
    <3> QED BY <3>1, <3>2
  <2> QED BY <2>1 DEF BucketInv
<1>12. ShardInv'
  <2>1. shardsOK(new, shard[c])
    BY <1>4 DEF shardsOK
  <2>2. ASSUME NEW d \in Callers
        PROVE  atHome(shard'[d]) /\ (busy(d)' => shardsOK(job'[d], shard'[d]))
    BY <1>1, <1>5, <1>6, <2>1 DEF Invariant, ShardedInvariant, ShardInv
  <2> QED BY <2>2 DEF ShardInv
<1>13. ReplyInv'
  <2>1. busy(c)'
    BY <1>4, <1>5 DEF busy
  <2>2. ASSUME NEW d \in Callers, ~busy(d)', reply'[d].status = "ok"
        PROVE  reply'[d].root = computeRoot(shard'[d])
    BY <1>1, <1>5, <1>6, <2>1, <2>2 DEF Invariant, ShardedInvariant, ReplyInv
  <2> QED BY <2>2 DEF ReplyInv
<1> QED BY <1>7, <1>9, <1>11, <1>12, <1>13 DEF Invariant, ShardedInvariant

\* append to a slice that holds a part, of a pair that comes after the part.
LEMMA HoldsAppend ==
  ASSUME NEW pairs \in Seq(Pairs), NEW I \in SUBSET DOMAIN pairs, NEW slice \in Slices,
         holds(slice, pairs, I), NEW a \in DOMAIN pairs, \A j \in I : j < a
  PROVE  /\ Appended(slice, pairs[a]) \in Slices
         /\ holds(Appended(slice, pairs[a]), pairs, I \cup {a})
<1> DEFINE pair == pairs[a]
           new  == Appended(slice, pair)
           n    == slice.len
           old  == slice.array
<1>1. n \in Nat /\ old \in Seq(Pairs) /\ pair \in Pairs /\ n <= Len(old)
  BY PairFacts DEF Slices, holds
<1>2. PICK f \in [1 .. n -> I] :
          /\ \A i, j \in 1 .. n : i < j => f[i] < f[j]
          /\ \A j \in I : \E i \in 1 .. n : f[i] = j
          /\ \A i \in 1 .. n : old[i] = pairs[f[i]]
  BY DEF holds
<1>3. /\ new.len = n + 1
      /\ new.array = IF n < Len(old) THEN [old EXCEPT ![n + 1] = pair] ELSE Append(old, pair)
      /\ new = [len |-> new.len, array |-> new.array]
  BY DEF Appended
<1> HIDE DEF pair, new, n, old
<1>4. /\ new.array \in Seq(Pairs) /\ n + 1 <= Len(new.array)
      /\ new.array[n + 1] = pair /\ \A i \in 1 .. n : new.array[i] = old[i]
  <2>1. CASE n < Len(old)
    <3>1. n + 1 \in 1 .. Len(old)
      BY <1>1, <2>1
    <3>2. new.array = [old EXCEPT ![n + 1] = pair]
      BY <1>3, <2>1
    <3>3. /\ new.array \in Seq(Pairs) /\ Len(new.array) = Len(old)
          /\ \A j \in 1 .. Len(old) : new.array[j] = IF j = n + 1 THEN pair ELSE old[j]
      BY <1>1, <3>1, <3>2, ExceptSeq
    <3>4. \A i \in 1 .. n : i \in 1 .. Len(old) /\ i # n + 1
      BY <1>1
    <3> QED BY <3>1, <3>3, <3>4
  <2>2. CASE ~ (n < Len(old))
    <3>1. new.array = Append(old, pair) /\ n = Len(old)
      BY <1>1, <1>3, <2>2
    <3> QED BY <1>1, <3>1
  <2> QED BY <2>1, <2>2
<1>5. new \in Slices
  <2>1. PICK l \in Nat : l = n + 1
    BY <1>1
  <2>2. PICK b \in Seq(Pairs) : b = new.array
    BY <1>4
  <2>3. new = [len |-> l, array |-> b]
    BY <1>3, <2>1, <2>2
  <2> QED BY <2>3 DEF Slices
<1> DEFINE g == [i \in 1 .. n + 1 |-> IF i = n + 1 THEN a ELSE f[i]]
<1>6. g \in [1 .. n + 1 -> I \cup {a}] /\ g[n + 1] = a /\ \A i \in 1 .. n : g[i] = f[i]
  <2>1. n + 1 \in 1 .. n + 1 /\ \A i \in 1 .. n : i \in 1 .. n + 1 /\ i # n + 1
    BY <1>1
  <2>2. \A i \in 1 .. n + 1 : i # n + 1 => i \in 1 .. n
    BY <1>1
  <2> QED BY <1>2, <2>1, <2>2
<1> HIDE DEF g
<1>7. ASSUME NEW i \in 1 .. n + 1, NEW j \in 1 .. n + 1, i < j PROVE g[i] < g[j]
  <2>1. i \in 1 .. n
    BY <1>1, <1>7
  <2>2. CASE j = n + 1
    BY <1>2, <1>6, <2>1, <2>2
  <2>3. CASE j # n + 1
    <3>1. j \in 1 .. n
      BY <1>1, <2>3
    <3> QED BY <1>2, <1>6, <1>7, <2>1, <3>1
  <2> QED BY <2>2, <2>3
<1>8. ASSUME NEW j \in I \cup {a} PROVE \E i \in 1 .. n + 1 : g[i] = j
  <2>1. CASE j = a
    BY <1>1, <1>6, <2>1
  <2>2. CASE j \in I
    <3>1. PICK i \in 1 .. n : f[i] = j
      BY <1>2, <2>2
    <3>2. i \in 1 .. n + 1 /\ g[i] = j
      BY <1>1, <1>6, <3>1
    <3> QED BY <3>2
  <2> QED BY <2>1, <2>2
<1>9. ASSUME NEW i \in 1 .. n + 1 PROVE new.array[i] = pairs[g[i]]
  <2>1. CASE i = n + 1
    BY <1>4, <1>6, <2>1 DEF pair
  <2>2. CASE i # n + 1
    <3>1. i \in 1 .. n
      BY <1>1, <2>2
    <3> QED BY <1>2, <1>4, <1>6, <3>1
  <2> QED BY <2>1, <2>2
<1>10. holds(new, pairs, I \cup {a})
  <2> DEFINE ordered(e) == \E h \in [1 .. e -> I \cup {a}] :
          /\ \A i, j \in 1 .. e : i < j => h[i] < h[j]
          /\ \A j \in I \cup {a} : \E i \in 1 .. e : h[i] = j
          /\ \A i \in 1 .. e : new.array[i] = pairs[h[i]]
  <2>1. ordered(n + 1)
    <3>1. g \in [1 .. n + 1 -> I \cup {a}]
      BY <1>6
    <3> USE <3>1
    <3> WITNESS g \in [1 .. n + 1 -> I \cup {a}]
    <3>2. \A i, j \in 1 .. n + 1 : i < j => g[i] < g[j]
      BY <1>7
    <3>3. \A j \in I \cup {a} : \E i \in 1 .. n + 1 : g[i] = j
      BY <1>8
    <3>4. \A i \in 1 .. n + 1 : new.array[i] = pairs[g[i]]
      BY <1>9
    <3> QED BY <3>2, <3>3, <3>4
  <2> HIDE DEF ordered
  <2>2. ordered(new.len) /\ new.len <= Len(new.array)
    BY <1>3, <1>4, <2>1
  <2>3. ordered(new.len) = \E h \in [1 .. new.len -> I \cup {a}] :
          /\ \A i, j \in 1 .. new.len : i < j => h[i] < h[j]
          /\ \A j \in I \cup {a} : \E i \in 1 .. new.len : h[i] = j
          /\ \A i \in 1 .. new.len : new.array[i] = pairs[h[i]]
    BY Zenon DEF ordered
  <2> QED BY <2>2, <2>3, Zenon DEF holds
<1> QED BY <1>5, <1>10 DEF new, pair

\* The bucketing loop appends the next pair to the slice of its shard, and the
\* slices of other calls stay as they are.
LEMMA BucketStep ==
  ASSUME Invariant, NEW c \in Callers, Bucket(c)
  PROVE  Invariant'
<1>1. PICK j : j = job[c]
  OBVIOUS
<1>2. PICK x : x = j.scratch
  OBVIOUS
<1>3. PICK s : s = route(j.pairs, j.at)
  OBVIOUS
<1>4. /\ j.pc = "bucket" /\ j.at <= Len(j.pairs)
      /\ bucket' = [bucket EXCEPT ![x][s] = Appended(bucket[x][s], j.pairs[j.at])]
      /\ job' = [job EXCEPT ![c].at = j.at + 1]
      /\ UNCHANGED <<shard, free, reply>>
  BY <1>1, <1>2, <1>3 DEF Bucket
<1>5. j \in Jobs /\ x \in Scratches /\ busy(c) /\ bucket[x] \in [Shards -> Slices]
  BY <1>1, <1>2, <1>4, JobFacts DEF Invariant
<1>6. bucketOK(j, bucket[x]) /\ shardsOK(j, shard[c]) /\ x \notin free
  BY <1>1, <1>2, <1>5
     DEF Invariant, ShardedInvariant, BucketInv, ShardInv, ScratchInv
<1>7. /\ j.pairs \in Seq(Pairs) /\ j.at \in Nat \ {0} /\ DOMAIN j.pairs = 1 .. Len(j.pairs)
      /\ j.at \in DOMAIN j.pairs /\ Len(j.pairs) \in Nat
  <2>1. j.pairs \in Seq(Pairs) /\ j.at \in Nat \ {0}
    BY <1>5 DEF Jobs
  <2> QED BY <1>4, <2>1
<1>8. s \in Shards /\ s = ShardOf[j.pairs[j.at][1]]
  <2>1. PICK pairs \in Seq(Pairs) : pairs = j.pairs
    BY <1>7
  <2>2. pairs[j.at][1] \in Keys
    BY <1>7, <2>1, PairFacts
  <2> QED BY <1>3, <2>1, <2>2, KeyFacts DEF route
<1>9. PICK new : new = [j EXCEPT !.at = j.at + 1]
  OBVIOUS
<1>10. /\ new \in Jobs /\ new # Idle /\ new.pc = "bucket" /\ new.pairs = j.pairs
       /\ new.at = j.at + 1 /\ new.scratch = x /\ new.base = j.base
  <2>1. Idle.pc # "bucket"
    BY DEF Idle
  <2>2. new \in Jobs
    BY <1>5, <1>7, <1>9 DEF Jobs
  <2>3. /\ new.pc = j.pc /\ new.pairs = j.pairs /\ new.at = j.at + 1
        /\ new.scratch = j.scratch /\ new.base = j.base
    BY <1>5, <1>9 DEF Jobs
  <2> QED BY <1>2, <1>4, <2>1, <2>2, <2>3
<1>11. job'[c] = new /\ \A d \in Callers : d # c => job'[d] = job[d]
  BY <1>1, <1>4, <1>9 DEF Invariant, JobTypeOK
<1>12. \A d \in Callers : busy(d)' = busy(d)
  BY <1>5, <1>10, <1>11 DEF busy
<1>13. \A d \in Callers : job'[d].scratch = job[d].scratch
  BY <1>1, <1>2, <1>10, <1>11
<1>14. \A r \in Shards : routed(j.pairs, r) \cap 1 .. new.at - 1 =
          IF r = s THEN (routed(j.pairs, r) \cap 1 .. j.at - 1) \cup {j.at}
          ELSE routed(j.pairs, r) \cap 1 .. j.at - 1
  <2> TAKE r \in Shards
  <2>1. j.at \in routed(j.pairs, r) <=> r = s
    BY <1>7, <1>8 DEF routed
  <2>2. \A i \in Nat : i \in 1 .. new.at - 1 <=> i \in 1 .. j.at - 1 \/ i = j.at
    BY <1>7, <1>10
  <2>3. routed(j.pairs, r) \subseteq Nat
    BY <1>7 DEF routed
  <2> QED BY <2>1, <2>2, <2>3
<1>15. /\ \A y \in Scratches : y # x => bucket'[y] = bucket[y]
       /\ \A r \in Shards : r # s => bucket'[x][r] = bucket[x][r]
       /\ bucket'[x][s] = Appended(bucket[x][s], j.pairs[j.at])
  BY <1>4, <1>5, <1>8 DEF Invariant, JobTypeOK
<1>16. /\ bucket'[x][s] \in Slices
       /\ holds(bucket'[x][s], j.pairs, (routed(j.pairs, s) \cap 1 .. j.at - 1) \cup {j.at})
  <2> DEFINE I == routed(j.pairs, s) \cap 1 .. j.at - 1
  <2>1. I \in SUBSET DOMAIN j.pairs /\ \A i \in I : i < j.at
    BY <1>7 DEF routed
  <2>2. holds(bucket[x][s], j.pairs, I) /\ bucket[x][s] \in Slices
    BY <1>5, <1>6, <1>8 DEF bucketOK
  <2> HIDE DEF I
  <2>3. PICK pairs \in Seq(Pairs) : pairs = j.pairs
    BY <1>7
  <2>4. PICK a \in DOMAIN pairs : a = j.at
    BY <1>7, <2>3
  <2> QED BY <1>15, <2>1, <2>2, <2>3, <2>4, HoldsAppend DEF I
<1>17. bucketOK(new, bucket'[x])
  <2>1. new.at <= Len(new.pairs) + 1
    BY <1>4, <1>7, <1>10
  <2>2. ASSUME NEW r \in Shards
        PROVE  holds(bucket'[x][r], new.pairs, routed(new.pairs, r) \cap 1 .. new.at - 1)
    <3>1. CASE r = s
      BY <1>10, <1>14, <1>16, <3>1
    <3>2. CASE r # s
      <4>1. holds(bucket[x][r], j.pairs, routed(j.pairs, r) \cap 1 .. j.at - 1)
        BY <1>6 DEF bucketOK
      <4> QED BY <1>10, <1>14, <1>15, <3>2, <4>1
    <3> QED BY <3>1, <3>2
  <2> QED BY <1>10, <2>1, <2>2 DEF bucketOK
<1>18. JobTypeOK'
  <2>1. job' \in [Callers -> {Idle} \cup Jobs]
    <3>1. job \in [Callers -> {Idle} \cup Jobs] /\ job' = [d \in Callers |-> job'[d]]
      BY <1>4 DEF Invariant, JobTypeOK
    <3>2. \A d \in Callers : job'[d] \in {Idle} \cup Jobs
      BY <1>10, <1>11, <3>1
    <3> QED BY <3>1, <3>2
  <2>2. bucket' \in [Scratches -> [Shards -> Slices]]
    <3>1. bucket \in [Scratches -> [Shards -> Slices]]
      BY DEF Invariant, JobTypeOK
    <3>2. Appended(bucket[x][s], j.pairs[j.at]) \in Slices
      BY <1>15, <1>16
    <3> QED BY <1>4, <1>5, <1>8, <3>1, <3>2
  <2> QED BY <1>4, <2>1, <2>2 DEF Invariant, JobTypeOK
<1>19. ScratchInv'
  <2>1. \A y \in free : bucket'[y] = bucket[y]
    BY <1>6, <1>15 DEF Invariant, JobTypeOK
  <2> QED BY <1>4, <1>12, <1>13, <2>1 DEF Invariant, ShardedInvariant, ScratchInv
<1>20. BucketInv'
  <2>1. ASSUME NEW d \in Callers, busy(d)'
        PROVE  bucketOK(job'[d], bucket'[job'[d].scratch])
    <3>1. CASE d = c
      BY <1>10, <1>11, <1>17, <3>1
    <3>2. CASE d # c
      <4>1. busy(d) /\ job[d].scratch # x /\ job[d].scratch \in Scratches
        BY <1>1, <1>2, <1>5, <1>12, <2>1, <3>2, JobFacts
           DEF Invariant, ShardedInvariant, ScratchInv
      <4>2. bucketOK(job[d], bucket[job[d].scratch])
        BY <4>1 DEF Invariant, ShardedInvariant, BucketInv
      <4> QED BY <1>11, <1>15, <3>2, <4>1, <4>2
    <3> QED BY <3>1, <3>2
  <2> QED BY <2>1 DEF BucketInv
<1>21. ShardInv'
  <2>1. shardsOK(new, shard[c])
    BY <1>4, <1>6, <1>10 DEF shardsOK
  <2>2. ASSUME NEW d \in Callers
        PROVE  atHome(shard'[d]) /\ (busy(d)' => shardsOK(job'[d], shard'[d]))
    BY <1>4, <1>11, <1>12, <2>1 DEF Invariant, ShardedInvariant, ShardInv
  <2> QED BY <2>2 DEF ShardInv
<1>22. ReplyInv'
  BY <1>4, <1>12 DEF Invariant, ShardedInvariant, ReplyInv
<1> QED BY <1>18, <1>19, <1>20, <1>21, <1>22 DEF Invariant, ShardedInvariant

\* After the bucketing loop every pair that belongs to a shard is in its slice.
LEMMA AllBucketed ==
  ASSUME NEW j \in Jobs, j.at = Len(j.pairs) + 1, NEW s \in Shards
  PROVE  /\ j.pairs \in Seq(Pairs) /\ j.base \in Trees
         /\ routed(j.pairs, s) \in SUBSET DOMAIN j.pairs
         /\ routed(j.pairs, s) \cap 1 .. j.at - 1 = routed(j.pairs, s)
<1>1. j.pairs \in Seq(Pairs) /\ j.base \in Trees
  BY DEF Jobs
<1>2. DOMAIN j.pairs = 1 .. Len(j.pairs) /\ Len(j.pairs) \in Nat
  BY <1>1
<1>3. 1 .. j.at - 1 = DOMAIN j.pairs
  BY <1>2
<1> QED BY <1>1, <1>3 DEF routed

\* The goroutines start on shards that are as they were when the call began; a
\* shard without a goroutine has no pairs.
LEMMA FanOutStep ==
  ASSUME Invariant, NEW c \in Callers, FanOut(c)
  PROVE  Invariant'
<1>1. PICK j : j = job[c]
  OBVIOUS
<1>2. PICK slices : slices = bucket[j.scratch]
  OBVIOUS
<1>3. PICK used : used = {s \in Shards : slices[s].len > 0}
  OBVIOUS
<1>4. PICK lens : lens = [s \in Shards |-> slices[s].len]
  OBVIOUS
<1>5. PICK new : new = [j EXCEPT !.pc = "wait", !.ks = lens, !.live = used,
                                 !.wg = Cardinality(used)]
  OBVIOUS
<1>6. /\ j.pc = "bucket" /\ j.at > Len(j.pairs) /\ job' = [job EXCEPT ![c] = new]
      /\ UNCHANGED <<shard, free, bucket, reply>>
  BY <1>1, <1>2, <1>3, <1>4, <1>5 DEF FanOut
<1>7. j \in Jobs /\ busy(c) /\ slices \in [Shards -> Slices]
  BY <1>1, <1>2, <1>6, JobFacts DEF Invariant
<1>8. bucketOK(j, slices) /\ shardsOK(j, shard[c])
  BY <1>1, <1>2, <1>7 DEF Invariant, ShardedInvariant, BucketInv, ShardInv
<1>9. used \in SUBSET Shards /\ Cardinality(used) \in Int /\ lens \in [Shards -> Nat]
  <2>1. used \in SUBSET Shards
    BY <1>3
  <2>2. Cardinality(used) \in Nat
    BY <2>1, KeyFacts, FS_Subset, FS_CardinalityType
  <2>3. \A s \in Shards : slices[s].len \in Nat
    BY <1>7 DEF Slices
  <2> QED BY <1>4, <2>1, <2>2, <2>3
<1>10. /\ new \in Jobs /\ new # Idle /\ new.pc = "wait" /\ new.pairs = j.pairs
       /\ new.at = j.at /\ new.scratch = j.scratch /\ new.base = j.base /\ new.ks = lens
       /\ new.live = used /\ new.wg = Cardinality(used) /\ new.err = j.err
  <2>1. new \in Jobs
    BY <1>5, <1>7, <1>9 DEF Jobs
  <2>2. /\ new.pc = "wait" /\ new.pairs = j.pairs
        /\ new.at = j.at /\ new.scratch = j.scratch /\ new.base = j.base /\ new.ks = lens
        /\ new.live = used /\ new.wg = Cardinality(used) /\ new.err = j.err
    BY <1>5, <1>7 DEF Jobs
  <2>3. Idle.pc # "wait"
    BY DEF Idle
  <2> QED BY <2>1, <2>2, <2>3
<1>11. job'[c] = new /\ \A d \in Callers : d # c => job'[d] = job[d]
  BY <1>6 DEF Invariant, JobTypeOK
<1>12. \A d \in Callers : busy(d)' = busy(d)
  BY <1>7, <1>10, <1>11 DEF busy
<1>13. \A d \in Callers : job'[d].scratch = job[d].scratch
  BY <1>1, <1>10, <1>11
<1>14. j.at = Len(j.pairs) + 1
  <2>1. j.at \in Nat /\ Len(j.pairs) \in Nat
    BY <1>7 DEF Jobs
  <2> QED BY <1>6, <1>8, <2>1 DEF bucketOK
<1>15. bucketOK(new, slices)
  <2>1. \A s \in Shards : new.ks[s] = slices[s].len
    BY <1>4, <1>10
  <2> QED BY <1>8, <1>10, <1>14, <2>1 DEF bucketOK
<1>16. shardsOK(new, shard[c])
  <2>1. shard[c] = j.base
    BY <1>6, <1>8 DEF shardsOK
  <2>2. ASSUME NEW s \in Shards, s \notin used
        PROVE  applied(new, s, shard[c][s])
    <3>1. slices[s].len = 0
      BY <1>3, <1>7, <2>2 DEF Slices
    <3>2. holds(slices[s], j.pairs, routed(j.pairs, s))
      BY <1>7, <1>8, <1>14, AllBucketed DEF bucketOK
    <3>3. routed(j.pairs, s) = {}
      BY <3>1, <3>2 DEF holds
    <3>4. j.base[s] \in Maps
      BY <1>7, <1>14, AllBucketed DEF Trees
    <3>5. batchPart(j.base[s], j.pairs, {}) = j.base[s]
      BY <3>4, EmptyPart
    <3> QED BY <1>10, <2>1, <3>3, <3>5 DEF applied
  <2>3. ASSUME NEW s \in Shards
        PROVE  IF s \in new.live THEN shard[c][s] = new.base[s]
               ELSE applied(new, s, shard[c][s])
    BY <1>10, <2>1, <2>2
  <2> QED BY <1>10, <2>3 DEF shardsOK
<1>17. JobTypeOK'
  <2>1. job' \in [Callers -> {Idle} \cup Jobs]
    BY <1>6, <1>10 DEF Invariant, JobTypeOK
  <2> QED BY <1>6, <2>1 DEF Invariant, JobTypeOK
<1>18. ScratchInv' /\ ReplyInv'
  BY <1>6, <1>12, <1>13 DEF Invariant, ShardedInvariant, ScratchInv, ReplyInv
<1>19. BucketInv'
  BY <1>2, <1>6, <1>10, <1>11, <1>12, <1>15 DEF Invariant, ShardedInvariant, BucketInv
<1>20. ShardInv'
  BY <1>6, <1>11, <1>12, <1>16 DEF Invariant, ShardedInvariant, ShardInv
<1> QED BY <1>17, <1>18, <1>19, <1>20 DEF Invariant, ShardedInvariant

\* A goroutine reads, through its slice header, the part of the batch that
\* belongs to its shard.
LEMMA GoroutineReads ==
  ASSUME Invariant, NEW c \in Callers, NEW s \in Shards, job[c].pc = "wait",
         s \in job[c].live
  PROVE  LET j == job[c]
             m == shard[c][s]
             I == routed(j.pairs, s)
         IN  /\ m = j.base[s] /\ m \in Maps
             /\ j.pairs \in Seq(Pairs) /\ I \in SUBSET DOMAIN j.pairs
             /\ Batched(m, shardPairs(c, s)) = batchPart(m, j.pairs, I)
             /\ Broken(m, shardPairs(c, s)) \subseteq brokenPart(m, j.pairs, I)
<1>1. PICK j : j = job[c]
  OBVIOUS
<1>2. PICK slices : slices = bucket[j.scratch]
  OBVIOUS
<1>3. busy(c) /\ j \in Jobs /\ slices \in [Shards -> Slices] /\ shard[c] \in Trees
  BY <1>1, <1>2, JobFacts DEF Invariant
<1>4. bucketOK(j, slices) /\ shardsOK(j, shard[c])
  BY <1>1, <1>2, <1>3 DEF Invariant, ShardedInvariant, BucketInv, ShardInv
<1>5. j.at = Len(j.pairs) + 1 /\ j.ks[s] = slices[s].len /\ shard[c][s] = j.base[s]
  BY <1>1, <1>4 DEF bucketOK, shardsOK
<1>6. PICK m \in Maps : m = shard[c][s]
  BY <1>3 DEF Trees
<1>7. PICK pairs \in Seq(Pairs) : pairs = j.pairs
  BY <1>3, <1>5, AllBucketed
<1>8. PICK I \in SUBSET DOMAIN pairs : I = routed(pairs, s)
  BY <1>3, <1>5, <1>7, AllBucketed
<1>9. PICK slice \in Slices : slice = slices[s]
  BY <1>3
<1>10. holds(slice, pairs, I)
  BY <1>3, <1>4, <1>5, <1>7, <1>8, <1>9, AllBucketed DEF bucketOK
<1>11. shardPairs(c, s) = SubSeq(slice.array, 1, slice.len)
  BY <1>1, <1>2, <1>5, <1>9 DEF shardPairs
<1>12. PICK q : q = shardPairs(c, s)
  OBVIOUS
<1>13. Batched(m, q) = batchPart(m, pairs, I) /\ Broken(m, q) \subseteq brokenPart(m, pairs, I)
  BY <1>10, <1>11, <1>12, SlicePart
<1> QED BY <1>1, <1>5, <1>6, <1>7, <1>8, <1>12, <1>13

\* A goroutine leaves its part of the batch in its shard, or fails and leaves
\* some of its deletes; the wait group counts one less.
LEMMA GoroutineStep ==
  ASSUME Invariant, NEW c \in Callers, NEW s \in Shards, Goroutine(c, s)
  PROVE  Invariant'
<1>1. PICK j : j = job[c]
  OBVIOUS
<1>2. /\ j.pc = "wait" /\ s \in j.live
      /\ UNCHANGED <<free, bucket, reply>>
      /\ \/ /\ shard' = [shard EXCEPT ![c][s] = Batched(shard[c][s], shardPairs(c, s))]
            /\ Done(c, s, FALSE)
         \/ /\ \E m \in Broken(shard[c][s], shardPairs(c, s)) :
                  shard' = [shard EXCEPT ![c][s] = m]
            /\ Done(c, s, TRUE)
  BY <1>1 DEF Goroutine, ShardUpdate, ShardFails
<1>3. busy(c) /\ j \in Jobs /\ shard[c] \in Trees
  BY <1>1, <1>2, JobFacts DEF Invariant
<1>4. PICK I : I = routed(j.pairs, s)
  OBVIOUS
<1>5. /\ shard[c][s] = j.base[s] /\ j.base[s] \in Maps
      /\ j.pairs \in Seq(Pairs) /\ I \in SUBSET DOMAIN j.pairs
      /\ Batched(shard[c][s], shardPairs(c, s)) = batchPart(j.base[s], j.pairs, I)
      /\ Broken(shard[c][s], shardPairs(c, s)) \subseteq brokenPart(j.base[s], j.pairs, I)
  BY <1>1, <1>2, <1>4, GoroutineReads
<1>6. \E m, failed : /\ shard' = [shard EXCEPT ![c][s] = m]
                     /\ Done(c, s, failed) /\ failed \in BOOLEAN
                     /\ \/ m = batchPart(j.base[s], j.pairs, I)
                        \/ failed /\ m \in brokenPart(j.base[s], j.pairs, I)
  <2>1. CASE /\ shard' = [shard EXCEPT ![c][s] = Batched(shard[c][s], shardPairs(c, s))]
             /\ Done(c, s, FALSE)
    BY <1>5, <2>1
  <2>2. CASE /\ \E m \in Broken(shard[c][s], shardPairs(c, s)) :
                   shard' = [shard EXCEPT ![c][s] = m]
             /\ Done(c, s, TRUE)
    BY <1>5, <2>2
  <2> QED BY <1>2, <2>1, <2>2
<1>7. PICK m : \E failed : /\ shard' = [shard EXCEPT ![c][s] = m]
                           /\ Done(c, s, failed) /\ failed \in BOOLEAN
                           /\ \/ m = batchPart(j.base[s], j.pairs, I)
                              \/ failed /\ m \in brokenPart(j.base[s], j.pairs, I)
  BY <1>6
<1>8. PICK failed : /\ shard' = [shard EXCEPT ![c][s] = m]
                    /\ Done(c, s, failed) /\ failed \in BOOLEAN
                    /\ \/ m = batchPart(j.base[s], j.pairs, I)
                       \/ failed /\ m \in brokenPart(j.base[s], j.pairs, I)
  BY <1>7
<1>9. PICK new : new = [j EXCEPT !.live = j.live \ {s}, !.err = j.err \/ failed,
                                 !.wg = j.wg - 1]
  OBVIOUS
<1>10. job' = [job EXCEPT ![c] = new]
  BY <1>1, <1>8, <1>9 DEF Done
<1>11. /\ new \in Jobs /\ new # Idle /\ new.pc = "wait" /\ new.pairs = j.pairs
       /\ new.at = j.at /\ new.scratch = j.scratch /\ new.base = j.base /\ new.ks = j.ks
       /\ new.live = j.live \ {s} /\ new.wg = j.wg - 1 /\ new.err = (j.err \/ failed)
  <2>1. j.err \in BOOLEAN /\ j.live \in SUBSET Shards /\ j.wg \in Int
    BY <1>3 DEF Jobs
  <2>2. (j.err \/ failed) \in BOOLEAN /\ j.live \ {s} \in SUBSET Shards /\ j.wg - 1 \in Int
    BY <1>8, <2>1
  <2>3. new \in Jobs
    BY <1>3, <1>9, <2>2 DEF Jobs
  <2>4. /\ new.pc = j.pc /\ new.pairs = j.pairs
        /\ new.at = j.at /\ new.scratch = j.scratch /\ new.base = j.base /\ new.ks = j.ks
        /\ new.live = j.live \ {s} /\ new.wg = j.wg - 1 /\ new.err = (j.err \/ failed)
    BY <1>3, <1>9 DEF Jobs
  <2>5. Idle.pc # "wait"
    BY DEF Idle
  <2> QED BY <1>2, <2>3, <2>4, <2>5
<1>12. job'[c] = new /\ \A d \in Callers : d # c => job'[d] = job[d]
  BY <1>10 DEF Invariant, JobTypeOK
<1>13. \A d \in Callers : busy(d)' = busy(d)
  BY <1>3, <1>11, <1>12 DEF busy
<1>14. \A d \in Callers : job'[d].scratch = job[d].scratch
  BY <1>1, <1>11, <1>12
<1>15. /\ \A d \in Callers : d # c => shard'[d] = shard[d]
       /\ shard'[c] = [shard[c] EXCEPT ![s] = m]
  BY <1>8 DEF Invariant, JobTypeOK
<1>16. m \in Maps /\ \A k \in Keys : \/ m[PathOf[k]] \in {shard[c][s][PathOf[k]], Absent}
                                     \/ ShardOf[k] = s
  <2>1. PICK b \in Maps : b = j.base[s]
    BY <1>5
  <2>2. PICK pairs \in Seq(Pairs) : pairs = j.pairs
    BY <1>5
  <2>3. CASE m = batchPart(b, pairs, I)
    <3>1. m \in Maps
      BY <1>5, <2>2, <2>3, PartIsMap
    <3>2. \A k \in Keys : m[PathOf[k]] \in {b[PathOf[k]], Absent} \/ ShardOf[k] = s
      BY <1>4, <2>2, <2>3, PartAtHome
    <3> QED BY <1>5, <2>1, <3>1, <3>2
  <2>4. CASE m \in brokenPart(b, pairs, I)
    <3>1. m \in Maps /\ \A p \in Paths : m[p] \in {b[p], Absent}
      BY <1>5, <2>2, <2>4, BrokenIsMap
    <3> QED BY <1>5, <2>1, <3>1, KeyFacts
  <2> QED BY <1>8, <2>1, <2>2, <2>3, <2>4
<1>17. shard'[c] \in Trees /\ atHome(shard'[c])
  <2>1. atHome(shard[c])
    BY DEF Invariant, ShardedInvariant, ShardInv
  <2> QED BY <1>3, <1>15, <1>16, <2>1, HomeKept
<1>18. shardsOK(new, shard'[c])
  <2>1. shardsOK(j, shard[c])
    BY <1>1, <1>3 DEF Invariant, ShardedInvariant, ShardInv
  <2>2. new.wg = Cardinality(new.live)
    <3>1. j.live \in SUBSET Shards
      BY <1>3 DEF Jobs
    <3>2. IsFiniteSet(j.live)
      BY <3>1, KeyFacts, FS_Subset
    <3>3. Cardinality(j.live \ {s}) = Cardinality(j.live) - 1
      BY <1>2, <3>2, FS_RemoveElement
    <3>4. j.wg = Cardinality(j.live)
      BY <1>2, <2>1 DEF shardsOK
    <3> QED BY <1>11, <3>3, <3>4
  <2>3. shard'[c][s] = m /\ \A r \in Shards : r # s => shard'[c][r] = shard[c][r]
    BY <1>3, <1>15 DEF Trees
  <2>4. applied(new, s, m)
    <3>1. failed => new.err
      BY <1>11
    <3> QED BY <1>4, <1>8, <1>11, <3>1 DEF applied
  <2>5. ASSUME NEW r \in Shards
        PROVE  IF r \in new.live THEN shard'[c][r] = new.base[r]
               ELSE applied(new, r, shard'[c][r])
    <3>1. CASE r = s
      BY <1>11, <2>3, <2>4, <3>1
    <3>2. CASE r # s /\ r \in j.live
      <4>1. shard[c][r] = j.base[r]
        BY <1>2, <2>1, <3>2 DEF shardsOK
      <4> QED BY <1>11, <2>3, <3>2, <4>1
    <3>3. CASE r # s /\ r \notin j.live
      <4>1. applied(j, r, shard[c][r])
        BY <1>2, <2>1, <3>3 DEF shardsOK
      <4>2. j.err => new.err
        BY <1>11
      <4>3. applied(new, r, shard[c][r])
        BY <1>11, <4>1, <4>2 DEF applied
      <4> QED BY <1>11, <2>3, <3>3, <4>3
    <3> QED BY <3>1, <3>2, <3>3
  <2> QED BY <1>11, <2>2, <2>5 DEF shardsOK
<1>19. JobTypeOK'
  <2>1. job' \in [Callers -> {Idle} \cup Jobs]
    BY <1>10, <1>11 DEF Invariant, JobTypeOK
  <2>2. shard' \in [Callers -> Trees]
    <3>1. shard \in [Callers -> Trees] /\ shard' = [d \in Callers |-> shard'[d]]
      BY <1>8 DEF Invariant, JobTypeOK
    <3>2. \A d \in Callers : shard'[d] \in Trees
      BY <1>15, <1>17, <3>1
    <3> QED BY <3>1, <3>2
  <2> QED BY <1>2, <2>1, <2>2 DEF Invariant, JobTypeOK
<1>20. ScratchInv'
  BY <1>2, <1>13, <1>14 DEF Invariant, ShardedInvariant, ScratchInv
<1>21. BucketInv'
  <2>1. bucketOK(j, bucket[j.scratch])
    BY <1>1, <1>3 DEF Invariant, ShardedInvariant, BucketInv
  <2>2. bucketOK(new, bucket[new.scratch])
    BY <1>2, <1>11, <2>1 DEF bucketOK
  <2> QED BY <1>2, <1>12, <1>13, <2>2 DEF Invariant, ShardedInvariant, BucketInv
<1>22. ShardInv'
  <2>1. ASSUME NEW d \in Callers
        PROVE  atHome(shard'[d]) /\ (busy(d)' => shardsOK(job'[d], shard'[d]))
    <3>1. CASE d = c
      BY <1>12, <1>17, <1>18, <3>1
    <3>2. CASE d # c
      BY <1>12, <1>13, <1>15, <3>2 DEF Invariant, ShardedInvariant, ShardInv
    <3> QED BY <3>1, <3>2
  <2> QED BY <2>1 DEF ShardInv
<1>23. ReplyInv'
  <2>1. ASSUME NEW d \in Callers, ~busy(d)', reply'[d].status = "ok"
        PROVE  reply'[d].root = computeRoot(shard'[d])
    <3>1. d # c /\ ~busy(d)
      BY <1>3, <1>13, <2>1
    <3> QED BY <1>2, <1>15, <2>1, <3>1 DEF Invariant, ShardedInvariant, ReplyInv
  <2> QED BY <2>1 DEF ReplyInv
<1> QED BY <1>19, <1>20, <1>21, <1>22, <1>23 DEF Invariant, ShardedInvariant

\* A call that returns gives its scratch back with empty slices, and a root that
\* is the one of the shards it leaves.
LEMMA ReturnStep ==
  ASSUME Invariant, NEW c \in Callers, Return(c)
  PROVE  Invariant'
<1>1. PICK x : x = job[c].scratch
  OBVIOUS
<1>2. PICK empty : empty = [s \in Shards |-> [bucket[x][s] EXCEPT !.len = 0]]
  OBVIOUS
<1>3. /\ job[c].pc = "wait" /\ UNCHANGED shard
      /\ reply' = [reply EXCEPT ![c] = IF job[c].err THEN Failure ELSE Success(shard[c])]
      /\ bucket' = [bucket EXCEPT ![x] = empty] /\ free' = free \cup {x}
      /\ job' = [job EXCEPT ![c] = Idle]
  BY <1>1, <1>2 DEF Return, putShardScratch
<1>4. busy(c) /\ x \in Scratches /\ bucket[x] \in [Shards -> Slices]
  BY <1>1, <1>3, JobFacts DEF Invariant
<1>5. empty \in [Shards -> Slices] /\ \A s \in Shards : empty[s].len = 0
  <2>1. ASSUME NEW s \in Shards PROVE empty[s] \in Slices /\ empty[s].len = 0
    <3>1. PICK slice \in Slices : slice = bucket[x][s]
      BY <1>4
    <3>2. empty[s] = [slice EXCEPT !.len = 0]
      BY <1>2, <3>1
    <3> QED BY <3>2 DEF Slices
  <2> QED BY <1>2, <2>1
<1>6. /\ job'[c] = Idle
      /\ \A d \in Callers : d # c => job'[d] = job[d] /\ reply'[d] = reply[d]
      /\ reply'[c] \in {Failure, Success(shard[c])}
  BY <1>3 DEF Invariant, JobTypeOK
<1>7. ~busy(c)' /\ \A d \in Callers : d # c => busy(d)' = busy(d)
  BY <1>6 DEF busy
<1>8. bucket'[x] = empty /\ \A y \in Scratches : y # x => bucket'[y] = bucket[y]
  BY <1>3, <1>4 DEF Invariant, JobTypeOK
<1>9. JobTypeOK'
  BY <1>3, <1>4, <1>5 DEF Invariant, JobTypeOK
<1>10. \A d \in Callers : d # c /\ busy(d) =>
          job[d].scratch # x /\ job[d].scratch \in Scratches
  BY <1>1, <1>4, JobFacts DEF Invariant, ShardedInvariant, ScratchInv
<1>11. ScratchInv'
  <2>1. ASSUME NEW d \in Callers, busy(d)' PROVE job'[d].scratch \notin free'
    BY <1>3, <1>6, <1>7, <1>10, <2>1 DEF Invariant, ShardedInvariant, ScratchInv
  <2>2. ASSUME NEW d \in Callers, NEW e \in Callers, busy(d)', busy(e)', d # e
        PROVE  job'[d].scratch # job'[e].scratch
    BY <1>6, <1>7, <2>2 DEF Invariant, ShardedInvariant, ScratchInv
  <2>3. ASSUME NEW y \in free', NEW s \in Shards PROVE bucket'[y][s].len = 0
    <3>1. CASE y = x
      BY <1>5, <1>8, <3>1
    <3>2. CASE y # x
      <4>1. y \in free /\ y \in Scratches
        BY <1>3, <3>2 DEF Invariant, JobTypeOK
      <4> QED BY <1>8, <3>2, <4>1 DEF Invariant, ShardedInvariant, ScratchInv
    <3> QED BY <3>1, <3>2
  <2> QED BY <2>1, <2>2, <2>3 DEF ScratchInv
<1>12. BucketInv'
  <2>1. ASSUME NEW d \in Callers, busy(d)'
        PROVE  bucketOK(job'[d], bucket'[job'[d].scratch])
    <3>1. d # c /\ busy(d) /\ job'[d] = job[d]
      BY <1>6, <1>7, <2>1
    <3>2. bucket'[job[d].scratch] = bucket[job[d].scratch]
      BY <1>8, <1>10, <3>1
    <3>3. bucketOK(job[d], bucket[job[d].scratch])
      BY <3>1 DEF Invariant, ShardedInvariant, BucketInv
    <3> QED BY <3>1, <3>2, <3>3
  <2> QED BY <2>1 DEF BucketInv
<1>13. ShardInv'
  <2>1. ASSUME NEW d \in Callers
        PROVE  atHome(shard'[d]) /\ (busy(d)' => shardsOK(job'[d], shard'[d]))
    BY <1>3, <1>6, <1>7 DEF Invariant, ShardedInvariant, ShardInv
  <2> QED BY <2>1 DEF ShardInv
<1>14. ReplyInv'
  <2>1. ASSUME NEW d \in Callers, ~busy(d)', reply'[d].status = "ok"
        PROVE  reply'[d].root = computeRoot(shard'[d])
    <3>1. CASE d = c
      <4>1. Failure.status # "ok" /\ Success(shard[c]).root = computeRoot(shard[c])
        BY DEF Failure, Success
      <4> QED BY <1>3, <1>6, <2>1, <3>1, <4>1
    <3>2. CASE d # c
      BY <1>3, <1>6, <1>7, <2>1, <3>2 DEF Invariant, ShardedInvariant, ReplyInv
    <3> QED BY <3>1, <3>2
  <2> QED BY <2>1 DEF ReplyInv
<1> QED BY <1>9, <1>11, <1>12, <1>13, <1>14 DEF Invariant, ShardedInvariant

-----------------------------------------------------------------------------
\* The theorems.

\* Every call keeps its scratch to itself from getShardScratch to the deferred
\* put, its slices hold the pairs of its batch in order, and every shard is as it
\* was when the call began until its goroutine is done, and then has its part of
\* the batch (ShardedSMT.BulkUpdate), for every number of callers and shards.
THEOREM CallsKeepApart == Spec => [](JobTypeOK /\ ShardedInvariant)
<1>1. Init => Invariant
  BY InvariantInit
<1>2. Invariant /\ [Next]_vars => Invariant'
  <2> SUFFICES ASSUME Invariant, [Next]_vars PROVE Invariant'
    OBVIOUS
  <2>1. CASE UNCHANGED vars
    <3>1. UNCHANGED <<shard, free, bucket, job, reply>>
      BY <2>1 DEF vars
    <3>2. JobTypeOK'
      BY <3>1 DEF Invariant, JobTypeOK
    <3>3. ScratchInv' /\ BucketInv' /\ ShardInv' /\ ReplyInv'
      BY <3>1 DEF Invariant, ShardedInvariant, ScratchInv, BucketInv, ShardInv, ReplyInv, busy
    <3> QED BY <3>2, <3>3 DEF Invariant, ShardedInvariant
  <2>2. CASE Next
    <3>1. PICK c \in Callers :
            \/ Begin(c) \/ Bucket(c) \/ FanOut(c) \/ Return(c)
            \/ \E s \in Shards : Goroutine(c, s)
      BY <2>2 DEF Next
    <3>2. CASE Begin(c)
      BY <3>2, ReplyOnlyStep, UpdateStep, BulkUpdateStep DEF Begin
    <3>3. CASE Bucket(c)
      BY <3>3, BucketStep
    <3>4. CASE FanOut(c)
      BY <3>4, FanOutStep
    <3>5. CASE Return(c)
      BY <3>5, ReturnStep
    <3>6. CASE \E s \in Shards : Goroutine(c, s)
      BY <3>6, GoroutineStep
    <3> QED BY <3>1, <3>2, <3>3, <3>4, <3>5, <3>6
  <2> QED BY <2>1, <2>2
<1>3. Invariant => JobTypeOK /\ ShardedInvariant
  BY DEF Invariant
<1> QED BY <1>1, <1>2, <1>3, PTL DEF Spec

\* No shard commits to a key that shardOf routes to another one, whatever batches
\* and single updates were made and whichever of their shards failed.
THEOREM KeysStayHome == Spec => []KeysAtHome
<1>1. JobTypeOK /\ ShardedInvariant => KeysAtHome
  BY DEF ShardedInvariant, ShardInv, atHome, KeysAtHome
<1> QED BY <1>1, CallsKeepApart, PTL

\* The root that a successful call returned commits to the contents of every
\* shard, for every power of two of shards (computeRoot).
THEOREM RootsCommit == Spec => []CombinedCommits
<1>1. ASSUME JobTypeOK, ShardedInvariant PROVE CombinedCommits
  <2>1. ASSUME NEW c \in Callers, job[c] = Idle, reply[c].status = "ok", NEW s \in Shards
        PROVE  CommittedMap(shardRootBelow(reply[c].root, s)) = shard[c][s]
    <3>1. PICK t \in Trees : t = shard[c]
      BY <1>1, JobFacts
    <3>2. reply[c].root = computeRoot(t)
      BY <1>1, <2>1, <3>1 DEF ShardedInvariant, ReplyInv, busy
    <3>3. CommittedMap(shardRootBelow(computeRoot(t), s)) = t[s]
      BY ShardsOfRoot
    <3> QED BY <3>1, <3>2, <3>3
  <2> QED BY <2>1 DEF CombinedCommits
<1> QED BY <1>1, CallsKeepApart, PTL

\* A waiting call ends only when it returns, and then no goroutine is left.
LEMMA EndsReturn ==
  ASSUME Invariant, [Next]_vars, NEW c \in Callers, ends(c)
  PROVE  /\ Return(c) /\ shard' = shard /\ job[c] \in Jobs /\ busy(c)
         /\ \A s \in Shards : applied(job[c], s, shard[c][s])
         /\ endsOk(c) => ~ job[c].err
<1>1. job[c].pc = "wait" /\ job'[c] = Idle
  BY DEF ends
<1>2. busy(c) /\ job[c] \in Jobs
  BY <1>1, JobFacts DEF Invariant
<1>3. job[c] # Idle /\ Idle.pc = "idle" /\ job'[c] # job[c]
  BY <1>1, <1>2 DEF busy, Idle
<1>4. PICK d \in Callers :
        \/ Begin(d) \/ Bucket(d) \/ FanOut(d) \/ Return(d)
        \/ \E s \in Shards : Goroutine(d, s)
  BY <1>3 DEF Next, vars
<1>5. DOMAIN job = Callers
  BY DEF Invariant, JobTypeOK
<1>6. d = c
  <2>1. \E e : job' = [job EXCEPT ![d] = e] \/ job' = job
    <3>1. CASE Begin(d)
      BY <3>1 DEF Begin, BulkUpdateEmpty, BulkMismatch, BulkUpdate, Update
    <3>2. CASE Bucket(d)
      BY <3>2 DEF Bucket
    <3>3. CASE FanOut(d)
      BY <3>3 DEF FanOut
    <3>4. CASE Return(d)
      BY <3>4 DEF Return
    <3>5. CASE \E s \in Shards : Goroutine(d, s)
      BY <3>5 DEF Goroutine, ShardUpdate, ShardFails, Done
    <3> QED BY <1>4, <3>1, <3>2, <3>3, <3>4, <3>5
  <2> QED BY <1>3, <1>5, <2>1
<1>7. ~ Begin(c)
  BY <1>3 DEF Begin, BulkUpdateEmpty, BulkMismatch, BulkUpdate, Update
<1>8. ~ Bucket(c) /\ ~ FanOut(c)
  BY <1>1 DEF Bucket, FanOut
<1>9. ASSUME NEW s \in Shards, Goroutine(c, s) PROVE FALSE
  <2>1. PICK failed : Done(c, s, failed)
    BY <1>9 DEF Goroutine, ShardUpdate, ShardFails
  <2>2. PICK j \in Jobs : j = job[c]
    BY <1>2
  <2>3. job'[c] = [j EXCEPT !.live = j.live \ {s}, !.err = j.err \/ failed, !.wg = j.wg - 1]
    BY <1>5, <2>1, <2>2 DEF Done
  <2>4. job'[c].pc = j.pc
    BY <2>3 DEF Jobs
  <2> QED BY <1>1, <1>3, <2>2, <2>4
<1>10. Return(c)
  BY <1>4, <1>6, <1>7, <1>8, <1>9
<1>11. job[c].live = {}
  <2>1. job[c].wg = 0 /\ job[c].wg = Cardinality(job[c].live)
    BY <1>1, <1>2, <1>10
       DEF Return, allDone, Invariant, ShardedInvariant, ShardInv, shardsOK
  <2>2. job[c].live \in SUBSET Shards
    BY <1>2 DEF Jobs
  <2>3. IsFiniteSet(job[c].live)
    BY <2>2, KeyFacts, FS_Subset
  <2> QED BY <2>1, <2>3, FS_EmptySet
<1>12. \A s \in Shards : applied(job[c], s, shard[c][s])
  BY <1>1, <1>2, <1>11 DEF Invariant, ShardedInvariant, ShardInv, shardsOK
<1>13. ASSUME endsOk(c), job[c].err PROVE FALSE
  <2>1. reply'[c] = Failure
    BY <1>10, <1>13 DEF Return, Invariant, JobTypeOK
  <2> QED BY <1>13, <2>1 DEF endsOk, Failure
<1>14. shard' = shard
  BY <1>10 DEF Return
<1> QED BY <1>2, <1>10, <1>12, <1>13, <1>14

\* Whatever fails, each shard ends with its part of the batch or with a few of
\* the deletes of that part (ShardedSMT.BulkUpdate), for every number of shards,
\* callers and pairs.
THEOREM FailuresStayInShards == Spec => BatchFailsByShard
<1> DEFINE Act == \A c \in Callers : ends(c) => \A s \in Shards :
              LET b == job[c].pairs
              IN  shard'[c][s] \in {batchPart(job[c].base[s], b, routed(b, s))}
                                      \cup brokenPart(job[c].base[s], b, routed(b, s))
<1>1. ASSUME JobTypeOK /\ ShardedInvariant, [Next]_vars PROVE [Act]_vars
  <2>1. ASSUME NEW c \in Callers, ends(c), NEW s \in Shards
        PROVE  LET b == job[c].pairs
               IN  shard'[c][s] \in {batchPart(job[c].base[s], b, routed(b, s))}
                                       \cup brokenPart(job[c].base[s], b, routed(b, s))
    <3>1. shard' = shard /\ applied(job[c], s, shard[c][s])
      BY <1>1, <2>1, EndsReturn DEF Invariant
    <3> QED BY <3>1 DEF applied
  <2> QED BY <2>1
<1>2. Spec => [][Next]_vars
  BY PTL DEF Spec
<1>3. Spec => [][Act]_vars
  BY <1>1, <1>2, CallsKeepApart, PTL
<1> QED BY <1>3 DEF BatchFailsByShard

\* The pairs about the path of a key are the ones of its shard about that path.
LEMMA PartOfKey ==
  ASSUME NEW pairs \in Seq(Pairs), NEW k \in Keys, NEW m, NEW b,
         b[PathOf[k]] = m[PathOf[k]]
  PROVE  batchPart(m, pairs, routed(pairs, ShardOf[k]))[PathOf[k]]
            = Batched(b, pairs)[PathOf[k]]
<1> DEFINE I == routed(pairs, ShardOf[k])
           p == PathOf[k]
<1>1. p \in Paths
  BY KeyFacts
<1>2. pairsAt(pairs, I, p) = pairsAt(pairs, DOMAIN pairs, p)
  <2>1. ASSUME NEW j \in DOMAIN pairs, PathOf[pairs[j][1]] = p PROVE j \in I
    <3>1. pairs[j][1] \in Keys
      BY PairFacts
    <3>2. pairs[j][1] = k
      BY <2>1, <3>1, KeyFacts
    <3> QED BY <3>2 DEF routed
  <2> QED BY <2>1 DEF pairsAt, routed
<1> HIDE DEF I, p
<1>3. /\ writesAt(pairs, I, p) = writesAt(pairs, DOMAIN pairs, p)
      /\ deletesAt(pairs, I, p) = deletesAt(pairs, DOMAIN pairs, p)
  BY <1>2 DEF writesAt, deletesAt
<1>4. deletePart(m, pairs, I)[p] = deletePart(b, pairs, DOMAIN pairs)[p]
  BY <1>1, <1>3 DEF deletePart, p
<1>5. batchPart(m, pairs, I)[p] = batchPart(b, pairs, DOMAIN pairs)[p]
  BY <1>1, <1>3, <1>4 DEF batchPart
<1> QED BY <1>5 DEF Batched, I, p

\* A path that a part of a batch is not about keeps its value.
LEMMA PartElsewhere ==
  ASSUME NEW m, NEW pairs, NEW I, NEW p \in Paths, pairsAt(pairs, I, p) = {}
  PROVE  batchPart(m, pairs, I)[p] = m[p]
<1>1. writesAt(pairs, I, p) = {} /\ deletesAt(pairs, I, p) = {}
  BY DEF writesAt, deletesAt
<1>2. deletePart(m, pairs, I)[p] = m[p]
  BY <1>1 DEF deletePart
<1> QED BY <1>1, <1>2 DEF batchPart

\* What the shards commit to together at a path that one of them may hold.
LEMMA CombinedAt ==
  ASSUME NEW t, NEW h \in Shards, NEW p \in Paths,
         \A s \in Shards \ {h} : t[s][p] = Absent
  PROVE  combined(t)[p] = t[h][p]
<1>1. CASE t[h][p] = Absent
  <2>1. holders(t, p) = {}
    BY <1>1 DEF holders
  <2> QED BY <1>1, <2>1 DEF combined
<1>2. CASE t[h][p] # Absent
  <2>1. holders(t, p) = {h}
    BY <1>2 DEF holders
  <2>2. (CHOOSE s \in holders(t, p) : TRUE) = h
    BY <2>1
  <2> QED BY <2>1, <2>2 DEF combined
<1> QED BY <1>1, <1>2

\* A batch whose part was applied to every shard was applied to the map that the
\* shards commit to together.
LEMMA PartsCombine ==
  ASSUME NEW t, NEW u, NEW pairs \in Seq(Pairs), atHome(u),
         \A s \in Shards : u[s] = batchPart(t[s], pairs, routed(pairs, s))
  PROVE  combined(u) = Batched(combined(t), pairs)
<1>1. ASSUME NEW p \in Paths
      PROVE  combined(u)[p] = Batched(combined(t), pairs)[p]
  <2>1. CASE \E k \in Keys : PathOf[k] = p
    <3>1. PICK k \in Keys : PathOf[k] = p
      BY <2>1
    <3>2. PICK h \in Shards : h = ShardOf[k]
      BY KeyFacts
    <3>3. ASSUME NEW s \in Shards \ {h}
          PROVE  u[s][p] = Absent /\ t[s][p] = Absent
      <4>1. u[s][p] = Absent
        BY <3>1, <3>2 DEF atHome
      <4>2. pairsAt(pairs, routed(pairs, s), p) = {}
        <5>1. ASSUME NEW j \in routed(pairs, s), PathOf[pairs[j][1]] = p
              PROVE  FALSE
          <6>1. j \in DOMAIN pairs /\ ShardOf[pairs[j][1]] = s
            BY DEF routed
          <6>2. pairs[j][1] \in Keys
            BY <6>1, PairFacts
          <6>3. pairs[j][1] = k
            BY <3>1, <5>1, <6>2, KeyFacts
          <6> QED BY <3>2, <6>1, <6>3
        <5> QED BY <5>1 DEF pairsAt
      <4>3. batchPart(t[s], pairs, routed(pairs, s))[p] = t[s][p]
        BY <4>2, PartElsewhere
      <4> QED BY <4>1, <4>3
    <3>4. PICK b : b = combined(t)
      OBVIOUS
    <3>5. combined(u)[p] = u[h][p] /\ b[p] = t[h][p]
      BY <3>3, <3>4, CombinedAt
    <3>6. PICK m : m = t[h]
      OBVIOUS
    <3>7. batchPart(m, pairs, routed(pairs, h))[p] = Batched(b, pairs)[p]
      BY <3>1, <3>2, <3>5, <3>6, PartOfKey
    <3> QED BY <3>4, <3>5, <3>6, <3>7
  <2>2. CASE ~ \E k \in Keys : PathOf[k] = p
    <3>1. \A j \in DOMAIN pairs : PathOf[pairs[j][1]] # p
      BY <2>2, PairFacts
    <3>2. /\ \A s \in Shards : pairsAt(pairs, routed(pairs, s), p) = {}
          /\ pairsAt(pairs, DOMAIN pairs, p) = {}
      BY <3>1 DEF pairsAt, routed
    <3>3. \A s \in Shards : u[s][p] = t[s][p]
      BY <3>2, PartElsewhere
    <3>4. holders(u, p) = holders(t, p)
      BY <3>3 DEF holders
    <3>5. combined(u)[p] = combined(t)[p]
      <4>1. CASE holders(t, p) = {}
        BY <3>4, <4>1 DEF combined
      <4>2. CASE holders(t, p) # {}
        <5>1. PICK s : s = CHOOSE r \in holders(t, p) : TRUE
          OBVIOUS
        <5>2. s \in Shards
          BY <4>2, <5>1 DEF holders
        <5>3. combined(u)[p] = u[s][p] /\ combined(t)[p] = t[s][p]
          BY <3>4, <4>2, <5>1 DEF combined
        <5> QED BY <3>3, <5>2, <5>3
      <4> QED BY <4>1, <4>2
    <3>6. PICK b : b = combined(t)
      OBVIOUS
    <3>7. Batched(b, pairs)[p] = b[p]
      BY <3>2, PartElsewhere DEF Batched
    <3> QED BY <3>5, <3>6, <3>7
  <2> QED BY <2>1, <2>2
<1>2. combined(u) = [p \in Paths |-> combined(u)[p]]
  BY DEF combined
<1>3. PICK b : b = Batched(combined(t), pairs)
  OBVIOUS
<1>4. b = [p \in Paths |-> b[p]]
  BY <1>3 DEF Batched, batchPart
<1> QED BY <1>1, <1>2, <1>3, <1>4

\* A batch that succeeds leaves the shards committed to what Update on its deletes
\* and then on its writes would leave in one tree, in whatever order the goroutines
\* run and whatever the other callers do (ShardedSMT.BulkUpdate).
THEOREM BatchesApply == Spec => BatchApplied
<1> DEFINE Act == \A c \in Callers : endsOk(c) =>
              combined(shard'[c]) = Batched(combined(job[c].base), job[c].pairs)
<1>1. ASSUME JobTypeOK /\ ShardedInvariant, [Next]_vars PROVE [Act]_vars
  <2>1. ASSUME NEW c \in Callers, endsOk(c)
        PROVE  combined(shard'[c]) = Batched(combined(job[c].base), job[c].pairs)
    <3>1. ends(c)
      BY <2>1 DEF endsOk
    <3>2. /\ shard' = shard /\ job[c] \in Jobs /\ ~ job[c].err
          /\ \A s \in Shards : applied(job[c], s, shard[c][s])
      BY <1>1, <2>1, <3>1, EndsReturn DEF Invariant
    <3>3. PICK pairs \in Seq(Pairs) : pairs = job[c].pairs
      BY <3>2 DEF Jobs
    <3>4. PICK t : t = job[c].base
      OBVIOUS
    <3>5. PICK u : u = shard'[c]
      OBVIOUS
    <3>6. \A s \in Shards : u[s] = batchPart(t[s], pairs, routed(pairs, s))
      BY <3>2, <3>3, <3>4, <3>5 DEF applied
    <3>7. atHome(u)
      BY <1>1, <3>2, <3>5 DEF ShardedInvariant, ShardInv
    <3>8. combined(u) = Batched(combined(t), pairs)
      BY <3>6, <3>7, PartsCombine
    <3> QED BY <3>3, <3>4, <3>5, <3>8
  <2> QED BY <2>1
<1>2. Spec => [][Next]_vars
  BY PTL DEF Spec
<1>3. Spec => [][Act]_vars
  BY <1>1, <1>2, CallsKeepApart, PTL
<1> QED BY <1>3 DEF BatchApplied
=============================================================================
