------------------------- MODULE ShardIndexTheorems -------------------------
(***************************************************************************)
(* parallelComputeShardIdxs is right for every batch length, GOMAXPROCS,   *)
(* threshold and limit on the chunks: the chunks are disjoint and cover    *)
(* the batch, and when the wait group lets the call go on every entry is   *)
(* written.                                                                *)
(***************************************************************************)
EXTENDS ShardIndex, NumberTheorems, FiniteSetTheorems

-----------------------------------------------------------------------------
\* The chunks.

\* There is a chunk when there is a key, and the chunks together are as long as
\* the batch.
LEMMA ChunkFacts ==
  ASSUME BatchOK, n > 0
  PROVE  /\ chunks \in Nat \ {0} /\ chunkSize \in Nat \ {0}
         /\ n <= chunks * chunkSize
<1>1. chunks \in Nat \ {0} /\ n \in Nat \ {0}
  BY IndexAssumption DEF BatchOK, chunks, least
<1>2. chunkSize = (n + chunks - 1) \div chunks
  BY DEF chunkSize
<1> DEFINE k == chunks
<1>3. k \in Nat \ {0} /\ n + k - 1 \in Nat /\ chunkSize = (n + k - 1) \div k
  BY <1>1, <1>2
<1> HIDE DEF k
<1>4. chunkSize \in Nat /\ n + k - 1 < chunkSize * k + k
  BY <1>3, Division
<1>5. n <= chunkSize * k
  BY <1>1, <1>3, <1>4
<1>6. chunkSize # 0
  BY <1>1, <1>3, <1>5
<1>7. chunkSize * k = k * chunkSize
  BY <1>3, <1>4
<1> QED BY <1>1, <1>4, <1>5, <1>6, <1>7 DEF k

\* The bounds of a chunk.
LEMMA ChunkBounds ==
  ASSUME BatchOK, n > 0, NEW c \in Chunks
  PROVE  /\ c \in Nat /\ chunkStart(c) \in Nat /\ chunkEnd(c) \in Nat
         /\ chunkEnd(c) <= n /\ chunkEnd(c) <= chunkStart(c) + chunkSize
         /\ chunkEnd(c) = n \/ chunkEnd(c) = chunkStart(c) + chunkSize
<1>1. chunks \in Nat \ {0} /\ chunkSize \in Nat \ {0} /\ n \in Nat
  BY ChunkFacts DEF BatchOK
<1>2. c \in Nat
  BY <1>1 DEF Chunks
<1>3. chunkStart(c) \in Nat
  BY <1>1, <1>2 DEF chunkStart
<1> QED BY <1>1, <1>2, <1>3 DEF chunkEnd, least

\* A later chunk starts where an earlier one has ended.
LEMMA ChunksOrdered ==
  ASSUME BatchOK, n > 0, NEW c \in Chunks, NEW d \in Chunks, c < d
  PROVE  chunkEnd(c) <= chunkStart(d)
<1>1. c \in Nat /\ d \in Nat /\ chunkSize \in Nat /\ c + 1 <= d
  BY ChunkFacts, ChunkBounds
<1>2. (c + 1) * chunkSize <= d * chunkSize
  BY <1>1, TimesMonotone
<1>3. (c + 1) * chunkSize = c * chunkSize + chunkSize
  BY <1>1
<1>4. chunkEnd(c) <= c * chunkSize + chunkSize /\ chunkEnd(c) \in Nat
  BY ChunkBounds DEF chunkStart
<1> DEFINE from == c * chunkSize
           to   == d * chunkSize
<1>5. from \in Nat /\ to \in Nat /\ from + chunkSize <= to
  BY <1>1, <1>2, <1>3
<1>6. chunkEnd(c) <= from + chunkSize /\ chunkStart(d) = to
  BY <1>4 DEF chunkStart
<1> HIDE DEF from, to
<1> QED BY <1>1, <1>4, <1>5, <1>6

\* Every key is in a chunk.
LEMMA ChunksCover ==
  ASSUME BatchOK, n > 0, NEW j \in 0 .. n - 1
  PROVE  \E c \in Chunks : chunkStart(c) <= j /\ j < chunkEnd(c)
<1> DEFINE c == j \div chunkSize
<1>1. /\ chunks \in Nat \ {0} /\ chunkSize \in Nat \ {0} /\ n <= chunks * chunkSize
      /\ n \in Nat /\ j \in Nat /\ j < n
  BY ChunkFacts DEF BatchOK
<1>2. c \in Nat /\ c * chunkSize <= j /\ j < c * chunkSize + chunkSize
  BY <1>1, Division
<1> HIDE DEF c
<1>3. c < chunks
  <2>1. SUFFICES ASSUME chunks <= c PROVE FALSE
    BY <1>1, <1>2
  <2>2. chunks * chunkSize <= c * chunkSize
    BY <1>1, <1>2, <2>1, TimesMonotone
  <2>3. c * chunkSize \in Nat /\ chunks * chunkSize \in Nat
    BY <1>1, <1>2
  <2> QED BY <1>1, <1>2, <2>2, <2>3
<1>4. c \in Chunks
  BY <1>1, <1>2, <1>3 DEF Chunks
<1>5. chunkStart(c) <= j /\ j < chunkEnd(c)
  BY <1>1, <1>2 DEF chunkStart, chunkEnd, least
<1> QED BY <1>4, <1>5

\* There are finitely many chunks.
LEMMA ChunksFinite ==
  ASSUME BatchOK, n > 0, NEW T \in SUBSET Chunks
  PROVE  IsFiniteSet(T) /\ Cardinality(T) \in Nat
<1>1. chunks - 1 \in Int
  BY ChunkFacts
<1>2. IsFiniteSet(Chunks)
  BY <1>1, FS_Interval DEF Chunks
<1> QED BY <1>2, FS_Subset, FS_CardinalityType

-----------------------------------------------------------------------------
\* The steps.  The batch stays as it is, and so does everything about chunks
\* and shards.

LEMMA BatchKept ==
  ASSUME UNCHANGED <<shards, n, keys, procs>>
  PROVE  /\ chunks' = chunks /\ Chunks' = Chunks /\ chunkSize' = chunkSize
         /\ \A c : chunkStart(c)' = chunkStart(c) /\ chunkEnd(c)' = chunkEnd(c)
         /\ \A byte : shardOf(byte)' = shardOf(byte)
<1>1. chunks' = chunks
  BY DEF chunks, least
<1>2. chunkSize' = chunkSize /\ Chunks' = Chunks
  BY <1>1 DEF chunkSize, Chunks
<1>3. \A c : chunkStart(c)' = chunkStart(c) /\ chunkEnd(c)' = chunkEnd(c)
  BY <1>2 DEF chunkStart, chunkEnd, least
<1>4. \A byte : shardOf(byte)' = shardOf(byte)
  BY DEF shardOf, shardBits
<1> QED BY <1>1, <1>2, <1>3, <1>4

LEMMA InlineStep ==
  ASSUME IndexInvariant, Inline
  PROVE  IndexInvariant'
<1>1. UNCHANGED <<shards, n, keys, procs>> /\ phase' = "done"
  BY DEF Inline
<1>2. idxs' = [j \in 0 .. n - 1 |-> shardOf(keys[j])]
  BY DEF Inline
<1>3. \A j \in 0 .. n' - 1 : idxs'[j] = shardOf(keys[j])'
  BY <1>1, <1>2, BatchKept
<1>4. IndexesRight'
  BY <1>3 DEF IndexesRight
<1>5. BatchOK'
  BY <1>1, <1>2 DEF IndexInvariant, BatchOK
<1> QED BY <1>1, <1>4, <1>5 DEF IndexInvariant

LEMMA ForkStep ==
  ASSUME IndexInvariant, Fork
  PROVE  IndexInvariant'
<1>1. UNCHANGED <<shards, n, keys, procs, idxs>> /\ phase' = "fork" /\ n > 0 /\ BatchOK
  BY DEF Fork, IndexInvariant
<1>2. at' = [c \in Chunks |-> chunkStart(c)]
      /\ wg' = Cardinality({c \in Chunks : chunkStart(c) < chunkEnd(c)})
  BY DEF Fork, added, spawns
<1>3. \A c \in Chunks : chunkStart(c) \in Nat
  BY <1>1, ChunkBounds
<1>4. /\ Chunks' = Chunks
      /\ \A c : chunkStart(c)' = chunkStart(c) /\ chunkEnd(c)' = chunkEnd(c)
  BY <1>1, BatchKept
<1>5. at' \in [Chunks' -> Nat]
  BY <1>2, <1>3, <1>4
<1>6. ASSUME NEW c \in Chunks'
      PROVE  /\ chunkStart(c)' <= at'[c]
             /\ at'[c] = chunkStart(c)'
             /\ \A j \in chunkStart(c)' .. at'[c] - 1 : FALSE
  BY <1>2, <1>3, <1>4
<1>7. wg' = Cardinality({c \in Chunks : active(c)})'
  <2>1. {c \in Chunks : active(c)}' = {c \in Chunks : chunkStart(c) < chunkEnd(c)}
    BY <1>2, <1>4 DEF active
  <2> QED BY <1>2, <2>1
<1>8. Forked'
  BY <1>1, <1>5, <1>6, <1>7 DEF Forked
<1>9. BatchOK' /\ IndexesRight'
  BY <1>1 DEF BatchOK, IndexesRight
<1> QED BY <1>8, <1>9 DEF IndexInvariant

LEMMA WorkStep ==
  ASSUME IndexInvariant, NEW c \in 0 .. MaxChunks - 1, Work(c)
  PROVE  IndexInvariant'
<1>1. /\ UNCHANGED <<shards, n, keys, procs, phase>> /\ phase = "fork"
      /\ BatchOK /\ Forked /\ n > 0
      /\ c \in Chunks /\ at[c] < chunkEnd(c)
  BY DEF Work, IndexInvariant, Forked
<1>2. /\ idxs' = [idxs EXCEPT ![at[c]] = shardOf(keys[at[c]])]
      /\ at' = [at EXCEPT ![c] = @ + 1]
      /\ wg' = IF at'[c] = chunkEnd(c) THEN wg - 1 ELSE wg
  BY DEF Work
<1>3. /\ Chunks' = Chunks
      /\ \A d : chunkStart(d)' = chunkStart(d) /\ chunkEnd(d)' = chunkEnd(d)
      /\ \A byte : shardOf(byte)' = shardOf(byte)
  BY <1>1, BatchKept
<1>4. /\ at \in [Chunks -> Nat] /\ idxs = [j \in 0 .. n - 1 |-> idxs[j]] /\ n \in Nat
      /\ wg = Cardinality({d \in Chunks : active(d)})
  BY <1>1 DEF Forked, BatchOK
<1>5. /\ at' \in [Chunks -> Nat] /\ at'[c] = at[c] + 1
      /\ \A d \in Chunks \ {c} : at'[d] = at[d]
  BY <1>1, <1>2, <1>4
<1>6. /\ idxs'[at[c]] = shardOf(keys[at[c]])
      /\ \A j \in (0 .. n - 1) \ {at[c]} : idxs'[j] = idxs[j]
      /\ idxs' = [j \in 0 .. n - 1 |-> idxs'[j]]
  <2>1. at[c] \in 0 .. n - 1
    BY <1>1, <1>4, ChunkBounds
  <2> QED BY <1>2, <1>4, <2>1
<1>7. ASSUME NEW d \in Chunks
      PROVE  /\ chunkStart(d) <= at'[d]
             /\ at'[d] = chunkStart(d) \/ at'[d] <= chunkEnd(d)
             /\ \A j \in chunkStart(d) .. at'[d] - 1 : idxs'[j] = shardOf(keys[j])
  <2>1. /\ chunkStart(d) \in Nat /\ chunkEnd(d) \in Nat /\ chunkEnd(d) <= n
        /\ chunkEnd(c) \in Nat /\ chunkEnd(c) <= n
        /\ at[c] \in Nat /\ at[d] \in Nat
    BY <1>1, <1>4, ChunkBounds
  <2>2. /\ chunkStart(d) <= at[d]
        /\ at[d] = chunkStart(d) \/ at[d] <= chunkEnd(d)
        /\ \A j \in chunkStart(d) .. at[d] - 1 : idxs[j] = shardOf(keys[j])
    BY <1>1 DEF Forked
  <2>3. chunkStart(d) <= at'[d] /\ (at'[d] = chunkStart(d) \/ at'[d] <= chunkEnd(d))
    BY <1>1, <1>5, <2>1, <2>2
  <2>4. ASSUME NEW j \in chunkStart(d) .. at'[d] - 1
        PROVE  idxs'[j] = shardOf(keys[j])
    <3>1. CASE j = at[c]
      BY <1>6, <3>1
    <3>2. CASE j # at[c]
      <4>1. j \in chunkStart(d) .. at[d] - 1
        BY <1>5, <2>1, <3>2
      <4>2. at[d] # chunkStart(d)
        BY <2>1, <4>1
      <4>3. j \in 0 .. n - 1
        BY <1>4, <2>1, <2>2, <4>1, <4>2
      <4> QED BY <1>6, <2>2, <3>2, <4>1, <4>3
    <3> QED BY <3>1, <3>2
  <2> QED BY <2>3, <2>4
<1>8. wg' = Cardinality({d \in Chunks : active(d)}')
  <2> DEFINE A == {d \in Chunks : active(d)}
             B == {d \in Chunks : at'[d] < chunkEnd(d)}
  <2>1. A' = B
    BY <1>3 DEF active
  <2>2. at[c] \in Nat /\ chunkEnd(c) \in Nat
    BY <1>1, <1>4, ChunkBounds
  <2>3. c \in A /\ IsFiniteSet(A)
    BY <1>1, ChunksFinite DEF active
  <2>4. CASE at'[c] = chunkEnd(c)
    <3>1. B = A \ {c}
      BY <1>5, <2>2, <2>4 DEF active
    <3>2. Cardinality(A \ {c}) = Cardinality(A) - 1
      BY <2>3, FS_RemoveElement
    <3> QED BY <1>2, <1>4, <2>1, <2>4, <3>1, <3>2
  <2>5. CASE at'[c] # chunkEnd(c)
    <3>1. at'[c] < chunkEnd(c) /\ active(c)
      BY <1>1, <1>5, <2>2, <2>5 DEF active
    <3>2. \A d \in Chunks \ {c} : at'[d] < chunkEnd(d) <=> active(d)
      BY <1>5 DEF active
    <3>3. B = A
      BY <3>1, <3>2
    <3> QED BY <1>2, <1>4, <2>1, <2>5, <3>3
  <2> QED BY <2>4, <2>5
<1>9. Forked'
  <2>1. n' > 0 /\ at' \in [Chunks' -> Nat]
    BY <1>1, <1>3, <1>5
  <2>2. \A d \in Chunks' :
          /\ chunkStart(d)' <= at'[d]
          /\ at'[d] = chunkStart(d)' \/ at'[d] <= chunkEnd(d)'
          /\ \A j \in chunkStart(d)' .. at'[d] - 1 : idxs'[j] = shardOf(keys[j])'
    BY <1>1, <1>3, <1>7
  <2> QED BY <1>8, <2>1, <2>2 DEF Forked
<1>10. BatchOK' /\ IndexesRight'
  BY <1>1, <1>6 DEF BatchOK, IndexesRight
<1> QED BY <1>9, <1>10 DEF IndexInvariant

LEMMA WaitStep ==
  ASSUME IndexInvariant, Wait
  PROVE  IndexInvariant'
<1>1. /\ UNCHANGED <<shards, n, keys, procs, idxs>> /\ phase' = "done" /\ wg = 0
      /\ BatchOK /\ Forked /\ n > 0
  BY DEF Wait, IndexInvariant, Forked
<1>2. \A c \in Chunks : ~ active(c)
  <2> DEFINE A == {c \in Chunks : active(c)}
  <2>1. IsFiniteSet(A) /\ Cardinality(A) = 0
    BY <1>1, ChunksFinite DEF Forked
  <2>2. A = {}
    BY <2>1, FS_EmptySet
  <2> QED BY <2>2
<1>3. ASSUME NEW j \in 0 .. n - 1
      PROVE  idxs[j] = shardOf(keys[j])
  <2>1. PICK c \in Chunks : chunkStart(c) <= j /\ j < chunkEnd(c)
    BY <1>1, ChunksCover
  <2>2. chunkStart(c) \in Nat /\ chunkEnd(c) \in Nat /\ at[c] \in Nat /\ j \in Nat
    BY <1>1, ChunkBounds DEF Forked
  <2>3. chunkEnd(c) <= at[c]
    BY <1>2, <2>2 DEF active
  <2>4. j \in chunkStart(c) .. at[c] - 1
    BY <2>1, <2>2, <2>3
  <2> QED BY <1>1, <2>4 DEF Forked
<1>4. IndexesRight'
  BY <1>1, <1>3, BatchKept DEF IndexesRight
<1>5. BatchOK'
  BY <1>1 DEF BatchOK
<1> QED BY <1>1, <1>4, <1>5 DEF IndexInvariant

-----------------------------------------------------------------------------
\* The theorems.

\* What a loop of parallelComputeShardIdxs has passed is indexed, and the wait
\* group counts exactly the goroutines that have entries left.
THEOREM GoroutinesIndex == Spec => []IndexInvariant
<1>1. Init => IndexInvariant
  <2> SUFFICES ASSUME Init PROVE IndexInvariant
    OBVIOUS
  <2>1. n \in Nat /\ procs \in Nat \ {0} /\ phase = "begin"
    BY IndexAssumption DEF Init
  <2>2. idxs = [j \in 0 .. n - 1 |-> idxs[j]]
    BY DEF Init
  <2> QED BY <2>1, <2>2 DEF IndexInvariant, BatchOK, IndexesRight
<1>2. IndexInvariant /\ [Next]_vars => IndexInvariant'
  <2> SUFFICES ASSUME IndexInvariant, [Next]_vars PROVE IndexInvariant'
    OBVIOUS
  <2>1. CASE UNCHANGED vars
    <3>1. UNCHANGED <<shards, n, keys, procs, idxs, at, wg, phase>>
      BY <2>1 DEF vars
    <3>2. BatchOK'
      BY <3>1 DEF IndexInvariant, BatchOK
    <3>3. /\ Chunks' = Chunks
          /\ \A c : chunkStart(c)' = chunkStart(c) /\ chunkEnd(c)' = chunkEnd(c)
          /\ \A byte : shardOf(byte)' = shardOf(byte)
      BY <3>1, BatchKept
    <3>4. IndexesRight'
      BY <3>1, <3>3 DEF IndexInvariant, IndexesRight
    <3>5. ASSUME phase = "fork" PROVE Forked'
      <4>1. Forked
        BY <3>5 DEF IndexInvariant
      <4>2. {c \in Chunks : active(c)}' = {c \in Chunks : active(c)}
        BY <3>1, <3>3 DEF active
      <4> QED BY <3>1, <3>3, <4>1, <4>2 DEF Forked
    <3> QED BY <3>1, <3>2, <3>4, <3>5 DEF IndexInvariant
  <2> QED BY <2>1, InlineStep, ForkStep, WaitStep, WorkStep DEF Next
<1> QED BY <1>1, <1>2, PTL DEF Spec

\* When parallelComputeShardIdxs returns, every entry of the buffer is the shard
\* of its key, for every batch length and GOMAXPROCS.
THEOREM BatchIndexed == Spec => []IndexesRight
<1>1. IndexInvariant => IndexesRight
  BY DEF IndexInvariant
<1> QED BY <1>1, GoroutinesIndex, PTL

\* "Each chunk owns a contiguous range of idxs[], avoiding any cross-goroutine
\* writes" (parallelComputeShardIdxs).
THEOREM ChunksApart == Spec => []OneWriter
<1>1. ASSUME IndexInvariant
      PROVE  OneWriter
  <2> SUFFICES ASSUME phase = "fork", NEW c \in Chunks, NEW d \in Chunks, c # d
               PROVE  chunk(c) \cap chunk(d) = {}
    BY DEF OneWriter
  <2>1. BatchOK /\ n > 0
    BY <1>1 DEF IndexInvariant, Forked
  <2>2. /\ chunkStart(c) \in Nat /\ chunkEnd(c) \in Nat /\ c \in Nat
        /\ chunkStart(d) \in Nat /\ chunkEnd(d) \in Nat /\ d \in Nat
    BY <2>1, ChunkBounds
  <2>3. CASE c < d
    BY <2>1, <2>2, <2>3, ChunksOrdered DEF chunk
  <2>4. CASE d < c
    BY <2>1, <2>2, <2>4, ChunksOrdered DEF chunk
  <2> QED BY <2>2, <2>3, <2>4
<1> QED BY <1>1, GoroutinesIndex, PTL

-----------------------------------------------------------------------------
\* The shard count and the shift.

LogTable(k, g) == [x \in 1 .. k |-> IF x = 1 THEN 0 ELSE 1 + g[x \div 2]]

\* The loop of NewShardedSMT that counts the bits ends for every count.
LEMMA LogTableExists == \A k \in Nat : \E g : g = LogTable(k, g)
<1> DEFINE T == {k \in Nat : ~ \E g : g = LogTable(k, g)}
<1>1. SUFFICES ASSUME T # {} PROVE FALSE
  OBVIOUS
<1>2. PICK k \in T : \A m \in T : k <= m
  BY <1>1, LeastElement
<1>3. CASE k = 0
  <2> DEFINE g0 == LogTable(0, << >>)
  <2>1. g0 = LogTable(0, g0)
    BY DEF LogTable
  <2> QED BY <2>1, <1>3, <1>2
<1>4. CASE k # 0
  <2>1. k - 1 \in Nat /\ ~ (k <= k - 1) /\ k \in Nat
    BY <1>4
  <2>2. PICK g : g = LogTable(k - 1, g)
    BY <2>1, <1>2
  <2> DEFINE G == LogTable(k, g)
  <2>3. \A x \in 1 .. k - 1 : G[x] = g[x]
    BY <2>1, <2>2 DEF LogTable
  <2>4. ASSUME NEW x \in 1 .. k, x # 1 PROVE g[x \div 2] = G[x \div 2]
    <3> HIDE DEF G
    <3>1. x \div 2 \in 1 .. k - 1
      BY <2>1, <2>4
    <3> QED BY <3>1, <2>3
  <2>5. G = LogTable(k, G)
    BY <2>4 DEF LogTable
  <2> QED BY <2>5, <1>2
<1> QED BY <1>3, <1>4

\* log2 satisfies its recursion equation.
LEMMA LogUnfolds ==
  ASSUME NEW x \in 1 .. MaxShards
  PROVE  log2[x] = IF x = 1 THEN 0 ELSE 1 + log2[x \div 2]
<1>1. MaxShards \in Nat
  BY IndexAssumption, PowerLaws
<1>2. PICK g : g = LogTable(MaxShards, g)
  BY <1>1, LogTableExists
<1>3. log2 = LogTable(MaxShards, log2)
  BY <1>2 DEF log2, LogTable
<1>4. LogTable(MaxShards, log2)[x] = IF x = 1 THEN 0 ELSE 1 + log2[x \div 2]
  BY DEF LogTable
<1> QED BY <1>3, <1>4

\* It inverts the powers of two.
LEMMA LogOfPower == \A b \in Nat : Pow2(b) <= MaxShards => log2[Pow2(b)] = b
<1> DEFINE T == {b \in Nat : ~ (Pow2(b) <= MaxShards => log2[Pow2(b)] = b)}
<1>1. SUFFICES ASSUME T # {} PROVE FALSE
  OBVIOUS
<1>2. PICK b \in T : \A m \in T : b <= m
  BY <1>1, LeastElement
<1>3. /\ b \in Nat /\ Pow2(b) \in Nat \ {0} /\ MaxShards \in Nat
      /\ Pow2(b) <= MaxShards /\ log2[Pow2(b)] # b
  BY <1>2, IndexAssumption, PowerLaws
<1>4. log2[Pow2(b)] = IF Pow2(b) = 1 THEN 0 ELSE 1 + log2[Pow2(b) \div 2]
  BY <1>3, LogUnfolds
<1>5. CASE b = 0
  BY <1>3, <1>4, <1>5, PowerLaws
<1>6. CASE b # 0
  <2>1. PICK a \in Nat : b = a + 1
    BY <1>3, <1>6
  <2>2. Pow2(a) \in Nat \ {0} /\ Pow2(b) = 2 * Pow2(a)
    BY <2>1, PowerLaws
  <2>3. Pow2(b) # 1 /\ Pow2(b) \div 2 = Pow2(a) /\ Pow2(a) <= MaxShards
    BY <1>3, <2>2
  <2>4. log2[Pow2(a)] = a
    BY <1>2, <2>1, <2>3
  <2> QED BY <1>3, <1>4, <2>1, <2>3, <2>4
<1> QED BY <1>5, <1>6

\* The digests of a shard are an interval as long as the power of two that the
\* shift divides by.
LEMMA ShardsShare ==
  ASSUME shards \in 1 .. MaxShards, validCount(shards)
  PROVE  RoutesEvenly
<1>1. PICK b \in 0 .. ByteBits : shards = Pow2(b)
  BY DEF validCount
<1>2. ByteBits \in Nat /\ b \in Nat /\ ByteBits - b \in Nat /\ MaxShards \in Nat
  BY IndexAssumption, PowerLaws
<1>3. shardBits = b
  BY <1>1, <1>2, LogOfPower DEF shardBits
<1>4. PICK w \in Nat \ {0} : w = Pow2(ByteBits - b)
  BY <1>2, PowerLaws
<1>5. Pow2(ByteBits) = shards * w
  <2>1. b + (ByteBits - b) = ByteBits
    BY <1>2
  <2> QED BY <1>1, <1>2, <1>4, <2>1, PowerSum
<1>6. shards \in Nat
  BY <1>2
<1>7. ASSUME NEW s \in 0 .. shards - 1
      PROVE  Cardinality({byte \in Bytes : shardOf(byte) = s}) * shards = Pow2(ByteBits)
  <2>1. s \in Nat /\ s + 1 <= shards
    BY <1>6
  <2>2. PICK u \in Nat : u = s * w
    BY <2>1
  <2>3. PICK t \in Nat : t = shards * w
    BY <1>6
  <2>4. u + w <= t
    <3>1. (s + 1) * w <= shards * w
      BY <2>1, <1>6, TimesMonotone
    <3>2. (s + 1) * w = s * w + w
      BY <2>1
    <3> QED BY <2>2, <2>3, <3>1, <3>2
  <2>5. Bytes = 0 .. t - 1
    BY <1>5, <2>3 DEF Bytes
  <2>6. ASSUME NEW byte \in Bytes
        PROVE  shardOf(byte) = s <=> u <= byte /\ byte < u + w
    <3>1. byte \in Nat /\ shardOf(byte) = byte \div w
      BY <1>3, <1>4, <2>5 DEF shardOf
    <3> QED BY <2>1, <2>2, <3>1, Quotient
  <2>7. {byte \in Bytes : shardOf(byte) = s} = u .. u + w - 1
    <3>1. \A byte : byte \in u .. u + w - 1 <=> byte \in Bytes /\ u <= byte /\ byte < u + w
      BY <2>4, <2>5
    <3> QED BY <2>6, <3>1
  <2>8. Cardinality(u .. u + w - 1) = w
    <3>1. u \in Int /\ u + w - 1 \in Int /\ ~ (u > u + w - 1) /\ u + w - 1 - u + 1 = w
      OBVIOUS
    <3> QED BY <3>1, FS_Interval
  <2>9. w * shards = shards * w
    BY <1>6
  <2>10. Cardinality({byte \in Bytes : shardOf(byte) = s}) = w
    BY <2>7, <2>8
  <2> QED BY <1>5, <2>9, <2>10
<1> QED BY <1>7 DEF RoutesEvenly

\* Every shard count that NewShardedSMT accepts gives every shard the same share
\* of the digests, and no key a shard that does not exist.
THEOREM SharesAreEven == Spec => []RoutesEvenly
<1> DEFINE Accepted == shards \in 1 .. MaxShards /\ validCount(shards)
<1>1. Init => Accepted
  BY DEF Init
<1>2. Accepted /\ [Next]_vars => Accepted'
  BY DEF Next, vars, Inline, Fork, Wait, Work, validCount
<1>3. Accepted => RoutesEvenly
  BY ShardsShare
<1> QED BY <1>1, <1>2, <1>3, PTL DEF Spec
=============================================================================
