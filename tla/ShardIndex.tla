----------------------------- MODULE ShardIndex -----------------------------
(***************************************************************************)
(* How ShardedSMT routes keys (sharded.go): NewShardedSMT's check of the   *)
(* shard count, shardOf, and parallelComputeShardIdxs, which fills a       *)
(* pooled buffer with the shard of every key of a batch from several       *)
(* goroutines.                                                             *)
(*                                                                         *)
(* A key is the first byte of its digest, all that routing looks at.       *)
(***************************************************************************)
EXTENDS Powers, FiniteSets

CONSTANTS
    ByteBits,     \* 8 in the code
    MaxShards,    \* 256 in the code
    Threshold,    \* 1024 in the code: smaller batches are indexed inline
    MaxChunks,    \* 16 in the code
    MaxKeys,      \* bound: keys in a batch
    MaxProcs      \* bound: runtime.GOMAXPROCS

ASSUME IndexAssumption ==
    /\ ByteBits \in Nat /\ MaxShards \in 1 .. Pow2(ByteBits)
    /\ Threshold \in Nat /\ MaxChunks \in Nat \ {0}
    /\ MaxKeys \in Nat /\ MaxProcs \in Nat \ {0}

Bytes == 0 .. Pow2(ByteBits) - 1

VARIABLES
    shards,   \* len(s.shards)
    n,        \* the length of the batch
    keys,     \* its keys
    procs,    \* runtime.GOMAXPROCS
    idxs,     \* the pooled buffer: what an earlier batch left in it, at first
    at,       \* the loop index of each goroutine
    wg,       \* the counter of the wait group
    phase     \* "begin", "fork", "done"

vars == <<shards, n, keys, procs, idxs, at, wg, phase>>

-----------------------------------------------------------------------------
\* NewShardedSMT and shardOf.

\* The loop that halves the count until it is 1.
log2[x \in 1 .. MaxShards] == IF x = 1 THEN 0 ELSE 1 + log2[x \div 2]

\* shardCount & (shardCount - 1) is zero for the powers of two.
validCount(count) == count \in 1 .. MaxShards /\ \E b \in 0 .. ByteBits : count = Pow2(b)

shardBits == log2[shards]

\* Mutant: the low bits of the byte select the shard.
shardOfLow(byte) == byte % Pow2(ByteBits - shardBits)

shardOf(byte) == byte \div Pow2(ByteBits - shardBits)

-----------------------------------------------------------------------------
\* parallelComputeShardIdxs.

least(a, b) == IF a < b THEN a ELSE b

chunks == least(least(procs, MaxChunks), n)
Chunks == 0 .. chunks - 1

\* Mutant: the last keys belong to no chunk when the division has a remainder.
chunkSizeFloor == n \div chunks

chunkSize == (n + chunks - 1) \div chunks

chunkStart(c) == c * chunkSize

\* Mutant: a chunk ends with the first key of the next one.
chunkEndInclusive(c) == least(chunkStart(c) + chunkSize + 1, n)

chunkEnd(c) == least(chunkStart(c) + chunkSize, n)
chunk(c)    == chunkStart(c) .. chunkEnd(c) - 1

spawns(c)   == chunkStart(c) < chunkEnd(c)

\* Mutant: the wait group also counts the chunks that get no goroutine.
addedAll == Cardinality(Chunks)

\* How often wg.Add(1) runs.
added == Cardinality({c \in Chunks : spawns(c)})

Inline ==
    /\ phase = "begin"
    /\ n = 0 \/ n < Threshold
    /\ idxs' = [j \in 0 .. n - 1 |-> shardOf(keys[j])]
    /\ phase' = "done"
    /\ UNCHANGED <<shards, n, keys, procs, at, wg>>

Fork ==
    /\ phase = "begin"
    /\ n > 0 /\ n >= Threshold
    /\ at' = [c \in Chunks |-> chunkStart(c)]
    /\ wg' = added
    /\ phase' = "fork"
    /\ UNCHANGED <<shards, n, keys, procs, idxs>>

\* One iteration of a goroutine's loop; the last one is followed by wg.Done.
Work(c) ==
    /\ phase = "fork"
    /\ c \in Chunks /\ at[c] < chunkEnd(c)
    /\ idxs' = [idxs EXCEPT ![at[c]] = shardOf(keys[at[c]])]
    /\ at' = [at EXCEPT ![c] = @ + 1]
    /\ wg' = IF at'[c] = chunkEnd(c) THEN wg - 1 ELSE wg
    /\ UNCHANGED <<shards, n, keys, procs, phase>>

Wait ==
    /\ phase = "fork"
    /\ wg = 0
    /\ phase' = "done"
    /\ UNCHANGED <<shards, n, keys, procs, idxs, at, wg>>

Init ==
    /\ shards \in {count \in 1 .. MaxShards : validCount(count)}
    /\ n \in 0 .. MaxKeys
    /\ procs \in 1 .. MaxProcs
    /\ keys \in [0 .. n - 1 -> Bytes]
    /\ \E stale \in Bytes : idxs = [j \in 0 .. n - 1 |-> stale]
    /\ at = << >> /\ wg = 0
    /\ phase = "begin"

Next == Inline \/ Fork \/ Wait \/ \E c \in 0 .. MaxChunks - 1 : Work(c)

\* The Go scheduler runs every goroutine that can run.
Fairness ==
    /\ WF_vars(Inline \/ Fork \/ Wait)
    /\ \A c \in 0 .. MaxChunks - 1 : WF_vars(Work(c))

Spec == Init /\ [][Next]_vars /\ Fairness

-----------------------------------------------------------------------------

\* When parallelComputeShardIdxs returns, every entry of the buffer is the shard
\* that shardOf gives its key, which is where Get and Update look for it, and
\* nothing of an earlier batch is left (sharded.go, parallelComputeShardIdxs).
IndexesRight == phase = "done" => \A j \in 0 .. n - 1 : idxs[j] = shardOf(keys[j])

\* "Each chunk owns a contiguous range of idxs[], avoiding any cross-goroutine
\* writes" (parallelComputeShardIdxs in sharded.go).
OneWriter ==
    phase = "fork" => \A c, d \in Chunks : c # d => chunk(c) \cap chunk(d) = {}

\* Every accepted shard count routes every key to an existing shard and gives
\* every shard the same share of the digests: the shift by 8 - shardBits neither
\* overflows nor leaves a shard without keys (NewShardedSMT and shardOf in
\* sharded.go).
RoutesEvenly ==
    \A s \in 0 .. shards - 1 :
        Cardinality({byte \in Bytes : shardOf(byte) = s}) * shards = Pow2(ByteBits)

\* The call returns whatever the batch and GOMAXPROCS: the wait group counts the
\* goroutines that were started, and no others (parallelComputeShardIdxs).
Returns == <>(phase = "done")

-----------------------------------------------------------------------------
(***************************************************************************)
(* The inductive invariant: each goroutine has written the entries of its  *)
(* chunk that its loop has passed, and the wait group counts those that    *)
(* have entries left.                                                      *)
(***************************************************************************)

BatchOK ==
    /\ n \in Nat /\ procs \in Nat \ {0}
    /\ idxs = [j \in 0 .. n - 1 |-> idxs[j]]
    /\ phase \in {"begin", "fork", "done"}

active(c) == at[c] < chunkEnd(c)

Forked ==
    /\ n > 0
    /\ at \in [Chunks -> Nat]
    /\ \A c \in Chunks :
          /\ chunkStart(c) <= at[c]
          /\ at[c] = chunkStart(c) \/ at[c] <= chunkEnd(c)
          /\ \A j \in chunkStart(c) .. at[c] - 1 : idxs[j] = shardOf(keys[j])
    /\ wg = Cardinality({c \in Chunks : active(c)})

\* While the goroutines run, what a loop has passed is indexed, no loop runs out
\* of its chunk, and wg.Wait waits for exactly the goroutines that have entries
\* left (parallelComputeShardIdxs in sharded.go).
IndexInvariant == BatchOK /\ (phase = "fork" => Forked) /\ IndexesRight
=============================================================================
