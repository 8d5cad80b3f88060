------------------------------ MODULE Sharded -------------------------------
(***************************************************************************)
(* ShardedSMT (sharded.go): BulkUpdate buckets a batch by shard into       *)
(* pooled slices, starts one goroutine per shard that has keys, waits for  *)
(* all of them and combines the shard roots.                               *)
(*                                                                         *)
(* Several callers, each with a ShardedSMT of its own, share the process   *)
(* wide shardScratchPool.  A shard is the map that the root of its         *)
(* SparseMerkleTree commits to: modules SMT and Bulk show that a batch on  *)
(* it takes effect as a whole or leaves a few of its deletes, and          *)
(* Commitment gives its root.  The value stores, which Get reads, are in   *)
(* those modules only: after a failed call they may differ from this map.  *)
(* The shard of each key comes from module ShardIndex.                     *)
(***************************************************************************)
EXTENDS Commitment, Powers, SequencesExt

CONSTANTS
    Keys,        \* user keys
    PathOf,      \* their paths in the tree of a shard
    ShardBits,   \* log2 of the number of shards
    ShardOf,     \* shardOf of each key
    Callers,     \* goroutines that call BulkUpdate or Update
    Scratches,   \* the shardScratch objects
    MaxBatch,    \* bound: pairs in a batch
    MaxCalls     \* bound: calls in all

Shards == 0 .. Pow2(ShardBits) - 1

ASSUME ShardedAssumption ==
    /\ ShardBits \in Nat /\ MaxBatch \in Nat /\ MaxCalls \in Nat
    /\ PathOf \in [Keys -> Paths] /\ IsInjective(PathOf)
    /\ ShardOf \in [Keys -> Shards]

VARIABLES
    shard,     \* the maps that the shards of each caller's tree commit to
    free,      \* shardScratchPool
    bucket,    \* in each scratch, a slice per shard: its length and its array
    job,       \* the running call of each caller
    reply,     \* what its last call returned
    calls      \* calls made so far

vars == <<shard, free, bucket, job, reply, calls>>

Idle    == [pc |-> "idle"]
NoReply == [status |-> "none"]
Failure == [status |-> "error"]

-----------------------------------------------------------------------------
\* What a batch does to a shard (BulkUpdate in bulk.go).

IsDelete(pair) == pair[2] = DefaultValue
IsWrite(pair)  == ~IsDelete(pair)

ApplyPair(m, pair) ==
    [m EXCEPT ![PathOf[pair[1]]] = IF IsDelete(pair) THEN Absent ELSE pair[2]]

\* The pairs of a batch, among those with indices in I, that are about path p.
pairsAt(pairs, I, p)   == {j \in I : PathOf[pairs[j][1]] = p}
deletesAt(pairs, I, p) == {j \in pairsAt(pairs, I, p) : IsDelete(pairs[j])}
writesAt(pairs, I, p)  == {j \in pairsAt(pairs, I, p) : IsWrite(pairs[j])}

\* The deletes of the part I of a batch.
deletePart(m, pairs, I) ==
    [p \in Paths |-> IF deletesAt(pairs, I, p) # {} THEN Absent ELSE m[p]]

\* The part I of a batch: its deletes, and then its writes, the last of which
\* wins at each path.
batchPart(m, pairs, I) ==
    [p \in Paths |-> IF writesAt(pairs, I, p) # {}
                     THEN pairs[Max(writesAt(pairs, I, p))][2]
                     ELSE deletePart(m, pairs, I)[p]]

\* What a part that failed may leave behind: the first few of its deletes.
brokenPart(m, pairs, I) == {deletePart(m, pairs, I \cap 1 .. n) : n \in 0 .. Len(pairs)}

Batched(m, pairs) == batchPart(m, pairs, DOMAIN pairs)
Broken(m, pairs)  == brokenPart(m, pairs, DOMAIN pairs)

-----------------------------------------------------------------------------
\* computeRoot.

\* Mutant: a node is paired with itself.
pairUpSelf(level) == [j \in 0 .. Cardinality(DOMAIN level) \div 2 - 1 |->
    digestNode(level[2 * j], level[2 * j])]

\* One round of the fold.  The number of shards is a power of two, so no level
\* but the last has an odd number of nodes.
pairUp(level) == [j \in 0 .. Cardinality(DOMAIN level) \div 2 - 1 |->
    digestNode(level[2 * j], level[2 * j + 1])]

computeRoot(t) ==
    LET level[h \in 0 .. ShardBits] ==
            IF h = 0 THEN [s \in Shards |-> SubtreeRoot(EntriesOf(t[s]), 0)]
            ELSE pairUp(level[h - 1])
    IN  level[ShardBits][0]

Success(t) == [status |-> "ok", root |-> computeRoot(t)]

-----------------------------------------------------------------------------
\* BulkUpdate.

EmptySlices == [s \in Shards |-> [len |-> 0, array |-> << >>]]

\* A batch of no keys needs no scratch.
BulkUpdateEmpty(c) ==
    /\ job[c] = Idle /\ calls < MaxCalls
    /\ calls' = calls + 1
    /\ reply' = [reply EXCEPT ![c] = Success(shard[c])]
    /\ UNCHANGED <<shard, free, bucket, job>>

\* ErrBulkInputMismatch.
BulkMismatch(c) ==
    /\ job[c] = Idle /\ calls < MaxCalls
    /\ calls' = calls + 1
    /\ reply' = [reply EXCEPT ![c] = Failure]
    /\ UNCHANGED <<shard, free, bucket, job>>

\* getShardScratch.
BulkUpdate(c, pairs, x) ==
    /\ job[c] = Idle /\ calls < MaxCalls
    /\ x \in free
    /\ free' = free \ {x}
    /\ job' = [job EXCEPT ![c] =
                  [pc |-> "bucket", pairs |-> pairs, at |-> 1, scratch |-> x,
                   ks |-> [s \in Shards |-> 0], live |-> {}, wg |-> 0, err |-> FALSE,
                   base |-> shard[c]]]
    /\ calls' = calls + 1
    /\ reply' = [reply EXCEPT ![c] = NoReply]
    /\ UNCHANGED <<shard, bucket>>

\* append, which overwrites what an earlier batch left in the array.
Appended(slice, pair) ==
    [len   |-> slice.len + 1,
     array |-> IF slice.len < Len(slice.array)
               THEN [slice.array EXCEPT ![slice.len + 1] = pair]
               ELSE Append(slice.array, pair)]

\* Mutant: the index of the first key is used for all of them.
routeFirst(pairs, at) == ShardOf[pairs[1][1]]

route(pairs, at) == ShardOf[pairs[at][1]]

Bucket(c) ==
    /\ job[c].pc = "bucket" /\ job[c].at <= Len(job[c].pairs)
    /\ LET at == job[c].at
           x  == job[c].scratch
           s  == route(job[c].pairs, at)
       IN  bucket' = [bucket EXCEPT ![x][s] = Appended(bucket[x][s], job[c].pairs[at])]
    /\ job' = [job EXCEPT ![c].at = @ + 1]
    /\ UNCHANGED <<shard, free, reply, calls>>

\* The goroutines are given slice headers; the wait group counts them.
FanOut(c) ==
    /\ job[c].pc = "bucket" /\ job[c].at > Len(job[c].pairs)
    /\ LET j      == job[c]
           slices == bucket[j.scratch]
           used   == {s \in Shards : slices[s].len > 0}
       IN  job' = [job EXCEPT ![c] =
                     [j EXCEPT !.pc = "wait",
                               !.ks = [s \in Shards |-> slices[s].len],
                               !.live = used, !.wg = Cardinality(used)]]
    /\ UNCHANGED <<shard, free, bucket, reply, calls>>

\* The pairs that a goroutine reads through its slice header.
shardPairs(c, s) == SubSeq(bucket[job[c].scratch][s].array, 1, job[c].ks[s])

\* Mutant: a goroutine that fails leaves without wg.Done.
DoneUnlessFailed(c, s, failed) ==
    LET j == job[c]
    IN  job' = [job EXCEPT ![c] =
                   [j EXCEPT !.live = j.live \ {s}, !.err = j.err \/ failed,
                             !.wg = IF failed THEN j.wg ELSE j.wg - 1]]

\* gotErr and the deferred wg.Done.
Done(c, s, failed) ==
    LET j == job[c]
    IN  job' = [job EXCEPT ![c] =
                   [j EXCEPT !.live = j.live \ {s}, !.err = j.err \/ failed,
                             !.wg = j.wg - 1]]

ShardUpdate(c, s) ==
    /\ job[c].pc = "wait" /\ s \in job[c].live
    /\ shard' = [shard EXCEPT ![c][s] = Batched(shard[c][s], shardPairs(c, s))]
    /\ Done(c, s, FALSE)
    /\ UNCHANGED <<free, bucket, reply, calls>>

ShardFails(c, s) ==
    /\ job[c].pc = "wait" /\ s \in job[c].live
    /\ \E m \in Broken(shard[c][s], shardPairs(c, s)) : shard' = [shard EXCEPT ![c][s] = m]
    /\ Done(c, s, TRUE)
    /\ UNCHANGED <<free, bucket, reply, calls>>

\* Mutant: the slices keep their lengths.
putShardScratchFull(x) == UNCHANGED bucket /\ free' = free \cup {x}

\* The slices go back to the pool with length zero and their old contents.
putShardScratch(x) ==
    /\ bucket' = [bucket EXCEPT ![x] = [s \in Shards |-> [bucket[x][s] EXCEPT !.len = 0]]]
    /\ free' = free \cup {x}

\* Mutant: the call does not wait for the goroutines.
allDoneAlways(c) == TRUE

allDone(c) == job[c].wg = 0

\* wg.Wait, computeRoot and the deferred puts.
Return(c) ==
    /\ job[c].pc = "wait" /\ allDone(c)
    /\ reply' = [reply EXCEPT ![c] = IF job[c].err THEN Failure ELSE Success(shard[c])]
    /\ putShardScratch(job[c].scratch)
    /\ job' = [job EXCEPT ![c] = Idle]
    /\ UNCHANGED <<shard, calls>>

-----------------------------------------------------------------------------
\* Update of a single key.

Update(c, pair) ==
    /\ job[c] = Idle /\ calls < MaxCalls
    /\ calls' = calls + 1
    /\ \/ /\ LET s == ShardOf[pair[1]]
             IN  shard' = [shard EXCEPT ![c][s] = ApplyPair(shard[c][s], pair)]
          /\ reply' = [reply EXCEPT ![c] = Success(shard'[c])]
       \/ /\ reply' = [reply EXCEPT ![c] = Failure]
          /\ UNCHANGED shard
    /\ UNCHANGED <<free, bucket, job>>

-----------------------------------------------------------------------------

Pairs   == Keys \X (Values \cup {DefaultValue})
Batches == SeqOf(Pairs, MaxBatch) \ {<< >>}

Init ==
    /\ shard = [c \in Callers |-> [s \in Shards |-> [p \in Paths |-> Absent]]]
    /\ free = Scratches /\ bucket = [x \in Scratches |-> EmptySlices]
    /\ job = [c \in Callers |-> Idle] /\ reply = [c \in Callers |-> NoReply]
    /\ calls = 0

Begin(c) ==
    \/ BulkUpdateEmpty(c) \/ BulkMismatch(c)
    \/ \E pairs \in Batches, x \in Scratches : BulkUpdate(c, pairs, x)
    \/ \E pair \in Pairs : Update(c, pair)

Goroutine(c, s) == ShardUpdate(c, s) \/ ShardFails(c, s)

Next == \E c \in Callers :
    \/ Begin(c) \/ Bucket(c) \/ FanOut(c) \/ Return(c)
    \/ \E s \in Shards : Goroutine(c, s)

\* The Go scheduler runs every goroutine that can run; nothing blocks but the
\* wait group.
Fairness == \A c \in Callers :
    /\ WF_vars(Bucket(c) \/ FanOut(c) \/ Return(c))
    /\ \A s \in Shards : WF_vars(Goroutine(c, s))

Spec == Init /\ [][Next]_vars /\ Fairness

-----------------------------------------------------------------------------

ends(c)   == job[c].pc = "wait" /\ job'[c] = Idle
endsOk(c) == ends(c) /\ reply'[c].status = "ok"

\* The indices of the pairs that belong to shard s.
routed(pairs, s) == {j \in DOMAIN pairs : ShardOf[pairs[j][1]] = s}

\* The shards of a tree that hold a path, and the map that they commit to
\* together.
holders(t, p) == {s \in Shards : t[s][p] # Absent}
combined(t) ==
    [p \in Paths |-> IF holders(t, p) = {} THEN Absent
                     ELSE t[CHOOSE s \in holders(t, p) : TRUE][p]]

\* A batch that succeeds leaves the shards committed to what calling Update on its
\* deletes and then on its writes would leave in one tree, whatever the other
\* callers do with the shared pools and in whatever order the goroutines run
\* (ShardedSMT.BulkUpdate).
BatchApplied ==
    [][\A c \in Callers : endsOk(c) =>
          combined(shard'[c]) = Batched(combined(job[c].base), job[c].pairs)]_vars

\* A batch that fails leaves every shard either with its part of the batch, or
\* with a few of the deletes of that part: no key outside the batch changes and
\* no write is applied in part (the first error in ShardedSMT.BulkUpdate).
BatchFailsByShard ==
    [][\A c \in Callers : ends(c) => \A s \in Shards :
          LET b == job[c].pairs
          IN  shard'[c][s] \in {batchPart(job[c].base[s], b, routed(b, s))}
                                  \cup brokenPart(job[c].base[s], b, routed(b, s))]_vars

\* No shard commits to a key that shardOf routes to another one: single calls and
\* batches find each key in the same shard (shardOf and the bucketing loop of
\* BulkUpdate).
KeysAtHome ==
    \A c \in Callers, s \in Shards, k \in Keys :
        shard[c][s][PathOf[k]] # Absent => ShardOf[k] = s

\* The root of shard s below a combined root: the bits of s from the top.
shardRootBelow(r, s) ==
    LET at[d \in 0 .. ShardBits] ==
            IF d = 0 THEN r
            ELSE LET up == Data(at[d - 1])
                 IN  IF (s \div Pow2(ShardBits - d)) % 2 = 1 THEN up.right ELSE up.left
    IN  at[ShardBits]

\* The combined root of a call that succeeded commits to the contents of every
\* shard: walking down from it reads them back (computeRoot).
CombinedCommits ==
    \A c \in Callers : job[c] = Idle /\ reply[c].status = "ok" =>
        \A s \in Shards :
            CommittedMap(shardRootBelow(reply[c].root, s)) = shard[c][s]

\* Every call returns, also when shards fail (the wait group of BulkUpdate).
CallsReturn == \A c \in Callers : job[c] # Idle ~> job[c] = Idle

-----------------------------------------------------------------------------
(***************************************************************************)
(* The inductive invariant.  A scratch belongs to one call or to the pool; *)
(* its slices hold, in order, the pairs that the call has bucketed; a      *)
(* shard of a waiting call is as it was when the call began while its      *)
(* goroutine is alive, and has its part of the batch afterwards.           *)
(***************************************************************************)

Slices == [len : Nat, array : Seq(Pairs)]
Trees  == [Shards -> Maps]

\* The trees in which every key is in the shard that shardOf gives.
atHome(t) == \A s \in Shards, k \in Keys : t[s][PathOf[k]] # Absent => ShardOf[k] = s

Jobs ==
    [pc : {"bucket", "wait"}, pairs : Seq(Pairs), at : Nat \ {0}, scratch : Scratches,
     ks : [Shards -> Nat], live : SUBSET Shards, wg : Int, err : BOOLEAN, base : Trees]

JobTypeOK ==
    /\ job \in [Callers -> {Idle} \cup Jobs]
    /\ shard \in [Callers -> Trees]
    /\ bucket \in [Scratches -> [Shards -> Slices]]
    /\ free \in SUBSET Scratches
    /\ DOMAIN reply = Callers

busy(c) == job[c] # Idle

\* No two calls hold a scratch, none is held and free, and the free ones are
\* empty.
ScratchInv ==
    /\ \A c \in Callers : busy(c) => job[c].scratch \notin free
    /\ \A c, d \in Callers : busy(c) /\ busy(d) /\ c # d => job[c].scratch # job[d].scratch
    /\ \A x \in free, s \in Shards : bucket[x][s].len = 0

\* The slice holds the pairs with indices in I, in the order of the batch.
holds(slice, pairs, I) ==
    /\ slice.len <= Len(slice.array)
    /\ \E f \in [1 .. slice.len -> I] :
          /\ \A i, j \in 1 .. slice.len : i < j => f[i] < f[j]
          /\ \A j \in I : \E i \in 1 .. slice.len : f[i] = j
          /\ \A i \in 1 .. slice.len : slice.array[i] = pairs[f[i]]

\* The slices of a call hold the pairs that its loop has passed.
bucketOK(j, slices) ==
    /\ j.at <= Len(j.pairs) + 1
    /\ \A s \in Shards : holds(slices[s], j.pairs, routed(j.pairs, s) \cap 1 .. j.at - 1)
    /\ j.pc = "wait" =>
          j.at = Len(j.pairs) + 1 /\ \A s \in Shards : j.ks[s] = slices[s].len

BucketInv == \A c \in Callers : busy(c) => bucketOK(job[c], bucket[job[c].scratch])

\* What a shard holds once its goroutine is done.
applied(j, s, m) ==
    LET I == routed(j.pairs, s)
    IN  \/ m = batchPart(j.base[s], j.pairs, I)
        \/ j.err /\ m \in brokenPart(j.base[s], j.pairs, I)

\* How far a call has come with the shards of its tree.
shardsOK(j, t) ==
    /\ j.pc = "bucket" => t = j.base
    /\ j.pc = "wait" =>
          /\ j.wg = Cardinality(j.live)
          /\ \A s \in Shards : IF s \in j.live THEN t[s] = j.base[s]
                               ELSE applied(j, s, t[s])

ShardInv == \A c \in Callers :
    /\ atHome(shard[c])
    /\ busy(c) => shardsOK(job[c], shard[c])

ReplyInv == \A c \in Callers :
    ~busy(c) /\ reply[c].status = "ok" => reply[c].root = computeRoot(shard[c])

ShardedInvariant == ScratchInv /\ BucketInv /\ ShardInv /\ ReplyInv
=============================================================================
