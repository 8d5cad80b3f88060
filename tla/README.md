# A verification project for smt, a sparse Merkle tree in Go

This directory holds TLA+ modules that model the library in `src/`, TLC
configurations that check them on small instances, and TLAPS proofs of what
holds for every instance. `PROJECT.json` lists the components, the runs, the
mutants each property is tested with, the source lines behind each definition,
the hazards and the theorems.

## 1. The system

The library keeps an authenticated key-value map. A key is hashed to a *path* of
`Depth` bits (256 for SHA-256). A leaf is pulled up as far as it can go: a
subtree with no entry is the all-zero placeholder, a subtree with one entry is
that entry's leaf, and only a subtree with two or more entries is an inner node.

| Component | State | Operations | Who it talks to |
|---|---|---|---|
| `SparseMerkleTree` (`smt.go`) | `nodes`, `values` (two stores), `root` | `Get`, `Has`, `Update`, `Delete`, `Prove`, `ProveUpdatable`, `ProveCompact` | both stores, the hasher, the pools |
| Named roots (`smt.go`) | roots that the caller keeps | `UpdateForRoot`, `DeleteForRoot`, `Prove*ForRoot`, `SetRoot`, `ImportSparseMerkleTree` | the same stores, shared by all roots |
| Proofs (`proofs.go`) | none | `VerifyProof`, `CompactProof`, `DecompactProof`, `VerifyCompactProof` | the hasher |
| `treeHasher`, `utils.go` | a hasher | `digest*`, `parse*`, bit access, `countCommonPrefix` | - |
| Stores (`mapstore.go`, `mapstore_fixed.go`, `mapstore_arena.go`) | a map; the arena also slabs | `Get`, `Set`, `Delete`, arena `Reset` | called by the tree |
| Pools (`pool.go`) | process-wide slices and buffers | get, put | every call of every tree |
| `BulkUpdate` (`bulk.go`) | none of its own | one recursive walk for a batch | the tree's stores and root |
| `ShardedSMT` (`sharded.go`) | N trees, two more pools | `Update`, `Get`, `BulkUpdate`, `Root` | one goroutine per shard |
| `DeepSparseMerkleSubTree` (`deepsubtree.go`) | a partial tree | `AddBranch`, `GetDescend` | proofs, then the tree's own calls |

What is hard, and what makes each part correct:

* **The tree.** A call makes many store calls, deletes the old path before or
  while it writes the new one, and any of the store calls may fail. Correct
  means: the root depends only on the contents, not on the history; the node
  store holds exactly the tree's nodes; a call that reports an error has not
  changed what the root commits to; no call asks the store for what it does not
  hold; every call returns.
* **Named roots.** Nodes are content addressed and shared by the trees of
  different roots, and one tree's orphans may be another's nodes.
* **Proofs.** A returned proof verifies for the committed value and for no
  other, for no other key either, and compaction changes nothing. The edges are
  unrelated leaves, zero side nodes and mask lengths that are not whole bytes.
* **Pools.** Leftovers of an earlier call, on every return path; buffers that a
  result, an error or a store still points into when the next call takes them,
  possibly on another goroutine.
* **Bulk.** A batch has the effect of its deletes followed by its writes, the
  last write of a key counting; orphans are removed and shared nodes kept; a
  batch that fails does not publish a root of its own.
* **Sharded.** The index pass writes every slot once; the goroutines read only
  their own slices and the caller waits for all of them; one shard's failure
  stays in that shard; the combined root commits to every shard.
* **Deep subtree.** A partial tree answers from what it was given or says that it
  cannot; a root it publishes is the complete tree's.
* **Arena.** A map of copied values, whatever the lengths do to the slabs; a
  slice that was handed out never changes.

## 2. Modules

| Module | Models | Notes |
|---|---|---|
| `TreeHasher` | `treehasher.go`, bits of `utils.go` | A digest is a constructor around its preimage: injective, never the placeholder |
| `Commitment` | reference | The one root of a set of entries (`SubtreeRoot`), and reading a root back (`CommittedMap`) without a store |
| `AuthenticatedMap` | abstract specification | A map; each call takes effect as a whole or fails without effect |
| `SMT` | `smt.go`, `mapstore.go`, `pool.go` | The step machine of the tree |
| `SMTInvariant` | - | The inductive invariants: of a call's locals, of the stores, and of stores that hold more than one tree (`CoverInvariant`) |
| `SMTForRoot` | the `*ForRoot` calls, `SetRoot` | Extends `SMT` with the caller's roots |
| `Proofs` | `proofs.go` | Pure operators |
| `SMTProofs` | - | The tree composed with a verifier |
| `DeepSubtree` | `deepsubtree.go`, the updates of `verifyProofWithUpdates` | Extends `SMTProofs`: the calls of `SMT` on stores that hold some branches |
| `DeepInvariant` | - | The inductive invariant of the partial tree |
| `Bulk` | `bulk.go` | Extends `SMT`; the walk is a recursive operator that threads the stores, so for TLC only |
| `BulkForRoot` | - | `Bulk` and `SMTForRoot` together: batches with several roots in the stores |
| `Powers` | the shifts of `sharded.go` | `Pow2`, defined by doubling |
| `ShardIndex` | shard count, `shardOf`, `parallelComputeShardIdxs` of `sharded.go` | Its configuration instantiates it directly |
| `Sharded` | the rest of `sharded.go` | A shard is the map that its root commits to; several callers share the pool |
| `PooledWalk` | `pool.go`, the slices of the walk in `smt.go` | Memory explicit: hashes are read through slices into buffers |
| `MapStore` | `mapstore_fixed.go` | Also the abstract store that `Arena` implements |
| `Arena` | `mapstore_arena.go` | Backing arrays, slice headers, 32-bit entries |
| `MC*` | - | Instances for TLC |
| `NumberTheorems` | - | Least elements, division and powers of two |
| `CommitmentTheorems` | - | Proofs about the reference tree |
| `SMTTheorems` | - | The tree: type invariant, inductive invariant, refinement, what the two stores hold |
| `CallerTheorems` | - | What callers with roots and proofs rely on: the verifier and compaction, the partial tree, named roots |
| `PooledWalkTheorems` | - | Proofs about pooled memory |
| `ShardIndexTheorems` | - | Proofs about routing and the parallel index pass |
| `ShardedTheorems` | - | Proofs about batches, pooled bucket slices and the combined root |
| `ArenaTheorems` | - | Proofs about the slab store and its refinement of `MapStore` |

### How `SMT` corresponds to the code

A call is a sequence of steps; each step does at most one store write or one
loop iteration, because that is where a failure can leave the tree. `pc` names
the loop the call is in, `i` its index, `side` and `pnodes` are
`ps.sideNodes` and `ps.pathNodes` in the order of the walk (the code reverses
them at the end, `Reversed` reads them that way), `cur` is `currentHash`, `npr`
is `nonPlaceholderReached`, `err` remembers that `deleteWithSideNodes` failed.

| Code | Actions |
|---|---|
| `Update`, `Delete`, `Prove`, `ProveUpdatable` | the actions of the same names: the call begins |
| `fillSideNodes` | `FillRoot`, `FillStep`, `FillSibling` |
| `deleteWithSideNodes` | `AlreadyEmpty`, `DeletePathNode`, `BubbleLeaf`, `BubbleSkip`, `BubbleNode` |
| `values.Delete` in `UpdateForRoot` | `DeleteValue` (it runs after a failed `deleteWithSideNodes` too) |
| `updateWithSideNodes` | `SetLeaf`, `Fork`, `DeleteOldLeaf`, `DeleteOldValue`, `DeleteStale`, `SpineSkip`, `SpineNode`, `SetValue` |
| `doProveForRoot` | `ProveReturn` |
| a store call on a missing key; any other store error | `InvalidKey`; `StoreFault` |

Abstractions: keys are given with their paths (`PathOf`, injective: collision
resistance); the node store is the set of digests it holds, the data under a
digest being its preimage; the two alternating hash buffers are the value `cur`
(`PooledWalk` has the buffers). A tree is used by one goroutine at a time (the
code takes no lock), so one call runs at a time. `Get` and `Has` are operators
that read the state between two calls. A failing `Get` of the value store only
returns that error and is left out.

### How the other modules correspond to the code

* `DeepSubtree`. `GiveBranch` offers the partial tree any proof that a peer with
  a complete tree gives, of the current root or of another map, with any claimed
  value; `accepts` is the verification, `branchNodes` the node writes in order,
  `AddBranchFails` a store failure after any of them. `GetDescend` is an
  operator. `branch` and `clean` are history variables that the properties use.
* `Bulk`. `BulkUpdate` begins a batch; `BulkDelete` makes its deletes, each
  through the whole step machine of `SMT`; `BulkWalk` sorts, removes duplicates
  and runs `bulkApplyAtRoot`. The walk is one step because a tree has one caller
  and nothing can be seen in between: a store failure is the choice of the store
  call (`limit`) after which nothing more is done.
* `ShardIndex`. A key is the first byte of its digest. `Work` is one iteration of
  a goroutine's loop, the buffer starts with what an earlier batch left in it.
* `Sharded`. `Bucket` appends one pair to the pooled slice of its shard (length
  and array are separate: the array keeps old pairs behind the length), `FanOut`
  passes the slice headers on, `ShardUpdate` and `ShardFails` are a goroutine's
  whole `BulkUpdate`, `Return` is `wg.Wait`, the result and the deferred puts.
  What a batch, or a part of it, does to a shard (`batchPart`, `brokenPart`) is
  given path by path: a path that is written has the last value written, any other
  that is deleted is empty. A shard is the map that its root commits to, and
  `combined` joins the maps of all shards. `ShardedSMT.Get` is `shardOf` and the
  `Get` of one tree; it reads that tree's value store, which `Sharded` leaves to
  `SMT`, so after a batch that failed in a shard it may differ from the committed
  map (finding 2). This is what `BulkApplies` and
  `BulkFailsCleanly` of `Bulk` state. Goroutines of different shards touch
  disjoint trees; what they share besides the bucket slices are the pools of
  `pool.go`, which `PooledWalk` has.
* `PooledWalk`. A slice is memory of its own or a place in a buffer of a scratch.
  `ValueHash` fills `valueHashBuf`, which `Leaf` and `SameValue`, the early return
  for an unchanged value, read; `Bubble`, `Skip`, `Climb` are the iterations of the
  two walks; `DigestInto` writes the buffer whose turn it is. `StoreFails` is an
  error that keeps no pooled key, `DeleteValueFails` one of `values.Delete`, which
  does (`smt.go:138`, `smt.go:294`). `pure` is the value that the
  walk should have, kept beside the slice. Which side nodes a walk meets is a
  free choice, the path nodes and the order of children are left out: `SMT` has
  them.
* `Arena`. `heap` holds every backing array ever made, a slab is a header on one
  of them, `held` is a slice that a caller of `Get` kept.

## 3. What TLC checks

| Run | Question | Bounds |
|---|---|---|
| `tree` | root, stores and values agree after any sequence of calls; no missing key; every returned proof decides exactly the committed value, and compaction agrees | `Depth` 3, five keys, two values, no failures, two-bit "bytes" |
| `faults` | one store call fails at any point, then any calls follow: the abstract map is still implemented, and the inductive invariants hold (`CallInvariant`; `StoreInvariant` until the failure) | `Depth` 3, three keys, two values (symmetric), one failure |
| `faults_get` | does `Get` still agree with the root after a failed call? No: finding 2 | as `faults` |
| `for_root` | several roots in one pair of stores | `Depth` 3, three keys, at most four roots kept |
| `for_root_same` | does `UpdateForRoot` return a root of the given tree? Not for the same value: finding 1 | as `for_root` |
| `deep` | which reads and writes the added branches allow; answers and published roots are right, also after branches and calls that failed halfway; every call returns, on stores that lack nodes or were damaged by a failure too | `Depth` 2, three keys, two values, two calls, one failure |
| `bulk` | batches mixed with single calls: canonical root, exact stores, effect of the batch; a failure anywhere in a batch, and what follows on the damaged stores | `Depth` 2, three keys, two values (symmetric), batches of up to two pairs, one failure, one batch begun after it (`MaxRetries`) |
| `bulk_last_wins` | does the last pair of a key win? Finding 3 | `Depth` 3, no failures |
| `shard_index` | indexes, races and termination of the parallel pass; its inductive invariant (`IndexInvariant`) | bytes of two bits, up to four keys, shards and processors |
| `sharded` | two callers, two scratches: batches, failures, combined root; every batch returns | two shards, two keys, batches of two, two calls |
| `pooled_walk` | two goroutines, two scratches, two path slices: roots, stored keys, running hashes; the inductive invariant of the memory (`PoolsPrivate`) | walks of up to two side nodes, two keys, two values, two calls (symmetric) |
| `arena` | the slab store implements the map store; slices stay intact; the inductive invariant (`ArenaInvariant`) | values of up to three bytes, slabs of two bytes, three arrays |

The bounds. With three bits and the paths 000, 001, 010, 110, 111 there are
siblings on the last level, forks below a shared prefix of every length, a
leaf directly under the root, an inner node as a sibling on each side and
placeholders above and below it. Two values are needed to tell overwriting
from setting the same value. One failure already leaves the stores in every
intermediate state; the calls after it run on the damaged stores, so
`InvalidKey` happens at every place. A "byte" of two bits makes masks with
padding and of more than one byte at depth three. Four roots are enough for two
trees that differ from each other and from the one being built.

For the other runs: three keys 00, 01, 10 give a partial tree and a batch a leaf
sibling, an inner sibling, a placeholder and a fork below a shared prefix. Two
pairs make a batch with a duplicate, with two new keys, and with a write and a
delete of one key in both orders; instances with three pairs (two keys), and with
`Depth` 3, pass too but add only time. One batch begun after the failure is
enough, because the single calls between them are not bounded; the instance without
this bound (2.8 million states) passes as well. Two-bit bytes with 1, 2 and 4 shards have
the shift by a whole byte and by nothing; four keys on three chunks leave the last
chunk empty. Two callers and two calls in all are enough for a scratch to be
handed on, to the same or to the other caller, while it is still wrong to do so.
Slabs of two bytes are exactly full, overfull and outgrown by values of one to
three bytes. `sharded`, `shard_index`, `pooled_walk` end when their calls are
used up, so they may stop.

**Fairness.** `DeepFairSpec` adds `WF_deepVars(DeepStep)`: a call that has begun keeps
taking steps. The code justifies it because a call is straight-line code with
bounded loops and no lock, channel or wait. No fairness is assumed for starting
calls or for failures. In `ShardIndex` and `Sharded` every goroutine, and the
caller between two waits, is weakly fair: the Go scheduler runs whatever can run,
and a goroutine that is done with its part never blocks. A goroutine may fail or
succeed, fairness does not choose.

**Findings.**
1. `UpdateForRoot` with the value that the given root already holds returns
   `smt.root` (`smt.go:288`), which need not be the given root; its comment
   (`smt.go:116`) promises "the new root" of the tree "at a specific root".
2. After a failed `Delete` or `Update` the root is unchanged but the value may be
   gone from the value store (`smt.go:138`, `smt.go:294`), so `Get` returns the
   default value while `Prove` still proves the old one.
3. A batch that writes a key and then deletes it leaves the key present
   (`bulk.go:48`), although the comment (`bulk.go:33`) says that the last wins.

Five more disagreements, each with a property that states what should hold and a
configuration of its own, outside the list of runs, with which TLC shows the
behaviour (`tlc -config <cfg> <module>`):

| Configuration, module | Property | What the code does |
|---|---|---|
| `MCSMTForRootGet.cfg`, `MCSMTForRoot` | `GetReadsSetRoot` | The value store is keyed by path alone: after `SetRoot` to another root, `Get` (`smt.go:78`) returns the value written last under any root |
| `MCBulkForRoot.cfg`, `MCBulkForRoot` | `BulkEquivalent` | `mergeLeafWithKVs` rebuilds an existing leaf from the value store (`bulk.go:258`). When another root has written that path since, `BulkUpdate` changes a key that the batch does not name; `Update` would not (`bulk_equivalence_test.go:12`) |
| `MCDeepSubtreeDeletes.cfg`, `MCDeepSubtree` | `UpdatableSuffices` | Updatable proofs of two sibling keys do not suffice to delete both in turn (`deepsubtree.go:28`): the second delete needs the data of a sibling that no proof carried, and fails after the path nodes are deleted (`smt.go:186`) |
| `MCPooledWalkError.cfg`, `MCPooledWalk` | `ErrorNamesKey` | The `InvalidKeyError` that `UpdateForRoot` returns when `values.Delete` does not find the path (`smt.go:138`, `smt.go:294`) keeps a slice of the pooled `pathBuf`; its `Key` changes when the buffer is used again. The tree gets there when two roots share the stores, or after finding 2 |
| `MCArenaEmpty.cfg`, `MCArena` | `ImplementsStore` | `ArenaFixedSizeMap.Set` of an empty value panics while the arena has no slab (`mapstore_arena.go:88`) |

## 4. What is proved

All proofs hold for every `Depth`, every set of keys and values, any injective
`PathOf` and any number of store failures. Assumptions: `DepthAssumption`
(`Depth` is a positive natural), `ValuesAssumption` (the default value and the
absence mark are not values), `SMTAssumption` (`PathOf` is an injection into the
paths, `MaxFaults` is a natural).

* `NumberTheorems` carries every induction: a library induction theorem with an
  operator parameter is out of the provers' reach, so each one is an argument
  about the least counterexample (`LeastElement`, from the well-foundedness of
  `<`). The laws of `Pow2` come from its definition by doubling.
* `CommitmentTheorems`. What the recursive function `SubtreeRootAt` computes is
  established by induction on the height. `CommittedMapOfRoot`: reading the
  canonical root of a map back gives the map, so the root determines the contents.
* `SMTTheorems!TypeCorrect`: `Spec => []TypeOK`. `TypeOK` is inductive as it
  stands: bounds of the walk, lengths of the two slices, loop indices, and what
  is empty when a call starts.
* `SMTTheorems!InvariantHolds`: `Spec => []CallInvariant`. What the caller sees
  (`ImplementsMap`) is not inductive: it says nothing about a call halfway. The
  strengthening, module `SMTInvariant`, gives every local of a call its meaning
  in the reference tree. `RootInv`: the root is the canonical root of the map it
  commits to. `WalkInv`: the slices of `fillSideNodes` hold, level by level, the
  root of the subtree on the path and of the one beside it. `BubbleInv`: while
  the deletion moves the sibling up, the running hash is the root of the new
  subtree at the level reached. `SpineInv`: likewise for the fork and the spine
  of an update. `ResultInv`: the root about to be returned is that of the new
  map. The invariant says nothing about the stores (a digest determines its
  data), so it holds through store failures. `TypeOK` is used as a hypothesis.
* `SMTTheorems!Refinement`: `Spec => ImplementsMap`, that is, module `SMT`
  implements `AuthenticatedMap` for every depth, set of keys and values and
  number of failures. By `StepEffect` every step of a call is invisible (root,
  arguments and reply unchanged), or ends it: `succeeds` (the new root commits
  to the old map with one key changed), `answers` (a proof) or `fails` (an
  error, same map). `CommittedMapOfRoot` turns the equality of roots into the
  equality of maps.
* `SMTTheorems!StoresFollow`: `Spec => []StoreInvariant`. `RootCommits` and
  `StoreExact` speak of the moments between two calls and are not inductive
  either. `StoreInvariant` says for every `pc` which digests the node store
  holds, until a store call fails: the nodes off the call's path (`offNodes`),
  the old nodes of the path that are not yet deleted and the new ones already
  written (`oldNodes`, `newNodes`, by level), and how far the value store has
  followed. The step from one set to the next rests on the fact that two nodes of
  one tree, or an old and a new node of the path, are equal only where their
  entries are (`NodeIdentity`), so that deleting a stale node never removes one
  that is still needed. It uses `CallInvariant` and gives, for every depth,
  `RootIsCanonical`, `NoOrphans`, `KeysPresent` and `GetIsFaithful`: the four
  properties of the run `tree` about roots, stores, missing keys and `Get`.
* `CallerTheorems`, verifiers. `VerifierSound`: against the root of a map, `VerifyProof`
  accepts no value but the map's, whatever is in the proof. The recomputed root
  is equal to the real one, and a parent determines its children, so going down
  from the root every recomputed hash is the node of the tree at that level
  (`ClimbMeetsTree`), the claimed leaf included. `ProofsAreCanonical`: when
  `doProveForRoot` ends, `WalkInv` of `CallInvariant` makes every field of the
  reply the field of `ProofOf`; the induction also carries that the reply's root
  is canonical (`ProofInvariant`). With `MapProofAccepted` (the proof of a map is
  accepted) both give `ProofsDecide`. `CompactionLossless`: decompacting the
  compact form gives the side nodes back; by induction over the side nodes, the
  cleared bits count the nodes kept, and a node is where its bit says
  (`KeptInPlace`). `CompactProofsAgree` follows. `ByteAssumption`: a byte has at
  least one bit. As for `SubtreeRootAt`, induction is by least counterexample,
  after showing that the recursive functions (`recompute`, `count`, `compacted`)
  satisfy their equations.
* `CallerTheorems`, partial trees. `CallInvariant` says nothing about the stores,
  so the tree's own proof of it carries over to stores with most nodes missing
  (`PartialCallsFollow`), and with it `PartialRootsAreRight`. `GetDescendIsSound`
  needs only that a node is the hash of its data and that the value store never
  disagrees with the root (`ValuesSound`). The other three hold until
  a call fails (`clean`), and not for as long as the stores work: a `Delete` under a
  branch that is not updatable removes the path nodes and then fails on the missing
  sibling (`smt.go:174`, `smt.go:186`), after which neighbours that share those nodes
  can be neither read nor written. Their invariant, `PartInvariant` in
  `DeepInvariant`, says for every `pc` that the nodes of every added branch that
  are off the call's path are there, with what is left of the old and written of
  the new path, and beside a fresh updatable branch its sibling. A delete that
  merges a neighbour's leaf upwards changes what a neighbour's branch consists of:
  the proof shows that the nodes of the new path of each added key are kept nodes
  or newly written ones. It gives `BranchesStayReadable`, `BranchesStayWritable`
  and `UpdatableWhileFresh`.
* `CallerTheorems`, named roots. Stores are shared, and a call's root is not
  the tree's. The module instantiates the tree's theorems for the tree that the
  call names (`Own == INSTANCE SMTTheorems WITH root <- op.root, ...`): a step
  within a call does not look at `smt.root` (`SameInside`), so it is a step on that
  tree, and `CallInvariant` of the instance is kept by the lemma already proved.
  `NamedRootsHold`: this, and that every root the caller holds is a reference
  root. `NamedRootsChange` gives `ChangesNamedRoot`. For `ReturnsCompleteTree`
  (`NamedTreesComplete`) `StoreInvariant` is of no use, since the stores hold more
  than the tree: `CoverInvariant` is the inclusion that is left of it, and holds
  through failures, because deleting an old node of the path never removes one off
  it or a new one, whatever else the stores hold.
* `PooledWalkTheorems!PoolsStayPrivate`: `Spec => []PoolsPrivate`, for any number
  of goroutines, calls and pooled objects (`NilAssumption`: the absence mark is not
  one of the model's objects). `TickTock` alone is not inductive: another
  goroutine could write the buffer. `PoolsPrivate` adds that each scratch and each
  slices object is free or has one owner, that the buffers a walk points into are
  its own, and that roots and stored keys point into no buffer. From it follow
  `RootsStayIntact`, `NodesStayUnderHash` and `TickTockHolds`.
* `ShardIndexTheorems!GoroutinesIndex`: `Spec => []IndexInvariant`, for every
  number of keys, shards, chunks and processors (`IndexAssumption`). `IndexesRight`
  speaks of the end; the invariant adds what each goroutine has written so far and
  that the wait group counts the goroutines with entries left. The chunks cover the
  batch and are disjoint by the arithmetic of the rounded-up quotient. It gives
  `BatchIndexed`; `ChunksApart` is the same arithmetic. `SharesAreEven`: the bytes
  of a shard are an interval of `Pow2(ByteBits - shardBits)` numbers, for every
  accepted shard count.
* `ShardedTheorems!CallsKeepApart`: `Spec => []ShardedInvariant`, for any number of
  shards, callers, scratches and pairs (`ShardedAssumption`: as many shards as a
  power of two, each key with a path and a shard). `BatchApplied` compares the end
  of a call with its beginning; the invariant follows it through: a scratch has one
  owner, free ones are empty (`ScratchInv`), the slice of a shard holds exactly the
  pairs routed to it so far, in order, although its array keeps old ones behind
  them (`BucketInv`), and a shard is untouched while its goroutine lives and has
  its part of the batch, or a failed part, afterwards (`ShardInv`). `BatchApplied`
  speaks of the maps that the shards commit to, joined (`combined`): a key is in no
  shard but its own, so the shards' parts make up the whole batch (`PartsCombine`). A slice that
  holds part of a batch in order does to a shard what that part does. From it
  follow `KeysStayHome`, `BatchesApply` and `FailuresStayInShards`. `ShardsOfRoot`:
  the bits of a shard lead from the combined root to the shard's root, by induction
  over the levels of `computeRoot`; with `CommittedMapOfRoot` it gives
  `RootsCommit`.
* `ArenaTheorems!ArenaInvariantHolds`: `Spec => []ArenaInvariant`, for every slab
  size and length of values below 2^32 (`ArenaAssumption`). No two slabs share an
  array, the entries of two keys never overlap (`EntriesApart`) and end within the
  used part of their slab, and only the last slab is filled, behind all that entries
  and callers' slices point to. It gives `ArenaTypeCorrect`, `HeldSlicesIntact` and `ArenaIsMapStore`:
  the arena implements `MapStore` once it has a slab (finding in
  `MCArenaEmpty.cfg`).

Only model-checked, and why:
* liveness (`CallsReturn` of the tree, in the run `deep`, and of the sharded tree,
  `Returns` of the index pass): out of the prover's reach;
* `BulkApplies` and `BulkFailsCleanly`: the walk of `bulk.go` is modelled with
  recursive operators, which leave a module without the SMT backend. `RootCommits`
  and `StoreExact` are proved for the calls of `SMT`; that batches keep them too is
  checked by the run `bulk` only. `Sharded`, and its theorems, take what a batch
  does to one shard from these two properties;
* that `PooledWalk`, which has the buffers, walks like `SMT`, which has the
  values: the two share no state, and no run relates them.

## 5. Not modelled, and the plan

Not modelled: `options.go` (a type with no implementation); fuzz drivers and
benchmarks (test harnesses); diagnostics (`Len`, `SlabBytes`, `ShardCount`,
`Equal`). Values and slabs of 4 GiB and more, for which the 32-bit entries of the
arena would wrap, are excluded by `ArenaAssumption`. The capacity hints of the
bucket slices and of the index buffer only avoid allocations. A tree that two
goroutines use at once is outside what the code supports. Malformed proofs
(fields of a wrong length) are outside the model: its digests have no length. So are
compact proofs that `CompactProof` did not make, such as one with a padding bit of
its mask set: `CompactAgrees` is about compacting what the tree returns.

The header comment of `sharded.go` speaks of at most 64 shards and of the
configured hasher; the code accepts 256 and routes with SHA-256. The model
follows the code.

What is left: a proof about `Bulk`. Its walk would have to become a recursive
function on the stores, the height and the sorted list, with an inductive argument
over the height that the hash returned is the reference root of the entries below
it, and its sort a definition without folds. The walk reads the existing leaf's
value from the value store, so the proof also needs that after a failed batch no
leaf that is still in the node store has a value that disagrees with it.
