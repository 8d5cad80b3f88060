-------------------------------- MODULE Bulk --------------------------------
(***************************************************************************)
(* SparseMerkleTree.BulkUpdate (bulk.go): the deletes of a batch, one call *)
(* of Delete each (the steps of module SMT), then one recursive walk for   *)
(* its writes.                                                             *)
(*                                                                         *)
(* The walk is a pure function of the stores.  It threads a record with    *)
(* the two stores, the hash that the running call returned, the number of  *)
(* store calls made and the one that is going to fail; once ok is false    *)
(* nothing more happens to the stores.                                     *)
(***************************************************************************)
EXTENDS SMT, SequencesExt

CONSTANTS MaxBatch,     \* bound: pairs in a batch
          MaxRetries    \* bound: batches begun after a store call has failed

ASSUME BatchAssumption == MaxBatch \in Nat /\ MaxRetries \in Nat

VARIABLES bulk,     \* the running batch
          start,    \* history: the root when it began
          retries   \* history: batches begun after a store call has failed

batchVars == <<bulk, start, retries>>
bulkVars  == <<vars, batchVars>>

NoBulk == [pairs |-> << >>, at |-> 0]

-----------------------------------------------------------------------------
\* Store calls of the walk.

Store(limit) == [nodes |-> nodes, values |-> values, hash |-> Placeholder,
                 used |-> 0, limit |-> limit, ok |-> TRUE]

\* A store call with its effect.  It fails if it is the one to fail or if the
\* key it needs is missing.
Try(st, found, done) ==
    IF ~st.ok THEN st
    ELSE IF st.used = st.limit \/ ~found THEN [st EXCEPT !.ok = FALSE]
    ELSE [done EXCEPT !.used = @ + 1]

nodesGet(st, h)     == Try(st, h \in st.nodes, st)
nodesDelete(st, h)  == Try(st, h \in st.nodes, [st EXCEPT !.nodes = @ \ {h}])
nodesSet(st, h)     == Try(st, TRUE, [st EXCEPT !.nodes = @ \cup {h}, !.hash = h])
valuesGet(st, p)    == Try(st, st.values[p] # Absent, st)
valuesSet(st, p, v) == Try(st, TRUE, [st EXCEPT !.values[p] = v])

Yield(st, h) == [st EXCEPT !.hash = h]

-----------------------------------------------------------------------------
\* The batch as a list of entries, sorted by path.

PathBefore(p, q) == \E d \in 0 .. Depth - 1 :
    p[d] < q[d] /\ \A b \in 0 .. d - 1 : p[b] = q[b]

\* Behind the entries with the same path: the sort is stable.
InsertSorted(kvs, kv) ==
    LET n == Cardinality({j \in DOMAIN kvs : ~PathBefore(kv[1], kvs[j][1])})
    IN  SubSeq(kvs, 1, n) \o <<kv>> \o SubSeq(kvs, n + 1, Len(kvs))

\* Mutant: the first of several entries with the same path is kept.
KeepLastFirst(kvs, kv) ==
    IF kvs # << >> /\ Last(kvs)[1] = kv[1] THEN kvs ELSE Append(kvs, kv)

KeepLast(kvs, kv) ==
    IF kvs # << >> /\ Last(kvs)[1] = kv[1] THEN Append(Front(kvs), kv)
    ELSE Append(kvs, kv)

IsDelete(pair) == pair[2] = DefaultValue
IsWrite(pair)  == ~IsDelete(pair)

\* The kv list that the walk is given: sorted and free of duplicates.
bulkKVs(pairs) ==
    LET writes == SelectSeq(pairs, IsWrite)
        kvs    == [j \in DOMAIN writes |-> <<PathOf[writes[j][1]], writes[j][2]>>]
    IN  FoldLeft(KeepLast, << >>, FoldLeft(InsertSorted, << >>, kvs))

partitionByBit(kvs, depth) == CHOOSE n \in 0 .. Len(kvs) :
    /\ \A j \in 1 .. n : kvs[j][1][depth] = 0
    /\ n < Len(kvs) => kvs[n + 1][1][depth] = 1

-----------------------------------------------------------------------------
\* The walk.

RECURSIVE buildSubtree(_, _, _)
buildSubtree(st, depth, kvs) ==
    IF kvs = << >> THEN Yield(st, Placeholder)
    ELSE IF Len(kvs) = 1
    THEN LET kv   == kvs[1]
             leaf == digestLeaf(kv[1], digest(kv[2]))
         IN  valuesSet(nodesSet(st, leaf), kv[1], kv[2])
    ELSE LET split == partitionByBit(kvs, depth)
             l     == buildSubtree(st, depth + 1, SubSeq(kvs, 1, split))
             r     == buildSubtree(l, depth + 1, SubSeq(kvs, split + 1, Len(kvs)))
         IN  nodesSet(r, digestNode(l.hash, r.hash))

\* Mutant: the existing leaf is not carried into the rebuilt subtree.
mergedDropsLeaf(leafPath, oldValue, kvs) == kvs

\* The incoming entries, and the existing leaf unless one of them replaces it.
merged(leafPath, oldValue, kvs) ==
    IF \E j \in DOMAIN kvs : kvs[j][1] = leafPath THEN kvs
    ELSE InsertSorted(kvs, <<leafPath, oldValue>>)

\* The one incoming entry is the leaf as it stands.
sameLeaf(leaf, kvs) ==
    Len(kvs) = 1 /\ kvs[1][1] = leaf.path /\ digest(kvs[1][2]) = leaf.valueHash

mergeLeafWithKVs(st, currentHash, depth, kvs) ==
    LET leaf     == Data(currentHash)
        shadowed == \E j \in DOMAIN kvs : kvs[j][1] = leaf.path
        removed  == nodesDelete(st, currentHash)
        read     == IF shadowed THEN removed ELSE valuesGet(removed, leaf.path)
    IN  IF sameLeaf(leaf, kvs) THEN Yield(st, currentHash)
        ELSE IF ~read.ok THEN read
        ELSE buildSubtree(read, depth, merged(leaf.path, read.values[leaf.path], kvs))

\* Mutant: the replaced inner node stays in the store.
ReplaceNodeKeeps(st, currentHash, newHash) == nodesSet(st, newHash)

ReplaceNode(st, currentHash, newHash) == nodesSet(nodesDelete(st, currentHash), newHash)

RECURSIVE bulkApplyAtRoot(_, _, _, _)
bulkApplyAtRoot(st, currentHash, depth, kvs) ==
    IF kvs = << >> THEN Yield(st, currentHash)
    ELSE IF currentHash = Placeholder THEN buildSubtree(st, depth, kvs)
    ELSE LET got == nodesGet(st, currentHash)
         IN  IF ~got.ok THEN got
             ELSE IF isLeaf(Data(currentHash))
             THEN mergeLeafWithKVs(got, currentHash, depth, kvs)
             ELSE LET node  == Data(currentHash)
                      split == partitionByBit(kvs, depth)
                      l     == bulkApplyAtRoot(got, node.left, depth + 1,
                                               SubSeq(kvs, 1, split))
                      r     == bulkApplyAtRoot(l, node.right, depth + 1,
                                               SubSeq(kvs, split + 1, Len(kvs)))
                  IN  IF l.hash = node.left /\ r.hash = node.right
                      THEN Yield(r, currentHash)
                      ELSE ReplaceNode(r, currentHash, digestNode(l.hash, r.hash))

-----------------------------------------------------------------------------
\* BulkUpdate.

running == bulk # NoBulk

BulkUpdate(pairs) ==
    /\ pc = "idle" /\ ~running
    /\ faults > 0 => retries < MaxRetries
    /\ bulk' = [pairs |-> pairs, at |-> 1]
    /\ start' = root
    /\ retries' = retries + (IF faults > 0 THEN 1 ELSE 0)
    /\ reply' = NoReply
    /\ UNCHANGED <<tree, pc, op, locals, faults>>

\* ErrBulkInputMismatch.
BulkMismatch ==
    /\ pc = "idle" /\ ~running
    /\ reply' = [status |-> "error"]
    /\ UNCHANGED <<tree, pc, op, locals, faults, batchVars>>

\* The deletes that are still to be made.
pending == {j \in bulk.at .. Len(bulk.pairs) : IsDelete(bulk.pairs[j])}
failed  == reply.status = "error"

BulkDelete ==
    /\ running /\ ~failed
    /\ \E j \in pending :
          /\ \A n \in pending : j <= n
          /\ Delete(bulk.pairs[j][1])
          /\ bulk' = [bulk EXCEPT !.at = j + 1]
    /\ UNCHANGED <<start, retries>>

\* The batch ends with an error of its own or of a Delete, or with a root.
BulkReturn(r) ==
    /\ bulk' = NoBulk /\ start' = Placeholder
    /\ reply' = r
    /\ UNCHANGED <<pc, op, locals, retries>>

BulkDeleteFailed ==
    /\ running /\ failed /\ pc = "idle"
    /\ BulkReturn(reply)
    /\ UNCHANGED <<tree, faults>>

\* Mutant: the root is published although the walk failed.
BulkEndAlways(st) ==
    /\ nodes' = st.nodes /\ values' = st.values
    /\ root' = st.hash
    /\ BulkReturn(IF st.ok THEN [status |-> "ok", root |-> st.hash] ELSE [status |-> "error"])

BulkEnd(st) ==
    /\ nodes' = st.nodes /\ values' = st.values
    /\ IF st.ok
       THEN root' = st.hash /\ BulkReturn([status |-> "ok", root |-> st.hash])
       ELSE UNCHANGED root /\ BulkReturn([status |-> "error"])

Walk(limit) == bulkApplyAtRoot(Store(limit), root, 0, bulkKVs(bulk.pairs))

BulkWalk ==
    /\ running /\ ~failed /\ pc = "idle" /\ pending = {}
    /\ \/ /\ BulkEnd(Walk(-1))
          /\ UNCHANGED faults
       \/ /\ faults < MaxFaults
          /\ faults' = faults + 1
          /\ \E limit \in 0 .. Walk(-1).used - 1 : BulkEnd(Walk(limit))

-----------------------------------------------------------------------------

BatchInit == bulk = NoBulk /\ start = Placeholder /\ retries = 0

BulkInit == Init /\ BatchInit

Batches == SeqOf(Keys \X (Values \cup {DefaultValue}), MaxBatch)

BulkNext ==
    \/ ~running /\ Call /\ UNCHANGED batchVars
    \/ Step /\ UNCHANGED batchVars
    \/ \E pairs \in Batches : BulkUpdate(pairs)
    \/ BulkMismatch \/ BulkDelete \/ BulkDeleteFailed \/ BulkWalk

BulkSpec == BulkInit /\ [][BulkNext]_bulkVars

-----------------------------------------------------------------------------

ApplyPair(m, pair) ==
    [m EXCEPT ![PathOf[pair[1]]] = IF IsDelete(pair) THEN Absent ELSE pair[2]]

\* Update called on each pair in turn.
Iterated(m, pairs) == FoldLeft(ApplyPair, m, pairs)

ends    == running /\ bulk' = NoBulk
endsOk  == ends /\ reply'.status = "ok"
before  == CommittedMap(start)
after   == CommittedMap(root')
deletes == SelectSeq(bulk.pairs, IsDelete)
deleteThenWrite == deletes \o SelectSeq(bulk.pairs, IsWrite)

\* A batch that succeeds commits to what Update on each of its deletes and then
\* on each of its writes would, and with stores that work every batch succeeds
\* (BulkUpdate in bulk.go).
BulkApplies ==
    [][/\ endsOk => after = Iterated(before, deleteThenWrite)
       /\ ends /\ faults' = 0 => endsOk]_bulkVars

\* A batch that fails leaves the map with the first few of its deletes applied
\* and none of its writes, whichever store call failed (bulk.go: the root is
\* set once per Delete and once after the walk).
BulkFailsCleanly ==
    [][ends /\ ~endsOk =>
         \E n \in 0 .. Len(deletes) : after = Iterated(before, SubSeq(deletes, 1, n))]_bulkVars

\* "When the same path appears multiple times, the LAST (key, value) wins,
\* matching the iterative-Update semantics" (the comment of BulkUpdate in
\* bulk.go).
LastPairWins == [][endsOk => after = Iterated(before, bulk.pairs)]_bulkVars
=============================================================================
