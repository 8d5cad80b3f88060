-------------------------------- MODULE SMT ---------------------------------
(***************************************************************************)
(* SparseMerkleTree (smt.go): Update, Delete, Prove and ProveUpdatable     *)
(* against the two map stores of the tree.                                 *)
(*                                                                         *)
(* Every call is a sequence of steps, one store write or one loop          *)
(* iteration per step, because a store call may fail and leave the tree    *)
(* between two writes.  The program counter names the loop the call is in: *)
(*                                                                         *)
(*   root, walk, sibling    fillSideNodes                                  *)
(*   orphan, bubble, unset  deleteWithSideNodes and values.Delete          *)
(*   leaf, fork, oldleaf, oldvalue, stale, spine, value                    *)
(*                          updateWithSideNodes                            *)
(*   proof                  doProveForRoot                                 *)
(*                                                                         *)
(* The node store is the set of digests it holds; the data under a digest  *)
(* is its preimage.                                                        *)
(***************************************************************************)
EXTENDS Commitment, Sequences

CONSTANTS
    Keys,        \* user keys
    PathOf,      \* the digest of each key: treeHasher.path
    MaxFaults    \* how many store calls may fail

ASSUME SMTAssumption ==
    /\ PathOf \in [Keys -> Paths]
    /\ \A j, k \in Keys : PathOf[j] = PathOf[k] => j = k
    /\ MaxFaults \in Nat

VARIABLES
    nodes,    \* the node store
    values,   \* the value store, by path
    root,     \* the current root
    pc,       \* where the running call is
    op,       \* its arguments
    side,     \* ps.sideNodes, in the order of the walk (root first)
    pnodes,   \* ps.pathNodes, likewise
    i,        \* the loop index
    cur,      \* currentHash / currentData, equal between two iterations
    npr,      \* nonPlaceholderReached
    err,      \* an error that deleteWithSideNodes returned
    reply,    \* what the last call returned
    faults    \* store calls that have failed

tree   == <<nodes, values, root>>
locals == <<side, pnodes, i, cur, npr, err>>
vars   == <<tree, pc, op, locals, reply, faults>>

-----------------------------------------------------------------------------

NoOp    == [kind |-> "none"]
NoReply == [status |-> "none"]

UpdateOp(p, v, r, publish) ==
    [kind |-> "update", path |-> p, value |-> v, root |-> r,
     getSiblingData |-> FALSE, publish |-> publish]

ProveOp(p, r, updatable) ==
    [kind |-> "prove", path |-> p, value |-> DefaultValue, root |-> r,
     getSiblingData |-> updatable, publish |-> FALSE]

\* fillSideNodes reverses both slices when the walk ends: index k of the
\* reversed slice, counting from 0.
Reversed(s, k) == s[Len(s) - k]
sideNodes(k)   == Reversed(side, k)
pathNodes(k)   == Reversed(pnodes, k)

\* What the walk found at the end of the path.
oldLeaf     == pathNodes(0)
oldLeafPath == Data(oldLeaf).path
keyIsEmpty  == ~(oldLeaf # Placeholder /\ oldLeafPath = op.path)

commonPrefixCount ==
    IF oldLeaf = Placeholder THEN Depth
    ELSE countCommonPrefix(op.path, oldLeafPath)

\* Mutant: the pooled slices keep the last call's nodes.
ReturnUncleared(r) ==
    /\ pc' = "idle" /\ op' = NoOp /\ reply' = r
    /\ i' = 0 /\ cur' = Placeholder /\ npr' = FALSE /\ err' = FALSE
    /\ UNCHANGED <<side, pnodes>>

\* The slices and buffers go back to their pools emptied.
Return(r) ==
    /\ pc' = "idle" /\ op' = NoOp /\ reply' = r
    /\ side' = << >> /\ pnodes' = << >>
    /\ i' = 0 /\ cur' = Placeholder /\ npr' = FALSE /\ err' = FALSE

ReturnRoot(r) ==
    /\ Return([status |-> "ok", root |-> r])
    /\ root' = IF op.publish THEN r ELSE root

ReturnError ==
    /\ Return([status |-> "error"])
    /\ UNCHANGED root

Goto(label, index) ==
    /\ pc' = label /\ i' = index
    /\ UNCHANGED <<root, op, reply>>

-----------------------------------------------------------------------------
\* The calls of the API.

Begin(o) ==
    /\ pc = "idle"
    /\ pc' = "root" /\ op' = o /\ reply' = NoReply
    /\ UNCHANGED <<tree, locals, faults>>

UpdateForRoot(k, v, r) == Begin(UpdateOp(PathOf[k], v, r, FALSE))

Update(k, v) == Begin(UpdateOp(PathOf[k], v, root, TRUE))

Delete(k) == Update(k, DefaultValue)

ProveForRoot(k, r, updatable) == Begin(ProveOp(PathOf[k], r, updatable))

Prove(k) == ProveForRoot(k, root, FALSE)

ProveUpdatable(k) == ProveForRoot(k, root, TRUE)

\* Mutant: InvalidKeyError is not turned into the default value.
GetKeepsAbsent(k) ==
    IF root = Placeholder THEN DefaultValue ELSE values[PathOf[k]]

\* Get reads the value store and looks at the root only to see if it is empty.
Get(k) ==
    IF root = Placeholder \/ values[PathOf[k]] = Absent THEN DefaultValue
    ELSE values[PathOf[k]]

-----------------------------------------------------------------------------
\* fillSideNodes: the walk from the root to the leaf.

\* Where the call goes once the side nodes are known.
afterWalk ==
    IF op.kind = "prove" THEN "proof"
    ELSE IF op.value = DefaultValue THEN "orphan" ELSE "leaf"

FillRoot ==
    /\ pc = "root"
    /\ op.root \in nodes \cup {Placeholder}
    /\ pnodes' = <<op.root>>
    /\ Goto(IF op.root = Placeholder \/ isLeaf(Data(op.root))
            THEN afterWalk ELSE "walk", 0)
    /\ UNCHANGED <<nodes, values, side, cur, npr, err, faults>>

\* The child that the walk visits next, and whether it is the last one.
nextData  == Data(pnodes[Len(pnodes)])
nextNode  == childOnPath(nextData, op.path, Len(side))
nextSide  == childOffPath(nextData, op.path, Len(side))
walkEnds  == \/ nextNode = Placeholder
             \/ isLeaf(Data(nextNode))
             \/ Len(side) + 1 = Depth

FillStep ==
    /\ pc = "walk"
    /\ nextNode \in nodes \cup {Placeholder}
    /\ side' = Append(side, nextSide)
    /\ pnodes' = Append(pnodes, nextNode)
    /\ Goto(IF ~walkEnds THEN "walk"
            ELSE IF op.getSiblingData THEN "sibling" ELSE afterWalk, 0)
    /\ UNCHANGED <<nodes, values, cur, npr, err, faults>>

FillSibling ==
    /\ pc = "sibling"
    /\ side[Len(side)] \in nodes
    /\ Goto(afterWalk, 0)
    /\ UNCHANGED <<nodes, values, side, pnodes, cur, npr, err, faults>>

-----------------------------------------------------------------------------
\* deleteWithSideNodes, and the removal of the value in UpdateForRoot.

\* Mutant: the tree's own root is returned.
AlreadyEmptyOwnRoot ==
    /\ pc = "orphan"
    /\ keyIsEmpty
    /\ ReturnRoot(root)
    /\ UNCHANGED <<nodes, values, faults>>

\* errKeyAlreadyEmpty: the old root is returned.
AlreadyEmpty ==
    /\ pc = "orphan"
    /\ keyIsEmpty
    /\ ReturnRoot(op.root)
    /\ UNCHANGED <<nodes, values, faults>>

\* All nodes above the deleted leaf, and the leaf, are orphaned.
DeletePathNode ==
    /\ pc = "orphan"
    /\ ~keyIsEmpty
    /\ pathNodes(i) \in nodes
    /\ nodes' = nodes \ {pathNodes(i)}
    /\ IF i + 1 < Len(pnodes) THEN Goto("orphan", i + 1)
       ELSE Goto(IF side = << >> THEN "unset" ELSE "bubble", 0)
    /\ UNCHANGED <<values, side, pnodes, cur, npr, err, faults>>

\* Mutant: the loop runs one iteration too far.
NextSideNodePastEnd ==
    IF i < Len(side) THEN Goto("bubble", i + 1) ELSE Goto("unset", 0)

NextSideNode ==
    IF i + 1 < Len(side) THEN Goto("bubble", i + 1) ELSE Goto("unset", 0)

\* currentData is nil in the first iteration and only there: the sibling is
\* fetched, and a leaf is carried up.
BubbleLeaf ==
    /\ pc = "bubble"
    /\ i = 0
    /\ sideNodes(i) \in nodes
    /\ isLeaf(Data(sideNodes(i)))
    /\ cur' = sideNodes(i)
    /\ NextSideNode
    /\ UNCHANGED <<nodes, values, side, pnodes, npr, err, faults>>

\* Mutant: a placeholder is skipped even above an inner node.
BubbleSkipAlways ==
    /\ pc = "bubble"
    /\ i > 0
    /\ sideNodes(i) = Placeholder
    /\ NextSideNode
    /\ UNCHANGED <<nodes, values, side, pnodes, cur, npr, err, faults>>

BubbleSkip ==
    /\ pc = "bubble"
    /\ i > 0
    /\ ~npr
    /\ sideNodes(i) = Placeholder
    /\ NextSideNode
    /\ UNCHANGED <<nodes, values, side, pnodes, cur, npr, err, faults>>

\* A sibling that is an inner node stays where it is, opposite a placeholder
\* (the value cur starts with).
BubbleNode ==
    /\ pc = "bubble"
    /\ \/ i = 0 /\ sideNodes(i) \in nodes /\ ~isLeaf(Data(sideNodes(i)))
       \/ i > 0 /\ (npr \/ sideNodes(i) # Placeholder)
    /\ cur' = digestParent(op.path, Len(side) - 1 - i, sideNodes(i), cur)
    /\ nodes' = nodes \cup {cur'}
    /\ npr' = TRUE
    /\ NextSideNode
    /\ UNCHANGED <<values, side, pnodes, err, faults>>

\* Mutant: the error of deleteWithSideNodes is forgotten.
DeleteValueIgnoresError ==
    /\ pc = "unset"
    /\ values[op.path] # Absent
    /\ values' = [values EXCEPT ![op.path] = Absent]
    /\ ReturnRoot(cur)
    /\ UNCHANGED <<nodes, faults>>

\* values.Delete runs whether or not deleteWithSideNodes succeeded.
DeleteValue ==
    /\ pc = "unset"
    /\ values[op.path] # Absent
    /\ values' = [values EXCEPT ![op.path] = Absent]
    /\ IF err THEN ReturnError ELSE ReturnRoot(cur)
    /\ UNCHANGED <<nodes, faults>>

-----------------------------------------------------------------------------
\* updateWithSideNodes.

newLeaf == digestLeaf(op.path, digest(op.value))

\* The loop over pathNodes[1..] and, when that is empty, the spine.
RemoveStale(index) ==
    IF index < Len(pnodes) THEN Goto("stale", index) ELSE Goto("spine", 0)

SetLeaf ==
    /\ pc = "leaf"
    /\ nodes' = nodes \cup {newLeaf}
    /\ \/ /\ commonPrefixCount # Depth
          /\ Goto("fork", 0)
          /\ cur' = newLeaf
          /\ UNCHANGED <<side, pnodes, npr, err>>
       \/ /\ oldLeaf = Placeholder
          /\ RemoveStale(1)
          /\ cur' = newLeaf
          /\ UNCHANGED <<side, pnodes, npr, err>>
       \/ /\ oldLeaf # Placeholder /\ commonPrefixCount = Depth
          /\ Data(oldLeaf).valueHash # digest(op.value)
          /\ Goto("oldleaf", 0)
          /\ cur' = newLeaf
          /\ UNCHANGED <<side, pnodes, npr, err>>
       \/ \* The same value is being set: the tree's own root is returned.
          /\ oldLeaf # Placeholder /\ commonPrefixCount = Depth
          /\ Data(oldLeaf).valueHash = digest(op.value)
          /\ ReturnRoot(root)
    /\ UNCHANGED <<values, faults>>

\* Mutant: the old leaf, which the fork needs, is deleted with the stale nodes.
ForkDeletesOldLeaf ==
    /\ pc = "fork"
    /\ cur' = digestParent(op.path, commonPrefixCount, oldLeaf, cur)
    /\ nodes' = nodes \cup {cur'}
    /\ RemoveStale(0)
    /\ UNCHANGED <<values, side, pnodes, npr, err, faults>>

\* A common parent for the new leaf and the leaf found in its place.
Fork ==
    /\ pc = "fork"
    /\ cur' = digestParent(op.path, commonPrefixCount, oldLeaf, cur)
    /\ nodes' = nodes \cup {cur'}
    /\ RemoveStale(1)
    /\ UNCHANGED <<values, side, pnodes, npr, err, faults>>

\* Mutant: the replaced leaf stays in the store.
DeleteOldLeafKept ==
    /\ pc = "oldleaf"
    /\ oldLeaf \in nodes
    /\ Goto("oldvalue", 0)
    /\ UNCHANGED <<nodes, values, side, pnodes, cur, npr, err, faults>>

DeleteOldLeaf ==
    /\ pc = "oldleaf"
    /\ oldLeaf \in nodes
    /\ nodes' = nodes \ {oldLeaf}
    /\ Goto("oldvalue", 0)
    /\ UNCHANGED <<values, side, pnodes, cur, npr, err, faults>>

\* Mutant: the stale nodes are counted from the leaf, which is gone already.
DeleteOldValueRestart ==
    /\ pc = "oldvalue"
    /\ values[op.path] # Absent
    /\ values' = [values EXCEPT ![op.path] = Absent]
    /\ RemoveStale(0)
    /\ UNCHANGED <<nodes, side, pnodes, cur, npr, err, faults>>

DeleteOldValue ==
    /\ pc = "oldvalue"
    /\ values[op.path] # Absent
    /\ values' = [values EXCEPT ![op.path] = Absent]
    /\ RemoveStale(1)
    /\ UNCHANGED <<nodes, side, pnodes, cur, npr, err, faults>>

DeleteStale ==
    /\ pc = "stale"
    /\ pathNodes(i) \in nodes
    /\ nodes' = nodes \ {pathNodes(i)}
    /\ RemoveStale(i + 1)
    /\ UNCHANGED <<values, side, pnodes, cur, npr, err, faults>>

offsetOfSideNodes == Depth - Len(side)

\* Mutant: no placeholders between the fork and the deepest side node.
spineHasSiblingOnlyOld == i >= offsetOfSideNodes

\* The sibling at the height of iteration i: a side node, a placeholder between
\* the fork and the deepest side node, and nothing below that.
spineHasSibling ==
    \/ i >= offsetOfSideNodes
    \/ commonPrefixCount # Depth /\ commonPrefixCount > Depth - 1 - i
spineSibling ==
    IF i >= offsetOfSideNodes THEN sideNodes(i - offsetOfSideNodes)
                              ELSE Placeholder

NextSpine ==
    IF i + 1 < Depth THEN Goto("spine", i + 1) ELSE Goto("value", 0)

\* Mutant: skipping a level without a sibling does not advance the loop.
SpineSkipStays ==
    /\ pc = "spine"
    /\ ~spineHasSibling
    /\ Goto("spine", i)
    /\ UNCHANGED <<nodes, values, side, pnodes, cur, npr, err, faults>>

SpineSkip ==
    /\ pc = "spine"
    /\ ~spineHasSibling
    /\ NextSpine
    /\ UNCHANGED <<nodes, values, side, pnodes, cur, npr, err, faults>>

SpineNode ==
    /\ pc = "spine"
    /\ spineHasSibling
    /\ cur' = digestParent(op.path, Depth - 1 - i, spineSibling, cur)
    /\ nodes' = nodes \cup {cur'}
    /\ NextSpine
    /\ UNCHANGED <<values, side, pnodes, npr, err, faults>>

SetValue ==
    /\ pc = "value"
    /\ values' = [values EXCEPT ![op.path] = op.value]
    /\ ReturnRoot(cur)
    /\ UNCHANGED <<nodes, faults>>

-----------------------------------------------------------------------------
\* doProveForRoot.  Optional data is a sequence of at most one element.

ProveReturn ==
    /\ pc = "proof"
    /\ Return([status |-> "proof", root |-> op.root, path |-> op.path,
               SideNodes |-> [k \in 1 .. Len(side) |-> sideNodes(k - 1)],
               NonMembershipLeafData |->
                  IF oldLeaf # Placeholder /\ oldLeafPath # op.path
                  THEN <<Data(oldLeaf)>> ELSE << >>,
               SiblingData |->
                  IF op.getSiblingData /\ side # << >>
                  THEN <<Data(sideNodes(0))>> ELSE << >>])
    /\ UNCHANGED <<tree, faults>>

-----------------------------------------------------------------------------
\* Store errors.

\* The next store call reads or deletes a key that the store does not hold
\* (InvalidKeyError).
keyMissing ==
    \/ pc = "root" /\ op.root \notin nodes \cup {Placeholder}
    \/ pc = "walk" /\ nextNode \notin nodes \cup {Placeholder}
    \/ pc = "sibling" /\ side[Len(side)] \notin nodes
    \/ pc = "orphan" /\ ~keyIsEmpty /\ pathNodes(i) \notin nodes
    \/ pc = "bubble" /\ i = 0 /\ sideNodes(i) \notin nodes
    \/ pc = "oldleaf" /\ oldLeaf \notin nodes
    \/ pc = "stale" /\ pathNodes(i) \notin nodes
    \/ pc \in {"unset", "oldvalue"} /\ values[op.path] = Absent

\* The step calls a store, and the key it needs is there.
callsStore ==
    /\ ~keyMissing
    /\ \/ pc \in {"sibling", "unset", "leaf", "fork", "oldleaf", "oldvalue",
                  "stale", "value"}
       \/ pc = "root" /\ op.root # Placeholder
       \/ pc = "walk" /\ nextNode # Placeholder
       \/ pc = "orphan" /\ ~keyIsEmpty
       \/ pc = "bubble" /\ (i = 0 \/ npr \/ sideNodes(i) # Placeholder)
       \/ pc = "spine" /\ spineHasSibling

\* An error ends the call, except that UpdateForRoot still deletes the value
\* after a failed deleteWithSideNodes.
OnError ==
    /\ IF pc \in {"orphan", "bubble"}
       THEN /\ Goto("unset", 0)
            /\ err' = TRUE
            /\ UNCHANGED <<side, pnodes, cur, npr>>
       ELSE ReturnError
    /\ UNCHANGED <<nodes, values>>

InvalidKey ==
    /\ keyMissing
    /\ OnError
    /\ UNCHANGED faults

StoreFault ==
    /\ callsStore
    /\ faults < MaxFaults
    /\ faults' = faults + 1
    /\ OnError

-----------------------------------------------------------------------------

Init ==
    /\ nodes = {} /\ values = [p \in Paths |-> Absent] /\ root = Placeholder
    /\ pc = "idle" /\ op = NoOp /\ reply = NoReply
    /\ side = << >> /\ pnodes = << >>
    /\ i = 0 /\ cur = Placeholder /\ npr = FALSE /\ err = FALSE
    /\ faults = 0

Call ==
    \E k \in Keys :
        \/ \E v \in Values : Update(k, v)
        \/ Delete(k)
        \/ Prove(k)
        \/ ProveUpdatable(k)

Step ==
    \/ FillRoot \/ FillStep \/ FillSibling
    \/ AlreadyEmpty \/ DeletePathNode
    \/ BubbleLeaf \/ BubbleSkip \/ BubbleNode \/ DeleteValue
    \/ SetLeaf \/ Fork \/ DeleteOldLeaf \/ DeleteOldValue \/ DeleteStale
    \/ SpineSkip \/ SpineNode \/ SetValue
    \/ ProveReturn
    \/ InvalidKey \/ StoreFault

Next == Call \/ Step

Spec == Init /\ [][Next]_vars

-----------------------------------------------------------------------------

DeleteLabels == {"orphan", "bubble", "unset"}
UpdateLabels == {"leaf", "fork", "oldleaf", "oldvalue", "stale", "spine", "value"}
Labels == {"idle", "root", "walk", "sibling", "proof"} \cup DeleteLabels \cup UpdateLabels

IsSlice(s) == Len(s) \in Nat /\ s = [j \in 1 .. Len(s) |-> s[j]]

CallTypeOK ==
    /\ values \in [Paths -> Values \cup {Absent}]
    /\ faults \in 0 .. MaxFaults
    /\ pc \in Labels
    /\ pc # "idle" => /\ op.kind \in {"update", "prove"}
                      /\ op.path \in Paths
                      /\ op.value \in Values \cup {DefaultValue}
    /\ pc \in DeleteLabels => op.kind = "update" /\ op.value = DefaultValue
    /\ pc \in UpdateLabels => op.kind = "update" /\ op.value \in Values
    /\ pc = "proof" => op.kind = "prove"

SliceTypeOK ==
    /\ IsSlice(side) /\ IsSlice(pnodes)
    /\ Len(side) <= Depth
    /\ pc \in {"idle", "root"} => side = << >> /\ pnodes = << >>
    /\ pc \notin {"idle", "root"} => Len(pnodes) = Len(side) + 1
    /\ pc = "walk" => Len(side) < Depth

LoopTypeOK ==
    /\ pc \in {"idle", "root"} => i = 0 /\ cur = Placeholder
    /\ pc \in {"orphan", "stale"} => i \in 0 .. Len(side)
    /\ pc = "bubble" => i \in 0 .. Len(side) - 1
    /\ pc = "spine" => i \in 0 .. Depth - 1

FlagTypeOK ==
    /\ npr \in BOOLEAN /\ err \in BOOLEAN
    /\ pc \in {"idle", "root"} => npr = FALSE
    /\ err = TRUE => pc = "unset"

\* The walk reaches at most Depth levels, the two slices keep their lengths in
\* step, every loop index stays within its slice, and a call starts with empty
\* slices and buffers (smt.go, fillSideNodes and the loops of
\* deleteWithSideNodes and updateWithSideNodes; pool.go).
TypeOK == CallTypeOK /\ SliceTypeOK /\ LoopTypeOK /\ FlagTypeOK

\* With a store that does not fail, the root between two calls is the root of
\* the one tree for the entries of the value store: Update and Delete leave no
\* trace of the order of writes (smt.go, Update and Delete).
RootCommits ==
    pc = "idle" /\ faults = 0 => root = SubtreeRoot(EntriesOf(values), 0)

\* With a store that does not fail, the node store between two calls holds the
\* nodes of that tree and nothing else: no node of the tree is ever deleted as
\* an orphan, and no orphan stays behind (smt.go, the Delete loops).
StoreExact ==
    pc = "idle" /\ faults = 0 => nodes = TreeNodes(EntriesOf(values))

\* "Get gets the value of a key from the tree" (the comment of Get in smt.go):
\* between two calls it returns what the root commits to at that key.
GetReadsTree ==
    pc = "idle" => \A k \in Keys :
        Get(k) = LET v == CommittedMap(root)[PathOf[k]]
                 IN  IF v = Absent THEN DefaultValue ELSE v

\* With a store that does not fail, no call ever asks it for a key that it does
\* not hold (the Get and Delete calls of smt.go).
NoKeyMissing == faults = 0 => ~keyMissing

\* The tree implements an authenticated map: its contents are what the root
\* commits to, a call that succeeds changes exactly the key it was given, and a
\* call that fails changes nothing, even when the stores fail in the middle of
\* a call (smt.go, Update, Delete and Prove).
Map == INSTANCE AuthenticatedMap
    WITH Locations <- Paths, Content <- Values,
         Default <- DefaultValue, Nothing <- Absent,
         contents <- CommittedMap(root),
         call <- IF pc = "idle" THEN NoOp
                 ELSE [kind |-> op.kind, path |-> op.path, value |-> op.value],
         outcome <- reply.status

ImplementsMap == Map!Spec

\* Every call returns, whatever nodes the stores lack and whichever store call
\* fails (smt.go: every loop is over a finite slice or the depth).
CallsReturn == pc # "idle" ~> pc = "idle"
=============================================================================
