---------------------------- MODULE SMTInvariant ----------------------------
(***************************************************************************)
(* The inductive invariant behind the refinement of AuthenticatedMap: what *)
(* the slices and the running hash of a call stand for, in terms of the    *)
(* map that the root commits to.  It says nothing about the two stores, so *)
(* it survives their failures.                                             *)
(***************************************************************************)
EXTENDS SMT

\* The map before the running call, and the one the call is to produce.
oldMap == CommittedMap(root)
newMap == [oldMap EXCEPT ![op.path] =
              IF op.value = DefaultValue THEN Absent ELSE op.value]

\* The roots of the subtrees on the path of the call and beside it, at level d.
oldBelow(d)  == Below(EntriesOf(oldMap), op.path, d)
oldBeside(d) == Beside(EntriesOf(oldMap), op.path, d)
newBelow(d)  == Below(EntriesOf(newMap), op.path, d)

\* The root is the canonical root of the map it commits to.
RootInv == oldMap \in Maps /\ root = SubtreeRoot(EntriesOf(oldMap), 0)

CallInv == pc # "idle" => op.root = root /\ op.publish = (op.kind = "update")

\* The walk has collected the path and its siblings level by level, and stops
\* at the first level with at most one entry.
WalkInv ==
    pc \notin {"idle", "root"} =>
        /\ \A d \in 0 .. Len(side) : pnodes[d + 1] = SubtreeRoot(oldBelow(d), d)
        /\ \A d \in 1 .. Len(side) : side[d] = SubtreeRoot(oldBeside(d), d)
        /\ \A d \in 0 .. Len(side) - 1 : Big(oldBelow(d))
        /\ pc = "walk" <=> Big(oldBelow(Len(side)))

\* During the walk, and until the deleted leaf's sibling moves up, nothing has
\* been hashed.
OrphanInv ==
    pc \in {"walk", "sibling", "orphan"} => cur = Placeholder /\ npr = FALSE

\* After i iterations cur is the root of the new subtree i levels up; it is an
\* inner node exactly when a sibling has been joined.
BubbleInv ==
    pc = "bubble" =>
        /\ ~keyIsEmpty
        /\ cur = SubtreeRoot(newBelow(Len(side) - i), Len(side) - i)
        /\ npr = TRUE <=> Big(newBelow(Len(side) - i))
        /\ i > 0 => newBelow(Len(side) - i) # {}

\* The level at which the new leaf, or its fork with the old one, is put.
topLevel == IF commonPrefixCount # Depth THEN commonPrefixCount ELSE Len(side)
spineLevel == IF Depth - i < topLevel THEN Depth - i ELSE topLevel

\* The new spine, from the leaf or fork up to the root.
SpineInv ==
    /\ pc \in {"fork", "oldleaf", "oldvalue"} => cur = newLeaf
    /\ pc = "fork" => commonPrefixCount # Depth
    /\ pc \in {"oldleaf", "oldvalue"} => commonPrefixCount = Depth
    /\ pc = "stale" => cur = SubtreeRoot(newBelow(topLevel), topLevel)
    /\ pc = "spine" => cur = SubtreeRoot(newBelow(spineLevel), spineLevel)

\* The root about to be returned is the root of the new map.
ResultInv ==
    pc = "value" \/ (pc = "unset" /\ err = FALSE) =>
        cur = SubtreeRoot(EntriesOf(newMap), 0)

\* What a call has gathered and built at every step, in terms of the reference
\* tree: the slices of fillSideNodes are the path and its siblings, and the
\* running hash of both rebuild loops is the reference root of the new subtree
\* at the level reached (smt.go), even while the stores fail.
CallInvariant ==
    /\ RootInv /\ CallInv /\ WalkInv
    /\ OrphanInv /\ BubbleInv /\ SpineInv /\ ResultInv

-----------------------------------------------------------------------------
(***************************************************************************)
(* The second part of the invariant: what the two stores hold at every     *)
(* step of a call, as long as no store call has failed.                    *)
(***************************************************************************)

\* The nodes of the tree of L at the levels D of the path p, and the nodes that
\* are not on that path at all.
OnPath(L, p, D) == {SubtreeRoot(Below(L, p, d), d) : d \in {c \in D : Below(L, p, c) # {}}}

Leaves(p, q, d) == \E b \in 0 .. d - 1 : q[b] # p[b]
OffPath(L, p) ==
    {SubtreeRoot(Below(L, x[1][1], x[2]), x[2]) :
        x \in {y \in L \X (0 .. Depth) : Leaves(p, y[1][1], y[2])}}

\* The nodes that a call leaves alone, and the old and the new ones at the given
\* levels of its path.
offNodes    == OffPath(EntriesOf(oldMap), op.path)
oldNodes(D) == OnPath(EntriesOf(oldMap), op.path, D)
newNodes(D) == OnPath(EntriesOf(newMap), op.path, D)

\* Until a call writes, the node store holds the tree of the old map.
ReadNodesInv ==
    /\ pc \in {"idle", "root", "walk", "sibling", "proof", "leaf"} =>
          nodes = TreeNodes(EntriesOf(oldMap))
    /\ pc = "sibling" => side # << >>

\* The delete loops: the old path goes from the leaf up, the new one comes.
DeleteNodesInv ==
    /\ pc = "orphan" /\ keyIsEmpty => nodes = TreeNodes(EntriesOf(oldMap))
    /\ pc = "orphan" /\ ~keyIsEmpty => nodes = offNodes \cup oldNodes(0 .. Len(side) - i)
    /\ pc = "bubble" => nodes = offNodes \cup newNodes(Len(side) - i .. Depth)
    /\ pc = "unset" => nodes = TreeNodes(EntriesOf(newMap)) /\ ~keyIsEmpty

\* The update loops: the new leaf or fork comes first, then the rest of the old
\* path goes, and the spine is built in its place.
UpdateNodesInv ==
    /\ pc \in {"fork", "oldleaf"} => nodes = TreeNodes(EntriesOf(oldMap)) \cup {newLeaf}
    /\ pc \in {"oldleaf", "oldvalue"} => oldLeaf # Placeholder /\ oldLeaf # newLeaf
    /\ pc = "oldvalue" => nodes = offNodes \cup oldNodes(0 .. Len(side) - 1) \cup {newLeaf}
    /\ pc = "stale" => /\ i > 0
                       /\ nodes = offNodes \cup oldNodes(0 .. Len(side) - i)
                                           \cup newNodes(topLevel .. Depth)
    /\ pc = "spine" => nodes = offNodes \cup newNodes(spineLevel .. Depth)
    /\ pc = "value" => nodes = TreeNodes(EntriesOf(newMap))

\* The value store is the old map until the old value is deleted, and one write
\* away from the new map after that.
ValuesInv ==
    /\ pc \notin {"stale", "spine", "value"} => values = oldMap
    /\ pc \in {"stale", "spine", "value"} => [values EXCEPT ![op.path] = op.value] = newMap

\* What the two stores hold at every step of every call when no store call has
\* failed: no node of the old tree is missing while the call still needs it, and
\* no node is left behind when it returns (smt.go, the Set and Delete calls of
\* updateWithSideNodes and deleteWithSideNodes).
StoreInvariant ==
    faults = 0 => /\ err = FALSE
                  /\ ReadNodesInv /\ DeleteNodesInv /\ UpdateNodesInv /\ ValuesInv

-----------------------------------------------------------------------------
(***************************************************************************)
(* The same for a node store that holds more than the tree of the call,    *)
(* such as the nodes of other trees, and for stores that have failed       *)
(* before: what a call that began on a complete tree can count on.         *)
(***************************************************************************)

\* Until a call writes, the old tree is complete.
ReadCover ==
    pc \in {"root", "walk", "sibling", "proof", "leaf"} \/ (pc = "orphan" /\ keyIsEmpty) =>
        TreeNodes(EntriesOf(oldMap)) \subseteq nodes

DeleteCover ==
    /\ pc = "orphan" /\ ~keyIsEmpty => offNodes \cup oldNodes(0 .. Len(side) - i) \subseteq nodes
    /\ pc = "bubble" => offNodes \cup newNodes(Len(side) - i .. Depth) \subseteq nodes
    /\ pc = "unset" /\ err = FALSE => TreeNodes(EntriesOf(newMap)) \subseteq nodes

UpdateCover ==
    /\ pc \in {"fork", "oldleaf"} => TreeNodes(EntriesOf(oldMap)) \cup {newLeaf} \subseteq nodes
    /\ pc \in {"oldleaf", "oldvalue"} => oldLeaf # Placeholder /\ oldLeaf # newLeaf
    /\ pc = "oldvalue" =>
          offNodes \cup oldNodes(0 .. Len(side) - 1) \cup {newLeaf} \subseteq nodes
    /\ pc = "stale" => /\ i > 0
                       /\ offNodes \cup oldNodes(0 .. Len(side) - i)
                                   \cup newNodes(topLevel .. Depth) \subseteq nodes
    /\ pc = "spine" => offNodes \cup newNodes(spineLevel .. Depth) \subseteq nodes
    /\ pc = "value" => TreeNodes(EntriesOf(newMap)) \subseteq nodes

CoverInvariant == ReadCover /\ DeleteCover /\ UpdateCover
=============================================================================
