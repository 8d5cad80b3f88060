--------------------------- MODULE DeepInvariant ----------------------------
(***************************************************************************)
(* The inductive invariant of DeepSubtree: what the partial stores hold of *)
(* the paths whose branches were added, at every step of a call.           *)
(***************************************************************************)
EXTENDS DeepSubtree, SMTInvariant

\* A value in the store is the committed one.
ValuesSound == \A p \in Paths : values[p] # Absent => values[p] = oldMap[p]

\* The paths whose branch was added, their nodes, and those of these nodes that
\* are off the path of the running call.
added      == {PathOf[k] : k \in {j \in Keys : branch[j] # "none"}}
addedNodes == UNION {OnPath(EntriesOf(oldMap), p, 0 .. Depth) : p \in added}
keptNodes  == addedNodes \cap offNodes

\* The node beside the end of the walk to p, if the walk has a step.
siblingOf(p) ==
    LET L == EntriesOf(oldMap)
        n == walkLength(L, p)
    IN  IF n = 0 THEN {} ELSE {SubtreeRoot(Beside(L, p, n), n)}
siblings == UNION {siblingOf(PathOf[k]) : k \in {j \in Keys : branch[j] = "updatable"}}

\* The call has written nothing yet.
reading == pc \in {"idle", "root", "walk", "sibling", "proof", "leaf"}
           \/ (pc = "orphan" /\ keyIsEmpty)

\* The old nodes of the call's path that are left, if its branch was added.
oldLeft(D) == op.path \in added => oldNodes(D) \subseteq nodes

BranchTypeOK ==
    /\ branch \in [Keys -> {"none", "added", "updatable", "spent"}]
    /\ clean \in BOOLEAN
    /\ pc # "idle" /\ op.kind = "update" => op.getSiblingData = FALSE
    /\ pc = "sibling" => op.getSiblingData = TRUE

ReadPartInv ==
    /\ reading => addedNodes \cup siblings \subseteq nodes
    /\ pc \notin {"stale", "spine", "value"} => \A p \in added : values[p] = oldMap[p]
    /\ pc \in {"stale", "spine", "value"} =>
          \A p \in added : p # op.path => values[p] = oldMap[p]

DeletePartInv ==
    /\ pc \in {"orphan", "bubble", "unset"} /\ ~reading /\ err = FALSE => keptNodes \subseteq nodes
    /\ pc \in {"bubble", "unset"} => ~keyIsEmpty
    /\ pc = "orphan" /\ ~keyIsEmpty => oldLeft(0 .. Len(side) - i)
    /\ (pc = "orphan" /\ ~keyIsEmpty) \/ (pc = "bubble" /\ i = 0) =>
          \A k \in Keys : branch[k] = "updatable" /\ PathOf[k] = op.path =>
             siblingOf(op.path) \subseteq nodes
    /\ pc = "bubble" => newNodes(Len(side) - i .. Depth) \subseteq nodes
    /\ pc = "unset" /\ err = FALSE => newNodes(0 .. Depth) \subseteq nodes

UpdatePartInv ==
    /\ pc \in {"fork", "oldleaf"} => addedNodes \cup {newLeaf} \subseteq nodes
    /\ pc \in {"oldvalue", "stale", "spine", "value"} => keptNodes \subseteq nodes
    /\ pc \in {"oldleaf", "oldvalue"} => oldLeaf # Placeholder /\ oldLeaf # newLeaf
    /\ pc \in {"fork", "oldleaf", "oldvalue", "stale", "spine", "value"} =>
          oldMap[op.path] # op.value
    /\ pc = "oldvalue" => oldLeft(0 .. Len(side) - 1) /\ newLeaf \in nodes
    /\ pc = "stale" => i > 0 /\ oldLeft(0 .. Len(side) - i)
                             /\ newNodes(topLevel .. Depth) \subseteq nodes
    /\ pc = "spine" => newNodes(spineLevel .. Depth) \subseteq nodes
    /\ pc = "value" => newNodes(0 .. Depth) \subseteq nodes

PartInvariant == clean => ReadPartInv /\ DeletePartInv /\ UpdatePartInv
=============================================================================
