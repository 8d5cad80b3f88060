---------------------------- MODULE DeepSubtree -----------------------------
(***************************************************************************)
(* DeepSparseMerkleSubTree (deepsubtree.go): a tree that starts with a     *)
(* root and empty stores and is given the branches that its caller needs.  *)
(* Update, Delete and Prove are those of SparseMerkleTree (module SMT) on  *)
(* stores that hold only some of the nodes.                                *)
(*                                                                         *)
(* Branches come from a peer with a complete tree: of the current root, or *)
(* of another map, when the branch is out of date or of a different tree.  *)
(***************************************************************************)
EXTENDS SMTProofs

CONSTANTS
    PeerMaps,   \* the maps whose roots the tree may start with
    MaxCalls    \* bound: calls of Update, Delete and Prove

ASSUME PeerAssumption == PeerMaps \subseteq Maps /\ MaxCalls \in Nat

VARIABLES
    branch,   \* history: the best branch that was added for each key
    clean,    \* history: no call on the tree has failed
    calls     \* how many calls have begun

deepVars == <<vars, branch, clean, calls>>

\* Mutant: the leaf itself is not among them.
updatesNoLeaf(proof, path, value) ==
    LET up == recompute(proof.SideNodes, path, claimedLeaf(proof, path, value))
    IN  [j \in 1 .. Len(proof.SideNodes) |-> up[j]]

\* The nodes that verifyProofWithUpdates collects, from the leaf to the root.
updates(proof, path, value) ==
    LET leaf == claimedLeaf(proof, path, value)
        up   == recompute(proof.SideNodes, path, leaf)
    IN  (IF leaf = Placeholder THEN << >> ELSE <<leaf>>)
            \o [j \in 1 .. Len(proof.SideNodes) |-> up[j]]

\* Mutant: the sibling's data is dropped.
branchNodesNoSibling(proof, path, value) == updates(proof, path, value)

\* The node writes of AddBranch, in their order.
branchNodes(proof, path, value) ==
    updates(proof, path, value)
        \o (IF proof.SiblingData # << >> /\ proof.SideNodes # << >>
            THEN <<proof.SideNodes[1]>> ELSE << >>)

\* Mutant: the branch of another root is taken.
acceptsAnyRoot(proof, path, value) == sanityCheck(proof)

accepts(proof, path, value) == VerifyProof(proof, root, path, value)

\* The value, if there is one, and the first n node writes.
StoreBranch(proof, path, value, n) ==
    /\ values' = IF value = DefaultValue THEN values
                 ELSE [values EXCEPT ![path] = value]
    /\ nodes' = nodes \cup {branchNodes(proof, path, value)[j] : j \in 1 .. n}
    /\ UNCHANGED <<root, pc, op, locals, reply>>

AddBranch(k, value, proof) ==
    /\ accepts(proof, PathOf[k], value)
    /\ StoreBranch(proof, PathOf[k], value, Len(branchNodes(proof, PathOf[k], value)))
    /\ branch' = [branch EXCEPT ![k] =
                     IF proof.SiblingData # << >> \/ proof.SideNodes = << >>
                     THEN "updatable" ELSE IF @ = "none" THEN "added" ELSE @]
    /\ UNCHANGED <<clean, calls, faults>>

\* A store call fails: what was written before it stays.
AddBranchFails(k, value, proof) ==
    /\ accepts(proof, PathOf[k], value)
    /\ faults < MaxFaults
    /\ faults' = faults + 1
    /\ \/ UNCHANGED <<tree, pc, op, locals, reply>>
       \/ \E n \in 0 .. Len(branchNodes(proof, PathOf[k], value)) - 1 :
             StoreBranch(proof, PathOf[k], value, n)
    /\ UNCHANGED <<branch, clean, calls>>

NoAnswer == [status |-> "error"]

\* The descent reads the nodes above the last level.  HasDescend tells whether
\* the answer is the default value.
GetDescend(k) ==
    LET p    == PathOf[k]
        at   == Descent(root, p)
        leaf == at[Depth]
    IN  IF \E d \in 0 .. Depth - 1 : at[d] \notin nodes \cup {Placeholder} THEN NoAnswer
        ELSE IF leaf = Placeholder \/ Data(leaf).path # p THEN DefaultValue
        ELSE IF values[p] = Absent THEN NoAnswer ELSE values[p]

-----------------------------------------------------------------------------

DeepInit ==
    /\ \E m \in PeerMaps : root = SubtreeRoot(EntriesOf(m), 0)
    /\ nodes = {} /\ values = [p \in Paths |-> Absent]
    /\ pc = "idle" /\ op = NoOp /\ reply = NoReply
    /\ side = << >> /\ pnodes = << >>
    /\ i = 0 /\ cur = Placeholder /\ npr = FALSE /\ err = FALSE
    /\ faults = 0
    /\ branch = [k \in Keys |-> "none"] /\ clean = TRUE /\ calls = 0

\* The proofs that peers with the trees of PeerMaps give.
PeerProofs ==
    [k \in Keys |-> {ProofOf(m, PathOf[k], updatable) : m \in PeerMaps, updatable \in BOOLEAN}]

GiveBranch ==
    /\ pc = "idle"
    /\ \E k \in Keys :
          \E proof \in PeerProofs[k] \cup
                  {ProofOf(CommittedMap(root), PathOf[k], updatable) : updatable \in BOOLEAN} :
             \E value \in AnyValue :
                AddBranch(k, value, proof) \/ AddBranchFails(k, value, proof)

DeepCall ==
    /\ calls < MaxCalls
    /\ calls' = calls + 1
    /\ Call
    /\ UNCHANGED <<branch, clean>>

DeepStep ==
    /\ Step
    /\ clean' = (clean /\ reply'.status # "error")
    /\ branch' = IF root' = root THEN branch
                 ELSE [k \in Keys |-> IF branch[k] = "updatable" THEN "spent" ELSE branch[k]]
    /\ UNCHANGED calls

DeepNext == GiveBranch \/ DeepCall \/ DeepStep

DeepSpec == DeepInit /\ [][DeepNext]_deepVars

\* A call that has begun keeps going: the code has no blocking step.
DeepFairSpec == DeepSpec /\ WF_deepVars(DeepStep)

-----------------------------------------------------------------------------

writing(k) == pc # "idle" /\ op.kind = "update" /\ op.path = PathOf[k]

committed(k) ==
    LET v == CommittedValue(root, PathOf[k]) IN IF v = Absent THEN DefaultValue ELSE v

\* Whatever branches the partial tree lacks, and however its calls fail, a call
\* that succeeds publishes the root that the complete tree would have, and one
\* that fails leaves the root alone (smt.go on the stores of deepsubtree.go).
PartialRootsRight == [][pc = "idle" \/ Map!Next]_(Map!vars)

\* GetDescend and HasDescend answer with the committed value or with an error,
\* also for keys whose branch was never added, with branches that were refused
\* and after failed calls ("Errors if the key cannot be reached by descending",
\* deepsubtree.go).
GetDescendSound == pc = "idle" => \A k \in Keys : GetDescend(k) \in {committed(k), NoAnswer}

\* Until a call fails, a key whose branch was added can be read with Get and
\* with GetDescend, whatever was written to it or to other keys since
\* (AddBranch in deepsubtree.go).
AddedReadable ==
    pc = "idle" /\ clean => \A k \in Keys :
        branch[k] # "none" => Get(k) = committed(k) /\ GetDescend(k) = committed(k)

\* Until a call fails, a key whose branch was added can be written: Update with
\* a non-default value finds every node and value that it needs, also after
\* neighbours were written or deleted (updateWithSideNodes in smt.go).
AddedWritable ==
    clean /\ keyMissing => \A k \in Keys :
        branch[k] # "none" /\ writing(k) => op.value = DefaultValue

\* Until a call fails, and as long as the root is the one that an updatable branch
\* was added under, its key can be written and deleted (the sibling node of
\* AddBranch in deepsubtree.go).
FreshUpdatable ==
    clean /\ keyMissing => \A k \in Keys : writing(k) => branch[k] # "updatable"

\* "If the leaf may be updated (e.g. during a state transition fraud proof), an
\* updatable proof should be used" (the comment of AddBranch in deepsubtree.go):
\* a key with an updatable branch can be written and deleted.
UpdatableSuffices ==
    clean /\ keyMissing => \A k \in Keys :
        writing(k) => branch[k] \notin {"updatable", "spent"}
=============================================================================
