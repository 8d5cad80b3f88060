----------------------------- MODULE SMTForRoot -----------------------------
(***************************************************************************)
(* The calls of SparseMerkleTree that name their root: UpdateForRoot,      *)
(* DeleteForRoot, ProveForRoot and SetRoot (smt.go).  The caller keeps the *)
(* roots it was given and may pass any of them; all trees share the two    *)
(* stores.                                                                 *)
(***************************************************************************)
EXTENDS SMT, FiniteSets

CONSTANT MaxHeld   \* how many roots the caller keeps

ASSUME MaxHeldAssumption == MaxHeld \in Nat \ {0}

VARIABLES
    held,    \* the roots the caller was given, and the empty one
    whole    \* history: was the tree of the running call complete at its start?

rootVars == <<vars, held, whole>>

\* Every node of the tree of r is in the store.
Complete(r) == TreeNodes(EntriesOf(CommittedMap(r))) \subseteq nodes

RootInit == Init /\ held = {Placeholder} /\ whole = TRUE

CallForRoot ==
    /\ pc = "idle"
    /\ Cardinality(held) < MaxHeld
    /\ \E r \in held :
          /\ whole' = Complete(r)
          /\ \E k \in Keys :
                \/ \E v \in Values \cup {DefaultValue} : UpdateForRoot(k, v, r)
                \/ \E updatable \in BOOLEAN : ProveForRoot(k, r, updatable)
    /\ UNCHANGED held

SetRoot(r) ==
    /\ pc = "idle"
    /\ root' = r
    /\ UNCHANGED <<nodes, values, pc, op, locals, reply, faults, held, whole>>

\* The caller keeps the root that a call returns.
StepForRoot ==
    /\ Step
    /\ held' = held \cup IF reply'.status = "ok" THEN {reply'.root} ELSE {}
    /\ UNCHANGED whole

RootNext == CallForRoot \/ StepForRoot \/ (\E r \in held : SetRoot(r))

RootSpec == RootInit /\ [][RootNext]_rootVars

-----------------------------------------------------------------------------

returns == pc # "idle" /\ pc' = "idle" /\ reply'.status = "ok"

\* The map that the call asks for, on top of the root it was given.
wanted == [CommittedMap(op.root) EXCEPT
              ![op.path] = IF op.value = DefaultValue THEN Absent ELSE op.value]

setsSameValue == CommittedMap(op.root)[op.path] = op.value

\* "UpdateForRoot sets a new value for a key in the tree at a specific root, and
\* returns the new root" (the comment of UpdateForRoot in smt.go): the root
\* returned commits to the given root's map with that key set.
UpdateForRootReturnsNewRoot ==
    [][returns => CommittedMap(reply'.root) = wanted]_rootVars

\* The same, for the calls that change the key: whichever other trees share the
\* stores, a call that succeeds returns the root of the map it was asked for
\* (updateWithSideNodes and deleteWithSideNodes in smt.go).
ChangesNamedRoot ==
    [][returns /\ ~setsSameValue => CommittedMap(reply'.root) = wanted]_rootVars

\* A call on a complete tree leaves the tree it returns complete: none of the
\* nodes it deletes as orphans of the old tree is needed by the new one, even
\* where the stores hold those of other trees (the Delete loops of smt.go).
ReturnsCompleteTree ==
    [][returns /\ whole /\ ~setsSameValue => Complete(reply.root)']_rootVars

\* "Get gets the value of a key from the tree" (the comment of Get in smt.go),
\* for a root that SetRoot chose among trees that are still complete.
GetReadsSetRoot == Complete(root) => GetReadsTree
=============================================================================
