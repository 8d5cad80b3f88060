----------------------------- MODULE Commitment -----------------------------
(***************************************************************************)
(* The reference definition of the tree: the one hash that commits to a    *)
(* set of entries, whatever the order in which they were written.          *)
(*                                                                         *)
(* An entry is a path and the value stored under it.  The subtree that     *)
(* holds the entries L at level d, where all of L agree on the first d     *)
(* bits, is the placeholder when L is empty, a bare leaf when L is a       *)
(* singleton (a leaf is pulled up as far as it can go), and otherwise an   *)
(* inner node over the two halves that bit d splits L into.  The bulk      *)
(* constructor buildSubtree (bulk.go) builds exactly this tree.            *)
(***************************************************************************)
EXTENDS TreeHasher

CONSTANTS Values,   \* the non-default values
          Absent    \* marks a path with no value

ASSUME ValuesAssumption == Absent \notin Values /\ DefaultValue \notin Values

Entries == Paths \X Values

EntryHash(e) == digestLeaf(e[1], digest(e[2]))

\* The entries of L whose path has bit b at position d.
Half(L, d, b) == {e \in L : e[1][d] = b}

\* Subtree roots by height above the deepest level, so that the recursion is on
\* a natural number.  At height 0 two entries would have equal paths.
SubtreeRootAt[h \in 0 .. Depth] ==
    [L \in SUBSET Entries |->
        IF L = {} THEN Placeholder
        ELSE IF \E e \in L : L = {e} THEN EntryHash(CHOOSE e \in L : TRUE)
        ELSE IF h = 0 THEN Placeholder
        ELSE digestNode(SubtreeRootAt[h - 1][Half(L, Depth - h, 0)],
                        SubtreeRootAt[h - 1][Half(L, Depth - h, 1)])]

SubtreeRoot(L, d) == SubtreeRootAt[Depth - d][L]

\* At least two entries: the subtree is an inner node.
Big(L) == L # {} /\ ~ \E e \in L : L = {e}

\* The contents of a path-indexed store, and the entries they consist of.
Maps == [Paths -> Values \cup {Absent}]
EntriesOf(m) == {e \in Entries : m[e[1]] = e[2]}

\* The entries below the node at level d on the path p, and below its sibling.
Below(L, p, d)  == {e \in L : \A b \in 0 .. d - 1 : e[1][b] = p[b]}
Beside(L, p, d) == {e \in L : /\ \A b \in 0 .. d - 2 : e[1][b] = p[b]
                              /\ e[1][d - 1] # p[d - 1]}

\* Every digest that the tree of L needs in the node store.
TreeNodes(L) ==
    {SubtreeRoot(Below(L, e[1], d), d) : e \in L, d \in 0 .. Depth}

-----------------------------------------------------------------------------
(***************************************************************************)
(* Reading a tree back: what a root commits to at a path, found by walking *)
(* down from the root without a store.                                     *)
(***************************************************************************)
\* The nodes on the path p, level by level; the walk rests at a leaf or a
\* placeholder.
Descent(r, p) ==
    LET at[d \in 0 .. Depth] ==
            IF d = 0 THEN r
            ELSE LET up == at[d - 1]
                 IN  IF up = Placeholder THEN Placeholder
                     ELSE IF isLeaf(Data(up)) THEN up
                     ELSE childOnPath(Data(up), p, d - 1)
    IN  at

CommittedValue(r, p) ==
    LET leaf == Descent(r, p)[Depth]
    IN  IF leaf # Placeholder /\ Data(leaf).path = p
        THEN CHOOSE v \in Values : digest(v) = Data(leaf).valueHash
        ELSE Absent

CommittedMap(r) == [p \in Paths |-> CommittedValue(r, p)]
=============================================================================
