---------------------------- MODULE SMTTheorems -----------------------------
(***************************************************************************)
(* Theorems about SparseMerkleTree (module SMT), for every depth, set of   *)
(* keys and values, and number of store failures, in three parts: its type *)
(* invariant; that it implements AuthenticatedMap, from the invariant of   *)
(* SMTInvariant; and what its two stores hold.                             *)
(***************************************************************************)
EXTENDS SMTInvariant, CommitmentTheorems

\* The empty slice, and what append does to a slice.
LEMMA SliceFacts ==
  /\ IsSlice(<< >>) /\ Len(<< >>) = 0
  /\ \A s : IsSlice(s) => (s = << >> <=> Len(s) = 0)
  /\ \A x : IsSlice(<<x>>) /\ Len(<<x>>) = 1 /\ <<x>>[1] = x
  /\ \A s, x : IsSlice(s) =>
        /\ IsSlice(Append(s, x))
        /\ Len(Append(s, x)) = Len(s) + 1
        /\ \A j \in 1 .. Len(s) : Append(s, x)[j] = s[j]
        /\ Append(s, x)[Len(s) + 1] = x
<1>1. IsSlice(<< >>) /\ Len(<< >>) = 0
  BY DEF IsSlice
<1>2. ASSUME NEW s, IsSlice(s) PROVE s = << >> <=> Len(s) = 0
  BY <1>2 DEF IsSlice
<1>3. ASSUME NEW x PROVE IsSlice(<<x>>) /\ Len(<<x>>) = 1 /\ <<x>>[1] = x
  BY DEF IsSlice
<1>4. ASSUME NEW s, NEW x, IsSlice(s)
      PROVE  /\ IsSlice(Append(s, x))
             /\ Len(Append(s, x)) = Len(s) + 1
             /\ \A j \in 1 .. Len(s) : Append(s, x)[j] = s[j]
             /\ Append(s, x)[Len(s) + 1] = x
  <2> DEFINE S == {s[j] : j \in 1 .. Len(s)} \cup {x}
  <2>1. Len(s) \in Nat /\ s = [j \in 1 .. Len(s) |-> s[j]]
    BY <1>4 DEF IsSlice
  <2>2. s \in Seq(S)
    BY <2>1
  <2> HIDE DEF S
  <2>3. x \in S BY DEF S
  <2>4. /\ Append(s, x) \in Seq(S)
        /\ Len(Append(s, x)) = Len(s) + 1
        /\ \A j \in 1 .. Len(s) : Append(s, x)[j] = s[j]
        /\ Append(s, x)[Len(s) + 1] = x
    BY <2>2, <2>3
  <2>5. \A t \in Seq(S) : IsSlice(t)
    BY DEF IsSlice
  <2> QED BY <2>4, <2>5
<1> QED BY <1>1, <1>2, <1>3, <1>4

-----------------------------------------------------------------------------
\* Type correctness.

\* The type invariant holds initially.
LEMMA TypeInit == Init => TypeOK
<1>1. IsSlice(<< >>) /\ Len(<< >>) = 0 /\ Depth \in Nat /\ MaxFaults \in Nat
  BY SliceFacts, DepthAssumption, SMTAssumption
<1>2. Init => CallTypeOK
  BY <1>1 DEF Init, CallTypeOK, Labels, DeleteLabels, UpdateLabels
<1>3. Init => SliceTypeOK /\ LoopTypeOK
  BY <1>1 DEF Init, SliceTypeOK, LoopTypeOK
<1>4. Init => FlagTypeOK
  BY DEF Init, FlagTypeOK
<1> QED BY <1>2, <1>3, <1>4 DEF TypeOK

\* A call that returns leaves the locals empty.
LEMMA TypeReturn ==
  ASSUME TypeOK, NEW r, Return(r), values' \in [Paths -> Values \cup {Absent}],
         faults' \in 0 .. MaxFaults
  PROVE  TypeOK'
<1>1. IsSlice(<< >>) /\ Len(<< >>) = 0 /\ Depth \in Nat
  BY SliceFacts, DepthAssumption
<1>2. CallTypeOK'
  BY DEF TypeOK, CallTypeOK, Return, Labels, DeleteLabels, UpdateLabels
<1>3. SliceTypeOK' /\ LoopTypeOK'
  BY <1>1 DEF Return, SliceTypeOK, LoopTypeOK
<1>4. FlagTypeOK'
  BY DEF Return, FlagTypeOK
<1> QED BY <1>2, <1>3, <1>4 DEF TypeOK

\* A call that begins keeps the type invariant.
LEMMA TypeBegin ==
  ASSUME TypeOK, NEW o, Begin(o), o.kind \in {"update", "prove"}, o.path \in Paths,
         o.value \in Values \cup {DefaultValue}
  PROVE  TypeOK'
<1>1. CallTypeOK'
  BY DEF TypeOK, CallTypeOK, Begin, tree, Labels, DeleteLabels, UpdateLabels
<1>2. SliceTypeOK' /\ LoopTypeOK'
  BY DEF TypeOK, SliceTypeOK, LoopTypeOK, Begin, locals
<1>3. FlagTypeOK'
  BY DEF TypeOK, FlagTypeOK, Begin, locals
<1> QED BY <1>1, <1>2, <1>3 DEF TypeOK

\* Every call of the API keeps the type invariant.
LEMMA TypeCall == TypeOK /\ Call => TypeOK'
<1> SUFFICES ASSUME TypeOK, Call PROVE TypeOK'
  OBVIOUS
<1>1. PICK o : Begin(o) /\ o.kind \in {"update", "prove"} /\ o.path \in Paths
                       /\ o.value \in Values \cup {DefaultValue}
  <2>1. PICK k \in Keys : \/ \E v \in Values : Update(k, v)
                          \/ Delete(k)
                          \/ Prove(k)
                          \/ ProveUpdatable(k)
    BY DEF Call
  <2>2. PathOf[k] \in Paths
    BY SMTAssumption
  <2>3. \/ \E v \in Values \cup {DefaultValue} : Begin(UpdateOp(PathOf[k], v, root, TRUE))
        \/ \E u \in BOOLEAN : Begin(ProveOp(PathOf[k], root, u))
    BY <2>1 DEF Update, Delete, Prove, ProveUpdatable, ProveForRoot
  <2>4. CASE \E v \in Values \cup {DefaultValue} : Begin(UpdateOp(PathOf[k], v, root, TRUE))
    <3>1. PICK v \in Values \cup {DefaultValue} : Begin(UpdateOp(PathOf[k], v, root, TRUE))
      BY <2>4
    <3>2. LET o == UpdateOp(PathOf[k], v, root, TRUE)
          IN  o.kind = "update" /\ o.path \in Paths /\ o.value \in Values \cup {DefaultValue}
      BY <2>2 DEF UpdateOp
    <3> QED BY <3>1, <3>2
  <2>5. CASE \E u \in BOOLEAN : Begin(ProveOp(PathOf[k], root, u))
    <3>1. PICK u \in BOOLEAN : Begin(ProveOp(PathOf[k], root, u))
      BY <2>5
    <3>2. LET o == ProveOp(PathOf[k], root, u)
          IN  o.kind = "prove" /\ o.path \in Paths /\ o.value \in Values \cup {DefaultValue}
      BY <2>2 DEF ProveOp
    <3> QED BY <3>1, <3>2
  <2> QED BY <2>3, <2>4, <2>5
<1> QED BY <1>1, TypeBegin

\* The flags are left alone by every step that stays within a call, except that
\* a sibling is reached while the deleted leaf's sibling moves up.
LEMMA TypeFlags ==
  ASSUME TypeOK, pc' \notin {"idle", "root"}, pc # "unset",
         UNCHANGED npr \/ npr' = TRUE, UNCHANGED err
  PROVE  FlagTypeOK'
  BY DEF TypeOK, FlagTypeOK

\* Every step of fillSideNodes keeps the type invariant.
LEMMA TypeFill == TypeOK /\ (FillRoot \/ FillStep \/ FillSibling) => TypeOK'
<1> SUFFICES ASSUME TypeOK, FillRoot \/ FillStep \/ FillSibling PROVE TypeOK'
  OBVIOUS
<1>1. /\ afterWalk \in {"proof", "orphan", "leaf"}
      /\ afterWalk = "orphan" => op.kind = "update" /\ op.value = DefaultValue
      /\ afterWalk = "leaf" => op.kind = "update" /\ op.value \in Values
      /\ afterWalk = "proof" => op.kind = "prove"
  BY DEF TypeOK, CallTypeOK, afterWalk, FillRoot, FillStep, FillSibling
<1>2. /\ UNCHANGED <<values, faults, op, npr, err, cur>> /\ i' = 0
      /\ pc # "idle" /\ pc # "unset" /\ pc' \in {"walk", "sibling", afterWalk}
  BY DEF FillRoot, FillStep, FillSibling, Goto
<1>3. CallTypeOK'
  BY <1>1, <1>2 DEF TypeOK, CallTypeOK, Labels, DeleteLabels, UpdateLabels
<1>4. FlagTypeOK'
  BY <1>1, <1>2, TypeFlags
<1>5. CASE FillRoot
  <2>1. /\ side' = << >> /\ IsSlice(side') /\ Len(side') = 0
        /\ IsSlice(pnodes') /\ Len(pnodes') = 1 /\ Depth \in Nat /\ 0 < Depth
    BY <1>5, SliceFacts, DepthAssumption DEF FillRoot, TypeOK, SliceTypeOK
  <2>2. pc' \in {"walk", "proof", "orphan", "leaf"}
    BY <1>1, <1>5 DEF FillRoot, Goto
  <2>3. SliceTypeOK' /\ LoopTypeOK'
    BY <1>2, <2>1, <2>2 DEF SliceTypeOK, LoopTypeOK
  <2> QED BY <1>3, <1>4, <2>3 DEF TypeOK
<1>6. CASE FillStep
  <2>1. /\ IsSlice(side') /\ IsSlice(pnodes')
        /\ Len(side') = Len(side) + 1 /\ Len(pnodes') = Len(pnodes) + 1
    BY <1>6, SliceFacts DEF FillStep, TypeOK, SliceTypeOK
  <2>2. /\ Len(side) \in Nat /\ Len(side) < Depth /\ Depth \in Nat
        /\ Len(pnodes) = Len(side) + 1
        /\ pc' = "walk" => Len(side) + 1 # Depth
    BY <1>1, <1>6, DepthAssumption
       DEF FillStep, Goto, TypeOK, SliceTypeOK, IsSlice, walkEnds
  <2>3. SliceTypeOK' /\ LoopTypeOK'
    BY <1>1, <1>2, <2>1, <2>2 DEF SliceTypeOK, LoopTypeOK
  <2> QED BY <1>3, <1>4, <2>3 DEF TypeOK
<1>7. CASE FillSibling
  <2>1. SliceTypeOK' /\ LoopTypeOK'
    BY <1>1, <1>2, <1>7 DEF FillSibling, Goto, TypeOK, SliceTypeOK, LoopTypeOK, IsSlice
  <2> QED BY <1>3, <1>4, <2>1 DEF TypeOK
<1> QED BY <1>5, <1>6, <1>7

\* Clearing a value, or setting the value of an update, keeps the value store typed.
LEMMA TypeValues ==
  ASSUME TypeOK, pc # "idle"
  PROVE  /\ [values EXCEPT ![op.path] = Absent] \in [Paths -> Values \cup {Absent}]
         /\ op.value \in Values =>
              [values EXCEPT ![op.path] = op.value] \in [Paths -> Values \cup {Absent}]
  BY DEF TypeOK, CallTypeOK

\* Steps that stay within a loop of the call: what is left to check when the
\* slices do not change.
LEMMA TypeLoop ==
  ASSUME TypeOK, pc \notin {"idle", "root"}, UNCHANGED <<side, pnodes, op, faults>>,
         pc' \notin {"idle", "root", "walk", "proof"}, pc' \in Labels,
         values' \in [Paths -> Values \cup {Absent}],
         pc' \in DeleteLabels => pc \in DeleteLabels,
         pc' \in UpdateLabels => pc \in UpdateLabels
  PROVE  CallTypeOK' /\ SliceTypeOK'
  BY DEF TypeOK, CallTypeOK, SliceTypeOK

\* Every step of a deletion keeps the type invariant.
LEMMA TypeDelete ==
  TypeOK /\ (\/ AlreadyEmpty \/ DeletePathNode \/ BubbleLeaf \/ BubbleSkip
             \/ BubbleNode \/ DeleteValue) => TypeOK'
<1> SUFFICES ASSUME TypeOK, \/ AlreadyEmpty \/ DeletePathNode \/ BubbleLeaf
                            \/ BubbleSkip \/ BubbleNode \/ DeleteValue
             PROVE  TypeOK'
  OBVIOUS
<1>0. /\ values \in [Paths -> Values \cup {Absent}] /\ faults \in 0 .. MaxFaults
      /\ IsSlice(side) /\ Len(side) \in Nat
      /\ pc \notin {"idle", "root"} => Len(pnodes) = Len(side) + 1
      /\ side = << >> <=> Len(side) = 0
  BY SliceFacts DEF TypeOK, CallTypeOK, SliceTypeOK, IsSlice
<1>1. CASE AlreadyEmpty
  BY <1>0, <1>1, TypeReturn DEF AlreadyEmpty, ReturnRoot
<1>2. CASE DeletePathNode
  <2>1. /\ pc = "orphan" /\ pc' \in {"orphan", "bubble", "unset"}
        /\ UNCHANGED <<side, pnodes, op, faults, values, npr, err>>
    BY <1>2 DEF DeletePathNode, Goto
  <2>2. CallTypeOK' /\ SliceTypeOK'
    BY <1>0, <2>1, TypeLoop DEF Labels, DeleteLabels, UpdateLabels
  <2>3. FlagTypeOK'
    BY <2>1, TypeFlags
  <2>4. LoopTypeOK'
    BY <1>0, <1>2, <2>1 DEF DeletePathNode, Goto, TypeOK, LoopTypeOK
  <2> QED BY <2>2, <2>3, <2>4 DEF TypeOK
<1>3. CASE BubbleLeaf \/ BubbleSkip \/ BubbleNode
  <2>1. /\ pc = "bubble" /\ NextSideNode
        /\ UNCHANGED <<side, pnodes, op, faults, values, err>>
        /\ UNCHANGED npr \/ npr' = TRUE
        /\ pc' \in {"bubble", "unset"}
    BY <1>3 DEF BubbleLeaf, BubbleSkip, BubbleNode, NextSideNode, Goto
  <2>2. CallTypeOK' /\ SliceTypeOK'
    BY <1>0, <2>1, TypeLoop DEF Labels, DeleteLabels, UpdateLabels
  <2>3. FlagTypeOK'
    BY <2>1, TypeFlags
  <2>4. LoopTypeOK'
    BY <1>0, <2>1 DEF NextSideNode, Goto, TypeOK, LoopTypeOK
  <2> QED BY <2>2, <2>3, <2>4 DEF TypeOK
<1>4. CASE DeleteValue
  <2>1. values' \in [Paths -> Values \cup {Absent}] /\ faults' = faults
    BY <1>4, TypeValues DEF DeleteValue
  <2>2. \E r : Return(r)
    BY <1>4 DEF DeleteValue, ReturnError, ReturnRoot
  <2> QED BY <1>0, <2>1, <2>2, TypeReturn
<1> QED BY <1>1, <1>2, <1>3, <1>4

\* Every step of an insertion or an overwrite keeps the type invariant.
LEMMA TypeUpdate ==
  TypeOK /\ (\/ SetLeaf \/ Fork \/ DeleteOldLeaf \/ DeleteOldValue \/ DeleteStale
             \/ SpineSkip \/ SpineNode \/ SetValue) => TypeOK'
<1> SUFFICES ASSUME TypeOK, \/ SetLeaf \/ Fork \/ DeleteOldLeaf \/ DeleteOldValue
                            \/ DeleteStale \/ SpineSkip \/ SpineNode \/ SetValue
             PROVE  TypeOK'
  OBVIOUS
<1>0. /\ values \in [Paths -> Values \cup {Absent}] /\ faults \in 0 .. MaxFaults
      /\ Len(side) \in Nat /\ Depth \in Nat /\ 0 < Depth
      /\ pc \notin {"idle", "root"} => Len(pnodes) = Len(side) + 1
  <2>1. Depth \in Nat /\ 0 < Depth
    BY DepthAssumption
  <2> QED BY <2>1 DEF TypeOK, CallTypeOK, SliceTypeOK, IsSlice
<1>1. CASE pc' = "idle"
  <2>1. \E r : Return(r)
    BY <1>0, <1>1 DEF SetLeaf, SetValue, ReturnRoot, Fork, DeleteOldLeaf, DeleteOldValue,
       DeleteStale, SpineSkip, SpineNode, RemoveStale, NextSpine, Goto
  <2>2. values' \in [Paths -> Values \cup {Absent}] /\ faults' = faults
    <3>1. CASE SetValue
      BY <1>0, <3>1, TypeValues
         DEF SetValue, TypeOK, CallTypeOK, UpdateLabels
    <3>2. CASE ~ SetValue
      BY <1>0, <1>1, <3>2 DEF SetLeaf, Fork, DeleteOldLeaf, DeleteOldValue,
         DeleteStale, SpineSkip, SpineNode, RemoveStale, NextSpine, Goto
    <3> QED BY <3>1, <3>2
  <2> QED BY <1>0, <2>1, <2>2, TypeReturn
<1>2. CASE pc' # "idle"
  <2>1. /\ pc \in UpdateLabels /\ pc' \in UpdateLabels
        /\ UNCHANGED <<side, pnodes, op, faults, npr, err>>
    BY <1>2 DEF SetLeaf, SetValue, ReturnRoot, Return, Fork, DeleteOldLeaf, DeleteOldValue,
       DeleteStale, SpineSkip, SpineNode, RemoveStale, NextSpine, Goto, UpdateLabels
  <2>2. values' \in [Paths -> Values \cup {Absent}]
    BY <1>0, <1>2, TypeValues DEF SetLeaf, SetValue, ReturnRoot, Return, Fork, DeleteOldLeaf,
       DeleteOldValue, DeleteStale, SpineSkip, SpineNode
  <2>3. CallTypeOK' /\ SliceTypeOK'
    BY <2>1, <2>2, TypeLoop DEF Labels, DeleteLabels, UpdateLabels
  <2>4. FlagTypeOK'
    BY <2>1, TypeFlags DEF UpdateLabels
  <2>5. LoopTypeOK'
    <3>1. CASE SetLeaf \/ Fork \/ DeleteOldValue \/ DeleteOldLeaf
      BY <1>0, <1>2, <2>1, <3>1 DEF SetLeaf, ReturnRoot, Return, Fork, DeleteOldValue,
         DeleteOldLeaf, RemoveStale, Goto, LoopTypeOK
    <3>2. CASE DeleteStale
      BY <1>0, <2>1, <3>2 DEF DeleteStale, RemoveStale, Goto, LoopTypeOK, TypeOK
    <3>3. CASE SpineSkip \/ SpineNode
      BY <1>0, <2>1, <3>3 DEF SpineSkip, SpineNode, NextSpine, Goto, LoopTypeOK, TypeOK
    <3>4. CASE SetValue
      BY <1>2, <3>4 DEF SetValue, ReturnRoot, Return
    <3> QED BY <3>1, <3>2, <3>3, <3>4
  <2> QED BY <2>3, <2>4, <2>5 DEF TypeOK
<1> QED BY <1>1, <1>2

\* A proof that is returned, and a store error, keep the type invariant.
LEMMA TypeEnd == TypeOK /\ (ProveReturn \/ InvalidKey \/ StoreFault) => TypeOK'
<1> SUFFICES ASSUME TypeOK, ProveReturn \/ InvalidKey \/ StoreFault PROVE TypeOK'
  OBVIOUS
<1>0. /\ values \in [Paths -> Values \cup {Absent}] /\ faults \in 0 .. MaxFaults
      /\ values' = values /\ faults' \in 0 .. MaxFaults
  BY SMTAssumption DEF TypeOK, CallTypeOK, ProveReturn, InvalidKey, StoreFault, OnError, tree
<1>1. CASE ProveReturn
  BY <1>0, <1>1, TypeReturn DEF ProveReturn
<1>2. CASE OnError
  <2>1. CASE pc \in {"orphan", "bubble"}
    <3>1. pc' = "unset" /\ err' = TRUE /\ UNCHANGED <<side, pnodes, op, npr>>
      BY <1>2, <2>1 DEF OnError, Goto
    <3>2. CallTypeOK' /\ SliceTypeOK' /\ LoopTypeOK'
      BY <1>0, <2>1, <3>1 DEF TypeOK, CallTypeOK, SliceTypeOK, LoopTypeOK,
         Labels, DeleteLabels, UpdateLabels
    <3>3. FlagTypeOK'
      BY <3>1 DEF TypeOK, FlagTypeOK
    <3> QED BY <3>2, <3>3 DEF TypeOK
  <2>2. CASE pc \notin {"orphan", "bubble"}
    BY <1>0, <1>2, <2>2, TypeReturn DEF OnError, ReturnError
  <2> QED BY <2>1, <2>2
<1> QED BY <1>1, <1>2 DEF InvalidKey, StoreFault

\* Every step of a call keeps the type invariant.
LEMMA TypeStep == TypeOK /\ Step => TypeOK'
  BY TypeFill, TypeDelete, TypeUpdate, TypeEnd DEF Step

\* TypeOK is an invariant of the tree: no call ever indexes outside its slices or
\* starts with leftovers of an earlier one, whatever the stores do.
THEOREM TypeCorrect == Spec => []TypeOK
<1>1. Init => TypeOK
  BY TypeInit
<1>2. TypeOK /\ [Next]_vars => TypeOK'
  <2> SUFFICES ASSUME TypeOK, [Next]_vars PROVE TypeOK'
    OBVIOUS
  <2>1. CASE Next
    BY <2>1, TypeCall, TypeStep DEF Next
  <2>2. CASE UNCHANGED vars
    BY <2>2 DEF vars, tree, locals, TypeOK, CallTypeOK, SliceTypeOK, LoopTypeOK,
       FlagTypeOK, IsSlice
  <2> QED BY <2>1, <2>2
<1> QED BY <1>1, <1>2, PTL DEF Spec

-----------------------------------------------------------------------------
(***************************************************************************)
(* SparseMerkleTree implements AuthenticatedMap.  The invariant of         *)
(* SMTInvariant is shown to hold first; every step then maps to a step of  *)
(* the abstract map or to a stutter.                                       *)
(***************************************************************************)

\* What the two maps of a running call have to do with each other, level by
\* level on its path.
LEMMA NewMapFacts ==
  ASSUME TypeOK, RootInv, pc # "idle"
  PROVE  /\ op.path \in Paths /\ newMap \in Maps
         /\ EntriesOf(oldMap) \in SUBSET Entries
         /\ EntriesOf(newMap) \in SUBSET Entries
         /\ \A d \in 1 .. Depth : Beside(EntriesOf(newMap), op.path, d) = oldBeside(d)
         /\ \A d \in 0 .. Depth : \A e : e \in newBelow(d)
               <=> \/ op.value # DefaultValue /\ e = <<op.path, op.value>>
                   \/ e \in oldBelow(d) /\ e[1] # op.path
<1>1. op.path \in Paths /\ op.value \in Values \cup {DefaultValue} /\ oldMap \in Maps
  BY DEF TypeOK, CallTypeOK, RootInv
<1>2. /\ newMap \in Maps
      /\ newMap[op.path] = IF op.value = DefaultValue THEN Absent ELSE op.value
      /\ \A x \in Paths : x # op.path => newMap[x] = oldMap[x]
  BY <1>1 DEF newMap, Maps
<1>3. newMap[op.path] # Absent <=> op.value # DefaultValue
  BY <1>1, <1>2, ValuesAssumption
<1>4. EntriesOf(oldMap) \in SUBSET Entries /\ EntriesOf(newMap) \in SUBSET Entries
  BY DEF EntriesOf
<1>5. /\ \A d \in 1 .. Depth : Beside(EntriesOf(newMap), op.path, d) = oldBeside(d)
      /\ \A d \in 0 .. Depth : \A e : e \in newBelow(d)
            <=> \/ newMap[op.path] # Absent /\ e = <<op.path, newMap[op.path]>>
                \/ e \in oldBelow(d) /\ e[1] # op.path
  BY <1>1, <1>2, UpdatedEntries DEF oldBelow, newBelow, oldBeside
<1> QED BY <1>1, <1>2, <1>3, <1>4, <1>5

\* The new subtree one level up: its entries, and its root when it is an inner
\* node.
LEMMA NewParent ==
  ASSUME TypeOK, RootInv, pc # "idle", NEW d \in 1 .. Depth
  PROVE  /\ newBelow(0) = EntriesOf(newMap)
         /\ newBelow(d) \in SUBSET Entries
         /\ oldBeside(d) \in SUBSET Entries
         /\ d < Depth \/ ~ Big(oldBeside(d))
         /\ newBelow(d - 1) = newBelow(d) \cup oldBeside(d)
         /\ \A x \in newBelow(d), y \in oldBeside(d) : x # y
         /\ Big(newBelow(d - 1)) =>
              digestParent(op.path, d - 1, SubtreeRoot(oldBeside(d), d),
                           SubtreeRoot(newBelow(d), d)) = SubtreeRoot(newBelow(d - 1), d - 1)
<1> DEFINE K == EntriesOf(newMap)
           p == op.path
           c == d - 1
<1>1. /\ p \in Paths /\ K \in SUBSET Entries /\ oldMap \in Maps
      /\ Beside(K, p, d) = oldBeside(d)
  BY NewMapFacts DEF RootInv
<1>2. c \in 0 .. Depth - 1 /\ c + 1 = d /\ Depth \in Nat
  BY DepthAssumption
<1>3. oldBeside(d) \in SUBSET Entries /\ (d < Depth \/ ~ Big(oldBeside(d)))
  BY <1>1, BesideSmall DEF oldBeside
<1> HIDE DEF K, p, c
<1>4. /\ Below(K, p, 0) = K
      /\ Below(K, p, c) = Below(K, p, c + 1) \cup Beside(K, p, c + 1)
  BY <1>1, <1>2, BelowSplits
<1>5. Big(Below(K, p, c)) =>
        digestParent(p, c, SubtreeRoot(Beside(K, p, c + 1), c + 1),
                     SubtreeRoot(Below(K, p, c + 1), c + 1)) = SubtreeRoot(Below(K, p, c), c)
  BY <1>1, <1>2, InnerNode
<1>6. Below(K, p, d) \in SUBSET Entries
  BY <1>1 DEF Below
<1>7. \A x \in Below(K, p, d), y \in Beside(K, p, d) : x # y
  BY <1>2 DEF Below, Beside
<1> QED BY <1>1, <1>2, <1>3, <1>4, <1>5, <1>6, <1>7 DEF newBelow, K, p, c

\* The entries of the old subtree one level up.
LEMMA OldParent ==
  ASSUME TypeOK, RootInv, pc # "idle", NEW d \in 1 .. Depth
  PROVE  oldBelow(d - 1) = oldBelow(d) \cup oldBeside(d)
<1> DEFINE c == d - 1
           L == EntriesOf(oldMap)
           p == op.path
<1>1. c \in 0 .. Depth - 1 /\ c + 1 = d
  BY DepthAssumption
<1>2. p \in Paths /\ L \in SUBSET Entries
  BY NewMapFacts
<1> HIDE DEF c, L, p
<1>3. Below(L, p, c) = Below(L, p, c + 1) \cup Beside(L, p, c + 1)
  BY <1>1, <1>2, BelowSplits
<1> QED BY <1>1, <1>3 DEF c, L, p, oldBelow, oldBeside

\* What the walk found at the end of the path.
LEMMA LeafFound ==
  ASSUME TypeOK, RootInv, WalkInv, pc \notin {"idle", "root", "walk"}
  PROVE  \/ /\ oldBelow(Len(side)) = {} /\ oldLeaf = Placeholder
            /\ oldMap[op.path] = Absent
         \/ \E e \in Entries :
              /\ oldBelow(Len(side)) = {e} /\ oldLeaf = EntryHash(e)
              /\ oldLeaf # Placeholder
              /\ oldLeafPath = e[1] /\ Data(oldLeaf).valueHash = digest(e[2])
              /\ \A b \in 0 .. Len(side) - 1 : e[1][b] = op.path[b]
              /\ oldMap[op.path] = IF e[1] = op.path THEN e[2] ELSE Absent
<1> DEFINE n == Len(side)
           p == op.path
           L == EntriesOf(oldMap)
<1>1. /\ n \in 0 .. Depth /\ Len(pnodes) = n + 1 /\ Depth \in Nat
      /\ p \in Paths /\ oldMap \in Maps /\ L \in SUBSET Entries
  <2>1. Depth \in Nat
    BY DepthAssumption
  <2>2. p \in Paths /\ oldMap \in Maps /\ L \in SUBSET Entries
    BY NewMapFacts DEF RootInv
  <2>3. Len(side) \in Nat /\ Len(side) <= Depth /\ Len(pnodes) = n + 1
    BY DEF TypeOK, SliceTypeOK, IsSlice
  <2> QED BY <2>1, <2>2, <2>3
<1>2. oldLeaf = SubtreeRoot(oldBelow(n), n) /\ ~ Big(oldBelow(n))
  BY <1>1 DEF WalkInv, oldLeaf, pathNodes, Reversed
<1>3. /\ \A v : <<p, v>> \in L <=> v \in Values /\ oldMap[p] = v
      /\ oldMap[p] \in Values <=> oldMap[p] # Absent
      /\ \A e \in L : e \in Entries /\ e = <<e[1], oldMap[e[1]]>>
  BY <1>1, MapEntries
<1>4. oldMap[p] # Absent => <<p, oldMap[p]>> \in oldBelow(n)
  BY <1>3 DEF oldBelow, Below
<1>5. CASE oldBelow(n) = {}
  BY <1>1, <1>2, <1>4, <1>5, SubtreeRootCases
<1>6. CASE oldBelow(n) # {}
  <2>1. PICK e \in oldBelow(n) : oldBelow(n) = {e}
    BY <1>2, <1>6, BigFacts
  <2>2. e \in L /\ e \in Entries /\ e = <<e[1], oldMap[e[1]]>>
        /\ \A b \in 0 .. n - 1 : e[1][b] = p[b]
    BY <1>3 DEF oldBelow, Below
  <2>3. oldLeaf = EntryHash(e)
    BY <1>1, <1>2, <2>1, <2>2, SubtreeRootCases
  <2>4. /\ oldLeaf # Placeholder /\ Data(oldLeaf).path = e[1]
        /\ Data(oldLeaf).valueHash = digest(e[2])
    BY <2>3, DigestFacts DEF EntryHash, digestLeaf
  <2>5. oldMap[p] = IF e[1] = p THEN e[2] ELSE Absent
    BY <1>4, <2>1, <2>2
  <2> QED BY <2>1, <2>2, <2>3, <2>4, <2>5 DEF oldLeafPath
<1> QED BY <1>5, <1>6

-----------------------------------------------------------------------------
\* The inductive invariant, action by action.

\* It holds initially: the empty root commits to the empty map.
LEMMA InvInit == Init => CallInvariant
<1> SUFFICES ASSUME Init PROVE CallInvariant
  OBVIOUS
<1> DEFINE m == [p \in Paths |-> Absent]
<1>1. m \in Maps /\ EntriesOf(m) = {}
  BY ValuesAssumption DEF Maps, EntriesOf, Entries
<1>2. 0 \in 0 .. Depth
  BY DepthAssumption
<1>3. root = SubtreeRoot(EntriesOf(m), 0)
  BY <1>1, <1>2, SubtreeRootCases DEF Init
<1>4. CommittedMap(root) = m
  BY <1>1, <1>3, CommittedMapOfRoot
<1>5. RootInv
  BY <1>1, <1>3, <1>4 DEF RootInv, oldMap
<1>6. pc = "idle"
  BY DEF Init
<1> QED BY <1>5, <1>6 DEF CallInvariant, CallInv, WalkInv, OrphanInv, BubbleInv, SpineInv,
     ResultInv

\* A call that returns leaves the invariant true if the root it leaves is the
\* canonical root of some map; the root then commits to that map.
LEMMA InvReturn ==
  ASSUME NEW m \in Maps, NEW r, Return(r), root' = SubtreeRoot(EntriesOf(m), 0)
  PROVE  CallInvariant' /\ oldMap' = m
<1>1. oldMap' = m
  BY CommittedMapOfRoot DEF oldMap
<1>2. RootInv'
  BY <1>1 DEF RootInv
<1>3. pc' = "idle"
  BY DEF Return
<1>4. CallInv' /\ WalkInv' /\ OrphanInv' /\ BubbleInv' /\ SpineInv' /\ ResultInv'
  BY <1>3 DEF CallInv, WalkInv, OrphanInv, BubbleInv, SpineInv, ResultInv
<1> QED BY <1>1, <1>2, <1>4 DEF CallInvariant

\* In particular if it leaves the root alone.
LEMMA InvReturnSame ==
  ASSUME CallInvariant, NEW r, Return(r), root' = root
  PROVE  CallInvariant' /\ oldMap' = oldMap
  BY InvReturn DEF CallInvariant, RootInv

\* Beginning a call keeps the invariant.
LEMMA InvCall ==
  ASSUME CallInvariant, Call
  PROVE  CallInvariant'
<1>1. PICK o : Begin(o) /\ o.root = root /\ o.publish = (o.kind = "update")
  <2>1. PICK k \in Keys : \/ \E v \in Values \cup {DefaultValue} :
                                Begin(UpdateOp(PathOf[k], v, root, TRUE))
                          \/ \E u \in BOOLEAN : Begin(ProveOp(PathOf[k], root, u))
    BY DEF Call, Update, Delete, Prove, ProveUpdatable, ProveForRoot
  <2>2. CASE \E v \in Values \cup {DefaultValue} : Begin(UpdateOp(PathOf[k], v, root, TRUE))
    <3>1. PICK v \in Values \cup {DefaultValue} : Begin(UpdateOp(PathOf[k], v, root, TRUE))
      BY <2>2
    <3>2. LET o == UpdateOp(PathOf[k], v, root, TRUE)
          IN  o.root = root /\ o.publish = (o.kind = "update")
      BY DEF UpdateOp
    <3> QED BY <3>1, <3>2
  <2>3. CASE \E u \in BOOLEAN : Begin(ProveOp(PathOf[k], root, u))
    <3>1. PICK u \in BOOLEAN : Begin(ProveOp(PathOf[k], root, u))
      BY <2>3
    <3>2. LET o == ProveOp(PathOf[k], root, u)
          IN  o.root = root /\ o.publish = (o.kind = "update")
      BY DEF ProveOp
    <3> QED BY <3>1, <3>2
  <2> QED BY <2>1, <2>2, <2>3
<1>2. root' = root /\ pc' = "root" /\ op' = o
  BY <1>1 DEF Begin, tree
<1>3. oldMap' = oldMap
  BY <1>2 DEF oldMap
<1>4. RootInv'
  BY <1>2, <1>3 DEF CallInvariant, RootInv
<1>5. CallInv'
  BY <1>1, <1>2 DEF CallInv
<1>6. WalkInv' /\ OrphanInv' /\ BubbleInv' /\ SpineInv' /\ ResultInv'
  BY <1>2 DEF WalkInv, OrphanInv, BubbleInv, SpineInv, ResultInv
<1> QED BY <1>4, <1>5, <1>6 DEF CallInvariant

\* The part of the invariant that is about the root, the call and its slices
\* holds on when these stay the same.
LEMMA InvFrame ==
  ASSUME CallInvariant, UNCHANGED <<root, op, side, pnodes>>,
         pc \notin {"idle", "root", "walk"}, pc' \notin {"idle", "root", "walk"}
  PROVE  /\ RootInv' /\ CallInv' /\ WalkInv'
         /\ oldMap' = oldMap /\ newMap' = newMap
         /\ \A d : newBelow(d)' = newBelow(d)
         /\ keyIsEmpty' = keyIsEmpty /\ commonPrefixCount' = commonPrefixCount
         /\ topLevel' = topLevel /\ newLeaf' = newLeaf
<1>1. oldMap' = oldMap /\ newMap' = newMap
  BY DEF oldMap, newMap
<1>2. /\ \A d : newBelow(d)' = newBelow(d) /\ oldBelow(d)' = oldBelow(d)
      /\ \A d : oldBeside(d)' = oldBeside(d)
  BY <1>1 DEF newBelow, oldBelow, oldBeside
<1>3. RootInv' /\ CallInv'
  BY <1>1 DEF CallInvariant, RootInv, CallInv
<1>4. WalkInv'
  BY <1>2 DEF CallInvariant, WalkInv
<1>5. keyIsEmpty' = keyIsEmpty /\ commonPrefixCount' = commonPrefixCount
  BY DEF keyIsEmpty, commonPrefixCount, oldLeafPath, oldLeaf, pathNodes, Reversed
<1>6. topLevel' = topLevel /\ newLeaf' = newLeaf
  BY <1>5 DEF topLevel, newLeaf
<1> QED BY <1>1, <1>2, <1>3, <1>4, <1>5, <1>6

\* The first step of the walk reads the root.
LEMMA InvFillRoot ==
  ASSUME TypeOK, CallInvariant, FillRoot
  PROVE  CallInvariant'
<1> DEFINE L == EntriesOf(oldMap)
<1>1. /\ pc = "root" /\ side' = << >> /\ Len(side') = 0 /\ pnodes' = <<root>>
      /\ UNCHANGED <<root, op, cur, npr>> /\ cur = Placeholder /\ npr = FALSE
  <2>1. /\ pc = "root" /\ pnodes' = <<op.root>> /\ op.root = root
        /\ UNCHANGED <<root, op, side, cur, npr>>
    BY DEF FillRoot, Goto, CallInvariant, CallInv
  <2>2. side = << >> /\ cur = Placeholder
    BY <2>1 DEF TypeOK, SliceTypeOK, LoopTypeOK
  <2>3. npr = FALSE
    BY <2>1 DEF TypeOK, FlagTypeOK
  <2>4. Len(<< >>) = 0
    OBVIOUS
  <2> QED BY <2>1, <2>2, <2>3, <2>4
<1>2. /\ 0 \in 0 .. Depth - 1 /\ 0 \in 0 .. Depth /\ 0 < Depth
      /\ op.path \in Paths /\ L \in SUBSET Entries /\ root = SubtreeRoot(L, 0)
  BY <1>1, DepthAssumption, NewMapFacts DEF CallInvariant, RootInv
<1>3. oldBelow(0) = L
  BY <1>2, BelowSplits DEF oldBelow
<1>4. root = Placeholder \/ isLeaf(Data(root)) <=> ~ Big(L)
  BY <1>2, RootShape, BigFacts
<1>5. /\ pc' = "walk" <=> Big(L)
      /\ pc' \in {"walk", "proof", "orphan", "leaf"}
  BY <1>1, <1>4 DEF FillRoot, Goto, afterWalk, CallInvariant, CallInv
<1>6. oldMap' = oldMap /\ \A d : oldBelow(d)' = oldBelow(d)
  BY <1>1 DEF oldMap, oldBelow
<1>7. RootInv' /\ CallInv' /\ OrphanInv'
  BY <1>1, <1>5, <1>6 DEF CallInvariant, RootInv, CallInv, OrphanInv
<1>8. WalkInv'
  <2>1. pnodes'[0 + 1] = root /\ 0 .. Len(side') = {0} /\ 1 .. Len(side') = {}
        /\ 0 .. Len(side') - 1 = {}
    BY <1>1
  <2>2. \A d \in {0} : pnodes'[d + 1] = SubtreeRoot(oldBelow(d), d)
    BY <1>2, <1>3, <2>1
  <2> QED BY <1>1, <1>3, <1>5, <1>6, <2>1, <2>2 DEF WalkInv
<1>9. BubbleInv' /\ SpineInv' /\ ResultInv'
  BY <1>5 DEF BubbleInv, SpineInv, ResultInv
<1> QED BY <1>7, <1>8, <1>9 DEF CallInvariant

\* What the walk reads from an inner node on the path.
LEMMA NextChildren ==
  ASSUME TypeOK, CallInvariant, pc = "walk"
  PROVE  LET n == Len(side)
         IN  /\ n \in 0 .. Depth - 1 /\ Len(pnodes) = n + 1
             /\ Big(oldBelow(n))
             /\ nextNode = SubtreeRoot(oldBelow(n + 1), n + 1)
             /\ nextSide = SubtreeRoot(oldBeside(n + 1), n + 1)
             /\ walkEnds <=> ~ Big(oldBelow(n + 1))
<1> DEFINE n == Len(side)
           L == EntriesOf(oldMap)
<1>1. Depth \in Nat
  BY DepthAssumption
<1>2. n \in 0 .. Depth - 1 /\ Len(pnodes) = n + 1
  BY <1>1 DEF TypeOK, SliceTypeOK, IsSlice
<1>3. op.path \in Paths /\ L \in SUBSET Entries /\ oldMap \in Maps
  BY NewMapFacts DEF CallInvariant, RootInv
<1>4. Big(oldBelow(n)) /\ pnodes[n + 1] = SubtreeRoot(oldBelow(n), n)
  BY <1>2 DEF CallInvariant, WalkInv
<1>5. /\ nextNode = SubtreeRoot(oldBelow(n + 1), n + 1)
      /\ nextSide = SubtreeRoot(oldBeside(n + 1), n + 1)
  <2>1. LET node == SubtreeRoot(Below(L, op.path, n), n)
        IN  /\ childOnPath(Data(node), op.path, n) = SubtreeRoot(Below(L, op.path, n + 1), n + 1)
            /\ childOffPath(Data(node), op.path, n) = SubtreeRoot(Beside(L, op.path, n + 1), n + 1)
    BY <1>2, <1>3, <1>4, InnerNode DEF oldBelow
  <2> QED BY <1>2, <1>4, <2>1 DEF nextNode, nextSide, nextData, oldBelow, oldBeside
<1>6. oldBelow(n + 1) \in SUBSET Entries /\ n + 1 \in 0 .. Depth
  BY <1>1, <1>2, <1>3 DEF oldBelow, Below
<1>7. n + 1 = Depth => ~ Big(oldBelow(n + 1))
  BY <1>3, MapEntries DEF oldBelow
<1>8. n + 1 # Depth => (walkEnds <=> ~ Big(oldBelow(n + 1)))
  BY <1>1, <1>2, <1>5, <1>6, RootShape, BigFacts DEF walkEnds
<1>9. walkEnds <=> ~ Big(oldBelow(n + 1))
  BY <1>7, <1>8 DEF walkEnds
<1> QED BY <1>2, <1>4, <1>5, <1>9

\* Every further step of the walk adds one level.
LEMMA InvFillStep ==
  ASSUME TypeOK, CallInvariant, FillStep
  PROVE  CallInvariant'
<1> DEFINE n == Len(side)
<1>1. /\ pc = "walk" /\ UNCHANGED <<root, op, cur, npr>>
      /\ side' = Append(side, nextSide) /\ pnodes' = Append(pnodes, nextNode)
  BY DEF FillStep, Goto
<1>2. /\ n \in 0 .. Depth - 1 /\ Len(pnodes) = n + 1
      /\ Big(oldBelow(n))
      /\ nextNode = SubtreeRoot(oldBelow(n + 1), n + 1)
      /\ nextSide = SubtreeRoot(oldBeside(n + 1), n + 1)
      /\ walkEnds <=> ~ Big(oldBelow(n + 1))
  BY <1>1, NextChildren
<1>3. /\ Len(side') = n + 1 /\ side'[n + 1] = nextSide
      /\ \A j \in 1 .. n : side'[j] = side[j]
      /\ pnodes'[n + 2] = nextNode
      /\ \A j \in 1 .. n + 1 : pnodes'[j] = pnodes[j]
  <2>1. IsSlice(side) /\ IsSlice(pnodes)
    BY DEF TypeOK, SliceTypeOK
  <2> QED BY <1>1, <1>2, <2>1, SliceFacts
<1>4. /\ pc' = "walk" <=> Big(oldBelow(n + 1))
      /\ pc' \in {"walk", "sibling", "proof", "orphan", "leaf"}
  BY <1>2 DEF FillStep, Goto, afterWalk
<1>5. /\ oldMap' = oldMap /\ \A d : oldBelow(d)' = oldBelow(d)
      /\ \A d : oldBeside(d)' = oldBeside(d)
  BY <1>1 DEF oldMap, oldBelow, oldBeside
<1>6. RootInv' /\ CallInv' /\ OrphanInv'
  BY <1>1, <1>4, <1>5 DEF CallInvariant, RootInv, CallInv, OrphanInv
<1>7. WalkInv'
  <2>1. n \in Nat
    BY <1>2, DepthAssumption
  <2>2. /\ \A d \in 0 .. n : pnodes[d + 1] = SubtreeRoot(oldBelow(d), d)
        /\ \A d \in 1 .. n : side[d] = SubtreeRoot(oldBeside(d), d)
        /\ \A d \in 0 .. n - 1 : Big(oldBelow(d))
    BY <1>1 DEF CallInvariant, WalkInv
  <2>3. \A d \in 0 .. n + 1 : pnodes'[d + 1] = SubtreeRoot(oldBelow(d), d)
    <3>1. \A d \in 0 .. n + 1 : (d \in 0 .. n /\ d + 1 \in 1 .. n + 1) \/ d = n + 1
      BY <2>1
    <3>2. (n + 1) + 1 = n + 2
      BY <2>1
    <3> QED BY <1>2, <1>3, <2>2, <3>1, <3>2
  <2>4. \A d \in 1 .. n + 1 : side'[d] = SubtreeRoot(oldBeside(d), d)
    <3>1. \A d \in 1 .. n + 1 : d \in 1 .. n \/ d = n + 1
      BY <2>1
    <3> QED BY <1>2, <1>3, <2>2, <3>1
  <2>5. \A d \in 0 .. (n + 1) - 1 : Big(oldBelow(d))
    <3>1. \A d \in 0 .. (n + 1) - 1 : d \in 0 .. n - 1 \/ d = n
      BY <2>1
    <3> QED BY <1>2, <2>2, <3>1
  <2> QED BY <1>3, <1>4, <1>5, <2>3, <2>4, <2>5 DEF WalkInv
<1>8. BubbleInv' /\ SpineInv' /\ ResultInv'
  BY <1>4 DEF BubbleInv, SpineInv, ResultInv
<1> QED BY <1>6, <1>7, <1>8 DEF CallInvariant

\* Fetching the sibling's data changes nothing.
LEMMA InvFillSibling ==
  ASSUME CallInvariant, FillSibling
  PROVE  CallInvariant'
<1>1. /\ pc = "sibling" /\ pc' \in {"proof", "orphan", "leaf"}
      /\ UNCHANGED <<root, op, side, pnodes, cur, npr>>
  BY DEF FillSibling, Goto, afterWalk
<1>2. RootInv' /\ CallInv' /\ WalkInv'
  BY <1>1, InvFrame
<1>3. OrphanInv' /\ BubbleInv' /\ SpineInv' /\ ResultInv'
  BY <1>1 DEF CallInvariant, OrphanInv, BubbleInv, SpineInv, ResultInv
<1> QED BY <1>2, <1>3 DEF CallInvariant

\* A key that is not empty leaves nothing behind at the level of its leaf.
LEMMA LeafDeleted ==
  ASSUME TypeOK, CallInvariant, pc \in {"orphan", "bubble"}, ~ keyIsEmpty
  PROVE  /\ newBelow(Len(side)) = {}
         /\ \E e : oldBelow(Len(side)) = {e}
<1>1. op.value = DefaultValue /\ Len(side) \in 0 .. Depth
  <2>1. op.value = DefaultValue
    BY DEF TypeOK, CallTypeOK, DeleteLabels
  <2>2. Len(side) \in Nat /\ Len(side) <= Depth
    BY DEF TypeOK, SliceTypeOK, IsSlice
  <2> QED BY <2>1, <2>2, DepthAssumption
<1>2. \A e : e \in newBelow(Len(side)) <=> e \in oldBelow(Len(side)) /\ e[1] # op.path
  BY <1>1, NewMapFacts DEF CallInvariant
<1>3. PICK e \in Entries : oldBelow(Len(side)) = {e} /\ oldLeafPath = e[1]
  BY LeafFound DEF CallInvariant, keyIsEmpty
<1>4. e[1] = op.path
  BY <1>3 DEF keyIsEmpty
<1> QED BY <1>2, <1>3, <1>4

\* Deleting the orphans keeps the invariant.
LEMMA InvDeletePathNode ==
  ASSUME TypeOK, CallInvariant, DeletePathNode
  PROVE  CallInvariant'
<1>1. /\ pc = "orphan" /\ ~ keyIsEmpty
      /\ UNCHANGED <<root, op, side, pnodes, cur, npr, err>>
      /\ cur = Placeholder /\ npr = FALSE
      /\ \/ pc' = "orphan"
         \/ pc' = "bubble" /\ i' = 0
         \/ pc' = "unset" /\ side = << >>
  BY DEF DeletePathNode, Goto, CallInvariant, OrphanInv
<1>2. /\ RootInv' /\ CallInv' /\ WalkInv'
      /\ newMap' = newMap /\ \A d : newBelow(d)' = newBelow(d)
      /\ keyIsEmpty' = keyIsEmpty
  BY <1>1, InvFrame
<1>3. newBelow(Len(side)) = {} /\ ~ Big({})
  BY <1>1, LeafDeleted, BigFacts
<1>4. Len(side) \in 0 .. Depth /\ Len(side) - 0 = Len(side)
  <2>1. Depth \in Nat
    BY DepthAssumption
  <2>2. Len(side) \in Nat /\ Len(side) <= Depth
    BY DEF TypeOK, SliceTypeOK, IsSlice
  <2> QED BY <2>1, <2>2
<1>5. cur = SubtreeRoot({}, Len(side))
  BY <1>1, <1>4, SubtreeRootCases
<1>6. OrphanInv' /\ SpineInv'
  BY <1>1 DEF OrphanInv, SpineInv
<1>7. BubbleInv'
  <2> SUFFICES ASSUME pc' = "bubble" PROVE BubbleInv'
    BY DEF BubbleInv
  <2>1. i' = 0 /\ Len(side') - i' = Len(side)
    BY <1>1, <1>4
  <2>2. ~ keyIsEmpty' /\ cur' = SubtreeRoot(newBelow(Len(side)), Len(side))
    BY <1>1, <1>2, <1>3, <1>5
  <2>3. npr' = TRUE <=> Big(newBelow(Len(side)))
    BY <1>1, <1>3
  <2> QED BY <1>2, <2>1, <2>2, <2>3 DEF BubbleInv
<1>8. ResultInv'
  <2> SUFFICES ASSUME pc' = "unset" PROVE cur' = SubtreeRoot(EntriesOf(newMap'), 0)
    BY <1>1 DEF ResultInv
  <2>1. Len(side) = 0
    BY <1>1
  <2>2. newBelow(0) = EntriesOf(newMap)
    <3>1. 1 \in 1 .. Depth
      BY DepthAssumption
    <3> QED BY <1>1, <3>1, NewParent DEF CallInvariant
  <2> QED BY <1>1, <1>2, <1>3, <1>5, <2>1, <2>2
<1> QED BY <1>2, <1>6, <1>7, <1>8 DEF CallInvariant

\* What an iteration of the bubble loop works on: the level, the side node there,
\* and the entries of the new subtrees below and above it.
LEMMA BubbleLevel ==
  ASSUME TypeOK, CallInvariant, pc = "bubble", NEW d, d = Len(side) - i
  PROVE  /\ d \in 1 .. Depth /\ d - 1 \in 0 .. Depth
         /\ Len(side) - 1 - i = d - 1
         /\ sideNodes(i) = SubtreeRoot(oldBeside(d), d)
         /\ oldBeside(d) # {} <=> sideNodes(i) # Placeholder
         /\ oldBeside(d) # {} => (isLeaf(Data(sideNodes(i))) <=> ~ Big(oldBeside(d)))
         /\ newBelow(d - 1) = newBelow(d) \cup oldBeside(d)
         /\ cur = SubtreeRoot(newBelow(d), d)
         /\ npr = TRUE <=> Big(newBelow(d))
         /\ i = 0 => newBelow(d) = {} /\ oldBeside(d) # {}
         /\ i > 0 => newBelow(d) # {}
<1>1. /\ d \in 1 .. Depth /\ d - 1 \in 0 .. Depth - 1 /\ d - 1 \in 0 .. Depth /\ d \in 0 .. Depth
      /\ Len(side) - 1 - i = d - 1 /\ d \in 1 .. Len(side) /\ d - 1 \in 0 .. Len(side) - 1
      /\ (d - 1) + 1 = d /\ (i = 0 => d = Len(side))
  <2>1. Depth \in Nat
    BY DepthAssumption
  <2>2. Len(side) \in Nat /\ Len(side) <= Depth /\ i \in 0 .. Len(side) - 1
    BY DEF TypeOK, SliceTypeOK, LoopTypeOK, IsSlice
  <2> QED BY <2>1, <2>2
<1>2. sideNodes(i) = SubtreeRoot(oldBeside(d), d) /\ Big(oldBelow(d - 1))
  BY <1>1 DEF CallInvariant, WalkInv, sideNodes, Reversed
<1>3. /\ oldBeside(d) \in SUBSET Entries
      /\ d < Depth \/ ~ Big(oldBeside(d))
      /\ newBelow(d - 1) = newBelow(d) \cup oldBeside(d)
  BY <1>1, NewParent DEF CallInvariant
<1>4. /\ oldBeside(d) # {} <=> sideNodes(i) # Placeholder
      /\ oldBeside(d) # {} => (isLeaf(Data(sideNodes(i))) <=> ~ Big(oldBeside(d)))
  BY <1>1, <1>2, <1>3, RootShape
<1>5. /\ cur = SubtreeRoot(newBelow(d), d)
      /\ i > 0 => newBelow(d) # {}
      /\ ~ keyIsEmpty
  BY DEF CallInvariant, BubbleInv
<1>6. npr = TRUE <=> Big(newBelow(d))
  BY DEF CallInvariant, BubbleInv
<1>7. i = 0 => newBelow(d) = {} /\ oldBeside(d) # {}
  <2> SUFFICES ASSUME i = 0 PROVE newBelow(d) = {} /\ oldBeside(d) # {}
    OBVIOUS
  <2>1. newBelow(d) = {} /\ \E e : oldBelow(d) = {e}
    BY <1>1, <1>5, LeafDeleted
  <2>2. oldBelow(d - 1) = oldBelow(d) \cup oldBeside(d)
    BY <1>1, OldParent DEF CallInvariant
  <2>3. oldBeside(d) = {} => ~ Big(oldBelow(d - 1))
    BY <2>1, <2>2, BigFacts
  <2> QED BY <1>2, <2>1, <2>3
<1> QED BY <1>1, <1>2, <1>3, <1>4, <1>5, <1>6, <1>7

\* An iteration of the bubble loop hashes, or carries, the new subtree one level
\* up.
LEMMA BubbleStep ==
  ASSUME TypeOK, CallInvariant, BubbleLeaf \/ BubbleSkip \/ BubbleNode,
         NEW d, d = Len(side) - i
  PROVE  /\ d \in 1 .. Depth
         /\ cur' = SubtreeRoot(newBelow(d - 1), d - 1)
         /\ npr' = TRUE <=> Big(newBelow(d - 1))
         /\ newBelow(d - 1) # {}
<1>1. pc = "bubble"
  BY DEF BubbleLeaf, BubbleSkip, BubbleNode
<1>2. /\ d \in 1 .. Depth /\ d - 1 \in 0 .. Depth
      /\ Len(side) - 1 - i = d - 1
      /\ sideNodes(i) = SubtreeRoot(oldBeside(d), d)
      /\ oldBeside(d) # {} <=> sideNodes(i) # Placeholder
      /\ oldBeside(d) # {} => (isLeaf(Data(sideNodes(i))) <=> ~ Big(oldBeside(d)))
      /\ newBelow(d - 1) = newBelow(d) \cup oldBeside(d)
      /\ cur = SubtreeRoot(newBelow(d), d)
      /\ i = 0 => newBelow(d) = {} /\ oldBeside(d) # {}
      /\ i > 0 => newBelow(d) # {}
  BY <1>1, BubbleLevel
<1>3. npr = TRUE <=> Big(newBelow(d))
  BY <1>1, BubbleLevel
<1>4. /\ newBelow(d) \in SUBSET Entries /\ oldBeside(d) \in SUBSET Entries
      /\ \A x \in newBelow(d), y \in oldBeside(d) : x # y
      /\ Big(newBelow(d - 1)) =>
           digestParent(op.path, d - 1, SubtreeRoot(oldBeside(d), d),
                        SubtreeRoot(newBelow(d), d)) = SubtreeRoot(newBelow(d - 1), d - 1)
  BY <1>1, <1>2, NewParent DEF CallInvariant
<1>5. \A x \in Entries : SubtreeRoot({x}, d) = EntryHash(x) /\ SubtreeRoot({x}, d - 1) = EntryHash(x)
  <2>1. d \in 0 .. Depth
    BY <1>2, DepthAssumption
  <2> QED BY <1>2, <2>1, SubtreeRootCases
<1>6. CASE BubbleLeaf
  <2>1. /\ i = 0 /\ isLeaf(Data(sideNodes(i))) /\ cur' = sideNodes(i) /\ npr' = npr
    BY <1>6 DEF BubbleLeaf
  <2>2. newBelow(d - 1) = oldBeside(d) /\ oldBeside(d) # {} /\ ~ Big(oldBeside(d))
    BY <1>2, <2>1
  <2>3. PICK x \in oldBeside(d) : oldBeside(d) = {x}
    BY <2>2, BigFacts
  <2>4. cur' = SubtreeRoot(newBelow(d - 1), d - 1)
    <3>1. SubtreeRoot({x}, d) = SubtreeRoot({x}, d - 1)
      BY <1>4, <1>5
    <3>2. cur' = SubtreeRoot({x}, d) /\ newBelow(d - 1) = {x}
      BY <1>2, <2>1, <2>2, <2>3
    <3> QED BY <3>1, <3>2
  <2>5. ~ (npr' = TRUE)
    BY <1>2, <1>3, <2>1, BigFacts
  <2> QED BY <1>2, <2>2, <2>4, <2>5
<1>7. CASE BubbleSkip
  <2>1. i > 0 /\ sideNodes(i) = Placeholder /\ cur' = cur
    BY <1>7 DEF BubbleSkip
  <2>2. npr' = npr /\ ~ npr
    BY <1>7 DEF BubbleSkip
  <2>3. ~ Big(newBelow(d)) /\ ~ (npr' = TRUE)
    BY <1>3, <2>2
  <2>4. newBelow(d - 1) = newBelow(d) /\ newBelow(d) # {}
    BY <1>2, <2>1
  <2>5. PICK x \in newBelow(d) : newBelow(d) = {x}
    BY <2>3, <2>4, BigFacts
  <2>6. cur' = SubtreeRoot(newBelow(d - 1), d - 1)
    BY <1>2, <1>4, <1>5, <2>1, <2>4, <2>5
  <2> QED BY <1>2, <2>3, <2>4, <2>6
<1>8. CASE BubbleNode
  <2>1. cur' = digestParent(op.path, d - 1, sideNodes(i), cur)
    BY <1>2, <1>8 DEF BubbleNode
  <2>2. npr' = TRUE
    BY <1>8 DEF BubbleNode
  <2>3. Big(newBelow(d - 1))
    <3>1. CASE i = 0 /\ ~ isLeaf(Data(sideNodes(i)))
      BY <1>2, <3>1
    <3>2. CASE i > 0 /\ npr
      <4>1. npr = TRUE
        BY <3>2 DEF TypeOK, FlagTypeOK
      <4> QED BY <1>2, <1>3, <4>1, BigFacts
    <3>3. CASE i > 0 /\ sideNodes(i) # Placeholder
      BY <1>2, <1>4, <3>3, BigFacts
    <3> QED BY <1>8, <3>1, <3>2, <3>3 DEF BubbleNode
  <2>4. newBelow(d - 1) # {}
    BY <2>3 DEF Big
  <2> QED BY <1>2, <1>4, <2>1, <2>2, <2>3, <2>4
<1> QED BY <1>6, <1>7, <1>8

\* The bubble loop keeps the invariant.
LEMMA InvBubble ==
  ASSUME TypeOK, CallInvariant, BubbleLeaf \/ BubbleSkip \/ BubbleNode
  PROVE  CallInvariant'
<1> DEFINE d == Len(side) - i
<1>1. /\ pc = "bubble" /\ UNCHANGED <<root, op, side, pnodes, err>>
      /\ \/ pc' = "bubble" /\ i' = i + 1
         \/ pc' = "unset" /\ ~ (i + 1 < Len(side))
  BY DEF BubbleLeaf, BubbleSkip, BubbleNode, NextSideNode, Goto
<1>2. /\ d \in 1 .. Depth
      /\ cur' = SubtreeRoot(newBelow(d - 1), d - 1)
      /\ newBelow(d - 1) # {}
  BY BubbleStep
<1>3. npr' = TRUE <=> Big(newBelow(d - 1))
  BY BubbleStep
<1>4. /\ RootInv' /\ CallInv' /\ WalkInv'
      /\ newMap' = newMap /\ \A l : newBelow(l)' = newBelow(l)
      /\ keyIsEmpty' = keyIsEmpty
  BY <1>1, InvFrame
<1>5. /\ pc' = "bubble" => Len(side') - i' = d - 1
      /\ pc' = "unset" => d - 1 = 0
  <2>1. Len(side) \in Nat /\ i \in 0 .. Len(side) - 1
    BY <1>1 DEF TypeOK, SliceTypeOK, LoopTypeOK, IsSlice
  <2> QED BY <1>1, <2>1
<1>6. OrphanInv' /\ SpineInv'
  BY <1>1 DEF OrphanInv, SpineInv
<1>7. BubbleInv'
  <2> SUFFICES ASSUME pc' = "bubble" PROVE BubbleInv'
    BY DEF BubbleInv
  <2>1. ~ keyIsEmpty'
    BY <1>1, <1>4 DEF CallInvariant, BubbleInv
  <2> HIDE DEF d
  <2> QED BY <1>2, <1>3, <1>4, <1>5, <2>1 DEF BubbleInv
<1>8. ResultInv'
  <2> SUFFICES ASSUME pc' = "unset" PROVE cur' = SubtreeRoot(EntriesOf(newMap'), 0)
    BY <1>1 DEF ResultInv
  <2>1. newBelow(0) = EntriesOf(newMap)
    BY <1>1, <1>2, NewParent DEF CallInvariant
  <2> QED BY <1>2, <1>4, <1>5, <2>1
<1> QED BY <1>4, <1>6, <1>7, <1>8 DEF CallInvariant

\* A call that returns the root of the new map publishes it.
LEMMA InvReturnNew ==
  ASSUME TypeOK, CallInvariant, pc # "idle", op.kind = "update",
         ReturnRoot(cur), cur = SubtreeRoot(EntriesOf(newMap), 0)
  PROVE  CallInvariant' /\ oldMap' = newMap
<1>1. op.publish = (op.kind = "update")
  BY DEF CallInvariant, CallInv
<1>2. root' = cur
  <2>1. op.publish = TRUE
    BY <1>1
  <2> QED BY <2>1 DEF ReturnRoot
<1>3. newMap \in Maps
  BY NewMapFacts DEF CallInvariant
<1>4. Return([status |-> "ok", root |-> cur])
  BY DEF ReturnRoot
<1> QED BY <1>2, <1>3, <1>4, InvReturn

\* An update's call: the facts about its arguments and levels that the steps of
\* updateWithSideNodes share.
LEMMA UpdateFacts ==
  ASSUME TypeOK, CallInvariant, pc \in UpdateLabels
  PROVE  /\ pc \notin {"idle", "root", "walk"}
         /\ Depth \in Nat /\ 0 < Depth /\ Len(side) \in 0 .. Depth
         /\ op.kind = "update" /\ op.path \in Paths
         /\ op.value \in Values /\ op.value # DefaultValue
         /\ commonPrefixCount \in 0 .. Depth
         /\ newLeaf = EntryHash(<<op.path, op.value>>)
         /\ <<op.path, op.value>> \in Entries
<1>1. /\ pc \notin {"idle", "root", "walk"} /\ op.kind = "update" /\ op.path \in Paths
      /\ op.value \in Values /\ op.value # DefaultValue
  BY ValuesAssumption DEF TypeOK, CallTypeOK, UpdateLabels
<1>2. Depth \in Nat /\ 0 < Depth
  BY DepthAssumption
<1>3. Len(side) \in Nat /\ Len(side) <= Depth
  BY DEF TypeOK, SliceTypeOK, IsSlice
<1>4. commonPrefixCount \in 0 .. Depth
  <2>1. CASE oldLeaf = Placeholder
    BY <1>2, <2>1 DEF commonPrefixCount
  <2>2. CASE oldLeaf # Placeholder
    <3>1. oldLeafPath \in Paths
      BY <1>1, <2>2, LeafFound DEF CallInvariant, Entries
    <3> QED BY <1>1, <2>2, <3>1, CommonPrefix DEF commonPrefixCount
  <2> QED BY <2>1, <2>2
<1>5. newLeaf = EntryHash(<<op.path, op.value>>) /\ <<op.path, op.value>> \in Entries
  BY <1>1 DEF newLeaf, EntryHash, Entries
<1> QED BY <1>1, <1>2, <1>3, <1>4, <1>5

\* Where the walk ended in a placeholder or in the key's own leaf, the new leaf
\* takes its place.
LEMMA LeafPlaced ==
  ASSUME TypeOK, CallInvariant, pc \in UpdateLabels, commonPrefixCount = Depth
  PROVE  /\ newBelow(Len(side)) = {<<op.path, op.value>>}
         /\ newLeaf = SubtreeRoot(newBelow(Len(side)), Len(side))
<1> DEFINE n == Len(side)
<1>1. /\ n \in 0 .. Depth /\ op.value # DefaultValue /\ op.path \in Paths
      /\ pc \notin {"idle", "root", "walk"}
      /\ newLeaf = EntryHash(<<op.path, op.value>>)
      /\ <<op.path, op.value>> \in Entries
  BY UpdateFacts
<1>2. \A e \in oldBelow(n) : e[1] = op.path
  <2>1. CASE oldLeaf = Placeholder
    BY <1>1, <2>1, LeafFound DEF CallInvariant
  <2>2. CASE oldLeaf # Placeholder
    <3>1. PICK e \in Entries : oldBelow(n) = {e} /\ oldLeafPath = e[1]
      BY <1>1, <2>2, LeafFound DEF CallInvariant
    <3>2. e[1] \in Paths /\ countCommonPrefix(op.path, e[1]) = Depth
      BY <2>2, <3>1 DEF commonPrefixCount, Entries
    <3>3. e[1] = op.path
      BY <1>1, <3>2, CommonPrefix
    <3> QED BY <3>1, <3>3
  <2> QED BY <2>1, <2>2
<1>3. \A e : e \in newBelow(n) <=> e = <<op.path, op.value>> \/ (e \in oldBelow(n) /\ e[1] # op.path)
  BY <1>1, NewMapFacts DEF CallInvariant
<1>4. newBelow(n) = {<<op.path, op.value>>}
  BY <1>2, <1>3
<1>5. SubtreeRoot({<<op.path, op.value>>}, n) = EntryHash(<<op.path, op.value>>)
  BY <1>1, SubtreeRootCases
<1> QED BY <1>1, <1>4, <1>5

\* Where it ended in another leaf, the two leaves part at the end of their common
\* prefix, and there is nothing beside the path between there and the end of the
\* walk.
LEMMA ForkPlaced ==
  ASSUME TypeOK, CallInvariant, pc \in UpdateLabels, commonPrefixCount # Depth
  PROVE  LET c == commonPrefixCount
         IN  /\ c \in Len(side) .. Depth - 1
             /\ Big(newBelow(c)) /\ newBelow(c + 1) = {<<op.path, op.value>>}
             /\ digestParent(op.path, c, oldLeaf, newLeaf) = SubtreeRoot(newBelow(c), c)
             /\ \A l \in Len(side) + 1 .. c : oldBeside(l) = {}
<1> DEFINE n == Len(side)
           c == commonPrefixCount
           p == op.path
           x == <<op.path, op.value>>
<1>1. /\ n \in 0 .. Depth /\ op.value # DefaultValue /\ p \in Paths
      /\ pc \notin {"idle", "root", "walk"} /\ Depth \in Nat
      /\ c \in 0 .. Depth /\ newLeaf = EntryHash(x) /\ x \in Entries
  BY UpdateFacts
<1>2. oldLeaf # Placeholder
  BY DEF commonPrefixCount
<1>3. PICK e \in Entries :
         /\ oldBelow(n) = {e} /\ oldLeaf = EntryHash(e) /\ oldLeafPath = e[1]
         /\ \A b \in 0 .. n - 1 : e[1][b] = p[b]
  BY <1>1, <1>2, LeafFound DEF CallInvariant
<1>4. e[1] \in Paths /\ c = countCommonPrefix(p, e[1])
  BY <1>2, <1>3 DEF commonPrefixCount, Entries
<1>5. /\ \A b \in 0 .. c - 1 : p[b] = e[1][b]
      /\ c < Depth /\ p[c] # e[1][c]
  BY <1>1, <1>4, CommonPrefix
<1>6. c \in n .. Depth - 1
  BY <1>1, <1>3, <1>5
<1>7. e \in EntriesOf(oldMap) /\ e[1] # p
  BY <1>3, <1>5 DEF oldBelow, Below
<1> HIDE DEF c, n, p, x
<1>8. \A l \in n .. Depth : oldBelow(l) \subseteq {e}
  <2>1. \A l \in n .. Depth : oldBelow(l) \subseteq oldBelow(n)
    BY <1>1, <1>6 DEF oldBelow, Below
  <2> QED BY <1>3, <2>1
<1>9. \A l \in n + 1 .. Depth : oldBeside(l) \subseteq {e}
  <2>1. \A l \in n + 1 .. Depth : oldBeside(l) \subseteq oldBelow(n)
    BY <1>1 DEF oldBeside, Beside, oldBelow, Below
  <2> QED BY <1>3, <2>1
<1>10. \A l \in n + 1 .. c : oldBeside(l) = {}
  <2>1. \A l \in n + 1 .. c : e \notin oldBeside(l)
    BY <1>1, <1>5, <1>6 DEF oldBeside, Beside, p
  <2> QED BY <1>1, <1>6, <1>9, <2>1
<1>11. oldBeside(c + 1) = {e}
  <2>1. e \in oldBeside(c + 1)
    BY <1>1, <1>5, <1>6, <1>7 DEF oldBeside, Beside, p
  <2> QED BY <1>1, <1>6, <1>9, <2>1
<1>12. newBelow(c + 1) = {x}
  <2>1. e \notin oldBelow(c + 1)
    BY <1>1, <1>5, <1>6 DEF oldBelow, Below, p
  <2>2. oldBelow(c + 1) = {}
    BY <1>1, <1>6, <1>8, <2>1
  <2>3. \A y : y \in newBelow(c + 1) <=> y = x \/ (y \in oldBelow(c + 1) /\ y[1] # p)
    <3>1. c + 1 \in 0 .. Depth
      BY <1>1, <1>6
    <3> QED BY <1>1, <3>1, NewMapFacts DEF CallInvariant, x, p
  <2> QED BY <2>2, <2>3
<1>13. c + 1 \in 1 .. Depth /\ c + 1 \in 0 .. Depth /\ (c + 1) - 1 = c
  BY <1>1, <1>6
<1>14. /\ newBelow(c) = newBelow(c + 1) \cup oldBeside(c + 1)
       /\ \A a \in newBelow(c + 1), b \in oldBeside(c + 1) : a # b
       /\ Big(newBelow(c)) =>
            digestParent(p, c, SubtreeRoot(oldBeside(c + 1), c + 1),
                         SubtreeRoot(newBelow(c + 1), c + 1)) = SubtreeRoot(newBelow(c), c)
  BY <1>1, <1>13, NewParent DEF CallInvariant, p
<1>15. Big(newBelow(c))
  BY <1>11, <1>12, <1>14, BigFacts
<1>16. SubtreeRoot({e}, c + 1) = oldLeaf /\ SubtreeRoot({x}, c + 1) = newLeaf
  BY <1>1, <1>3, <1>13, SubtreeRootCases
<1> QED BY <1>6, <1>10, <1>11, <1>12, <1>14, <1>15, <1>16 DEF c, n, p, x

\* The steps up to the start of the spine: the hash at the top level is in place
\* when the loop over the stale nodes, or the spine itself, is entered.
LEMMA InvStale ==
  ASSUME TypeOK, CallInvariant, pc \in UpdateLabels, NEW index, RemoveStale(index),
         UNCHANGED <<side, pnodes>>,
         cur' = SubtreeRoot(newBelow(topLevel), topLevel)
  PROVE  CallInvariant'
<1>1. /\ pc \notin {"idle", "root", "walk"} /\ Depth \in Nat /\ Len(side) \in 0 .. Depth
      /\ commonPrefixCount \in 0 .. Depth
  BY UpdateFacts
<1>2. /\ UNCHANGED <<root, op>>
      /\ pc' = "stale" \/ (pc' = "spine" /\ i' = 0)
  BY DEF RemoveStale, Goto
<1>3. /\ RootInv' /\ CallInv' /\ WalkInv'
      /\ \A l : newBelow(l)' = newBelow(l)
      /\ topLevel' = topLevel
  BY <1>1, <1>2, InvFrame
<1>4. pc' = "spine" => spineLevel' = topLevel
  <2>1. topLevel \in 0 .. Depth
    BY <1>1 DEF topLevel
  <2> QED BY <1>1, <1>2, <1>3, <2>1 DEF spineLevel
<1>5. OrphanInv' /\ BubbleInv' /\ ResultInv'
  BY <1>2 DEF OrphanInv, BubbleInv, ResultInv
<1>6. SpineInv'
  BY <1>2, <1>3, <1>4 DEF SpineInv
<1> QED BY <1>3, <1>5, <1>6 DEF CallInvariant

\* Storing the new leaf keeps the invariant; setting the value that is there
\* already returns the root.
LEMMA InvSetLeaf ==
  ASSUME TypeOK, CallInvariant, SetLeaf
  PROVE  CallInvariant'
<1>1. pc = "leaf" /\ pc \in UpdateLabels
  BY DEF SetLeaf, UpdateLabels
<1>2. CASE /\ pc' \in {"fork", "oldleaf"} /\ cur' = newLeaf
           /\ UNCHANGED <<root, op, side, pnodes>>
           /\ pc' = "fork" <=> commonPrefixCount # Depth
  <2>1. /\ RootInv' /\ CallInv' /\ WalkInv'
        /\ commonPrefixCount' = commonPrefixCount /\ newLeaf' = newLeaf
    BY <1>1, <1>2, InvFrame
  <2>2. SpineInv'
    BY <1>2, <2>1 DEF SpineInv
  <2>3. OrphanInv' /\ BubbleInv' /\ ResultInv'
    BY <1>2 DEF OrphanInv, BubbleInv, ResultInv
  <2> QED BY <2>1, <2>2, <2>3 DEF CallInvariant
<1>3. CASE /\ commonPrefixCount = Depth /\ RemoveStale(1) /\ cur' = newLeaf
           /\ UNCHANGED <<side, pnodes>>
  <2>1. cur' = SubtreeRoot(newBelow(topLevel), topLevel)
    BY <1>1, <1>3, LeafPlaced DEF topLevel
  <2> QED BY <1>1, <1>3, <2>1, InvStale
<1>4. CASE ReturnRoot(root)
  BY <1>4, InvReturnSame DEF ReturnRoot
<1>5. oldLeaf = Placeholder => commonPrefixCount = Depth
  BY DEF commonPrefixCount
<1> QED BY <1>2, <1>3, <1>4, <1>5 DEF SetLeaf, Goto

\* So do the fork and the removal of the old leaf, value and path.
LEMMA InvReplace ==
  ASSUME TypeOK, CallInvariant, Fork \/ DeleteOldLeaf \/ DeleteOldValue \/ DeleteStale
  PROVE  CallInvariant'
<1>1. pc \in {"fork", "oldleaf", "oldvalue", "stale"} /\ pc \in UpdateLabels
  BY DEF Fork, DeleteOldLeaf, DeleteOldValue, DeleteStale, UpdateLabels
<1>2. CASE Fork
  <2>1. /\ RemoveStale(1) /\ UNCHANGED <<side, pnodes>> /\ commonPrefixCount # Depth
        /\ cur' = digestParent(op.path, commonPrefixCount, oldLeaf, newLeaf)
    BY <1>2 DEF Fork, CallInvariant, SpineInv
  <2>2. cur' = SubtreeRoot(newBelow(topLevel), topLevel)
    BY <1>1, <2>1, ForkPlaced DEF topLevel
  <2> QED BY <1>1, <2>1, <2>2, InvStale
<1>3. CASE DeleteOldLeaf
  <2>1. /\ pc = "oldleaf" /\ pc' = "oldvalue" /\ UNCHANGED <<root, op, side, pnodes, cur>>
        /\ cur = newLeaf /\ commonPrefixCount = Depth
    BY <1>3 DEF DeleteOldLeaf, Goto, CallInvariant, SpineInv
  <2>2. /\ RootInv' /\ CallInv' /\ WalkInv'
        /\ commonPrefixCount' = commonPrefixCount /\ newLeaf' = newLeaf
    BY <2>1, InvFrame
  <2>3. SpineInv' /\ OrphanInv' /\ BubbleInv' /\ ResultInv'
    BY <2>1, <2>2 DEF SpineInv, OrphanInv, BubbleInv, ResultInv
  <2> QED BY <2>2, <2>3 DEF CallInvariant
<1>4. CASE DeleteOldValue
  <2>1. /\ RemoveStale(1) /\ UNCHANGED <<side, pnodes, cur>>
        /\ cur = newLeaf /\ commonPrefixCount = Depth
    BY <1>4 DEF DeleteOldValue, CallInvariant, SpineInv
  <2>2. cur' = SubtreeRoot(newBelow(topLevel), topLevel)
    BY <1>1, <2>1, LeafPlaced DEF topLevel
  <2> QED BY <1>1, <2>1, <2>2, InvStale
<1>5. CASE DeleteStale
  <2>1. /\ RemoveStale(i + 1) /\ UNCHANGED <<side, pnodes, cur>>
        /\ cur = SubtreeRoot(newBelow(topLevel), topLevel)
    BY <1>5 DEF DeleteStale, CallInvariant, SpineInv
  <2> QED BY <1>1, <2>1, InvStale
<1> QED BY <1>2, <1>3, <1>4, <1>5

\* The spine has a sibling exactly at the levels up to the top one, and the new
\* subtree above such a level is an inner node.
LEMMA SpineStep ==
  ASSUME TypeOK, CallInvariant, pc = "spine", NEW l, l = Depth - i
  PROVE  /\ l \in 1 .. Depth /\ topLevel \in 0 .. Depth
         /\ spineHasSibling <=> l <= topLevel
         /\ l <= topLevel =>
              digestParent(op.path, Depth - 1 - i, spineSibling, cur)
                = SubtreeRoot(newBelow(l - 1), l - 1)
<1> DEFINE n == Len(side)
           c == commonPrefixCount
           x == <<op.path, op.value>>
<1>0. pc \in UpdateLabels
  BY DEF UpdateLabels
<1>1. /\ n \in 0 .. Depth /\ c \in 0 .. Depth /\ Depth \in Nat /\ 0 < Depth
      /\ pc \notin {"idle", "root", "walk"}
      /\ op.value # DefaultValue
  BY <1>0, UpdateFacts
<1>2. i \in 0 .. Depth - 1
  BY DEF TypeOK, LoopTypeOK
<1>3. /\ l \in 1 .. Depth /\ l - 1 \in 0 .. Depth /\ Depth - 1 - i = l - 1
      /\ i >= offsetOfSideNodes <=> l <= n
  BY <1>1, <1>2 DEF offsetOfSideNodes
<1>4. c # Depth => n <= c
  BY <1>0, <1>1, ForkPlaced
<1>5. topLevel = IF c # Depth THEN c ELSE n
  BY DEF topLevel
<1>6. spineHasSibling <=> l <= topLevel
  BY <1>1, <1>2, <1>3, <1>4, <1>5 DEF spineHasSibling
<1>7. topLevel \in 0 .. Depth
  BY <1>1, <1>5
<1>8. ASSUME l <= topLevel
      PROVE  digestParent(op.path, Depth - 1 - i, spineSibling, cur)
               = SubtreeRoot(newBelow(l - 1), l - 1)
  <2>1. cur = SubtreeRoot(newBelow(l), l)
    <3>1. spineLevel = l
      BY <1>2, <1>3, <1>7, <1>8 DEF spineLevel
    <3> QED BY <3>1 DEF CallInvariant, SpineInv
  <2>2. spineSibling = SubtreeRoot(oldBeside(l), l)
    <3>1. CASE l <= n
      <4>1. n - (i - offsetOfSideNodes) = l /\ l \in 1 .. n
        BY <1>1, <1>2, <1>3, <3>1 DEF offsetOfSideNodes
      <4>2. side[l] = SubtreeRoot(oldBeside(l), l)
        BY <1>1, <4>1 DEF CallInvariant, WalkInv
      <4> QED BY <1>3, <3>1, <4>1, <4>2 DEF spineSibling, sideNodes, Reversed
    <3>2. CASE ~ (l <= n)
      <4>1. c # Depth /\ l \in n + 1 .. c
        BY <1>1, <1>3, <1>5, <1>8, <3>2
      <4>2. oldBeside(l) = {}
        BY <1>0, <4>1, ForkPlaced
      <4>3. l \in 0 .. Depth
        BY <1>3
      <4>4. SubtreeRoot({}, l) = Placeholder
        BY <4>3, SubtreeRootCases
      <4> QED BY <1>3, <3>2, <4>2, <4>4 DEF spineSibling
    <3> QED BY <3>1, <3>2
  <2>3. Big(newBelow(l - 1))
    <3>1. CASE c # Depth
      <4>1. Big(newBelow(c))
        BY <1>0, <3>1, ForkPlaced
      <4>2. newBelow(c) \subseteq newBelow(l - 1)
        BY <1>1, <1>3, <1>5, <1>8, <3>1 DEF newBelow, Below
      <4> QED BY <4>1, <4>2, BigFacts
    <3>2. CASE c = Depth
      <4>1. l - 1 \in 0 .. n - 1
        BY <1>1, <1>3, <1>5, <1>8, <3>2
      <4>2. Big(oldBelow(l - 1))
        BY <1>1, <4>1 DEF CallInvariant, WalkInv
      <4>3. PICK y \in oldBelow(l - 1) : y # <<op.path, oldMap[op.path]>>
        BY <4>2, BigFacts
      <4>4. y[1] # op.path
        <5>1. op.path \in Paths /\ oldMap \in Maps
          BY <1>1, NewMapFacts DEF CallInvariant, RootInv
        <5>2. y \in EntriesOf(oldMap)
          BY DEF oldBelow, Below
        <5>3. y = <<y[1], oldMap[y[1]]>>
          BY <5>1, <5>2, MapEntries
        <5> QED BY <4>3, <5>3
      <4>5. \A e : e \in newBelow(l - 1)
               <=> e = x \/ (e \in oldBelow(l - 1) /\ e[1] # op.path)
        BY <1>1, <1>3, NewMapFacts DEF CallInvariant
      <4>6. x \in newBelow(l - 1) /\ y \in newBelow(l - 1) /\ x # y
        BY <4>4, <4>5
      <4> QED BY <4>6, BigFacts
    <3> QED BY <3>1, <3>2
  <2>4. Big(newBelow(l - 1)) =>
          digestParent(op.path, l - 1, SubtreeRoot(oldBeside(l), l), SubtreeRoot(newBelow(l), l))
            = SubtreeRoot(newBelow(l - 1), l - 1)
    BY <1>1, <1>3, NewParent DEF CallInvariant
  <2> QED BY <1>3, <2>1, <2>2, <2>3, <2>4
<1> QED BY <1>3, <1>6, <1>7, <1>8

\* The spine loop keeps the invariant.
LEMMA InvSpine ==
  ASSUME TypeOK, CallInvariant, SpineSkip \/ SpineNode
  PROVE  CallInvariant'
<1> DEFINE l == Depth - i
           t == IF l - 1 < topLevel THEN l - 1 ELSE topLevel
<1>1. /\ pc = "spine" /\ UNCHANGED <<root, op, side, pnodes>>
      /\ \/ pc' = "spine" /\ i' = i + 1
         \/ pc' = "value" /\ ~ (i + 1 < Depth)
  BY DEF SpineSkip, SpineNode, NextSpine, Goto
<1>2. /\ l \in 1 .. Depth /\ topLevel \in 0 .. Depth
      /\ spineHasSibling <=> l <= topLevel
      /\ l <= topLevel =>
           digestParent(op.path, Depth - 1 - i, spineSibling, cur)
             = SubtreeRoot(newBelow(l - 1), l - 1)
  BY <1>1, SpineStep
<1>3. i \in 0 .. Depth - 1 /\ Depth \in Nat
  BY <1>1, DepthAssumption DEF TypeOK, LoopTypeOK
<1>4. cur' = SubtreeRoot(newBelow(t), t)
  <2>1. CASE SpineSkip
    <3>1. cur' = cur /\ ~ (l <= topLevel)
      BY <1>2, <2>1 DEF SpineSkip
    <3>2. spineLevel = t
      BY <1>2, <1>3, <3>1 DEF spineLevel
    <3> QED BY <1>1, <3>1, <3>2 DEF CallInvariant, SpineInv
  <2>2. CASE SpineNode
    <3>1. /\ l <= topLevel
          /\ cur' = digestParent(op.path, Depth - 1 - i, spineSibling, cur)
      BY <1>2, <2>2 DEF SpineNode
    <3>2. t = l - 1
      BY <1>2, <1>3, <3>1
    <3> QED BY <1>2, <3>1, <3>2
  <2> QED BY <2>1, <2>2
<1>5. /\ RootInv' /\ CallInv' /\ WalkInv'
      /\ newMap' = newMap /\ \A d : newBelow(d)' = newBelow(d)
      /\ topLevel' = topLevel
  BY <1>1, InvFrame
<1>6. OrphanInv' /\ BubbleInv'
  BY <1>1 DEF OrphanInv, BubbleInv
<1>7. SpineInv'
  <2>1. pc' = "spine" => spineLevel' = t
    <3>1. pc' = "spine" => Depth - i' = l - 1
      BY <1>1, <1>3
    <3> QED BY <1>5, <3>1 DEF spineLevel
  <2> HIDE DEF t
  <2> QED BY <1>1, <1>4, <1>5, <2>1 DEF SpineInv
<1>8. ResultInv'
  <2> SUFFICES ASSUME pc' = "value" PROVE cur' = SubtreeRoot(EntriesOf(newMap'), 0)
    BY <1>1 DEF ResultInv
  <2>1. t = 0
    BY <1>1, <1>2, <1>3
  <2>2. newBelow(0) = EntriesOf(newMap)
    BY <1>1, <1>2, NewParent DEF CallInvariant
  <2> HIDE DEF t
  <2> QED BY <1>4, <1>5, <2>1, <2>2
<1> QED BY <1>5, <1>6, <1>7, <1>8 DEF CallInvariant

-----------------------------------------------------------------------------
\* Every step of a call is invisible, or ends the call in one of three ways.

invisible == pc' # "idle" /\ UNCHANGED <<root, op, reply>>
succeeds  == pc' = "idle" /\ reply'.status = "ok" /\ op.kind = "update" /\ oldMap' = newMap
answers   == pc' = "idle" /\ reply'.status = "proof" /\ op.kind = "prove" /\ oldMap' = oldMap
fails     == pc' = "idle" /\ reply'.status = "error" /\ oldMap' = oldMap

\* Writing what is there already changes nothing.
LEMMA SameMap ==
  ASSUME TypeOK, RootInv, pc # "idle",
         oldMap[op.path] = IF op.value = DefaultValue THEN Absent ELSE op.value
  PROVE  newMap = oldMap
<1>1. oldMap \in Maps /\ op.path \in Paths
  BY NewMapFacts DEF RootInv
<1>2. oldMap = [x \in Paths |-> oldMap[x]]
  BY <1>1 DEF Maps
<1> QED BY <1>1, <1>2 DEF newMap, Maps

\* A call that fills its slices or replaces nodes is invisible to the caller.
LEMMA StepInside ==
  ASSUME TypeOK, CallInvariant,
         \/ FillRoot \/ FillStep \/ FillSibling \/ DeletePathNode
         \/ BubbleLeaf \/ BubbleSkip \/ BubbleNode
         \/ Fork \/ DeleteOldLeaf \/ DeleteOldValue \/ DeleteStale
         \/ SpineSkip \/ SpineNode
  PROVE  CallInvariant' /\ pc # "idle" /\ invisible
<1>1. CallInvariant'
  BY InvFillRoot, InvFillStep, InvFillSibling, InvDeletePathNode, InvBubble, InvReplace, InvSpine
<1>2. CASE FillRoot \/ FillStep \/ FillSibling
  BY <1>1, <1>2 DEF FillRoot, FillStep, FillSibling, afterWalk, Goto, invisible
<1>3. CASE DeletePathNode \/ BubbleLeaf \/ BubbleSkip \/ BubbleNode
  BY <1>1, <1>3 DEF DeletePathNode, BubbleLeaf, BubbleSkip, BubbleNode, NextSideNode, Goto,
     invisible
<1>4. CASE Fork \/ DeleteOldLeaf \/ DeleteOldValue \/ DeleteStale \/ SpineSkip \/ SpineNode
  BY <1>1, <1>4 DEF Fork, DeleteOldLeaf, DeleteOldValue, DeleteStale, SpineSkip, SpineNode,
     RemoveStale, NextSpine, Goto, invisible
<1> QED BY <1>2, <1>3, <1>4

\* Deleting a key that is empty already succeeds and changes nothing.
LEMMA StepAlreadyEmpty ==
  ASSUME TypeOK, CallInvariant, AlreadyEmpty
  PROVE  CallInvariant' /\ pc # "idle" /\ succeeds
<1>1. pc = "orphan" /\ keyIsEmpty /\ op.kind = "update" /\ op.value = DefaultValue
  BY DEF AlreadyEmpty, TypeOK, CallTypeOK, DeleteLabels
<1>2. Return([status |-> "ok", root |-> op.root]) /\ root' = root
  BY <1>1 DEF AlreadyEmpty, ReturnRoot, CallInvariant, CallInv
<1>3. CallInvariant' /\ oldMap' = oldMap
  BY <1>2, InvReturnSame
<1>4. oldMap[op.path] = Absent
  BY <1>1, LeafFound DEF CallInvariant, keyIsEmpty
<1>5. newMap = oldMap
  BY <1>1, <1>4, SameMap DEF CallInvariant
<1>6. pc' = "idle" /\ reply'.status = "ok"
  BY <1>2 DEF Return
<1> QED BY <1>1, <1>3, <1>5, <1>6 DEF succeeds

\* The new leaf is stored out of sight, unless the value was there already.
LEMMA StepSetLeaf ==
  ASSUME TypeOK, CallInvariant, SetLeaf
  PROVE  CallInvariant' /\ pc # "idle" /\ (invisible \/ succeeds)
<1>1. pc = "leaf" /\ op.kind = "update" /\ op.value \in Values /\ op.value # DefaultValue
  BY ValuesAssumption DEF SetLeaf, TypeOK, CallTypeOK, UpdateLabels
<1>2. CallInvariant'
  BY InvSetLeaf
<1>3. CASE pc' # "idle"
  BY <1>1, <1>2, <1>3 DEF SetLeaf, RemoveStale, ReturnRoot, Return, Goto, invisible
<1>4. CASE pc' = "idle"
  <2>1. /\ oldLeaf # Placeholder /\ commonPrefixCount = Depth
        /\ Data(oldLeaf).valueHash = digest(op.value) /\ ReturnRoot(root)
    BY <1>4 DEF SetLeaf, RemoveStale, Goto
  <2>2. Return([status |-> "ok", root |-> root]) /\ root' = root
    BY <2>1 DEF ReturnRoot
  <2>3. oldMap' = oldMap
    BY <2>2, InvReturnSame
  <2>4. PICK e \in Entries :
           /\ oldLeafPath = e[1] /\ Data(oldLeaf).valueHash = digest(e[2])
           /\ oldMap[op.path] = IF e[1] = op.path THEN e[2] ELSE Absent
    BY <1>1, <2>1, LeafFound DEF CallInvariant
  <2>5. e[1] = op.path
    <3>1. e[1] \in Paths /\ op.path \in Paths /\ countCommonPrefix(op.path, e[1]) = Depth
      BY <1>1, <2>1, <2>4 DEF commonPrefixCount, Entries, TypeOK, CallTypeOK
    <3> QED BY <3>1, CommonPrefix
  <2>6. e[2] = op.value
    BY <2>1, <2>4, DigestFacts
  <2>7. newMap = oldMap
    BY <1>1, <2>4, <2>5, <2>6, SameMap DEF CallInvariant
  <2>8. reply'.status = "ok"
    BY <2>2 DEF Return
  <2> QED BY <1>1, <1>2, <1>4, <2>3, <2>7, <2>8 DEF succeeds
<1> QED BY <1>3, <1>4

\* The last step of a write publishes the new map, or reports an error.
LEMMA StepWritten ==
  ASSUME TypeOK, CallInvariant, DeleteValue \/ SetValue
  PROVE  CallInvariant' /\ pc # "idle" /\ (succeeds \/ fails)
<1>1. /\ pc \in {"unset", "value"} /\ op.kind = "update"
      /\ \/ ReturnError
         \/ ReturnRoot(cur) /\ (pc = "value" \/ ~ err)
  BY DEF DeleteValue, SetValue, TypeOK, CallTypeOK, DeleteLabels, UpdateLabels
<1>2. CASE ReturnError
  <2>1. Return([status |-> "error"]) /\ root' = root
    BY <1>2 DEF ReturnError
  <2>2. CallInvariant' /\ oldMap' = oldMap
    BY <2>1, InvReturnSame
  <2> QED BY <1>1, <2>1, <2>2 DEF Return, fails
<1>3. CASE ReturnRoot(cur) /\ (pc = "value" \/ ~ err)
  <2>1. pc = "value" \/ (pc = "unset" /\ err = FALSE)
    BY <1>1, <1>3 DEF TypeOK, FlagTypeOK
  <2>2. cur = SubtreeRoot(EntriesOf(newMap), 0)
    BY <2>1 DEF CallInvariant, ResultInv
  <2>3. CallInvariant' /\ oldMap' = newMap
    BY <1>1, <1>3, <2>2, InvReturnNew
  <2>4. pc' = "idle" /\ reply'.status = "ok"
    BY <1>3 DEF ReturnRoot, Return
  <2> QED BY <1>1, <2>3, <2>4 DEF succeeds
<1> QED BY <1>1, <1>2, <1>3

\* A proof is an answer.
LEMMA StepProved ==
  ASSUME TypeOK, CallInvariant, ProveReturn
  PROVE  CallInvariant' /\ pc # "idle" /\ answers
<1>1. pc = "proof" /\ op.kind = "prove" /\ root' = root
  BY DEF ProveReturn, TypeOK, CallTypeOK, tree
<1>2. PICK r : Return(r) /\ r.status = "proof"
  BY DEF ProveReturn
<1>3. CallInvariant' /\ oldMap' = oldMap
  BY <1>1, <1>2, InvReturnSame
<1> QED BY <1>1, <1>2, <1>3 DEF Return, answers

\* A store error ends the call with an error, or sends a deletion on to remove
\* the value.
LEMMA StepError ==
  ASSUME TypeOK, CallInvariant, InvalidKey \/ StoreFault
  PROVE  CallInvariant' /\ pc # "idle" /\ (invisible \/ fails)
<1>1. OnError /\ pc # "idle"
  BY DEF InvalidKey, StoreFault, keyMissing, callsStore
<1>2. CASE pc \in {"orphan", "bubble"}
  <2>1. /\ pc' = "unset" /\ err' = TRUE /\ UNCHANGED <<root, op, side, pnodes, reply>>
    BY <1>1, <1>2 DEF OnError, Goto
  <2>2. RootInv' /\ CallInv' /\ WalkInv'
    BY <1>2, <2>1, InvFrame
  <2>3. OrphanInv' /\ BubbleInv' /\ SpineInv'
    BY <2>1 DEF OrphanInv, BubbleInv, SpineInv
  <2>4. ResultInv'
    BY <2>1 DEF ResultInv
  <2> QED BY <1>1, <2>1, <2>2, <2>3, <2>4 DEF CallInvariant, invisible
<1>3. CASE pc \notin {"orphan", "bubble"}
  <2>1. Return([status |-> "error"]) /\ root' = root
    BY <1>1, <1>3 DEF OnError, ReturnError
  <2>2. CallInvariant' /\ oldMap' = oldMap
    BY <2>1, InvReturnSame
  <2> QED BY <1>1, <2>1, <2>2 DEF Return, fails
<1> QED BY <1>2, <1>3

\* All steps of a call together.
LEMMA StepEffect ==
  ASSUME TypeOK, CallInvariant, Step
  PROVE  CallInvariant' /\ pc # "idle" /\ (invisible \/ succeeds \/ answers \/ fails)
  BY StepInside, StepAlreadyEmpty, StepSetLeaf, StepWritten, StepProved, StepError DEF Step

\* A stuttering step keeps the invariant.
LEMMA InvStutter ==
  ASSUME CallInvariant, UNCHANGED vars
  PROVE  CallInvariant'
<1>1. UNCHANGED <<root, pc, op, side, pnodes, i, cur, npr, err>>
  BY DEF vars, tree, locals
<1>2. oldMap' = oldMap /\ newMap' = newMap
  BY <1>1 DEF oldMap, newMap
<1>3. /\ \A d : newBelow(d)' = newBelow(d) /\ oldBelow(d)' = oldBelow(d)
      /\ \A d : oldBeside(d)' = oldBeside(d)
  BY <1>1, <1>2 DEF newBelow, oldBelow, oldBeside
<1>4. keyIsEmpty' = keyIsEmpty /\ commonPrefixCount' = commonPrefixCount
  BY <1>1 DEF keyIsEmpty, commonPrefixCount, oldLeafPath, oldLeaf, pathNodes, Reversed
<1>5. topLevel' = topLevel /\ newLeaf' = newLeaf /\ spineLevel' = spineLevel
  BY <1>1, <1>4 DEF topLevel, newLeaf, spineLevel
<1>6. RootInv' /\ CallInv' /\ OrphanInv'
  BY <1>1, <1>2 DEF CallInvariant, RootInv, CallInv, OrphanInv
<1>7. WalkInv'
  BY <1>1, <1>3 DEF CallInvariant, WalkInv
<1>8. BubbleInv'
  BY <1>1, <1>3, <1>4 DEF CallInvariant, BubbleInv
<1>9. SpineInv' /\ ResultInv'
  BY <1>1, <1>2, <1>3, <1>4, <1>5 DEF CallInvariant, SpineInv, ResultInv
<1> QED BY <1>6, <1>7, <1>8, <1>9 DEF CallInvariant

\* At every step of every call the slices of fillSideNodes are the path and its
\* siblings in the reference tree, and the running hash of the rebuild loops is
\* the reference root of the new subtree (smt.go), whatever stores fail.
THEOREM InvariantHolds == Spec => []CallInvariant
<1>1. Init => CallInvariant
  BY InvInit
<1>2. TypeOK /\ CallInvariant /\ [Next]_vars => CallInvariant'
  BY InvCall, StepEffect, InvStutter DEF Next
<1> QED BY <1>1, <1>2, TypeCorrect, PTL DEF Spec

-----------------------------------------------------------------------------
\* The tree implements the authenticated map.

\* A call of the API begins a call of the map.
LEMMA RefineCall ==
  ASSUME Call
  PROVE  \E c \in Map!Calls : Map!Begin(c)
<1>1. PICK o : /\ Begin(o)
               /\ [kind |-> o.kind, path |-> o.path, value |-> o.value] \in Map!Calls
  <2>1. PICK k \in Keys : \/ \E v \in Values \cup {DefaultValue} :
                                Begin(UpdateOp(PathOf[k], v, root, TRUE))
                          \/ \E u \in BOOLEAN : Begin(ProveOp(PathOf[k], root, u))
    BY DEF Call, Update, Delete, Prove, ProveUpdatable, ProveForRoot
  <2>2. PathOf[k] \in Paths
    BY SMTAssumption
  <2>3. CASE \E v \in Values \cup {DefaultValue} : Begin(UpdateOp(PathOf[k], v, root, TRUE))
    <3>1. PICK v \in Values \cup {DefaultValue} : Begin(UpdateOp(PathOf[k], v, root, TRUE))
      BY <2>3
    <3>2. LET o == UpdateOp(PathOf[k], v, root, TRUE)
          IN  o.kind = "update" /\ o.path = PathOf[k] /\ o.value = v
      BY DEF UpdateOp
    <3> QED BY <2>2, <3>1, <3>2 DEF Map!Calls
  <2>4. CASE \E u \in BOOLEAN : Begin(ProveOp(PathOf[k], root, u))
    <3>1. PICK u \in BOOLEAN : Begin(ProveOp(PathOf[k], root, u))
      BY <2>4
    <3>2. LET o == ProveOp(PathOf[k], root, u)
          IN  o.kind = "prove" /\ o.path = PathOf[k] /\ o.value = DefaultValue
      BY DEF ProveOp
    <3> QED BY <2>2, <3>1, <3>2 DEF Map!Calls
  <2> QED BY <2>1, <2>3, <2>4
<1>2. /\ pc = "idle" /\ pc' = "root" /\ op' = o /\ root' = root
      /\ reply'.status = "none"
  BY <1>1 DEF Begin, tree, NoReply
<1>3. Map!Begin([kind |-> o.kind, path |-> o.path, value |-> o.value])
  BY <1>2 DEF Map!Begin, Map!NoCall, NoOp
<1> QED BY <1>1, <1>3

\* A step of a call is a step of the map, or none.
LEMMA RefineStep ==
  ASSUME TypeOK, CallInvariant, Step
  PROVE  [Map!Next]_(Map!vars)
<1> DEFINE c == [kind |-> op.kind, path |-> op.path, value |-> op.value]
<1>1. pc # "idle" /\ (invisible \/ succeeds \/ answers \/ fails)
  BY StepEffect
<1>2. op.kind \in {"update", "prove"}
  BY <1>1 DEF TypeOK, CallTypeOK
<1>3. /\ c # [kind |-> "none"]
      /\ c.kind = op.kind /\ c.path = op.path /\ c.value = op.value
  <2>1. c.kind = op.kind /\ c.path = op.path /\ c.value = op.value
    OBVIOUS
  <2>2. [kind |-> "none"].kind = "none"
    OBVIOUS
  <2> QED BY <1>2, <2>1, <2>2
<1>4. CASE invisible
  BY <1>1, <1>4 DEF invisible, Map!vars
<1>5. CASE succeeds
  <2>1. Map!Write
    BY <1>1, <1>3, <1>5 DEF succeeds, Map!Write, Map!NoCall, NoOp, oldMap, newMap
  <2> QED BY <2>1 DEF Map!Next
<1>6. CASE answers
  <2>1. Map!Read
    BY <1>1, <1>3, <1>6 DEF answers, Map!Read, Map!NoCall, NoOp, oldMap
  <2> QED BY <2>1 DEF Map!Next
<1>7. CASE fails
  <2>1. Map!Fail
    BY <1>1, <1>3, <1>7 DEF fails, Map!Fail, Map!NoCall, NoOp, oldMap
  <2> QED BY <2>1 DEF Map!Next
<1> QED BY <1>1, <1>4, <1>5, <1>6, <1>7

\* The tree implements the authenticated map (smt.go, Update, Delete and Prove):
\* the root always commits to one map, a call that succeeds changes exactly the
\* key it was given, and a call that fails changes nothing, at whichever store
\* call it fails.
THEOREM Refinement == Spec => ImplementsMap
<1>1. Init => Map!Init
  <2> SUFFICES ASSUME Init PROVE Map!Init
    OBVIOUS
  <2> DEFINE m == [p \in Paths |-> Absent]
  <2>1. m \in Maps /\ EntriesOf(m) = {} /\ 0 \in 0 .. Depth
    BY ValuesAssumption, DepthAssumption DEF Maps, EntriesOf, Entries
  <2>2. root = SubtreeRoot(EntriesOf(m), 0)
    BY <2>1, SubtreeRootCases DEF Init
  <2>3. CommittedMap(root) = m
    BY <2>1, <2>2, CommittedMapOfRoot
  <2> QED BY <2>3 DEF Init, Map!Init, Map!NoCall, NoOp, NoReply
<1>2. TypeOK /\ CallInvariant /\ [Next]_vars => [Map!Next]_(Map!vars)
  <2> SUFFICES ASSUME TypeOK, CallInvariant, [Next]_vars PROVE [Map!Next]_(Map!vars)
    OBVIOUS
  <2>1. CASE Call
    BY <2>1, RefineCall DEF Map!Next
  <2>2. CASE Step
    BY <2>2, RefineStep
  <2>3. CASE UNCHANGED vars
    BY <2>3 DEF vars, tree, locals, Map!vars
  <2> QED BY <2>1, <2>2, <2>3 DEF Next
<1> QED BY <1>1, <1>2, TypeCorrect, InvariantHolds, PTL DEF Spec, ImplementsMap, Map!Spec

-----------------------------------------------------------------------------
(***************************************************************************)
(* What the two stores hold: between two calls the tree of the value       *)
(* store's entries, and nothing else, as long as no store call has failed. *)
(*                                                                         *)
(* Deleting a node by its digest is right only if no other part of the     *)
(* tree has the same digest.  NodeIdentity says when two places of two     *)
(* trees share one; the rest follows the calls of smt.go step by step.     *)
(***************************************************************************)

\* When two subtrees have the same root.

\* A half of the subtree on the path p is the subtree on a neighbouring path.
LEMMA HalfBelow ==
  ASSUME NEW L \in SUBSET Entries, NEW p \in Paths, NEW c \in 0 .. Depth - 1, NEW b \in Bits
  PROVE  /\ [p EXCEPT ![c] = b] \in Paths
         /\ Half(Below(L, p, c), c, b) = Below(L, [p EXCEPT ![c] = b], c + 1)
<1> DEFINE q == [p EXCEPT ![c] = b]
<1>1. Depth \in Nat /\ c \in Nat /\ c + 1 - 1 = c
  BY DepthAssumption
<1>2. q \in Paths /\ q[c] = b /\ \A a \in 0 .. c - 1 : q[a] = p[a]
  BY <1>1 DEF Paths
<1>3. \A a : a \in 0 .. (c + 1) - 1 <=> a \in 0 .. c - 1 \/ a = c
  BY <1>1
<1> HIDE DEF q
<1>4. \A e : e \in Half(Below(L, p, c), c, b) <=> e \in Below(L, q, c + 1)
  BY <1>2, <1>3 DEF Half, Below
<1> QED BY <1>2, <1>4 DEF q

\* The shape of the root of a subtree of a map, at every level.
LEMMA BelowShape ==
  ASSUME NEW m \in Maps, NEW p \in Paths, NEW d \in 0 .. Depth
  PROVE  LET A == Below(EntriesOf(m), p, d)
         IN  /\ A \in SUBSET Entries
             /\ Big(A) => d \in 0 .. Depth - 1
             /\ SubtreeRoot(A, d) = Placeholder <=> A = {}
             /\ A # {} => (isLeaf(Data(SubtreeRoot(A, d))) <=> ~ Big(A))
<1> DEFINE A == Below(EntriesOf(m), p, d)
<1>1. A \in SUBSET Entries
  BY MapEntries DEF Below
<1>2. d = Depth => ~ Big(A)
  BY MapEntries
<1>3. d < Depth \/ ~ Big(A)
  BY <1>2, DepthAssumption
<1>4. Big(A) => d \in 0 .. Depth - 1
  BY <1>2, DepthAssumption
<1> HIDE DEF A
<1>5. /\ SubtreeRoot(A, d) = Placeholder <=> A = {}
      /\ A # {} => (isLeaf(Data(SubtreeRoot(A, d))) <=> ~ Big(A))
  BY <1>1, <1>3, RootShape
<1> QED BY <1>1, <1>4, <1>5 DEF A

\* Two subtrees of maps with the same root hold the same entries, and are at the
\* same level if they are more than a leaf: a digest names one place.
LEMMA NodeIdentity ==
  ASSUME NEW m \in Maps, NEW k \in Maps
  PROVE  \A p, q \in Paths : \A c, d \in 0 .. Depth :
            LET A == Below(EntriesOf(m), p, c)
                B == Below(EntriesOf(k), q, d)
            IN  SubtreeRoot(A, c) = SubtreeRoot(B, d) => A = B /\ (Big(A) => c = d)
<1> DEFINE L == EntriesOf(m)
           K == EntriesOf(k)
           Same(p, q, c, d) == SubtreeRoot(Below(L, p, c), c) = SubtreeRoot(Below(K, q, d), d)
           Good(p, q, c, d) == /\ Below(L, p, c) = Below(K, q, d)
                               /\ Big(Below(L, p, c)) => c = d
           Wrong(h) == \E p, q \in Paths : \E c, d \in 0 .. Depth :
                          h = Depth - c /\ Same(p, q, c, d) /\ ~ Good(p, q, c, d)
           T == {h \in Nat : Wrong(h)}
<1>0. Depth \in Nat
  BY DepthAssumption
<1>1. SUFFICES ASSUME T # {} PROVE FALSE
  <2>1. \A p, q \in Paths : \A c, d \in 0 .. Depth :
           Same(p, q, c, d) /\ ~ Good(p, q, c, d) => Depth - c \in T
    BY <1>0
  <2> QED BY <1>1, <2>1
<1>2. PICK h \in T : \A g \in T : h <= g
  BY <1>1, LeastElement
<1>3. PICK p \in Paths, q \in Paths, c \in 0 .. Depth, d \in 0 .. Depth :
         h = Depth - c /\ Same(p, q, c, d) /\ ~ Good(p, q, c, d)
  BY <1>2
<1> DEFINE A == Below(L, p, c)
           B == Below(K, q, d)
<1>4. /\ L \in SUBSET Entries /\ K \in SUBSET Entries
      /\ SubtreeRoot(A, c) = SubtreeRoot(B, d)
  BY <1>3, MapEntries
<1>5. /\ A \in SUBSET Entries /\ (Big(A) => c \in 0 .. Depth - 1)
      /\ SubtreeRoot(A, c) = Placeholder <=> A = {}
      /\ A # {} => (isLeaf(Data(SubtreeRoot(A, c))) <=> ~ Big(A))
  BY BelowShape
<1>6. /\ B \in SUBSET Entries /\ (Big(B) => d \in 0 .. Depth - 1)
      /\ SubtreeRoot(B, d) = Placeholder <=> B = {}
      /\ B # {} => (isLeaf(Data(SubtreeRoot(B, d))) <=> ~ Big(B))
  BY BelowShape
<1>7. ~ (A = B /\ (Big(A) => c = d))
  BY <1>3
<1>8. A # {} /\ B # {} /\ (Big(A) <=> Big(B))
  <2>1. ~ Big({})
    BY BigFacts
  <2> QED BY <1>4, <1>5, <1>6, <1>7, <2>1
<1>9. CASE ~ Big(A)
  <2>1. PICK x \in Entries : A = {x}
    BY <1>5, <1>8, <1>9, BigFacts
  <2>2. PICK y \in Entries : B = {y}
    BY <1>6, <1>8, <1>9, BigFacts
  <2>3. EntryHash(x) = EntryHash(y)
    BY <1>4, <2>1, <2>2, SubtreeRootCases
  <2>4. LeafData(x[1], digest(x[2])) = LeafData(y[1], digest(y[2]))
    BY <2>3, DigestFacts DEF EntryHash, digestLeaf
  <2>5. x[1] = y[1] /\ digest(x[2]) = digest(y[2])
    BY <2>4, DigestFacts
  <2>6. x[2] = y[2]
    BY <2>5, DigestFacts
  <2>7. x = <<x[1], x[2]>> /\ y = <<y[1], y[2]>>
    BY DEF Entries
  <2> QED BY <1>7, <1>9, <2>1, <2>2, <2>5, <2>6, <2>7
<1>10. CASE Big(A)
  <2>1. c \in 0 .. Depth - 1 /\ d \in 0 .. Depth - 1
    BY <1>5, <1>6, <1>8, <1>10
  <2>2. c \in Nat /\ d \in Nat /\ c + 1 \in 0 .. Depth /\ d + 1 \in 0 .. Depth
        /\ Depth - (c + 1) \in Nat /\ ~ (h <= Depth - (c + 1))
    BY <1>0, <1>3, <2>1
  <2>3. /\ SubtreeRoot(A, c) = digestNode(SubtreeRoot(Half(A, c, 0), c + 1),
                                          SubtreeRoot(Half(A, c, 1), c + 1))
        /\ SubtreeRoot(B, d) = digestNode(SubtreeRoot(Half(B, d, 0), d + 1),
                                          SubtreeRoot(Half(B, d, 1), d + 1))
    <3>1. c < Depth /\ d < Depth
      BY <1>0, <2>1
    <3> HIDE DEF A, B
    <3> QED BY <1>5, <1>6, <1>8, <1>10, <3>1, SubtreeRootCases
  <2>4. ASSUME NEW b \in Bits
        PROVE  /\ Half(A, c, b) = Half(B, d, b)
               /\ Big(Half(A, c, b)) => c = d
    <3>1. SubtreeRoot(Half(A, c, b), c + 1) = SubtreeRoot(Half(B, d, b), d + 1)
      <4> HIDE DEF A, B
      <4>1. NodeData(SubtreeRoot(Half(A, c, 0), c + 1), SubtreeRoot(Half(A, c, 1), c + 1))
          = NodeData(SubtreeRoot(Half(B, d, 0), d + 1), SubtreeRoot(Half(B, d, 1), d + 1))
        BY <1>4, <2>3, DigestFacts DEF digestNode
      <4>2. /\ SubtreeRoot(Half(A, c, 0), c + 1) = SubtreeRoot(Half(B, d, 0), d + 1)
            /\ SubtreeRoot(Half(A, c, 1), c + 1) = SubtreeRoot(Half(B, d, 1), d + 1)
        BY <4>1, DigestFacts
      <4> QED BY <4>2 DEF Bits
    <3> DEFINE pb == [p EXCEPT ![c] = b]
               qb == [q EXCEPT ![d] = b]
    <3>2. /\ pb \in Paths /\ Half(A, c, b) = Below(L, pb, c + 1)
          /\ qb \in Paths /\ Half(B, d, b) = Below(K, qb, d + 1)
      BY <1>4, <2>1, HalfBelow
    <3> HIDE DEF pb, qb, A, B, L, K
    <3>3. Same(pb, qb, c + 1, d + 1)
      BY <3>1, <3>2
    <3>4. ~ Wrong(Depth - (c + 1))
      BY <1>2, <2>2
    <3>5. Good(pb, qb, c + 1, d + 1)
      BY <2>2, <3>2, <3>3, <3>4
    <3>6. c + 1 = d + 1 => c = d
      BY <2>2
    <3> QED BY <3>2, <3>5, <3>6
  <2>5. \A e \in Entries : \A b \in 0 .. Depth - 1 : e[1][b] \in {0, 1}
    BY DEF Entries, Paths, Bits
  <2>6. A = Half(A, c, 0) \cup Half(A, c, 1) /\ B = Half(B, d, 0) \cup Half(B, d, 1)
    BY <1>5, <1>6, <2>1, <2>5 DEF Half
  <2>7. A = B
    BY <2>4, <2>6 DEF Bits
  <2>8. ~ Big(Half(A, c, 0)) /\ ~ Big(Half(A, c, 1))
    BY <1>7, <2>4, <2>7 DEF Bits
  <2>9. PICK x \in Half(A, c, 0), y \in Half(A, c, 1) : TRUE
    <3>1. Half(A, c, 0) # {} /\ Half(A, c, 1) # {}
      <4> HIDE DEF A
      <4> QED BY <1>10, <2>6, <2>8
    <3> QED BY <3>1
  <2>10. /\ x \in A /\ y \in A /\ x \in B /\ y \in B
         /\ x[1][c] = 0 /\ y[1][c] = 1
    BY <2>7 DEF Half
  <2>11. x[1][d] = 0 /\ y[1][d] = 1
    <3>1. x \in Half(B, d, 0) /\ y \in Half(B, d, 1)
      BY <2>4, <2>9 DEF Bits
    <3> QED BY <3>1 DEF Half
  <2>12. /\ \A a \in 0 .. c - 1 : x[1][a] = y[1][a]
         /\ \A a \in 0 .. d - 1 : x[1][a] = y[1][a]
    BY <2>10 DEF Below
  <2>13. c = d
    BY <2>2, <2>10, <2>11, <2>12
  <2> QED BY <1>7, <2>7, <2>13
<1> QED BY <1>9, <1>10

-----------------------------------------------------------------------------
\* The nodes of a tree, on a path and off it.

\* Membership in the three sets of nodes.
LEMMA OffPathNodes ==
  ASSUME NEW L, NEW p, NEW h
  PROVE  h \in OffPath(L, p) <=>
            \E e \in L, d \in 0 .. Depth :
               Leaves(p, e[1], d) /\ h = SubtreeRoot(Below(L, e[1], d), d)
<1>1. ASSUME NEW e \in L, NEW d \in 0 .. Depth, Leaves(p, e[1], d),
             h = SubtreeRoot(Below(L, e[1], d), d)
      PROVE  h \in OffPath(L, p)
  <2> DEFINE x == <<e, d>>
  <2>1. x \in L \X (0 .. Depth) /\ x[1] = e /\ x[2] = d
    OBVIOUS
  <2> HIDE DEF x
  <2> QED BY <1>1, <2>1 DEF OffPath
<1>2. ASSUME h \in OffPath(L, p)
      PROVE  \E e \in L, d \in 0 .. Depth :
                Leaves(p, e[1], d) /\ h = SubtreeRoot(Below(L, e[1], d), d)
  <2>1. PICK x \in L \X (0 .. Depth) :
           Leaves(p, x[1][1], x[2]) /\ h = SubtreeRoot(Below(L, x[1][1], x[2]), x[2])
    BY <1>2 DEF OffPath
  <2>2. x[1] \in L /\ x[2] \in 0 .. Depth
    OBVIOUS
  <2> QED BY <2>1, <2>2
<1> QED BY <1>1, <1>2

LEMMA OnPathNodes ==
  ASSUME NEW L, NEW p, NEW D, NEW h
  PROVE  h \in OnPath(L, p, D) <=>
            \E d \in D : Below(L, p, d) # {} /\ h = SubtreeRoot(Below(L, p, d), d)
  BY DEF OnPath

LEMMA AllNodes ==
  ASSUME NEW L, NEW h
  PROVE  h \in TreeNodes(L) <=>
            \E e \in L, d \in 0 .. Depth : h = SubtreeRoot(Below(L, e[1], d), d)
  BY DEF TreeNodes

\* A path that does not leave p sees the same subtree as p.
LEMMA BelowAlong ==
  ASSUME NEW L, NEW p, NEW q, NEW d, ~ Leaves(p, q, d)
  PROVE  Below(L, q, d) = Below(L, p, d)
  BY DEF Leaves, Below

\* The nodes of a tree are the ones on a path and the ones off it.
LEMMA TreeSplits ==
  ASSUME NEW L, NEW p
  PROVE  TreeNodes(L) = OffPath(L, p) \cup OnPath(L, p, 0 .. Depth)
<1>1. ASSUME NEW h \in TreeNodes(L) PROVE h \in OffPath(L, p) \cup OnPath(L, p, 0 .. Depth)
  <2>1. PICK e \in L, d \in 0 .. Depth : h = SubtreeRoot(Below(L, e[1], d), d)
    BY AllNodes
  <2>2. CASE Leaves(p, e[1], d)
    BY <2>1, <2>2, OffPathNodes
  <2>3. CASE ~ Leaves(p, e[1], d)
    <3>1. Below(L, e[1], d) = Below(L, p, d) /\ e \in Below(L, e[1], d)
      <4>1. Below(L, e[1], d) = Below(L, p, d)
        BY <2>3, BelowAlong
      <4> QED BY <4>1 DEF Below
    <3> QED BY <2>1, <3>1, OnPathNodes
  <2> QED BY <2>2, <2>3
<1>2. ASSUME NEW h \in OffPath(L, p) PROVE h \in TreeNodes(L)
  BY OffPathNodes, AllNodes
<1>3. ASSUME NEW h \in OnPath(L, p, 0 .. Depth) PROVE h \in TreeNodes(L)
  <2>1. PICK d \in 0 .. Depth : Below(L, p, d) # {} /\ h = SubtreeRoot(Below(L, p, d), d)
    BY DEF OnPath
  <2>2. PICK e \in Below(L, p, d) : TRUE
    BY <2>1
  <2>3. e \in L /\ ~ Leaves(p, e[1], d)
    BY DEF Below, Leaves
  <2>4. Below(L, e[1], d) = Below(L, p, d)
    BY <2>3, BelowAlong
  <2> QED BY <2>1, <2>3, <2>4, AllNodes
<1> QED BY <1>1, <1>2, <1>3

\* A write at p leaves the nodes off the path of p as they are.
LEMMA OffPathKept ==
  ASSUME NEW m \in Maps, NEW k \in Maps, NEW p \in Paths,
         \A x \in Paths : x # p => k[x] = m[x]
  PROVE  OffPath(EntriesOf(k), p) = OffPath(EntriesOf(m), p)
<1>1. ASSUME NEW f \in Maps, NEW g \in Maps, \A x \in Paths : x # p => g[x] = f[x],
             NEW h \in OffPath(EntriesOf(f), p)
      PROVE  h \in OffPath(EntriesOf(g), p)
  <2>1. PICK e \in EntriesOf(f), d \in 0 .. Depth :
           Leaves(p, e[1], d) /\ h = SubtreeRoot(Below(EntriesOf(f), e[1], d), d)
    BY OffPathNodes
  <2>2. \A x \in Entries : x[1] # p => (x \in EntriesOf(f) <=> x \in EntriesOf(g))
    BY <1>1 DEF EntriesOf, Entries
  <2>3. e \in Entries /\ e[1] # p
    BY <2>1 DEF Leaves, EntriesOf
  <2>4. \A x : Leaves(p, e[1], d) /\ (\A b \in 0 .. d - 1 : x[1][b] = e[1][b]) => x[1] # p
    BY DEF Leaves
  <2>5. Below(EntriesOf(f), e[1], d) = Below(EntriesOf(g), e[1], d)
    <3>1. EntriesOf(f) \subseteq Entries /\ EntriesOf(g) \subseteq Entries
      BY DEF EntriesOf
    <3> QED BY <2>1, <2>2, <2>4, <3>1 DEF Below
  <2>6. e \in EntriesOf(g)
    BY <2>2, <2>3
  <2> QED BY <2>1, <2>5, <2>6, OffPathNodes
<1>2. OffPath(EntriesOf(k), p) \subseteq OffPath(EntriesOf(m), p)
  BY <1>1
<1>3. OffPath(EntriesOf(m), p) \subseteq OffPath(EntriesOf(k), p)
  BY <1>1
<1> QED BY <1>2, <1>3

\* The sibling of a node on the path is off the path.
LEMMA BesideOff ==
  ASSUME NEW L \in SUBSET Entries, NEW p \in Paths, NEW d \in 1 .. Depth, Beside(L, p, d) # {}
  PROVE  SubtreeRoot(Beside(L, p, d), d) \in OffPath(L, p)
<1>1. PICK e \in Beside(L, p, d) : TRUE
  OBVIOUS
<1>2. Depth \in Nat /\ d - 1 \in 0 .. Depth - 1 /\ d - 1 \in 0 .. d - 1 /\ d \in 0 .. Depth
  BY DepthAssumption
<1>3. /\ e \in L /\ e[1][d - 1] # p[d - 1] /\ Leaves(p, e[1], d)
      /\ \A b \in 0 .. d - 2 : e[1][b] = p[b]
  BY <1>2 DEF Beside, Leaves
<1>4. \A x \in L : x[1][d - 1] \in {0, 1}
  BY <1>2 DEF Entries, Paths, Bits
<1>5. p[d - 1] \in {0, 1}
  BY <1>2 DEF Paths, Bits
<1>6. \A b : b \in 0 .. d - 1 <=> b \in 0 .. d - 2 \/ b = d - 1
  BY <1>2
<1>7. \A x \in L : x \in Beside(L, p, d) <=> x \in Below(L, e[1], d)
  BY <1>3, <1>4, <1>5, <1>6 DEF Beside, Below
<1>8. Beside(L, p, d) = Below(L, e[1], d)
  BY <1>7 DEF Beside, Below
<1> QED BY <1>2, <1>3, <1>8, OffPathNodes

\* A node on the path, if it is an inner node or the leaf of p itself, has a
\* digest that no node off the path has, in this tree or in any other.
LEMMA PathNodeApart ==
  ASSUME NEW m \in Maps, NEW k \in Maps, NEW p \in Paths, NEW d \in 0 .. Depth,
         LET A == Below(EntriesOf(k), p, d)
         IN  Big(A) \/ \E x : A = {x} /\ x[1] = p
  PROVE  SubtreeRoot(Below(EntriesOf(k), p, d), d) \notin OffPath(EntriesOf(m), p)
<1> DEFINE A == Below(EntriesOf(k), p, d)
           L == EntriesOf(m)
<1> SUFFICES ASSUME SubtreeRoot(A, d) \in OffPath(L, p) PROVE FALSE
  OBVIOUS
<1>1. PICK e \in L, c \in 0 .. Depth :
         Leaves(p, e[1], c) /\ SubtreeRoot(A, d) = SubtreeRoot(Below(L, e[1], c), c)
  BY OffPathNodes
<1>2. e[1] \in Paths
  BY MapEntries DEF Entries
<1>3. A = Below(L, e[1], c) /\ (Big(A) => d = c)
  BY <1>1, <1>2, NodeIdentity
<1>4. e \in A
  BY <1>3 DEF Below
<1>5. CASE Big(A)
  <2>1. ~ Leaves(p, e[1], d)
    BY <1>4 DEF Below, Leaves
  <2> QED BY <1>1, <1>3, <1>5, <2>1
<1>6. CASE \E x : A = {x} /\ x[1] = p
  BY <1>1, <1>4, <1>6 DEF Leaves
<1> QED BY <1>5, <1>6

\* Nor does it have the digest of another level of the path, if it is inner.
LEMMA LevelApart ==
  ASSUME NEW m \in Maps, NEW k \in Maps, NEW p \in Paths,
         NEW c \in 0 .. Depth, NEW d \in 0 .. Depth, c # d,
         Big(Below(EntriesOf(m), p, c)) \/ Big(Below(EntriesOf(k), p, d))
  PROVE  SubtreeRoot(Below(EntriesOf(m), p, c), c) # SubtreeRoot(Below(EntriesOf(k), p, d), d)
  BY NodeIdentity

\* Below a level with at most one entry the path has no further nodes.
LEMMA PathEnds ==
  ASSUME NEW m \in Maps, NEW p \in Paths, NEW n \in 0 .. Depth, NEW a \in 0 .. n,
         ~ Big(Below(EntriesOf(m), p, n))
  PROVE  OnPath(EntriesOf(m), p, a .. Depth) = OnPath(EntriesOf(m), p, a .. n)
<1> DEFINE L == EntriesOf(m)
<1>1. Depth \in Nat
  BY DepthAssumption
<1>2. ASSUME NEW d \in n .. Depth, Below(L, p, d) # {}
      PROVE  /\ Below(L, p, n) # {}
             /\ SubtreeRoot(Below(L, p, d), d) = SubtreeRoot(Below(L, p, n), n)
  <2>1. \A b : b \in 0 .. n - 1 => b \in 0 .. d - 1
    BY <1>1
  <2>2. Below(L, p, d) \subseteq Below(L, p, n)
    BY <2>1 DEF Below
  <2>3. PICK x \in Below(L, p, n) : Below(L, p, n) = {x}
    BY <1>2, <2>2, BigFacts
  <2>4. Below(L, p, d) = {x} /\ x \in Entries
    <3>1. x \in L
      BY DEF Below
    <3> QED BY <1>2, <2>2, <2>3, <3>1, MapEntries
  <2>5. n \in 0 .. Depth /\ d \in 0 .. Depth
    BY <1>1
  <2> QED BY <2>3, <2>4, <2>5, SubtreeRootCases
<1>3. \A d : d \in a .. Depth <=> d \in a .. n \/ d \in n .. Depth
  BY <1>1
<1>4. n \in a .. n
  BY <1>1
<1>5. \A h : h \in OnPath(L, p, a .. Depth) <=> h \in OnPath(L, p, a .. n)
  <2>1. ASSUME NEW h \in OnPath(L, p, a .. Depth) PROVE h \in OnPath(L, p, a .. n)
    <3>1. PICK d \in a .. Depth : Below(L, p, d) # {} /\ h = SubtreeRoot(Below(L, p, d), d)
      BY DEF OnPath
    <3> QED BY <1>2, <1>3, <1>4, <3>1, OnPathNodes
  <2>2. ASSUME NEW h \in OnPath(L, p, a .. n) PROVE h \in OnPath(L, p, a .. Depth)
    <3>1. PICK d \in a .. n : Below(L, p, d) # {} /\ h = SubtreeRoot(Below(L, p, d), d)
      BY DEF OnPath
    <3> QED BY <1>3, <3>1, OnPathNodes
  <2> QED BY <2>1, <2>2
<1> QED BY <1>5

\* A level more or less of a path.
LEMMA OnPathLevels ==
  ASSUME NEW L, NEW p, NEW a \in Int, NEW d \in Int, a <= d + 1
  PROVE  LET node == IF Below(L, p, d) = {} THEN {} ELSE {SubtreeRoot(Below(L, p, d), d)}
         IN  /\ a <= d => OnPath(L, p, a .. d) = OnPath(L, p, a .. d - 1) \cup node
             /\ \A b \in Int : d <= b =>
                   OnPath(L, p, d .. b) = OnPath(L, p, d + 1 .. b) \cup node
             /\ OnPath(L, p, {}) = {}
<1> DEFINE node == IF Below(L, p, d) = {} THEN {} ELSE {SubtreeRoot(Below(L, p, d), d)}
<1>1. \A c : a <= d => (c \in a .. d <=> c \in a .. d - 1 \/ c = d)
  OBVIOUS
<1>2. \A b \in Int : d <= b => \A c : (c \in d .. b <=> c \in d + 1 .. b \/ c = d)
  OBVIOUS
<1>3. \A D, E : (\A c : c \in E <=> c \in D \/ c = d) =>
         OnPath(L, p, E) = OnPath(L, p, D) \cup node
  <2> SUFFICES ASSUME NEW D, NEW E, \A c : c \in E <=> c \in D \/ c = d
               PROVE  OnPath(L, p, E) = OnPath(L, p, D) \cup node
    OBVIOUS
  <2>1. \A h : h \in OnPath(L, p, E) <=> h \in OnPath(L, p, D) \/ h \in node
    BY OnPathNodes
  <2> HIDE DEF node
  <2> QED BY <2>1
<1>4. OnPath(L, p, {}) = {}
  BY DEF OnPath
<1> HIDE DEF node
<1> QED BY <1>1, <1>2, <1>3, <1>4 DEF node

-----------------------------------------------------------------------------
\* What the levels of a running call say about the nodes it reads and deletes.

\* The two trees of a call share the nodes off its path.
LEMMA SplitTrees ==
  ASSUME TypeOK, CallInvariant, pc # "idle"
  PROVE  /\ TreeNodes(EntriesOf(oldMap)) = offNodes \cup oldNodes(0 .. Depth)
         /\ TreeNodes(EntriesOf(newMap)) = offNodes \cup newNodes(0 .. Depth)
<1>1. oldMap \in Maps /\ newMap \in Maps /\ op.path \in Paths
  BY NewMapFacts DEF CallInvariant, RootInv
<1>2. \A x \in Paths : x # op.path => newMap[x] = oldMap[x]
  BY <1>1 DEF newMap, Maps
<1>3. OffPath(EntriesOf(newMap), op.path) = offNodes
  BY <1>1, <1>2, OffPathKept DEF offNodes
<1> QED BY <1>3, TreeSplits DEF offNodes, oldNodes, newNodes

\* The node of the old path that the loops of a call reach at index j, and the
\* entries of the old path at its level and below.
LEMMA PathNodeAt ==
  ASSUME TypeOK, CallInvariant, pc \notin {"idle", "root", "walk"},
         NEW j \in 0 .. Len(side), NEW d, d = Len(side) - j
  PROVE  /\ d \in 0 .. Len(side) /\ Len(side) \in 0 .. Depth /\ d \in 0 .. Depth
         /\ pathNodes(j) = SubtreeRoot(oldBelow(d), d)
         /\ \A c \in 0 .. d - 1 : Big(oldBelow(c))
         /\ j > 0 => Big(oldBelow(d))
         /\ oldBelow(Len(side)) \subseteq oldBelow(d)
<1> DEFINE n == Len(side)
<1>1. Depth \in Nat /\ n \in Nat /\ n <= Depth /\ Len(pnodes) = n + 1
  BY DepthAssumption DEF TypeOK, SliceTypeOK, IsSlice
<1>2. /\ d \in 0 .. n /\ n \in 0 .. Depth /\ d \in 0 .. Depth
      /\ Len(pnodes) - j = d + 1
      /\ \A c \in 0 .. d - 1 : c \in 0 .. n - 1
      /\ j > 0 => d \in 0 .. n - 1
  BY <1>1
<1>3. pathNodes(j) = SubtreeRoot(oldBelow(d), d)
  BY <1>2 DEF CallInvariant, WalkInv, pathNodes, Reversed
<1>4. \A c \in 0 .. n - 1 : Big(oldBelow(c))
  BY <1>1 DEF CallInvariant, WalkInv
<1>5. oldBelow(n) \subseteq oldBelow(d)
  <2>1. \A b : b \in 0 .. d - 1 => b \in 0 .. n - 1
    BY <1>1, <1>2
  <2> QED BY <2>1 DEF oldBelow, Below
<1> QED BY <1>2, <1>3, <1>4, <1>5

\* Deleting the deepest node that is left of the old path takes exactly that
\* node away, whatever else the store holds of the nodes off the path and of the
\* new path further down.
LEMMA DeepestRemoved ==
  ASSUME TypeOK, CallInvariant, pc \notin {"idle", "root", "walk"},
         NEW d \in 0 .. Depth, NEW D \in SUBSET (0 .. Depth),
         Big(oldBelow(d)) \/ (D = {} /\ \E x : oldBelow(d) = {x} /\ x[1] = op.path),
         \A c \in 0 .. d - 1 : Big(oldBelow(c)),
         \A c \in D : c # d
  PROVE  LET h == SubtreeRoot(oldBelow(d), d)
         IN  /\ h \in oldNodes(0 .. d)
             /\ (offNodes \cup oldNodes(0 .. d) \cup newNodes(D)) \ {h}
                  = offNodes \cup oldNodes(0 .. d - 1) \cup newNodes(D)
<1> DEFINE h == SubtreeRoot(oldBelow(d), d)
           L == EntriesOf(oldMap)
           p == op.path
<1>1. oldMap \in Maps /\ newMap \in Maps /\ p \in Paths
  BY NewMapFacts DEF CallInvariant, RootInv
<1>2. d \in Int /\ 0 \in Int /\ 0 <= d /\ 0 <= d + 1 /\ Depth \in Nat
  BY DepthAssumption
<1>3. oldBelow(d) # {} /\ oldBelow(d) = Below(L, p, d)
  BY BigFacts DEF oldBelow
<1>4. oldNodes(0 .. d) = oldNodes(0 .. d - 1) \cup {h}
  BY <1>2, <1>3, OnPathLevels DEF oldNodes
<1>5. h \notin offNodes
  BY <1>1, <1>3, PathNodeApart DEF offNodes
<1>6. h \notin oldNodes(0 .. d - 1)
  <2> SUFFICES ASSUME h \in oldNodes(0 .. d - 1) PROVE FALSE
    OBVIOUS
  <2>1. PICK c \in 0 .. d - 1 : h = SubtreeRoot(Below(L, p, c), c)
    BY DEF oldNodes, OnPath
  <2>2. Big(Below(L, p, c)) /\ c # d /\ c \in 0 .. Depth
    BY <1>2 DEF oldBelow
  <2> QED BY <1>1, <1>3, <2>1, <2>2, LevelApart
<1>7. h \notin newNodes(D)
  <2> SUFFICES ASSUME h \in newNodes(D) PROVE FALSE
    OBVIOUS
  <2>1. PICK c \in D : h = SubtreeRoot(Below(EntriesOf(newMap), p, c), c)
    BY DEF newNodes, OnPath
  <2>2. c \in 0 .. Depth /\ c # d /\ Big(Below(L, p, d))
    BY DEF oldBelow
  <2> QED BY <1>1, <1>3, <2>1, <2>2, LevelApart
<1> HIDE DEF h
<1>8. h \in oldNodes(0 .. d)
  BY <1>4
<1> QED BY <1>4, <1>5, <1>6, <1>7, <1>8 DEF h

\* A key that is there has its leaf at the end of the walk.
LEMMA OwnLeaf ==
  ASSUME TypeOK, CallInvariant, pc \notin {"idle", "root", "walk"},
         oldLeaf # Placeholder, oldLeafPath = op.path
  PROVE  /\ oldMap[op.path] # Absent
         /\ \E x \in Entries : oldBelow(Len(side)) = {x} /\ x[1] = op.path
<1>1. PICK e \in Entries :
         /\ oldBelow(Len(side)) = {e} /\ oldLeafPath = e[1]
         /\ oldMap[op.path] = IF e[1] = op.path THEN e[2] ELSE Absent
  BY LeafFound DEF CallInvariant
<1>2. e[2] \in Values
  BY DEF Entries
<1> QED BY <1>1, <1>2, ValuesAssumption

\* The path of the old tree ends where the walk ended.
LEMMA OldPathEnds ==
  ASSUME TypeOK, CallInvariant, pc \notin {"idle", "root", "walk"}
  PROVE  /\ oldNodes(0 .. Depth) = oldNodes(0 .. Len(side))
         /\ oldBelow(Len(side)) = {} => oldNodes(0 .. Depth) = oldNodes(0 .. Len(side) - 1)
         /\ oldBelow(Len(side)) # {} =>
              oldNodes(0 .. Depth) = oldNodes(0 .. Len(side) - 1) \cup {oldLeaf}
<1> DEFINE n == Len(side)
           L == EntriesOf(oldMap)
<1>1. Depth \in Nat /\ n \in Nat /\ n <= Depth
  BY DepthAssumption DEF TypeOK, SliceTypeOK, IsSlice
<1>2. oldMap \in Maps /\ op.path \in Paths
  BY NewMapFacts DEF CallInvariant, RootInv
<1>3. /\ n \in 0 .. Depth /\ 0 \in 0 .. n /\ n - 0 = n
      /\ n \in Int /\ 0 \in Int /\ 0 <= n + 1 /\ 0 <= n
  BY <1>1
<1>4. oldLeaf = SubtreeRoot(oldBelow(n), n)
  BY <1>3, PathNodeAt DEF oldLeaf
<1>5. ~ Big(oldBelow(n))
  BY DEF CallInvariant, WalkInv
<1>6. oldNodes(0 .. Depth) = oldNodes(0 .. n)
  BY <1>2, <1>3, <1>5, PathEnds DEF oldNodes, oldBelow
<1>7. oldNodes(0 .. n) = oldNodes(0 .. n - 1)
         \cup IF oldBelow(n) = {} THEN {} ELSE {SubtreeRoot(oldBelow(n), n)}
  BY <1>3, OnPathLevels DEF oldNodes, oldBelow
<1> QED BY <1>4, <1>6, <1>7

-----------------------------------------------------------------------------
\* The store invariant, action by action, while no store call fails.

\* The parts of a call that its maps and slices determine.
LEMMA StoreFrame ==
  ASSUME UNCHANGED <<root, op>>
  PROVE  /\ oldMap' = oldMap /\ newMap' = newMap /\ offNodes' = offNodes
         /\ \A D : oldNodes(D)' = oldNodes(D)
         /\ \A D : newNodes(D)' = newNodes(D)
<1>1. oldMap' = oldMap /\ newMap' = newMap
  BY DEF oldMap, newMap
<1> QED BY <1>1 DEF offNodes, oldNodes, newNodes

LEMMA SliceFrame ==
  ASSUME UNCHANGED <<op, side, pnodes>>
  PROVE  /\ oldLeaf' = oldLeaf /\ keyIsEmpty' = keyIsEmpty /\ newLeaf' = newLeaf
         /\ commonPrefixCount' = commonPrefixCount /\ topLevel' = topLevel
<1>1. oldLeaf' = oldLeaf /\ oldLeafPath' = oldLeafPath /\ newLeaf' = newLeaf
  BY DEF oldLeaf, oldLeafPath, pathNodes, Reversed, newLeaf
<1> QED BY <1>1 DEF keyIsEmpty, commonPrefixCount, topLevel

\* Initially both stores are empty, and so is the tree.
LEMMA StoreInit == Init => StoreInvariant
<1> SUFFICES ASSUME Init PROVE StoreInvariant
  OBVIOUS
<1> DEFINE m == [p \in Paths |-> Absent]
<1>1. m \in Maps /\ EntriesOf(m) = {}
  BY ValuesAssumption DEF Maps, EntriesOf, Entries
<1>2. 0 \in 0 .. Depth
  BY DepthAssumption
<1>3. root = SubtreeRoot(EntriesOf(m), 0)
  BY <1>1, <1>2, SubtreeRootCases DEF Init
<1>4. oldMap = m
  BY <1>1, <1>3, CommittedMapOfRoot DEF oldMap
<1>5. TreeNodes({}) = {}
  BY DEF TreeNodes
<1>6. pc = "idle" /\ nodes = {} /\ values = m /\ err = FALSE
  BY DEF Init
<1> QED BY <1>1, <1>4, <1>5, <1>6
     DEF StoreInvariant, ReadNodesInv, DeleteNodesInv, UpdateNodesInv, ValuesInv

\* A call that returns when the stores hold the tree that the root then commits
\* to leaves the invariant true.
LEMMA StoreReturn ==
  ASSUME NEW r, Return(r), nodes' = TreeNodes(EntriesOf(oldMap')), values' = oldMap'
  PROVE  StoreInvariant'
<1>1. pc' = "idle" /\ err' = FALSE
  BY DEF Return
<1> QED BY <1>1 DEF StoreInvariant, ReadNodesInv, DeleteNodesInv, UpdateNodesInv, ValuesInv

\* The walk reads, and leaves the stores as they are.
LEMMA StoreWalk ==
  ASSUME TypeOK, CallInvariant, StoreInvariant, faults = 0,
         FillRoot \/ FillStep \/ FillSibling, TypeOK', CallInvariant'
  PROVE  StoreInvariant'
<1>1. /\ UNCHANGED <<root, op, nodes, values, err>> /\ i' = 0
      /\ pc \in {"root", "walk", "sibling"}
      /\ pc' \in {"walk", "sibling", "proof", "orphan", "leaf"}
      /\ pc' = "sibling" => side' = Append(side, nextSide)
  BY DEF FillRoot, FillStep, FillSibling, Goto, afterWalk
<1>2. /\ oldMap' = oldMap /\ offNodes' = offNodes /\ \A D : oldNodes(D)' = oldNodes(D)
  BY <1>1, StoreFrame
<1>3. nodes = TreeNodes(EntriesOf(oldMap)) /\ values = oldMap /\ err = FALSE
  BY <1>1 DEF StoreInvariant, ReadNodesInv, ValuesInv
<1>4. pc' = "sibling" => side' # << >>
  <2>1. IsSlice(side)
    BY DEF TypeOK, SliceTypeOK
  <2>2. Len(Append(side, nextSide)) = Len(side) + 1 /\ Len(side) \in Nat
    BY <2>1, SliceFacts DEF IsSlice
  <2>3. Len(<< >>) = 0
    BY SliceFacts
  <2> QED BY <1>1, <2>2, <2>3
<1>5. pc' = "orphan" => nodes = offNodes \cup oldNodes(0 .. Len(side') - i')
  <2> SUFFICES ASSUME pc' = "orphan"
               PROVE  nodes = offNodes \cup oldNodes(0 .. Len(side') - i')
    OBVIOUS
  <2>1. Len(side') \in 0 .. Depth /\ 0 \in 0 .. Len(side') /\ Len(side') - i' = Len(side')
    <3>1. Len(side') \in Nat /\ Len(side') <= Depth
      BY DEF TypeOK, SliceTypeOK, IsSlice
    <3> QED BY <1>1, <3>1, DepthAssumption
  <2>2. ~ Big(Below(EntriesOf(oldMap), op.path, Len(side')))
    BY <1>1, <1>2 DEF CallInvariant, WalkInv, oldBelow
  <2>3. oldMap \in Maps /\ op.path \in Paths
    BY <1>1, NewMapFacts DEF CallInvariant, RootInv
  <2>4. oldNodes(0 .. Depth) = oldNodes(0 .. Len(side'))
    BY <2>1, <2>2, <2>3, PathEnds DEF oldNodes
  <2> QED BY <1>1, <1>3, <2>1, <2>4, SplitTrees
<1> QED BY <1>1, <1>2, <1>3, <1>4, <1>5
     DEF StoreInvariant, ReadNodesInv, DeleteNodesInv, UpdateNodesInv, ValuesInv

\* Beginning a call leaves the stores as they are.
LEMMA StoreCall ==
  ASSUME StoreInvariant, Call
  PROVE  StoreInvariant'
<1>1. PICK o : Begin(o)
  BY DEF Call, Update, Delete, Prove, ProveUpdatable, ProveForRoot
<1>2. pc = "idle" /\ pc' = "root" /\ UNCHANGED <<nodes, values, root, err, faults>>
  BY <1>1 DEF Begin, tree, locals
<1>3. oldMap' = oldMap
  BY <1>2 DEF oldMap
<1> QED BY <1>2, <1>3
     DEF StoreInvariant, ReadNodesInv, DeleteNodesInv, UpdateNodesInv, ValuesInv

\* Finding the key empty, and proving, change nothing.
LEMMA StoreNoWrite ==
  ASSUME TypeOK, CallInvariant, StoreInvariant, faults = 0, AlreadyEmpty \/ ProveReturn
  PROVE  StoreInvariant'
<1>1. PICK r : Return(r) /\ root' = root
  BY DEF AlreadyEmpty, ReturnRoot, ProveReturn, tree, CallInvariant, CallInv
<1>2. UNCHANGED <<nodes, values>>
  BY DEF AlreadyEmpty, ProveReturn, tree
<1>3. nodes = TreeNodes(EntriesOf(oldMap)) /\ values = oldMap
  BY DEF AlreadyEmpty, ProveReturn, StoreInvariant, ReadNodesInv, DeleteNodesInv, ValuesInv
<1>4. oldMap' = oldMap
  BY <1>1 DEF oldMap
<1> QED BY <1>1, <1>2, <1>3, <1>4, StoreReturn

\* The orphans go one by one, from the leaf up to the root.
LEMMA StoreOrphan ==
  ASSUME TypeOK, CallInvariant, StoreInvariant, faults = 0, DeletePathNode
  PROVE  StoreInvariant'
<1> DEFINE n == Len(side)
           d == n - i
<1>1. /\ pc = "orphan" /\ ~ keyIsEmpty /\ nodes' = nodes \ {pathNodes(i)}
      /\ UNCHANGED <<root, op, side, pnodes, values, err, faults>>
      /\ pc' \in {"orphan", "bubble", "unset"}
      /\ pc' = "orphan" => i' = i + 1
      /\ pc' = "bubble" => i' = 0 /\ ~ (i + 1 < Len(pnodes))
      /\ pc' = "unset" => side = << >> /\ ~ (i + 1 < Len(pnodes))
  BY DEF DeletePathNode, Goto
<1>2. /\ Depth \in Nat /\ n \in Nat /\ n <= Depth /\ i \in 0 .. n /\ Len(pnodes) = n + 1
  BY <1>1, DepthAssumption DEF TypeOK, SliceTypeOK, LoopTypeOK, IsSlice
<1>3. /\ d \in 0 .. Depth /\ pathNodes(i) = SubtreeRoot(oldBelow(d), d)
      /\ \A c \in 0 .. d - 1 : Big(oldBelow(c))
      /\ i > 0 => Big(oldBelow(d))
  BY <1>1, <1>2, PathNodeAt
<1>4. Big(oldBelow(d)) \/ \E x : oldBelow(d) = {x} /\ x[1] = op.path
  <2>1. \E x : oldBelow(n) = {x} /\ x[1] = op.path
    BY <1>1, OwnLeaf DEF keyIsEmpty
  <2>2. i = 0 => d = n
    BY <1>2
  <2> QED BY <1>2, <1>3, <2>1, <2>2
<1>5. nodes = offNodes \cup oldNodes(0 .. d) /\ values = oldMap /\ err = FALSE
  BY <1>1 DEF StoreInvariant, DeleteNodesInv, ValuesInv
<1>6. nodes' = offNodes \cup oldNodes(0 .. d - 1)
  <2>1. newNodes({}) = {} /\ {} \in SUBSET (0 .. Depth)
    BY DEF newNodes, OnPath
  <2> HIDE DEF d
  <2>2. (offNodes \cup oldNodes(0 .. d) \cup newNodes({})) \ {pathNodes(i)}
          = offNodes \cup oldNodes(0 .. d - 1) \cup newNodes({})
    BY <1>1, <1>3, <1>4, <2>1, DeepestRemoved
  <2> QED BY <1>1, <1>5, <2>1, <2>2
<1>7. /\ oldMap' = oldMap /\ newMap' = newMap /\ offNodes' = offNodes
      /\ \A D : oldNodes(D)' = oldNodes(D)
      /\ \A D : newNodes(D)' = newNodes(D)
      /\ keyIsEmpty' = keyIsEmpty
  BY <1>1, StoreFrame, SliceFrame
<1>8. CASE pc' = "orphan"
  <2>1. Len(side') - i' = d - 1
    BY <1>1, <1>2, <1>8
  <2> HIDE DEF d
  <2> QED BY <1>1, <1>5, <1>6, <1>7, <1>8, <2>1
       DEF StoreInvariant, ReadNodesInv, DeleteNodesInv, UpdateNodesInv, ValuesInv
<1>9. CASE pc' \in {"bubble", "unset"}
  <2>1. d = 0 /\ 0 .. d - 1 = {}
    BY <1>1, <1>2, <1>9
  <2>2. nodes' = offNodes
    BY <1>6, <2>1 DEF oldNodes, OnPath
  <2>3. newNodes(n .. Depth) = {}
    <3>1. newBelow(n) = {}
      BY <1>1, LeafDeleted
    <3>2. \A c \in n .. Depth : newBelow(c) \subseteq newBelow(n)
      BY <1>2 DEF newBelow, Below
    <3>3. \A c \in n .. Depth : Below(EntriesOf(newMap), op.path, c) = {}
      BY <3>1, <3>2 DEF newBelow
    <3> QED BY <3>3 DEF newNodes, OnPath
  <2>4. CASE pc' = "bubble"
    <3>1. Len(side') - i' = n
      BY <1>1, <1>2, <2>4
    <3> HIDE DEF n
    <3> QED BY <1>1, <1>5, <1>7, <2>2, <2>3, <2>4, <3>1
         DEF StoreInvariant, ReadNodesInv, DeleteNodesInv, UpdateNodesInv, ValuesInv
  <2>5. CASE pc' = "unset"
    <3>1. n = 0
      BY <1>1, <2>5
    <3>2. nodes' = TreeNodes(EntriesOf(newMap))
      BY <1>1, <2>2, <2>3, <3>1, SplitTrees
    <3> QED BY <1>1, <1>5, <1>7, <2>5, <3>2
         DEF StoreInvariant, ReadNodesInv, DeleteNodesInv, UpdateNodesInv, ValuesInv
  <2> QED BY <1>9, <2>4, <2>5
<1> QED BY <1>1, <1>8, <1>9

\* The new path comes level by level: a hash that is carried up is in the store
\* already.
LEMMA StoreBubble ==
  ASSUME TypeOK, CallInvariant, StoreInvariant, faults = 0,
         BubbleLeaf \/ BubbleSkip \/ BubbleNode
  PROVE  StoreInvariant'
<1> DEFINE n == Len(side)
           d == n - i
<1>1. /\ pc = "bubble" /\ UNCHANGED <<root, op, side, pnodes, values, err, faults>>
      /\ \/ pc' = "bubble" /\ i' = i + 1
         \/ pc' = "unset" /\ ~ (i + 1 < n)
  BY DEF BubbleLeaf, BubbleSkip, BubbleNode, NextSideNode, Goto
<1>2. Depth \in Nat /\ n \in Nat /\ i \in 0 .. n - 1 /\ n <= Depth
  BY <1>1, DepthAssumption DEF TypeOK, SliceTypeOK, LoopTypeOK, IsSlice
<1>3. d \in 1 .. Depth /\ d - 1 \in Int /\ (d - 1) + 1 = d /\ d - 1 <= Depth /\ Depth \in Int
  BY <1>2
<1>4. cur' = SubtreeRoot(newBelow(d - 1), d - 1) /\ newBelow(d - 1) # {}
  BY BubbleStep
<1>5. /\ nodes = offNodes \cup newNodes(d .. Depth) /\ values = oldMap /\ err = FALSE
  BY <1>1 DEF StoreInvariant, DeleteNodesInv, ValuesInv
<1>6. nodes' = nodes \cup {cur'}
  <2>1. CASE BubbleLeaf
    BY <2>1 DEF BubbleLeaf
  <2>2. CASE BubbleNode
    BY <2>2 DEF BubbleNode
  <2>3. CASE BubbleSkip
    <3>1. i > 0 /\ cur' = cur /\ nodes' = nodes
      BY <2>3 DEF BubbleSkip
    <3>2. newBelow(d) # {} /\ cur = SubtreeRoot(newBelow(d), d)
      BY <1>1, <3>1, BubbleLevel
    <3>3. d \in d .. Depth
      BY <1>3
    <3>4. cur \in newNodes(d .. Depth)
      BY <3>2, <3>3, OnPathNodes DEF newNodes, newBelow
    <3> QED BY <1>5, <3>1, <3>4
  <2> QED BY <2>1, <2>2, <2>3
<1>7. newNodes(d - 1 .. Depth) = newNodes(d .. Depth) \cup {cur'}
  <2> HIDE DEF d
  <2> DEFINE c == d - 1
  <2>1. c \in Int /\ c + 1 = d /\ c <= Depth /\ c <= c + 1
    BY <1>3
  <2>2. cur' = SubtreeRoot(newBelow(c), c) /\ newBelow(c) # {}
    BY <1>4
  <2> HIDE DEF c
  <2>3. newNodes(c .. Depth) = newNodes(c + 1 .. Depth) \cup {cur'}
    BY <1>3, <2>1, <2>2, OnPathLevels DEF newNodes, newBelow
  <2> QED BY <2>1, <2>3 DEF c
<1>8. nodes' = offNodes \cup newNodes(d - 1 .. Depth)
  BY <1>5, <1>6, <1>7
<1>9. /\ oldMap' = oldMap /\ newMap' = newMap /\ offNodes' = offNodes
      /\ \A D : newNodes(D)' = newNodes(D)
      /\ keyIsEmpty' = keyIsEmpty
  BY <1>1, StoreFrame, SliceFrame
<1>10. CASE pc' = "bubble"
  <2>1. Len(side') - i' = d - 1
    BY <1>1, <1>2, <1>10
  <2> HIDE DEF d
  <2> QED BY <1>1, <1>5, <1>8, <1>9, <1>10, <2>1
       DEF StoreInvariant, ReadNodesInv, DeleteNodesInv, UpdateNodesInv, ValuesInv
<1>11. CASE pc' = "unset"
  <2>1. d - 1 = 0
    BY <1>1, <1>2, <1>11
  <2>2. nodes' = TreeNodes(EntriesOf(newMap))
    BY <1>1, <1>8, <2>1, SplitTrees
  <2>3. ~ keyIsEmpty
    BY <1>1 DEF CallInvariant, BubbleInv
  <2> QED BY <1>1, <1>5, <1>9, <1>11, <2>2, <2>3
       DEF StoreInvariant, ReadNodesInv, DeleteNodesInv, UpdateNodesInv, ValuesInv
<1> QED BY <1>1, <1>10, <1>11

\* The last write of a call makes the value store the new map.
LEMMA StoreWritten ==
  ASSUME TypeOK, CallInvariant, StoreInvariant, faults = 0, DeleteValue \/ SetValue
  PROVE  StoreInvariant'
<1>1. /\ pc \in {"unset", "value"} /\ op.kind = "update" /\ ReturnRoot(cur)
      /\ UNCHANGED nodes /\ err = FALSE
  BY DEF DeleteValue, SetValue, TypeOK, CallTypeOK, DeleteLabels, UpdateLabels, StoreInvariant
<1>2. cur = SubtreeRoot(EntriesOf(newMap), 0)
  BY <1>1 DEF CallInvariant, ResultInv
<1>3. oldMap' = newMap
  BY <1>1, <1>2, InvReturnNew
<1>4. nodes = TreeNodes(EntriesOf(newMap))
  BY <1>1 DEF StoreInvariant, DeleteNodesInv, UpdateNodesInv
<1>5. values' = newMap
  <2>1. CASE DeleteValue
    <3>1. /\ pc = "unset" /\ values' = [values EXCEPT ![op.path] = Absent]
          /\ op.value = DefaultValue /\ values = oldMap
      BY <2>1 DEF DeleteValue, TypeOK, CallTypeOK, DeleteLabels, StoreInvariant, ValuesInv
    <3> QED BY <3>1 DEF newMap
  <2>2. CASE SetValue
    BY <2>2 DEF SetValue, StoreInvariant, ValuesInv
  <2> QED BY <2>1, <2>2
<1> QED BY <1>1, <1>3, <1>4, <1>5, StoreReturn DEF ReturnRoot

-----------------------------------------------------------------------------
\* The update.

\* The new path at and below the level where the new leaf, or the fork, is put.
LEMMA TopNodes ==
  ASSUME TypeOK, CallInvariant, pc \in UpdateLabels
  PROVE  /\ topLevel \in Len(side) .. Depth /\ Len(side) \in 0 .. Depth
         /\ commonPrefixCount = Depth =>
              topLevel = Len(side) /\ newNodes(topLevel .. Depth) = {newLeaf}
         /\ commonPrefixCount # Depth =>
              newNodes(topLevel .. Depth) =
                 {newLeaf, digestParent(op.path, commonPrefixCount, oldLeaf, newLeaf)}
<1> DEFINE n == Len(side)
           c == commonPrefixCount
           x == <<op.path, op.value>>
           K == EntriesOf(newMap)
<1>1. /\ n \in 0 .. Depth /\ op.value # DefaultValue /\ op.path \in Paths
      /\ pc \notin {"idle", "root", "walk"} /\ Depth \in Nat
      /\ c \in 0 .. Depth /\ newLeaf = EntryHash(x) /\ x \in Entries
  BY UpdateFacts
<1>2. newMap \in Maps /\ oldMap \in Maps
  BY <1>1, NewMapFacts DEF CallInvariant, RootInv
<1>3. \A d \in 0 .. Depth : x \in newBelow(d)
  BY <1>1, NewMapFacts DEF CallInvariant
<1>4. \A d \in 0 .. Depth : newBelow(d) = {x} => newNodes(d .. Depth) = {newLeaf}
  <2> SUFFICES ASSUME NEW d \in 0 .. Depth, newBelow(d) = {x}
               PROVE  newNodes(d .. Depth) = {newLeaf}
    OBVIOUS
  <2>1. ~ Big(newBelow(d)) /\ SubtreeRoot(newBelow(d), d) = newLeaf
    BY <1>1, BigFacts, SubtreeRootCases
  <2>2. d \in 0 .. d /\ d .. d = {d}
    OBVIOUS
  <2>3. newNodes(d .. Depth) = newNodes(d .. d)
    <3>1. ~ Big(Below(K, op.path, d))
      BY <2>1 DEF newBelow
    <3>2. OnPath(K, op.path, d .. Depth) = OnPath(K, op.path, d .. d)
      <4>1. d \in 0 .. d
        OBVIOUS
      <4> HIDE DEF c, n, x
      <4> QED BY <1>1, <1>2, <3>1, <4>1, PathEnds
    <3> QED BY <3>2 DEF newNodes
  <2>4. newNodes({d}) = {newLeaf}
    <3>1. Below(K, op.path, d) # {} /\ SubtreeRoot(Below(K, op.path, d), d) = newLeaf
      BY <2>1 DEF newBelow
    <3> HIDE DEF K
    <3> QED BY <3>1 DEF newNodes, OnPath, K
  <2> QED BY <2>2, <2>3, <2>4
<1>5. CASE c = Depth
  <2>1. topLevel = n /\ newBelow(n) = {x}
    BY <1>5, LeafPlaced DEF topLevel
  <2> QED BY <1>1, <1>4, <1>5, <2>1
<1>6. CASE c # Depth
  <2>1. /\ c \in n .. Depth - 1 /\ Big(newBelow(c)) /\ topLevel = c
        /\ digestParent(op.path, c, oldLeaf, newLeaf) = SubtreeRoot(newBelow(c), c)
    BY <1>6, ForkPlaced DEF topLevel
  <2>2. c \in Int /\ c <= Depth /\ c + 1 \in 0 .. Depth /\ Depth \in Int /\ c <= c + 1
    BY <1>1, <2>1
  <2>3. newBelow(c + 1) = {x}
    BY <1>6, ForkPlaced
  <2>4. newNodes(c + 1 .. Depth) = {newLeaf}
    BY <1>4, <2>2, <2>3
  <2>5. newBelow(c) # {}
    BY <2>1 DEF Big
  <2> HIDE DEF c
  <2>6. newNodes(c .. Depth) = newNodes(c + 1 .. Depth) \cup {SubtreeRoot(newBelow(c), c)}
    BY <2>2, <2>5, OnPathLevels DEF newNodes, newBelow
  <2>7. topLevel \in n .. Depth
    BY <1>1, <2>1
  <2> QED BY <1>1, <1>6, <2>1, <2>4, <2>6, <2>7 DEF c
<1> QED BY <1>5, <1>6

\* The leaf that the new one is forked from belongs to another path, so it stays.
LEMMA ForkKeepsLeaf ==
  ASSUME TypeOK, CallInvariant, pc \in UpdateLabels, commonPrefixCount # Depth
  PROVE  oldLeaf \in offNodes /\ oldBelow(Len(side)) # {}
<1> DEFINE L == EntriesOf(oldMap)
           p == op.path
<1>1. /\ pc \notin {"idle", "root", "walk"} /\ p \in Paths /\ Depth \in Nat
      /\ oldMap \in Maps /\ oldLeaf # Placeholder /\ Depth \in 0 .. Depth
  BY UpdateFacts DEF CallInvariant, RootInv, commonPrefixCount
<1>2. PICK e \in Entries :
         oldBelow(Len(side)) = {e} /\ oldLeaf = EntryHash(e) /\ oldLeafPath = e[1]
  BY <1>1, LeafFound DEF CallInvariant
<1>3. e \in L /\ e[1] \in Paths
  BY <1>2 DEF oldBelow, Below, Entries
<1>4. e[1] # p
  BY <1>1, <1>2, <1>3, CommonPrefix DEF commonPrefixCount
<1>5. Leaves(p, e[1], Depth)
  BY <1>1, <1>3, <1>4 DEF Leaves, Paths
<1>6. Below(L, e[1], Depth) = {e}
  BY <1>1, <1>3, MapEntries
<1>7. SubtreeRoot({e}, Depth) = EntryHash(e)
  BY <1>1, SubtreeRootCases
<1>8. oldLeaf \in OffPath(L, p)
  BY <1>1, <1>2, <1>3, <1>5, <1>6, <1>7, OffPathNodes
<1> QED BY <1>2, <1>8 DEF offNodes

\* Once the nodes at and below the top level are the new ones, the stale nodes of
\* the old path go next, or, if there are none, the spine is built.
LEMMA StoreStale ==
  ASSUME TypeOK, CallInvariant, faults = 0, err = FALSE, pc \in UpdateLabels,
         NEW index \in 1 .. Len(side) + 1, RemoveStale(index),
         UNCHANGED <<side, pnodes, err>>,
         nodes' = offNodes \cup oldNodes(0 .. Len(side) - index)
                           \cup newNodes(topLevel .. Depth),
         [values' EXCEPT ![op.path] = op.value] = newMap
  PROVE  StoreInvariant'
<1>1. /\ UNCHANGED <<root, op>>
      /\ index < Len(pnodes) => pc' = "stale" /\ i' = index
      /\ ~ (index < Len(pnodes)) => pc' = "spine" /\ i' = 0
  BY DEF RemoveStale, Goto
<1>2. /\ oldMap' = oldMap /\ newMap' = newMap /\ offNodes' = offNodes
      /\ \A D : oldNodes(D)' = oldNodes(D)
      /\ \A D : newNodes(D)' = newNodes(D)
      /\ topLevel' = topLevel
  BY <1>1, StoreFrame, SliceFrame
<1>3. /\ Depth \in Nat /\ Len(side) \in Nat /\ Len(pnodes) = Len(side) + 1
      /\ topLevel \in Len(side) .. Depth /\ index \in Nat /\ index > 0
  <2>1. Len(side) \in Nat /\ Len(pnodes) = Len(side) + 1
    BY DEF TypeOK, SliceTypeOK, IsSlice, UpdateLabels
  <2> QED BY <2>1, DepthAssumption, TopNodes
<1>4. CASE pc' = "stale"
  <2>1. i' = index /\ i' > 0
    BY <1>1, <1>3, <1>4
  <2>2. DeleteNodesInv' /\ ReadNodesInv'
    BY <1>4 DEF DeleteNodesInv, ReadNodesInv
  <2>3. UpdateNodesInv'
    BY <1>2, <1>4, <2>1 DEF UpdateNodesInv
  <2>4. ValuesInv'
    BY <1>1, <1>2, <1>4 DEF ValuesInv
  <2> QED BY <2>2, <2>3, <2>4 DEF StoreInvariant
<1>5. CASE pc' = "spine"
  <2>1. i' = 0 /\ index = Len(side) + 1 /\ 0 .. Len(side) - index = {}
    BY <1>1, <1>3, <1>5
  <2>2. oldNodes(0 .. Len(side) - index) = {}
    BY <2>1 DEF oldNodes, OnPath
  <2>3. spineLevel' = topLevel
    BY <1>2, <1>3, <2>1 DEF spineLevel
  <2>4. DeleteNodesInv' /\ ReadNodesInv'
    BY <1>5 DEF DeleteNodesInv, ReadNodesInv
  <2>5. UpdateNodesInv'
    BY <1>2, <1>5, <2>2, <2>3 DEF UpdateNodesInv
  <2>6. ValuesInv'
    BY <1>1, <1>2, <1>5 DEF ValuesInv
  <2> QED BY <2>4, <2>5, <2>6 DEF StoreInvariant
<1> QED BY <1>1, <1>4, <1>5
\* Storing the new leaf: next to the old one, in an empty place, or where it is
\* already.
LEMMA StoreSetLeaf ==
  ASSUME TypeOK, CallInvariant, StoreInvariant, faults = 0, SetLeaf
  PROVE  StoreInvariant'
<1>1. /\ pc = "leaf" /\ pc \in UpdateLabels /\ pc \notin {"idle", "root", "walk"}
      /\ nodes' = nodes \cup {newLeaf} /\ UNCHANGED <<values, faults>>
  BY DEF SetLeaf, UpdateLabels
<1>2. nodes = TreeNodes(EntriesOf(oldMap)) /\ values = oldMap /\ err = FALSE
  BY <1>1 DEF StoreInvariant, ReadNodesInv, ValuesInv
<1>3. nodes = offNodes \cup oldNodes(0 .. Depth)
  BY <1>1, <1>2, SplitTrees
<1>4. op.value # DefaultValue /\ Len(side) \in 0 .. Depth
  BY <1>1, UpdateFacts
<1>5. CASE /\ pc' \in {"fork", "oldleaf"} /\ UNCHANGED <<root, op, side, pnodes, err>>
           /\ pc' = "oldleaf" => oldLeaf # Placeholder
                                 /\ Data(oldLeaf).valueHash # digest(op.value)
  <2>1. oldMap' = oldMap /\ oldLeaf' = oldLeaf /\ newLeaf' = newLeaf
    BY <1>5, StoreFrame, SliceFrame
  <2>2. pc' = "oldleaf" => oldLeaf # newLeaf
    BY <1>5, DigestFacts DEF newLeaf, digestLeaf
  <2>3. DeleteNodesInv' /\ ReadNodesInv' /\ ValuesInv'
    BY <1>1, <1>2, <1>5, <2>1 DEF DeleteNodesInv, ReadNodesInv, ValuesInv
  <2>4. UpdateNodesInv'
    BY <1>1, <1>2, <1>5, <2>1, <2>2 DEF UpdateNodesInv
  <2> QED BY <1>2, <1>5, <2>3, <2>4 DEF StoreInvariant
<1>6. CASE oldLeaf = Placeholder /\ RemoveStale(1) /\ UNCHANGED <<side, pnodes, err>>
  <2>1. commonPrefixCount = Depth
    BY <1>6 DEF commonPrefixCount
  <2>2. oldBelow(Len(side)) = {}
    BY <1>1, <1>6, LeafFound DEF CallInvariant
  <2>3. oldNodes(0 .. Depth) = oldNodes(0 .. Len(side) - 1)
    BY <1>1, <2>2, OldPathEnds
  <2>4. newNodes(topLevel .. Depth) = {newLeaf}
    BY <1>1, <2>1, TopNodes
  <2>5. nodes' = offNodes \cup oldNodes(0 .. Len(side) - 1) \cup newNodes(topLevel .. Depth)
    BY <1>1, <1>3, <2>3, <2>4
  <2>6. [values' EXCEPT ![op.path] = op.value] = newMap
    BY <1>1, <1>2, <1>4 DEF newMap
  <2>7. 1 \in 1 .. Len(side) + 1
    BY <1>4
  <2> QED BY <1>1, <1>2, <1>6, <2>5, <2>6, <2>7, StoreStale
<1>7. CASE /\ oldLeaf # Placeholder /\ commonPrefixCount = Depth
           /\ Data(oldLeaf).valueHash = digest(op.value) /\ ReturnRoot(root)
  <2>1. PICK e \in Entries :
           /\ oldBelow(Len(side)) = {e} /\ oldLeaf = EntryHash(e)
           /\ oldLeafPath = e[1] /\ Data(oldLeaf).valueHash = digest(e[2])
    BY <1>1, <1>7, LeafFound DEF CallInvariant
  <2>2. e[1] = op.path
    <3>1. e[1] \in Paths /\ op.path \in Paths /\ countCommonPrefix(op.path, e[1]) = Depth
      BY <1>1, <1>7, <2>1, UpdateFacts DEF commonPrefixCount, Entries
    <3> QED BY <3>1, CommonPrefix
  <2>3. newLeaf = oldLeaf
    BY <1>7, <2>1, <2>2 DEF newLeaf, EntryHash
  <2>4. oldLeaf \in oldNodes(0 .. Depth)
    BY <1>1, <2>1, OldPathEnds
  <2>5. nodes' = nodes
    BY <1>1, <1>3, <2>3, <2>4
  <2>6. root' = root
    BY <1>7 DEF ReturnRoot
  <2>7. oldMap' = oldMap
    BY <2>6 DEF oldMap
  <2> QED BY <1>1, <1>2, <1>7, <2>5, <2>7, StoreReturn DEF ReturnRoot
<1> QED BY <1>5, <1>6, <1>7 DEF SetLeaf, Goto

\* The fork, and the removal of the old leaf, the old value and the stale nodes.
LEMMA StoreReplace ==
  ASSUME TypeOK, CallInvariant, StoreInvariant, faults = 0,
         Fork \/ DeleteOldLeaf \/ DeleteOldValue \/ DeleteStale
  PROVE  StoreInvariant'
<1> DEFINE n == Len(side)
<1>1. /\ pc \in {"fork", "oldleaf", "oldvalue", "stale"} /\ pc \in UpdateLabels
      /\ pc \notin {"idle", "root", "walk"} /\ err = FALSE
      /\ UNCHANGED <<root, op, side, pnodes, err, faults>>
  BY DEF Fork, DeleteOldLeaf, DeleteOldValue, DeleteStale, UpdateLabels, StoreInvariant,
         RemoveStale, Goto
<1>2. /\ op.value # DefaultValue /\ n \in 0 .. Depth /\ Depth \in Nat
      /\ op.path \in Paths /\ oldMap \in Maps
  BY <1>1, UpdateFacts DEF CallInvariant, RootInv
<1>3. TreeNodes(EntriesOf(oldMap)) = offNodes \cup oldNodes(0 .. Depth)
  BY <1>1, SplitTrees
<1>4. 1 \in 1 .. n + 1 /\ 0 \in 0 .. n /\ n - 0 = n
  BY <1>2
<1>5. CASE Fork
  <2>1. /\ RemoveStale(1) /\ commonPrefixCount # Depth /\ values' = values
        /\ nodes' = nodes \cup
              {digestParent(op.path, commonPrefixCount, oldLeaf, newLeaf)}
        /\ nodes = TreeNodes(EntriesOf(oldMap)) \cup {newLeaf} /\ values = oldMap
    BY <1>5 DEF Fork, CallInvariant, SpineInv, StoreInvariant, UpdateNodesInv, ValuesInv
  <2>2. oldLeaf \in offNodes /\ oldBelow(n) # {}
    BY <1>1, <2>1, ForkKeepsLeaf
  <2>3. oldNodes(0 .. Depth) = oldNodes(0 .. n - 1) \cup {oldLeaf}
    BY <1>1, <2>2, OldPathEnds
  <2>4. newNodes(topLevel .. Depth) =
           {newLeaf, digestParent(op.path, commonPrefixCount, oldLeaf, newLeaf)}
    BY <1>1, <2>1, TopNodes
  <2>5. nodes' = offNodes \cup oldNodes(0 .. n - 1) \cup newNodes(topLevel .. Depth)
    BY <1>3, <2>1, <2>2, <2>3, <2>4
  <2>6. [values' EXCEPT ![op.path] = op.value] = newMap
    BY <1>2, <2>1 DEF newMap
  <2> QED BY <1>1, <1>4, <2>1, <2>5, <2>6, StoreStale
<1>6. CASE DeleteOldLeaf
  <2>1. /\ pc = "oldleaf" /\ pc' = "oldvalue" /\ nodes' = nodes \ {oldLeaf}
        /\ nodes = TreeNodes(EntriesOf(oldMap)) \cup {newLeaf}
        /\ values = oldMap /\ values' = values
        /\ oldLeaf # Placeholder /\ oldLeaf # newLeaf /\ commonPrefixCount = Depth
    BY <1>6 DEF DeleteOldLeaf, Goto, CallInvariant, SpineInv, StoreInvariant, UpdateNodesInv,
         ValuesInv
  <2>2. oldLeafPath = op.path
    <3>1. oldLeafPath \in Paths
      BY <1>1, <2>1, LeafFound DEF CallInvariant, Entries
    <3> QED BY <1>2, <2>1, <3>1, CommonPrefix DEF commonPrefixCount
  <2>3. \E x : oldBelow(n) = {x} /\ x[1] = op.path
    BY <1>1, <2>1, <2>2, OwnLeaf
  <2>4. oldLeaf = SubtreeRoot(oldBelow(n), n) /\ \A c \in 0 .. n - 1 : Big(oldBelow(c))
    BY <1>1, <1>4, PathNodeAt DEF oldLeaf
  <2>5. oldNodes(0 .. Depth) = oldNodes(0 .. n)
    BY <1>1, OldPathEnds
  <2>6. newNodes({}) = {} /\ {} \in SUBSET (0 .. Depth)
    BY DEF newNodes, OnPath
  <2>7. (offNodes \cup oldNodes(0 .. n) \cup newNodes({})) \ {oldLeaf}
          = offNodes \cup oldNodes(0 .. n - 1) \cup newNodes({})
    BY <1>1, <1>2, <2>3, <2>4, <2>6, DeepestRemoved
  <2>8. nodes' = offNodes \cup oldNodes(0 .. n - 1) \cup {newLeaf}
    BY <1>3, <2>1, <2>5, <2>6, <2>7
  <2>9. /\ oldMap' = oldMap /\ offNodes' = offNodes /\ \A D : oldNodes(D)' = oldNodes(D)
        /\ oldLeaf' = oldLeaf /\ newLeaf' = newLeaf
    BY <1>1, StoreFrame, SliceFrame
  <2>10. DeleteNodesInv' /\ ReadNodesInv' /\ ValuesInv'
    BY <2>1, <2>9 DEF DeleteNodesInv, ReadNodesInv, ValuesInv
  <2>11. UpdateNodesInv'
    BY <1>1, <2>1, <2>8, <2>9 DEF UpdateNodesInv
  <2> QED BY <1>1, <2>10, <2>11 DEF StoreInvariant
<1>7. CASE DeleteOldValue
  <2>1. /\ RemoveStale(1) /\ commonPrefixCount = Depth /\ nodes' = nodes
        /\ nodes = offNodes \cup oldNodes(0 .. n - 1) \cup {newLeaf}
        /\ values = oldMap /\ values' = [values EXCEPT ![op.path] = Absent]
    BY <1>7 DEF DeleteOldValue, CallInvariant, SpineInv, StoreInvariant, UpdateNodesInv,
         ValuesInv
  <2>2. nodes' = offNodes \cup oldNodes(0 .. n - 1) \cup newNodes(topLevel .. Depth)
    BY <1>1, <2>1, TopNodes
  <2>3. [values' EXCEPT ![op.path] = op.value] = newMap
    BY <1>2, <2>1 DEF newMap, Maps
  <2> QED BY <1>1, <1>4, <2>1, <2>2, <2>3, StoreStale
<1>8. CASE DeleteStale
  <2> DEFINE d == n - i
             D == topLevel .. Depth
  <2>1. /\ pc = "stale" /\ i > 0 /\ RemoveStale(i + 1) /\ nodes' = nodes \ {pathNodes(i)}
        /\ nodes = offNodes \cup oldNodes(0 .. d) \cup newNodes(D)
        /\ values' = values /\ [values EXCEPT ![op.path] = op.value] = newMap
    BY <1>8 DEF DeleteStale, StoreInvariant, UpdateNodesInv, ValuesInv
  <2>2. i \in 0 .. n
    BY <2>1 DEF TypeOK, LoopTypeOK
  <2>3. /\ d \in 0 .. Depth /\ pathNodes(i) = SubtreeRoot(oldBelow(d), d)
        /\ \A c \in 0 .. d - 1 : Big(oldBelow(c))
    BY <1>1, <2>2, PathNodeAt
  <2>4. D \in SUBSET (0 .. Depth) /\ \A c \in D : c # d
    <3>1. topLevel \in n .. Depth
      BY <1>1, TopNodes
    <3> QED BY <1>2, <2>1, <2>2, <3>1
  <2>5. Big(oldBelow(d))
    <3>1. i > 0 => Big(oldBelow(d))
      BY <1>1, <2>2, PathNodeAt
    <3> QED BY <2>1, <3>1
  <2>6. n - (i + 1) = d - 1 /\ i + 1 \in 1 .. n + 1
    BY <1>2, <2>1, <2>2
  <2> HIDE DEF d, D
  <2>7. (offNodes \cup oldNodes(0 .. d) \cup newNodes(D)) \ {pathNodes(i)}
          = offNodes \cup oldNodes(0 .. d - 1) \cup newNodes(D)
    BY <1>1, <2>3, <2>4, <2>5, DeepestRemoved
  <2>8. nodes' = offNodes \cup oldNodes(0 .. n - (i + 1)) \cup newNodes(topLevel .. Depth)
    BY <2>1, <2>6, <2>7 DEF D
  <2>9. [values' EXCEPT ![op.path] = op.value] = newMap
    BY <2>1
  <2> QED BY <1>1, <2>1, <2>6, <2>8, <2>9, StoreStale
<1> QED BY <1>5, <1>6, <1>7, <1>8
\* The spine grows by one level per iteration that has a sibling.
LEMMA StoreSpine ==
  ASSUME TypeOK, CallInvariant, StoreInvariant, faults = 0, SpineSkip \/ SpineNode
  PROVE  StoreInvariant'
<1> DEFINE l == Depth - i
           t == IF l - 1 < topLevel THEN l - 1 ELSE topLevel
<1>1. /\ pc = "spine" /\ pc \in UpdateLabels /\ pc \notin {"idle", "root", "walk"}
      /\ UNCHANGED <<root, op, side, pnodes, values, err, faults>>
      /\ \/ pc' = "spine" /\ i' = i + 1
         \/ pc' = "value" /\ ~ (i + 1 < Depth)
  BY DEF SpineSkip, SpineNode, NextSpine, Goto, UpdateLabels
<1>2. /\ l \in 1 .. Depth /\ topLevel \in 0 .. Depth
      /\ spineHasSibling <=> l <= topLevel
      /\ l <= topLevel =>
           digestParent(op.path, Depth - 1 - i, spineSibling, cur)
             = SubtreeRoot(newBelow(l - 1), l - 1)
  BY <1>1, SpineStep
<1>3. i \in 0 .. Depth - 1 /\ Depth \in Nat
  BY <1>1, DepthAssumption DEF TypeOK, LoopTypeOK
<1>4. /\ nodes = offNodes \cup newNodes(spineLevel .. Depth) /\ err = FALSE
      /\ [values EXCEPT ![op.path] = op.value] = newMap
  BY <1>1 DEF StoreInvariant, UpdateNodesInv, ValuesInv
<1>5. nodes' = offNodes \cup newNodes(t .. Depth)
  <2>1. CASE SpineSkip
    <3>1. nodes' = nodes /\ ~ (l <= topLevel)
      BY <1>2, <2>1 DEF SpineSkip
    <3>2. spineLevel = t
      BY <1>2, <1>3, <3>1 DEF spineLevel
    <3> QED BY <1>4, <3>1, <3>2
  <2>2. CASE SpineNode
    <3>1. /\ l <= topLevel /\ nodes' = nodes \cup {cur'}
          /\ cur' = digestParent(op.path, Depth - 1 - i, spineSibling, cur)
      BY <1>2, <2>2 DEF SpineNode
    <3>2. t = l - 1 /\ spineLevel = l
      BY <1>2, <1>3, <3>1 DEF spineLevel
    <3> DEFINE c == l - 1
    <3>3. c \in Int /\ c + 1 = l /\ c <= Depth /\ c <= c + 1 /\ Depth \in Int /\ c \in 0 .. Depth
      BY <1>2, <1>3
    <3>4. cur' = SubtreeRoot(newBelow(c), c)
      BY <1>2, <3>1
    <3> HIDE DEF c, l, t
    <3>5. newBelow(c) # {}
      BY <1>1, <3>3, NewMapFacts, UpdateFacts DEF CallInvariant
    <3>6. newNodes(c .. Depth) = newNodes(c + 1 .. Depth) \cup {cur'}
      BY <3>3, <3>4, <3>5, OnPathLevels DEF newNodes, newBelow
    <3>7. t = c
      BY <3>2 DEF c
    <3> QED BY <1>4, <3>1, <3>2, <3>3, <3>6, <3>7
  <2> QED BY <2>1, <2>2
<1>6. /\ newMap' = newMap /\ offNodes' = offNodes
      /\ \A D : newNodes(D)' = newNodes(D) /\ topLevel' = topLevel
  BY <1>1, StoreFrame, SliceFrame
<1>7. ReadNodesInv' /\ DeleteNodesInv' /\ ValuesInv'
  BY <1>1, <1>4, <1>6 DEF ReadNodesInv, DeleteNodesInv, ValuesInv
<1>8. CASE pc' = "spine"
  <2>1. spineLevel' = t
    <3>1. Depth - i' = l - 1 /\ topLevel' = topLevel
      BY <1>1, <1>3, <1>6, <1>8
    <3> QED BY <3>1 DEF spineLevel
  <2> HIDE DEF t
  <2>2. UpdateNodesInv'
    BY <1>5, <1>6, <1>8, <2>1 DEF UpdateNodesInv
  <2> QED BY <1>1, <1>4, <1>7, <2>2 DEF StoreInvariant
<1>9. CASE pc' = "value"
  <2>1. t = 0
    BY <1>1, <1>2, <1>3, <1>9
  <2>2. nodes' = TreeNodes(EntriesOf(newMap))
    BY <1>1, <1>5, <2>1, SplitTrees
  <2>3. UpdateNodesInv'
    BY <1>6, <1>9, <2>2 DEF UpdateNodesInv
  <2> QED BY <1>1, <1>4, <1>7, <2>3 DEF StoreInvariant
<1> QED BY <1>1, <1>8, <1>9

-----------------------------------------------------------------------------
\* No call asks a store for what it does not hold.

\* The levels and the map of a running call.
LEMMA RunningCall ==
  ASSUME TypeOK, CallInvariant, pc # "idle"
  PROVE  /\ Depth \in Nat /\ 0 \in 0 .. Depth /\ Len(side) \in 0 .. Depth
         /\ oldMap \in Maps /\ op.path \in Paths /\ EntriesOf(oldMap) \in SUBSET Entries
<1>1. oldMap \in Maps /\ op.path \in Paths /\ EntriesOf(oldMap) \in SUBSET Entries
  BY NewMapFacts DEF CallInvariant, RootInv
<1>2. Len(side) \in Nat /\ Len(side) <= Depth
  BY DEF TypeOK, SliceTypeOK, IsSlice
<1> QED BY <1>1, <1>2, DepthAssumption

\* The nodes that the walk reads are in the store.
LEMMA ReadPresent ==
  ASSUME TypeOK, CallInvariant, StoreInvariant, faults = 0, pc \in {"root", "walk", "sibling"}
  PROVE  ~ keyMissing
<1> DEFINE n == Len(side)
<1>1. nodes = offNodes \cup oldNodes(0 .. Depth)
  <2>1. nodes = TreeNodes(EntriesOf(oldMap)) /\ pc # "idle"
    BY DEF StoreInvariant, ReadNodesInv
  <2> QED BY <2>1, SplitTrees
<1>2. /\ Depth \in Nat /\ n \in 0 .. Depth /\ 0 \in 0 .. Depth
      /\ oldMap \in Maps /\ op.path \in Paths /\ EntriesOf(oldMap) \in SUBSET Entries
  BY RunningCall
<1>3. \A d \in 0 .. Depth : SubtreeRoot(oldBelow(d), d) \in nodes \cup {Placeholder}
  <2> SUFFICES ASSUME NEW d \in 0 .. Depth, oldBelow(d) # {}
               PROVE  SubtreeRoot(oldBelow(d), d) \in oldNodes(0 .. Depth)
    BY <1>1, SubtreeRootCases
  <2> QED BY OnPathNodes DEF oldNodes, oldBelow
<1>4. CASE pc = "root"
  <2>1. op.root = SubtreeRoot(EntriesOf(oldMap), 0)
    BY <1>4 DEF CallInvariant, CallInv, RootInv
  <2>2. oldBelow(0) = EntriesOf(oldMap)
    BY DEF oldBelow, Below
  <2> QED BY <1>2, <1>3, <1>4, <2>1, <2>2 DEF keyMissing
<1>5. CASE pc = "walk"
  <2>1. n + 1 \in 0 .. Depth /\ nextNode = SubtreeRoot(oldBelow(n + 1), n + 1)
    <3>1. n \in 0 .. Depth - 1 /\ nextNode = SubtreeRoot(oldBelow(n + 1), n + 1)
      BY <1>5, NextChildren
    <3> QED BY <1>2, <3>1
  <2> QED BY <1>3, <1>5, <2>1 DEF keyMissing
<1>6. CASE pc = "sibling"
  <2>1. side # << >>
    BY <1>6 DEF StoreInvariant, ReadNodesInv
  <2>2. n # 0
    BY <2>1, SliceFacts DEF TypeOK, SliceTypeOK
  <2>3. n \in 1 .. Depth /\ n \in 1 .. n /\ n - 1 \in 0 .. n - 1
    BY <1>2, <2>2
  <2>4. side[n] = SubtreeRoot(oldBeside(n), n) /\ Big(oldBelow(n - 1)) /\ ~ Big(oldBelow(n))
    BY <1>6, <2>3 DEF CallInvariant, WalkInv
  <2>5. oldBelow(n - 1) = oldBelow(n) \cup oldBeside(n)
    BY <1>6, <2>3, OldParent DEF CallInvariant
  <2>6. oldBeside(n) # {}
    BY <2>4, <2>5
  <2>7. side[n] \in offNodes
    BY <1>2, <2>3, <2>4, <2>6, BesideOff DEF offNodes, oldBeside
  <2> QED BY <1>1, <1>6, <2>7 DEF keyMissing
<1> QED BY <1>4, <1>5, <1>6

\* The nodes that a call deletes, and the sibling it reads, are in the store.
LEMMA DeletedPresent ==
  ASSUME TypeOK, CallInvariant, StoreInvariant, faults = 0,
         pc \in {"orphan", "bubble", "oldleaf", "stale"}
  PROVE  ~ keyMissing
<1> DEFINE n == Len(side)
           d == n - i
<1>1. /\ Depth \in Nat /\ n \in 0 .. Depth /\ pc \notin {"idle", "root", "walk"}
      /\ oldMap \in Maps /\ op.path \in Paths /\ EntriesOf(oldMap) \in SUBSET Entries
  BY RunningCall
<1>2. CASE pc = "orphan" /\ ~ keyIsEmpty
  <2>1. nodes = offNodes \cup oldNodes(0 .. d)
    BY <1>2 DEF StoreInvariant, DeleteNodesInv
  <2>2. i \in 0 .. n
    BY <1>2 DEF TypeOK, LoopTypeOK
  <2>3. /\ d \in 0 .. d /\ pathNodes(i) = SubtreeRoot(oldBelow(d), d)
        /\ oldBelow(n) \subseteq oldBelow(d)
    BY <1>1, <2>2, PathNodeAt
  <2>4. oldBelow(n) # {}
    BY <1>1, <1>2, OwnLeaf DEF keyIsEmpty
  <2>5. pathNodes(i) \in oldNodes(0 .. d)
    BY <2>3, <2>4, OnPathNodes DEF oldNodes, oldBelow
  <2> QED BY <1>2, <2>1, <2>5 DEF keyMissing
<1>3. CASE pc = "stale"
  <2>1. nodes = offNodes \cup oldNodes(0 .. d) \cup newNodes(topLevel .. Depth) /\ i > 0
    BY <1>3 DEF StoreInvariant, UpdateNodesInv
  <2>2. i \in 0 .. n
    BY <1>3 DEF TypeOK, LoopTypeOK
  <2>3. /\ d \in 0 .. d /\ pathNodes(i) = SubtreeRoot(oldBelow(d), d)
        /\ i > 0 => Big(oldBelow(d))
    BY <1>1, <2>2, PathNodeAt
  <2>4. oldBelow(d) # {}
    BY <2>1, <2>3 DEF Big
  <2>5. pathNodes(i) \in oldNodes(0 .. d)
    BY <2>3, <2>4, OnPathNodes DEF oldNodes, oldBelow
  <2> QED BY <1>3, <2>1, <2>5 DEF keyMissing
<1>4. CASE pc = "bubble" /\ i = 0
  <2>1. nodes = offNodes \cup newNodes(d .. Depth)
    BY <1>4 DEF StoreInvariant, DeleteNodesInv
  <2>2. d \in 1 .. Depth /\ sideNodes(i) = SubtreeRoot(oldBeside(d), d) /\ oldBeside(d) # {}
    BY <1>4, BubbleLevel
  <2> HIDE DEF d
  <2>3. sideNodes(i) \in offNodes
    BY <1>1, <2>2, BesideOff DEF offNodes, oldBeside
  <2> QED BY <1>4, <2>1, <2>3 DEF keyMissing
<1>5. CASE pc = "oldleaf"
  <2>1. nodes = TreeNodes(EntriesOf(oldMap)) \cup {newLeaf} /\ oldLeaf # Placeholder
    BY <1>5 DEF StoreInvariant, UpdateNodesInv
  <2>2. oldBelow(n) # {}
    BY <1>1, <2>1, LeafFound DEF CallInvariant
  <2>3. oldLeaf \in oldNodes(0 .. Depth)
    BY <1>1, <2>2, OldPathEnds
  <2>4. oldLeaf \in nodes
    BY <1>1, <2>1, <2>3, SplitTrees
  <2> QED BY <1>5, <2>4 DEF keyMissing
<1>6. CASE (pc = "orphan" /\ keyIsEmpty) \/ (pc = "bubble" /\ i # 0)
  BY <1>6 DEF keyMissing
<1> QED BY <1>2, <1>3, <1>4, <1>5, <1>6

\* So are the values.
LEMMA NothingMissing ==
  ASSUME TypeOK, CallInvariant, StoreInvariant, faults = 0
  PROVE  ~ keyMissing
<1>1. CASE pc \in {"unset", "oldvalue"}
  <2>1. values = oldMap /\ pc \notin {"idle", "root", "walk"}
    BY <1>1 DEF StoreInvariant, ValuesInv
  <2>2. oldLeaf # Placeholder /\ oldLeafPath = op.path
    <3>1. CASE pc = "unset"
      BY <3>1 DEF StoreInvariant, DeleteNodesInv, keyIsEmpty
    <3>2. CASE pc = "oldvalue"
      <4>1. oldLeaf # Placeholder /\ commonPrefixCount = Depth
        BY <3>2 DEF StoreInvariant, UpdateNodesInv, CallInvariant, SpineInv
      <4>2. oldLeafPath \in Paths /\ op.path \in Paths
        BY <2>1, <4>1, LeafFound, NewMapFacts DEF CallInvariant, Entries
      <4> QED BY <4>1, <4>2, CommonPrefix DEF commonPrefixCount
    <3> QED BY <1>1, <3>1, <3>2
  <2>3. values[op.path] # Absent
    BY <2>1, <2>2, OwnLeaf
  <2> QED BY <1>1, <2>3 DEF keyMissing
<1>2. CASE pc \in {"root", "walk", "sibling"}
  BY <1>2, ReadPresent
<1>3. CASE pc \in {"orphan", "bubble", "oldleaf", "stale"}
  BY <1>3, DeletedPresent
<1>4. CASE pc \notin {"root", "walk", "sibling", "orphan", "bubble", "oldleaf", "stale",
                      "unset", "oldvalue"}
  BY <1>4 DEF keyMissing
<1> QED BY <1>1, <1>2, <1>3, <1>4
-----------------------------------------------------------------------------
\* The theorems.

\* A step of a call keeps the store invariant: an error other than a store
\* failure cannot happen, and a store failure leaves nothing to show.
LEMMA StoreStep ==
  ASSUME TypeOK, CallInvariant, StoreInvariant, Step, TypeOK', CallInvariant'
  PROVE  StoreInvariant'
<1>1. CASE StoreFault
  <2>1. faults' # 0
    BY <1>1, SMTAssumption DEF StoreFault, TypeOK, CallTypeOK
  <2> QED BY <2>1 DEF StoreInvariant
<1>2. CASE ~ StoreFault /\ faults # 0
  <2>1. faults' = faults
    BY <1>2 DEF Step, FillRoot, FillStep, FillSibling, AlreadyEmpty, DeletePathNode,
         BubbleLeaf, BubbleSkip, BubbleNode, DeleteValue, SetLeaf, Fork, DeleteOldLeaf,
         DeleteOldValue, DeleteStale, SpineSkip, SpineNode, SetValue, ProveReturn, InvalidKey
  <2> QED BY <1>2, <2>1 DEF StoreInvariant
<1>3. CASE ~ StoreFault /\ faults = 0
  <2>1. ~ InvalidKey
    BY <1>3, NothingMissing DEF InvalidKey
  <2> QED BY <1>3, <2>1, StoreWalk, StoreNoWrite, StoreOrphan, StoreBubble, StoreWritten,
         StoreSetLeaf, StoreReplace, StoreSpine DEF Step
<1> QED BY <1>1, <1>2, <1>3

\* A stuttering step keeps it too.
LEMMA StoreStutter ==
  ASSUME StoreInvariant, UNCHANGED vars
  PROVE  StoreInvariant'
<1>1. UNCHANGED <<nodes, values, root, pc, op, side, pnodes, i, cur, npr, err, faults>>
  BY DEF vars, tree, locals
<1>2. /\ oldMap' = oldMap /\ newMap' = newMap /\ offNodes' = offNodes
      /\ \A D : oldNodes(D)' = oldNodes(D)
      /\ \A D : newNodes(D)' = newNodes(D)
  BY <1>1, StoreFrame
<1>3. /\ oldLeaf' = oldLeaf /\ keyIsEmpty' = keyIsEmpty /\ newLeaf' = newLeaf
      /\ topLevel' = topLevel
  BY <1>1, SliceFrame
<1>4. spineLevel' = spineLevel
  BY <1>1, <1>3 DEF spineLevel
<1>5. faults = 0 => ReadNodesInv' /\ ValuesInv'
  BY <1>1, <1>2 DEF StoreInvariant, ReadNodesInv, ValuesInv
<1>6. faults = 0 => DeleteNodesInv'
  BY <1>1, <1>2, <1>3 DEF StoreInvariant, DeleteNodesInv
<1>7. faults = 0 => UpdateNodesInv'
  BY <1>1, <1>2, <1>3, <1>4 DEF StoreInvariant, UpdateNodesInv
<1> QED BY <1>1, <1>5, <1>6, <1>7 DEF StoreInvariant

\* At every step of every call the two stores hold the nodes and values that the
\* loops of smt.go have left and made so far, as long as no store call failed.
THEOREM StoresFollow == Spec => []StoreInvariant
<1>1. Init => StoreInvariant
  BY StoreInit
<1>2. TypeOK /\ CallInvariant /\ StoreInvariant /\ [Next]_vars /\ TypeOK' /\ CallInvariant'
        => StoreInvariant'
  BY StoreCall, StoreStep, StoreStutter DEF Next
<1> QED BY <1>1, <1>2, TypeCorrect, InvariantHolds, PTL DEF Spec

\* With stores that do not fail, the root between two calls is the root of the
\* one tree for the entries of the value store, whatever order they were written
\* in (smt.go, Update and Delete).
THEOREM RootIsCanonical == Spec => []RootCommits
<1>1. CallInvariant /\ StoreInvariant => RootCommits
  BY DEF CallInvariant, RootInv, StoreInvariant, ValuesInv, RootCommits
<1> QED BY <1>1, InvariantHolds, StoresFollow, PTL

\* With stores that do not fail, the node store between two calls holds the nodes
\* of that tree and nothing else: no node of the tree is deleted as an orphan,
\* and no orphan stays behind (smt.go, the Delete loops).
THEOREM NoOrphans == Spec => []StoreExact
<1>1. StoreInvariant => StoreExact
  BY DEF StoreInvariant, ReadNodesInv, ValuesInv, StoreExact
<1> QED BY <1>1, StoresFollow, PTL

\* With stores that do not fail, no call asks one for a key that it does not hold
\* (the Get and Delete calls of smt.go).
THEOREM KeysPresent == Spec => []NoKeyMissing
<1>1. TypeOK /\ CallInvariant /\ StoreInvariant => NoKeyMissing
  BY NothingMissing DEF NoKeyMissing
<1> QED BY <1>1, TypeCorrect, InvariantHolds, StoresFollow, PTL

\* With stores that do not fail, Get returns between two calls what the root
\* commits to, although it reads the value store only (smt.go, Get).
THEOREM GetIsFaithful == Spec => [](faults = 0 => GetReadsTree)
<1>1. CallInvariant /\ StoreInvariant => (faults = 0 => GetReadsTree)
  <2> SUFFICES ASSUME CallInvariant, StoreInvariant, faults = 0, pc = "idle",
                      NEW k \in Keys
               PROVE  Get(k) = LET v == CommittedMap(root)[PathOf[k]]
                               IN  IF v = Absent THEN DefaultValue ELSE v
    BY DEF GetReadsTree
  <2> DEFINE p == PathOf[k]
  <2>1. /\ values = oldMap /\ oldMap \in Maps /\ p \in Paths
        /\ root = SubtreeRoot(EntriesOf(oldMap), 0)
    BY SMTAssumption DEF StoreInvariant, ValuesInv, CallInvariant, RootInv
  <2>2. root = Placeholder => oldMap[p] = Absent
    <3> SUFFICES ASSUME root = Placeholder PROVE oldMap[p] = Absent
      OBVIOUS
    <3>1. EntriesOf(oldMap) \in SUBSET Entries
      BY <2>1, MapEntries
    <3>2. 0 \in 0 .. Depth /\ 0 < Depth
      BY DepthAssumption
    <3>3. EntriesOf(oldMap) = {}
      BY <2>1, <3>1, <3>2, RootShape
    <3>4. /\ <<p, oldMap[p]>> \in EntriesOf(oldMap) <=> oldMap[p] \in Values
          /\ oldMap[p] \in Values <=> oldMap[p] # Absent
      BY <2>1, MapEntries
    <3> QED BY <3>3, <3>4
  <2> QED BY <2>1, <2>2 DEF Get, oldMap
<1> QED BY <1>1, InvariantHolds, StoresFollow, PTL

-----------------------------------------------------------------------------
(***************************************************************************)
(* A call on a store that holds more than its tree.  None of the nodes     *)
(* that the loops of smt.go delete belongs to the new tree, so a call that *)
(* began on a complete tree leaves a complete tree, whatever else the      *)
(* store holds.                                                            *)
(***************************************************************************)

\* The walk reads only.
LEMMA CoverWalk ==
  ASSUME TypeOK, CallInvariant, CoverInvariant, FillRoot \/ FillStep \/ FillSibling,
         TypeOK', CallInvariant'
  PROVE  CoverInvariant'
<1>1. /\ UNCHANGED <<root, op, nodes>> /\ i' = 0
      /\ pc \in {"root", "walk", "sibling"}
      /\ pc' \in {"walk", "sibling", "proof", "orphan", "leaf"}
  BY DEF FillRoot, FillStep, FillSibling, Goto, afterWalk
<1>2. /\ oldMap' = oldMap /\ offNodes' = offNodes /\ \A D : oldNodes(D)' = oldNodes(D)
  BY <1>1, StoreFrame
<1>3. TreeNodes(EntriesOf(oldMap)) \subseteq nodes
  BY <1>1 DEF CoverInvariant, ReadCover
<1>4. pc' = "orphan" => offNodes \cup oldNodes(0 .. Len(side') - i') \subseteq nodes
  <2> SUFFICES ASSUME pc' = "orphan"
               PROVE  offNodes \cup oldNodes(0 .. Len(side') - i') \subseteq nodes
    OBVIOUS
  <2>1. Len(side') \in 0 .. Depth /\ 0 \in 0 .. Len(side') /\ Len(side') - i' = Len(side')
    <3>1. SliceTypeOK'
      BY DEF TypeOK
    <3>2. Len(side') \in Nat /\ Len(side') <= Depth
      BY <3>1 DEF SliceTypeOK, IsSlice
    <3> QED BY <1>1, <3>2, DepthAssumption
  <2>2. ~ Big(Below(EntriesOf(oldMap), op.path, Len(side')))
    BY <1>1, <1>2 DEF CallInvariant, WalkInv, oldBelow
  <2>3. oldMap \in Maps /\ op.path \in Paths
    BY <1>1, NewMapFacts DEF CallInvariant, RootInv
  <2>4. oldNodes(0 .. Depth) = oldNodes(0 .. Len(side'))
    BY <2>1, <2>2, <2>3, PathEnds DEF oldNodes
  <2> QED BY <1>1, <1>3, <2>1, <2>4, SplitTrees
<1> QED BY <1>1, <1>2, <1>3, <1>4 DEF CoverInvariant, ReadCover, DeleteCover, UpdateCover

\* An orphan is no node of the new tree.
LEMMA CoverOrphan ==
  ASSUME TypeOK, CallInvariant, CoverInvariant, DeletePathNode
  PROVE  CoverInvariant'
<1> DEFINE n == Len(side)
           d == n - i
<1>1. /\ pc = "orphan" /\ ~ keyIsEmpty /\ nodes' = nodes \ {pathNodes(i)}
      /\ UNCHANGED <<root, op, side, pnodes>>
      /\ pc' \in {"orphan", "bubble", "unset"}
      /\ pc' = "orphan" => i' = i + 1
      /\ pc' = "bubble" => i' = 0 /\ ~ (i + 1 < Len(pnodes))
      /\ pc' = "unset" => side = << >> /\ ~ (i + 1 < Len(pnodes))
  BY DEF DeletePathNode, Goto
<1>2. /\ Depth \in Nat /\ n \in Nat /\ n <= Depth /\ i \in 0 .. n /\ Len(pnodes) = n + 1
  BY <1>1, DepthAssumption DEF TypeOK, SliceTypeOK, LoopTypeOK, IsSlice
<1>3. /\ d \in 0 .. Depth /\ pathNodes(i) = SubtreeRoot(oldBelow(d), d)
      /\ \A c \in 0 .. d - 1 : Big(oldBelow(c))
      /\ i > 0 => Big(oldBelow(d))
  BY <1>1, <1>2, PathNodeAt
<1>4. Big(oldBelow(d)) \/ \E x : oldBelow(d) = {x} /\ x[1] = op.path
  <2>1. \E x : oldBelow(n) = {x} /\ x[1] = op.path
    BY <1>1, OwnLeaf DEF keyIsEmpty
  <2>2. i = 0 => d = n
    BY <1>2
  <2> QED BY <1>2, <1>3, <2>1, <2>2
<1>5. offNodes \cup oldNodes(0 .. d) \subseteq nodes
  BY <1>1 DEF CoverInvariant, DeleteCover
<1>6. offNodes \cup oldNodes(0 .. d - 1) \subseteq nodes'
  <2>1. newNodes({}) = {} /\ {} \in SUBSET (0 .. Depth)
    BY DEF newNodes, OnPath
  <2> HIDE DEF d
  <2>2. (offNodes \cup oldNodes(0 .. d) \cup newNodes({})) \ {pathNodes(i)}
          = offNodes \cup oldNodes(0 .. d - 1) \cup newNodes({})
    BY <1>1, <1>3, <1>4, <2>1, DeepestRemoved
  <2> QED BY <1>1, <1>5, <2>1, <2>2
<1>7. /\ newMap' = newMap /\ offNodes' = offNodes
      /\ \A D : oldNodes(D)' = oldNodes(D)
      /\ \A D : newNodes(D)' = newNodes(D)
      /\ keyIsEmpty' = keyIsEmpty
  BY <1>1, StoreFrame, SliceFrame
<1>8. CASE pc' = "orphan"
  <2>1. Len(side') - i' = d - 1
    BY <1>1, <1>2, <1>8
  <2> HIDE DEF d
  <2> QED BY <1>1, <1>6, <1>7, <1>8, <2>1 DEF CoverInvariant, ReadCover, DeleteCover, UpdateCover
<1>9. CASE pc' \in {"bubble", "unset"}
  <2>1. newNodes(n .. Depth) = {}
    <3>1. newBelow(n) = {}
      BY <1>1, LeafDeleted
    <3>2. \A c \in n .. Depth : newBelow(c) \subseteq newBelow(n)
      BY <1>2 DEF newBelow, Below
    <3>3. \A c \in n .. Depth : Below(EntriesOf(newMap), op.path, c) = {}
      BY <3>1, <3>2 DEF newBelow
    <3> QED BY <3>3 DEF newNodes, OnPath
  <2>2. CASE pc' = "bubble"
    <3>1. Len(side') - i' = n
      BY <1>1, <1>2, <2>2
    <3> HIDE DEF n
    <3> QED BY <1>1, <1>6, <1>7, <2>1, <2>2, <3>1
         DEF CoverInvariant, ReadCover, DeleteCover, UpdateCover
  <2>3. CASE pc' = "unset"
    <3>1. n = 0
      BY <1>1, <2>3
    <3>2. TreeNodes(EntriesOf(newMap)) = offNodes
      BY <1>1, <2>1, <3>1, SplitTrees
    <3> QED BY <1>1, <1>6, <1>7, <2>3, <3>2
         DEF CoverInvariant, ReadCover, DeleteCover, UpdateCover
  <2> QED BY <1>9, <2>2, <2>3
<1> QED BY <1>1, <1>8, <1>9

\* The new path of a deletion comes level by level.
LEMMA CoverBubble ==
  ASSUME TypeOK, CallInvariant, CoverInvariant, BubbleLeaf \/ BubbleSkip \/ BubbleNode
  PROVE  CoverInvariant'
<1> DEFINE n == Len(side)
           d == n - i
<1>1. /\ pc = "bubble" /\ UNCHANGED <<root, op, side, pnodes>>
      /\ \/ pc' = "bubble" /\ i' = i + 1
         \/ pc' = "unset" /\ ~ (i + 1 < n)
  BY DEF BubbleLeaf, BubbleSkip, BubbleNode, NextSideNode, Goto
<1>2. Depth \in Nat /\ n \in Nat /\ i \in 0 .. n - 1 /\ n <= Depth
  BY <1>1, DepthAssumption DEF TypeOK, SliceTypeOK, LoopTypeOK, IsSlice
<1>3. d \in 1 .. Depth /\ d - 1 \in Int /\ (d - 1) + 1 = d /\ d - 1 <= Depth /\ Depth \in Int
  BY <1>2
<1>4. cur' = SubtreeRoot(newBelow(d - 1), d - 1) /\ newBelow(d - 1) # {}
  BY BubbleStep
<1>5. offNodes \cup newNodes(d .. Depth) \subseteq nodes
  BY <1>1 DEF CoverInvariant, DeleteCover
<1>6. nodes \cup {cur'} \subseteq nodes'
  <2>1. CASE BubbleLeaf
    BY <2>1 DEF BubbleLeaf
  <2>2. CASE BubbleNode
    BY <2>2 DEF BubbleNode
  <2>3. CASE BubbleSkip
    <3>1. i > 0 /\ cur' = cur /\ nodes' = nodes
      BY <2>3 DEF BubbleSkip
    <3>2. newBelow(d) # {} /\ cur = SubtreeRoot(newBelow(d), d)
      BY <1>1, <3>1, BubbleLevel
    <3>3. d \in d .. Depth
      BY <1>3
    <3>4. cur \in newNodes(d .. Depth)
      BY <3>2, <3>3, OnPathNodes DEF newNodes, newBelow
    <3> QED BY <1>5, <3>1, <3>4
  <2> QED BY <2>1, <2>2, <2>3
<1>7. newNodes(d - 1 .. Depth) = newNodes(d .. Depth) \cup {cur'}
  <2> HIDE DEF d
  <2> DEFINE c == d - 1
  <2>1. c \in Int /\ c + 1 = d /\ c <= Depth /\ c <= c + 1
    BY <1>3
  <2>2. cur' = SubtreeRoot(newBelow(c), c) /\ newBelow(c) # {}
    BY <1>4
  <2> HIDE DEF c
  <2>3. newNodes(c .. Depth) = newNodes(c + 1 .. Depth) \cup {cur'}
    BY <1>3, <2>1, <2>2, OnPathLevels DEF newNodes, newBelow
  <2> QED BY <2>1, <2>3 DEF c
<1>8. offNodes \cup newNodes(d - 1 .. Depth) \subseteq nodes'
  BY <1>5, <1>6, <1>7
<1>9. /\ newMap' = newMap /\ offNodes' = offNodes /\ \A D : newNodes(D)' = newNodes(D)
  BY <1>1, StoreFrame
<1>10. CASE pc' = "bubble"
  <2>1. Len(side') - i' = d - 1
    BY <1>1, <1>2, <1>10
  <2> HIDE DEF d
  <2> QED BY <1>1, <1>8, <1>9, <1>10, <2>1
       DEF CoverInvariant, ReadCover, DeleteCover, UpdateCover
<1>11. CASE pc' = "unset"
  <2>1. d - 1 = 0
    BY <1>1, <1>2, <1>11
  <2>2. TreeNodes(EntriesOf(newMap)) \subseteq nodes'
    BY <1>1, <1>8, <2>1, SplitTrees
  <2> QED BY <1>9, <1>11, <2>2 DEF CoverInvariant, ReadCover, DeleteCover, UpdateCover
<1> QED BY <1>1, <1>10, <1>11

\* Once the nodes at and below the top level are the new ones, the stale nodes of
\* the old path may go.
LEMMA CoverStale ==
  ASSUME TypeOK, CallInvariant, pc \in UpdateLabels,
         NEW index \in 1 .. Len(side) + 1, RemoveStale(index), UNCHANGED <<side, pnodes>>,
         offNodes \cup oldNodes(0 .. Len(side) - index)
                  \cup newNodes(topLevel .. Depth) \subseteq nodes'
  PROVE  CoverInvariant'
<1>1. /\ UNCHANGED <<root, op>>
      /\ index < Len(pnodes) => pc' = "stale" /\ i' = index
      /\ ~ (index < Len(pnodes)) => pc' = "spine" /\ i' = 0
  BY DEF RemoveStale, Goto
<1>2. /\ offNodes' = offNodes /\ topLevel' = topLevel
      /\ \A D : oldNodes(D)' = oldNodes(D)
      /\ \A D : newNodes(D)' = newNodes(D)
  BY <1>1, StoreFrame, SliceFrame
<1>3. /\ Depth \in Nat /\ Len(side) \in Nat /\ Len(pnodes) = Len(side) + 1
      /\ topLevel \in Len(side) .. Depth /\ index \in Nat /\ index > 0
  <2>1. SliceTypeOK /\ pc \notin {"idle", "root"}
    BY DEF TypeOK, UpdateLabels
  <2>2. Len(side) \in Nat /\ Len(pnodes) = Len(side) + 1
    BY <2>1 DEF SliceTypeOK, IsSlice
  <2> QED BY <2>2, DepthAssumption, TopNodes
<1>4. CASE pc' = "stale"
  <2>1. i' = index /\ i' > 0
    BY <1>1, <1>3, <1>4
  <2> QED BY <1>2, <1>4, <2>1 DEF CoverInvariant, ReadCover, DeleteCover, UpdateCover
<1>5. CASE pc' = "spine"
  <2>1. i' = 0 /\ index = Len(side) + 1
    BY <1>1, <1>3, <1>5
  <2>2. spineLevel' = topLevel
    BY <1>2, <1>3, <2>1 DEF spineLevel
  <2> QED BY <1>2, <1>5, <2>2 DEF CoverInvariant, ReadCover, DeleteCover, UpdateCover
<1> QED BY <1>1, <1>4, <1>5

\* The new leaf is stored.
LEMMA CoverSetLeaf ==
  ASSUME TypeOK, CallInvariant, CoverInvariant, SetLeaf, pc' # "idle"
  PROVE  CoverInvariant'
<1>1. /\ pc = "leaf" /\ pc \in UpdateLabels /\ pc \notin {"idle", "root", "walk"}
      /\ nodes' = nodes \cup {newLeaf}
  BY DEF SetLeaf, UpdateLabels
<1>2. TreeNodes(EntriesOf(oldMap)) \subseteq nodes
  BY <1>1 DEF CoverInvariant, ReadCover
<1>3. offNodes \cup oldNodes(0 .. Depth) \subseteq nodes
  BY <1>1, <1>2, SplitTrees
<1>4. Len(side) \in 0 .. Depth
  BY <1>1, UpdateFacts
<1>5. CASE /\ pc' \in {"fork", "oldleaf"} /\ UNCHANGED <<root, op, side, pnodes>>
           /\ pc' = "oldleaf" => oldLeaf # Placeholder
                                 /\ Data(oldLeaf).valueHash # digest(op.value)
  <2>1. oldMap' = oldMap /\ oldLeaf' = oldLeaf /\ newLeaf' = newLeaf
    BY <1>5, StoreFrame, SliceFrame
  <2>2. pc' = "oldleaf" => oldLeaf # newLeaf
    BY <1>5, DigestFacts DEF newLeaf, digestLeaf
  <2> QED BY <1>1, <1>2, <1>5, <2>1, <2>2 DEF CoverInvariant, ReadCover, DeleteCover, UpdateCover
<1>6. CASE oldLeaf = Placeholder /\ RemoveStale(1) /\ UNCHANGED <<side, pnodes>>
  <2>1. commonPrefixCount = Depth
    BY <1>6 DEF commonPrefixCount
  <2>2. oldBelow(Len(side)) = {}
    BY <1>1, <1>6, LeafFound DEF CallInvariant
  <2>3. oldNodes(0 .. Depth) = oldNodes(0 .. Len(side) - 1)
    BY <1>1, <2>2, OldPathEnds
  <2>4. newNodes(topLevel .. Depth) = {newLeaf}
    BY <1>1, <2>1, TopNodes
  <2>5. offNodes \cup oldNodes(0 .. Len(side) - 1) \cup newNodes(topLevel .. Depth) \subseteq nodes'
    BY <1>1, <1>3, <2>3, <2>4
  <2>6. 1 \in 1 .. Len(side) + 1
    BY <1>4
  <2> QED BY <1>1, <1>6, <2>5, <2>6, CoverStale
<1>7. ~ ReturnRoot(root)
  BY DEF ReturnRoot, Return
<1> QED BY <1>5, <1>6, <1>7 DEF SetLeaf, Goto

\* The fork, and the removal of the old leaf and the stale nodes.
LEMMA CoverReplace ==
  ASSUME TypeOK, CallInvariant, CoverInvariant,
         Fork \/ DeleteOldLeaf \/ DeleteOldValue \/ DeleteStale
  PROVE  CoverInvariant'
<1> DEFINE n == Len(side)
<1>1. /\ pc \in {"fork", "oldleaf", "oldvalue", "stale"} /\ pc \in UpdateLabels
      /\ pc \notin {"idle", "root", "walk"}
      /\ UNCHANGED <<root, op, side, pnodes>>
  BY DEF Fork, DeleteOldLeaf, DeleteOldValue, DeleteStale, UpdateLabels, RemoveStale, Goto
<1>2. n \in 0 .. Depth /\ Depth \in Nat /\ op.path \in Paths
  BY <1>1, UpdateFacts
<1>3. TreeNodes(EntriesOf(oldMap)) = offNodes \cup oldNodes(0 .. Depth)
  BY <1>1, SplitTrees
<1>4. 1 \in 1 .. n + 1 /\ 0 \in 0 .. n /\ n - 0 = n
  BY <1>2
<1>5. CASE Fork
  <2>1. /\ RemoveStale(1) /\ commonPrefixCount # Depth
        /\ nodes' = nodes \cup
              {digestParent(op.path, commonPrefixCount, oldLeaf, newLeaf)}
        /\ TreeNodes(EntriesOf(oldMap)) \cup {newLeaf} \subseteq nodes
    BY <1>5 DEF Fork, CallInvariant, SpineInv, CoverInvariant, UpdateCover
  <2>2. oldBelow(n) # {}
    BY <1>1, <2>1, ForkKeepsLeaf
  <2>3. oldNodes(0 .. Depth) = oldNodes(0 .. n - 1) \cup {oldLeaf}
    BY <1>1, <2>2, OldPathEnds
  <2>4. newNodes(topLevel .. Depth) =
           {newLeaf, digestParent(op.path, commonPrefixCount, oldLeaf, newLeaf)}
    BY <1>1, <2>1, TopNodes
  <2>5. offNodes \cup oldNodes(0 .. n - 1) \cup newNodes(topLevel .. Depth) \subseteq nodes'
    BY <1>3, <2>1, <2>3, <2>4
  <2> QED BY <1>1, <1>4, <2>1, <2>5, CoverStale
<1>6. CASE DeleteOldLeaf
  <2>1. /\ pc = "oldleaf" /\ pc' = "oldvalue" /\ nodes' = nodes \ {oldLeaf}
        /\ TreeNodes(EntriesOf(oldMap)) \cup {newLeaf} \subseteq nodes
        /\ oldLeaf # Placeholder /\ oldLeaf # newLeaf /\ commonPrefixCount = Depth
    BY <1>6 DEF DeleteOldLeaf, Goto, CallInvariant, SpineInv, CoverInvariant, UpdateCover
  <2>2. oldLeafPath = op.path
    <3>1. oldLeafPath \in Paths
      BY <1>1, <2>1, LeafFound DEF CallInvariant, Entries
    <3> QED BY <1>2, <2>1, <3>1, CommonPrefix DEF commonPrefixCount
  <2>3. \E x : oldBelow(n) = {x} /\ x[1] = op.path
    BY <1>1, <2>1, <2>2, OwnLeaf
  <2>4. oldLeaf = SubtreeRoot(oldBelow(n), n) /\ \A c \in 0 .. n - 1 : Big(oldBelow(c))
    BY <1>1, <1>4, PathNodeAt DEF oldLeaf
  <2>5. oldNodes(0 .. Depth) = oldNodes(0 .. n)
    BY <1>1, OldPathEnds
  <2>6. newNodes({}) = {} /\ {} \in SUBSET (0 .. Depth)
    BY DEF newNodes, OnPath
  <2>7. (offNodes \cup oldNodes(0 .. n) \cup newNodes({})) \ {oldLeaf}
          = offNodes \cup oldNodes(0 .. n - 1) \cup newNodes({})
    BY <1>1, <1>2, <2>3, <2>4, <2>6, DeepestRemoved
  <2>8. offNodes \cup oldNodes(0 .. n - 1) \cup {newLeaf} \subseteq nodes'
    BY <1>3, <2>1, <2>5, <2>6, <2>7
  <2>9. /\ offNodes' = offNodes /\ \A D : oldNodes(D)' = oldNodes(D)
        /\ oldLeaf' = oldLeaf /\ newLeaf' = newLeaf
    BY <1>1, StoreFrame, SliceFrame
  <2> QED BY <1>1, <2>1, <2>8, <2>9 DEF CoverInvariant, ReadCover, DeleteCover, UpdateCover
<1>7. CASE DeleteOldValue
  <2>1. /\ RemoveStale(1) /\ commonPrefixCount = Depth /\ nodes' = nodes
        /\ offNodes \cup oldNodes(0 .. n - 1) \cup {newLeaf} \subseteq nodes
    BY <1>7 DEF DeleteOldValue, CallInvariant, SpineInv, CoverInvariant, UpdateCover
  <2>2. offNodes \cup oldNodes(0 .. n - 1) \cup newNodes(topLevel .. Depth) \subseteq nodes'
    BY <1>1, <2>1, TopNodes
  <2> QED BY <1>1, <1>4, <2>1, <2>2, CoverStale
<1>8. CASE DeleteStale
  <2> DEFINE d == n - i
             D == topLevel .. Depth
  <2>1. /\ pc = "stale" /\ i > 0 /\ RemoveStale(i + 1) /\ nodes' = nodes \ {pathNodes(i)}
        /\ offNodes \cup oldNodes(0 .. d) \cup newNodes(D) \subseteq nodes
    BY <1>8 DEF DeleteStale, CoverInvariant, UpdateCover
  <2>2. i \in 0 .. n
    BY <2>1 DEF TypeOK, LoopTypeOK
  <2>3. /\ d \in 0 .. Depth /\ pathNodes(i) = SubtreeRoot(oldBelow(d), d)
        /\ \A c \in 0 .. d - 1 : Big(oldBelow(c))
    BY <1>1, <2>2, PathNodeAt
  <2>4. D \in SUBSET (0 .. Depth) /\ \A c \in D : c # d
    <3>1. topLevel \in n .. Depth
      BY <1>1, TopNodes
    <3> QED BY <1>2, <2>1, <2>2, <3>1
  <2>5. Big(oldBelow(d))
    <3>1. i > 0 => Big(oldBelow(d))
      BY <1>1, <2>2, PathNodeAt
    <3> QED BY <2>1, <3>1
  <2>6. n - (i + 1) = d - 1 /\ i + 1 \in 1 .. n + 1
    BY <1>2, <2>1, <2>2
  <2> HIDE DEF d, D
  <2>7. (offNodes \cup oldNodes(0 .. d) \cup newNodes(D)) \ {pathNodes(i)}
          = offNodes \cup oldNodes(0 .. d - 1) \cup newNodes(D)
    BY <1>1, <2>3, <2>4, <2>5, DeepestRemoved
  <2>8. offNodes \cup oldNodes(0 .. n - (i + 1)) \cup newNodes(topLevel .. Depth) \subseteq nodes'
    BY <2>1, <2>6, <2>7 DEF D
  <2> QED BY <1>1, <2>1, <2>6, <2>8, CoverStale
<1> QED BY <1>5, <1>6, <1>7, <1>8

\* The spine grows.
LEMMA CoverSpine ==
  ASSUME TypeOK, CallInvariant, CoverInvariant, SpineSkip \/ SpineNode
  PROVE  CoverInvariant'
<1> DEFINE l == Depth - i
           t == IF l - 1 < topLevel THEN l - 1 ELSE topLevel
<1>1. /\ pc = "spine" /\ pc \in UpdateLabels /\ pc \notin {"idle", "root", "walk"}
      /\ UNCHANGED <<root, op, side, pnodes>>
      /\ \/ pc' = "spine" /\ i' = i + 1
         \/ pc' = "value" /\ ~ (i + 1 < Depth)
  BY DEF SpineSkip, SpineNode, NextSpine, Goto, UpdateLabels
<1>2. /\ l \in 1 .. Depth /\ topLevel \in 0 .. Depth
      /\ spineHasSibling <=> l <= topLevel
      /\ l <= topLevel =>
           digestParent(op.path, Depth - 1 - i, spineSibling, cur)
             = SubtreeRoot(newBelow(l - 1), l - 1)
  BY <1>1, SpineStep
<1>3. i \in 0 .. Depth - 1 /\ Depth \in Nat
  BY <1>1, DepthAssumption DEF TypeOK, LoopTypeOK
<1>4. offNodes \cup newNodes(spineLevel .. Depth) \subseteq nodes
  BY <1>1 DEF CoverInvariant, UpdateCover
<1>5. offNodes \cup newNodes(t .. Depth) \subseteq nodes'
  <2>1. CASE SpineSkip
    <3>1. nodes' = nodes /\ ~ (l <= topLevel)
      BY <1>2, <2>1 DEF SpineSkip
    <3>2. spineLevel = t
      BY <1>2, <1>3, <3>1 DEF spineLevel
    <3> QED BY <1>4, <3>1, <3>2
  <2>2. CASE SpineNode
    <3>1. /\ l <= topLevel /\ nodes' = nodes \cup {cur'}
          /\ cur' = digestParent(op.path, Depth - 1 - i, spineSibling, cur)
      BY <1>2, <2>2 DEF SpineNode
    <3>2. t = l - 1 /\ spineLevel = l
      BY <1>2, <1>3, <3>1 DEF spineLevel
    <3> DEFINE c == l - 1
    <3>3. c \in Int /\ c + 1 = l /\ c <= Depth /\ c <= c + 1 /\ Depth \in Int /\ c \in 0 .. Depth
      BY <1>2, <1>3
    <3>4. cur' = SubtreeRoot(newBelow(c), c)
      BY <1>2, <3>1
    <3> HIDE DEF c, l, t
    <3>5. newBelow(c) # {}
      BY <1>1, <3>3, NewMapFacts, UpdateFacts DEF CallInvariant
    <3>6. newNodes(c .. Depth) = newNodes(c + 1 .. Depth) \cup {cur'}
      BY <3>3, <3>4, <3>5, OnPathLevels DEF newNodes, newBelow
    <3>7. t = c
      BY <3>2 DEF c
    <3> QED BY <1>4, <3>1, <3>2, <3>3, <3>6, <3>7
  <2> QED BY <2>1, <2>2
<1>6. /\ newMap' = newMap /\ offNodes' = offNodes
      /\ \A D : newNodes(D)' = newNodes(D) /\ topLevel' = topLevel
  BY <1>1, StoreFrame, SliceFrame
<1>7. CASE pc' = "spine"
  <2>1. spineLevel' = t
    <3>1. Depth - i' = l - 1 /\ topLevel' = topLevel
      BY <1>1, <1>3, <1>6, <1>7
    <3> QED BY <3>1 DEF spineLevel
  <2> HIDE DEF t
  <2> QED BY <1>5, <1>6, <1>7, <2>1 DEF CoverInvariant, ReadCover, DeleteCover, UpdateCover
<1>8. CASE pc' = "value"
  <2>1. t = 0
    BY <1>1, <1>2, <1>3, <1>8
  <2>2. TreeNodes(EntriesOf(newMap)) \subseteq nodes'
    BY <1>1, <1>5, <2>1, SplitTrees
  <2> QED BY <1>6, <1>8, <2>2 DEF CoverInvariant, ReadCover, DeleteCover, UpdateCover
<1> QED BY <1>1, <1>7, <1>8

\* Every step within a call keeps the part of the old tree that the call needs,
\* and what it has built of the new one; a deletion that meets an error goes on
\* to the value without a tree.
LEMMA CoverStep ==
  ASSUME TypeOK, CallInvariant, CoverInvariant, Step, pc' # "idle", TypeOK', CallInvariant'
  PROVE  CoverInvariant'
<1>1. CASE InvalidKey \/ StoreFault
  <2>1. pc' = "unset" /\ err' = TRUE
    BY <1>1 DEF InvalidKey, StoreFault, OnError, ReturnError, Return, Goto
  <2> QED BY <2>1 DEF CoverInvariant, ReadCover, DeleteCover, UpdateCover
<1>2. ~ (AlreadyEmpty \/ DeleteValue \/ SetValue \/ ProveReturn)
  BY DEF AlreadyEmpty, DeleteValue, SetValue, ProveReturn, ReturnRoot, ReturnError, Return
<1> QED BY <1>1, <1>2, CoverWalk, CoverOrphan, CoverBubble, CoverSetLeaf, CoverReplace, CoverSpine
        DEF Step

\* A stuttering step keeps it too.
LEMMA CoverStutter ==
  ASSUME CoverInvariant, UNCHANGED <<nodes, root, pc, op, side, pnodes, i, err>>
  PROVE  CoverInvariant'
<1>1. /\ oldMap' = oldMap /\ newMap' = newMap /\ offNodes' = offNodes
      /\ \A D : oldNodes(D)' = oldNodes(D)
      /\ \A D : newNodes(D)' = newNodes(D)
  BY StoreFrame
<1>2. /\ oldLeaf' = oldLeaf /\ keyIsEmpty' = keyIsEmpty /\ newLeaf' = newLeaf
      /\ topLevel' = topLevel
  BY SliceFrame
<1>3. spineLevel' = spineLevel
  BY <1>2 DEF spineLevel
<1>4. ReadCover' /\ DeleteCover'
  BY <1>1, <1>2 DEF CoverInvariant, ReadCover, DeleteCover
<1>5. UpdateCover'
  BY <1>1, <1>2, <1>3 DEF CoverInvariant, UpdateCover
<1> QED BY <1>4, <1>5 DEF CoverInvariant

=============================================================================
