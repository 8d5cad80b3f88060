----------------------------- MODULE PooledWalk -----------------------------
(***************************************************************************)
(* The memory of an Update or Delete: the pools of pool.go, the slices     *)
(* into them that the walk of smt.go carries, and what outlives the call.  *)
(*                                                                         *)
(* Module SMT says what a walk computes.  Here a hash is read through a    *)
(* slice, so that a buffer that is written too early, or is handed to a    *)
(* second goroutine, shows.  The callers are goroutines with a tree and    *)
(* stores each (the shards of a ShardedSMT); they share the two pools.     *)
(* The side nodes of a walk are chosen freely, those that splitting a leaf *)
(* adds among them, and the order of the children of a node is left out.   *)
(* So are the path nodes, the second slice of a pathSlices, which is       *)
(* filled, reversed and emptied by the same loops: module SMT has them.    *)
(***************************************************************************)
EXTENDS TreeHasher, SequencesExt

CONSTANTS Callers,     \* goroutines
          Keys, Values,
          Scratches,   \* the updateScratch objects
          Slices,      \* the pathSlices objects
          Nil,
          MaxSides,    \* bound: side nodes of a walk
          MaxCalls     \* bound: calls in all

ASSUME PooledWalkAssumption == MaxSides \in Nat /\ MaxCalls \in Nat

VARIABLES
    mem,          \* the buffers of each updateScratch
    sideNodes,    \* the side nodes in each pathSlices
    scratchPool,  \* updateScratchPool
    slicesPool,   \* pathSlicesPool
    job,          \* the running call of each caller
    nodes,        \* what each caller's node store was given
    reply,        \* what its last call returned
    calls         \* calls made so far

pools == <<mem, sideNodes, scratchPool, slicesPool>>
vars  == <<pools, job, nodes, reply, calls>>

Idle    == [pc |-> "idle"]
NoReply == [status |-> "none"]

\* A slice: into memory of its own, or into a buffer of a scratch.
Own(hash)   == [at |-> Nil, hash |-> hash]
In(x, buf)  == [at |-> x, buf |-> buf]
Read(slice) == IF slice.at = Nil THEN slice.hash ELSE mem[slice.at][slice.buf]

hashBufs == <<"hashBufA", "hashBufB">>

\* What the walk finds beside its path.
SideLeaf   == digestLeaf(Nil, digest(Nil))
SideNode   == digestNode(SideLeaf, Placeholder)
SideHashes == {SideLeaf, SideNode, Placeholder}

\* The nil slice is neither a scratch nor a slice into memory.
ASSUME NilAssumption ==
    /\ Nil \notin Scratches
    /\ \A h \in SideHashes : Nil # Own(h)
    /\ \A x \in Scratches : \A b \in {1, 2} : Nil # In(x, hashBufs[b])

-----------------------------------------------------------------------------
\* The pools.

\* Mutant: the scratch stays in the pool.
getUpdateScratchShared(x) == x \in scratchPool /\ UNCHANGED scratchPool

getUpdateScratch(x) == x \in scratchPool /\ scratchPool' = scratchPool \ {x}

\* Mutant: the slices keep the side nodes of the last walk.
putPathSlicesKept(y) ==
    /\ UNCHANGED sideNodes
    /\ slicesPool' = slicesPool \cup {y}

putPathSlices(y) ==
    /\ sideNodes' = [sideNodes EXCEPT ![y] = << >>]
    /\ slicesPool' = slicesPool \cup {y}

\* The deferred puts.
PutBack(c) ==
    /\ scratchPool' = scratchPool \cup {job[c].sc}
    /\ putPathSlices(job[c].ps)
    /\ UNCHANGED mem

-----------------------------------------------------------------------------
\* UpdateForRoot.

Walks == SeqOf(SideHashes, MaxSides)

\* A delete finds the sibling of its leaf; the tree holds no pair of a leaf
\* and a placeholder.
Starts == [op : {"update"}, value : Values, sides : Walks]
             \cup [op : {"delete"}, value : {DefaultValue},
                   sides : {w \in Walks : w # << >> => w[1] # Placeholder}]

deleting(c) == job[c].start.op = "delete"

\* Both checkouts and pathInto.
UpdateForRoot(c, key, start, x, y) ==
    /\ job[c] = Idle /\ calls < MaxCalls
    /\ getUpdateScratch(x)
    /\ y \in slicesPool /\ slicesPool' = slicesPool \ {y}
    /\ mem' = [mem EXCEPT ![x].pathBuf = digest(key)]
    /\ job' = [job EXCEPT ![c] =
                  [pc |-> "fill", key |-> key, start |-> start, sc |-> x, ps |-> y,
                   at |-> 1, turn |-> 0, reached |-> FALSE, current |-> Nil,
                   pure |-> Placeholder]]
    /\ calls' = calls + 1
    /\ UNCHANGED <<sideNodes, nodes, reply>>

\* The side nodes are appended from the root down and reversed in place.
fillSideNodes(c) ==
    /\ job[c].pc = "fill"
    /\ sideNodes' = [sideNodes EXCEPT ![job[c].ps] =
                        Reverse(@ \o Reverse(job[c].start.sides))]
    /\ job' = [job EXCEPT ![c].pc = IF deleting(c) THEN "climb" ELSE "value"]
    /\ UNCHANGED <<mem, scratchPool, slicesPool, nodes, reply, calls>>

\* errKeyAlreadyEmpty: the caller's root is returned.
KeyAlreadyEmpty(c) ==
    /\ job[c].pc = "climb" /\ deleting(c) /\ job[c].at = 1
    /\ job' = [job EXCEPT ![c] = Idle]
    /\ PutBack(c)
    /\ UNCHANGED <<nodes, reply, calls>>

\* A store call fails with an error that keeps no pooled key.
StoreFails(c) ==
    /\ job[c].pc \in {"fill", "leaf", "climb"}
    /\ reply' = [reply EXCEPT ![c] = NoReply]
    /\ job' = [job EXCEPT ![c] = Idle]
    /\ PutBack(c)
    /\ UNCHANGED <<nodes, calls>>

-----------------------------------------------------------------------------
\* The tick-tock walk of updateWithSideNodes and deleteWithSideNodes.

\* Mutant: the store keeps the slice that it is given as the key.
setKeyAlias(x, buf, data) == In(x, buf)

\* The store copies the key (string(key) and toFixedKey).
setKey(x, buf, data) == Own(Digest(data))

\* The hash of data is written to the buffer whose turn it is and the node is
\* set; pure is what the walk should have.
DigestInto(c, data, pure) ==
    LET j == job[c]
        x == j.sc
        b == hashBufs[j.turn + 1]
    IN  /\ mem' = [mem EXCEPT ![x][b] = Digest(data)]
        /\ nodes' = [nodes EXCEPT ![c] = @ \cup {[key |-> setKey(x, b, data), data |-> data]}]
        /\ job' = [job EXCEPT ![c] =
                      [j EXCEPT !.current = In(x, b), !.turn = 1 - j.turn, !.pure = pure,
                                !.at = IF j.pc = "leaf" THEN j.at ELSE j.at + 1,
                                !.reached = j.pc = "climb", !.pc = "climb"]]

\* The hash of the value, in a buffer of its own.
ValueHash(c) ==
    /\ job[c].pc = "value"
    /\ mem' = [mem EXCEPT ![job[c].sc].valueHashBuf = digest(job[c].start.value)]
    /\ job' = [job EXCEPT ![c].pc = "leaf"]
    /\ UNCHANGED <<sideNodes, scratchPool, slicesPool, nodes, reply, calls>>

Leaf(c) ==
    /\ job[c].pc = "leaf"
    /\ LET x == job[c].sc
       IN  DigestInto(c, LeafData(mem[x].pathBuf, mem[x].valueHashBuf),
                         digestLeaf(digest(job[c].key), digest(job[c].start.value)))
    /\ UNCHANGED <<sideNodes, scratchPool, slicesPool, reply, calls>>

\* An update that has set its leaf and not yet gone up.
leafSet(c) == job[c].pc = "climb" /\ ~deleting(c) /\ job[c].at = 1

\* The leaf that was there has the same value hash: a copy of the tree's root is
\* returned.
SameValue(c) ==
    /\ leafSet(c)
    /\ \E old \in Values : mem[job[c].sc].valueHashBuf = digest(old)
    /\ job' = [job EXCEPT ![c] = Idle]
    /\ PutBack(c)
    /\ UNCHANGED <<nodes, reply, calls>>

climbing(c) == job[c].pc = "climb" /\ job[c].at <= Len(sideNodes[job[c].ps])
side(c)     == sideNodes[job[c].ps][job[c].at]

\* The side node that the walk found at this level.
found(c) == LET sides == job[c].start.sides
            IN  IF job[c].at \in DOMAIN sides THEN sides[job[c].at] ELSE Nil

\* The sibling is a leaf: the running hash is the side node itself.
Bubble(c) ==
    /\ climbing(c) /\ deleting(c) /\ job[c].current = Nil /\ isLeaf(Data(side(c)))
    /\ job' = [job EXCEPT ![c].current = Own(side(c)), ![c].at = @ + 1,
                          ![c].pure = found(c)]
    /\ UNCHANGED <<pools, nodes, reply, calls>>

\* A placeholder sibling above the leaf that moves up.
Skip(c) ==
    /\ climbing(c) /\ deleting(c) /\ job[c].current # Nil
    /\ ~job[c].reached /\ side(c) = Placeholder
    /\ job' = [job EXCEPT ![c].at = @ + 1]
    /\ UNCHANGED <<pools, nodes, reply, calls>>

\* One level up.  A delete whose sibling is an inner node starts from the
\* placeholder.
Climb(c) ==
    /\ climbing(c)
    /\ deleting(c) => \/ job[c].current = Nil /\ ~isLeaf(Data(side(c)))
                      \/ job[c].current # Nil /\ (job[c].reached \/ side(c) # Placeholder)
    /\ LET current == IF job[c].current = Nil THEN Placeholder ELSE Read(job[c].current)
       IN  DigestInto(c, NodeData(current, side(c)),
                         digestNode(job[c].pure, found(c)))
    /\ UNCHANGED <<sideNodes, scratchPool, slicesPool, reply, calls>>

-----------------------------------------------------------------------------
\* The return.

\* Mutant: the running hash is returned as it is.
copyOutAlias(c) == job[c].current

\* The copy into a fresh allocation.
copyOut(c) == Own(Read(job[c].current))

newRoot(c) == IF job[c].current = Nil THEN Own(Placeholder) ELSE copyOut(c)

ended(c) == job[c].pc = "climb" /\ job[c].at > Len(sideNodes[job[c].ps])

Return(c) ==
    /\ ended(c)
    /\ reply' = [reply EXCEPT ![c] =
                    [status |-> "ok", root |-> newRoot(c), pure |-> job[c].pure]]
    /\ job' = [job EXCEPT ![c] = Idle]
    /\ PutBack(c)
    /\ UNCHANGED <<nodes, calls>>

\* values.Delete does not find the path: the InvalidKeyError keeps the slice
\* that it was called with.  An update calls it for the leaf that it replaces, a
\* delete whether or not its walk failed.
DeleteValueFails(c) ==
    /\ leafSet(c) \/ (job[c].pc = "climb" /\ deleting(c))
    /\ reply' = [reply EXCEPT ![c] =
                    [status |-> "error", key |-> In(job[c].sc, "pathBuf"),
                     pure |-> digest(job[c].key)]]
    /\ job' = [job EXCEPT ![c] = Idle]
    /\ PutBack(c)
    /\ UNCHANGED <<nodes, calls>>

-----------------------------------------------------------------------------

Init ==
    /\ mem = [x \in Scratches |-> [pathBuf |-> Placeholder, valueHashBuf |-> Placeholder,
                 hashBufA |-> Placeholder, hashBufB |-> Placeholder]]
    /\ sideNodes = [y \in Slices |-> << >>]
    /\ scratchPool = Scratches /\ slicesPool = Slices
    /\ job = [c \in Callers |-> Idle] /\ nodes = [c \in Callers |-> {}]
    /\ reply = [c \in Callers |-> NoReply]
    /\ calls = 0

Next == \E c \in Callers :
    \/ \E key \in Keys, start \in Starts, x \in Scratches, y \in Slices :
          UpdateForRoot(c, key, start, x, y)
    \/ fillSideNodes(c) \/ KeyAlreadyEmpty(c) \/ StoreFails(c)
    \/ ValueHash(c) \/ Leaf(c) \/ SameValue(c) \/ Bubble(c) \/ Skip(c) \/ Climb(c)
    \/ Return(c) \/ DeleteValueFails(c)

Spec == Init /\ [][Next]_vars

-----------------------------------------------------------------------------

\* A root that was returned keeps its value, whatever the pooled buffers are
\* used for later (the copy at the end of UpdateForRoot).
RootIntact == \A c \in Callers :
    reply[c].status = "ok" => Read(reply[c].root) = reply[c].pure

\* The node store finds every node under its hash, although the key was a
\* pooled buffer when the node was set ("Set copies the key").
NodesUnderHash == \A c \in Callers : \A node \in nodes[c] :
    Read(node.key) = Digest(node.data)

\* The tick-tock invariant of updateWithSideNodes: between two levels the
\* running hash is what the walk computes, and it is in the buffer that was
\* written last, of the caller's own scratch, or is a side node.
TickTock == \A c \in Callers :
    job[c].pc = "climb" /\ job[c].current # Nil =>
        /\ Read(job[c].current) = job[c].pure
        /\ \/ job[c].current.at = Nil
           \/ job[c].current = In(job[c].sc, hashBufs[2 - job[c].turn])

\* The key of an InvalidKeyError is the one that was not found, for as long as
\* the error is kept (InvalidKeyError in mapstore.go).
ErrorNamesKey == \A c \in Callers :
    reply[c].status = "error" => Read(reply[c].key) = reply[c].pure
-----------------------------------------------------------------------------
(***************************************************************************)
(* The inductive invariant: every pooled object has one owner, and only    *)
(* the caller's own running hash is read through a pooled buffer.          *)
(***************************************************************************)

isJob(j) == j = [pc |-> j.pc, key |-> j.key, start |-> j.start, sc |-> j.sc, ps |-> j.ps,
                 at |-> j.at, turn |-> j.turn, reached |-> j.reached,
                 current |-> j.current, pure |-> j.pure]

\* The running hash: none yet, a side node, or the buffer written last.
Running(j) ==
    \/ j.current = Nil /\ j.pure = Placeholder
    \/ j.current = Own(j.pure) /\ j.pure \in SideHashes
    \/ LET last == hashBufs[2 - j.turn]
       IN  j.current = In(j.sc, last) /\ mem[j.sc][last] = j.pure

\* A running call owns its scratch and its slices, and finds in them what it
\* put there.
Walking(j) ==
    /\ isJob(j)
    /\ j.pc \in {"fill", "value", "leaf", "climb"}
    /\ j.start \in Starts /\ j.turn \in {0, 1} /\ j.at \in Nat \ {0}
    /\ j.sc \in Scratches \ scratchPool /\ j.ps \in Slices \ slicesPool
    /\ mem[j.sc].pathBuf = digest(j.key)
    /\ j.start.op = "update" /\ j.pc \in {"leaf", "climb"} =>
          mem[j.sc].valueHashBuf = digest(j.start.value)
    /\ j.pc \in {"value", "leaf"} => j.start.op = "update"
    /\ sideNodes[j.ps] = IF j.pc = "fill" THEN << >> ELSE j.start.sides
    /\ Running(j)

PoolsOK ==
    /\ mem = [x \in Scratches |-> [pathBuf |-> mem[x].pathBuf,
                 valueHashBuf |-> mem[x].valueHashBuf,
                 hashBufA |-> mem[x].hashBufA, hashBufB |-> mem[x].hashBufB]]
    /\ sideNodes = [y \in Slices |-> sideNodes[y]]
    /\ scratchPool \subseteq Scratches /\ slicesPool \subseteq Slices
    /\ \A y \in slicesPool : sideNodes[y] = << >>

JobsOK ==
    /\ job = [c \in Callers |-> job[c]]
    /\ \A c \in Callers : job[c] = Idle \/ Walking(job[c])

OneOwner == \A c, d \in Callers :
    c # d /\ job[c] # Idle /\ job[d] # Idle =>
        job[c].sc # job[d].sc /\ job[c].ps # job[d].ps

\* What outlives a call is in memory of its own.
Escaped ==
    /\ nodes = [c \in Callers |-> nodes[c]] /\ reply = [c \in Callers |-> reply[c]]
    /\ \A c \in Callers :
          /\ \A node \in nodes[c] : node.key = Own(Digest(node.data))
          /\ reply[c].status = "ok" => reply[c].root = Own(reply[c].pure)

\* A scratch or a pathSlices object is in its pool or with one caller, which
\* finds in it what it wrote, and nothing that outlives a call points into one
\* (pool.go, and the walk and the copy of smt.go).
PoolsPrivate == PoolsOK /\ JobsOK /\ OneOwner /\ Escaped
=============================================================================
