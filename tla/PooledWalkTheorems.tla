------------------------- MODULE PooledWalkTheorems -------------------------
(***************************************************************************)
(* The pooled buffers stay private, for any number of goroutines, scratch  *)
(* objects, calls and side nodes: PoolsPrivate is inductive, and the root, *)
(* the nodes and the running hash of module PooledWalk follow from it.     *)
(***************************************************************************)
EXTENDS PooledWalk, TLAPS

-----------------------------------------------------------------------------
\* Slices and digests.

\* A slice into memory of its own is not the nil slice and reads as its hash,
\* and the two buffers of a scratch are different.
LEMMA SliceFacts ==
  /\ \A h : Read(Own(h)) = h /\ Own(h).at = Nil
  /\ \A x \in Scratches, b \in {1, 2} :
        In(x, hashBufs[b]).at = x /\ Read(In(x, hashBufs[b])) = mem[x][hashBufs[b]]
  /\ hashBufs[1] = "hashBufA" /\ hashBufs[2] = "hashBufB"
  BY NilAssumption DEF Read, Own, In, hashBufs

\* The side nodes appended from the root down and reversed in place are those
\* that the walk found, from the leaf up (fillSideNodes).
LEMMA ReversedTwice ==
  ASSUME NEW s \in Walks
  PROVE  Reverse(<< >> \o Reverse(s)) = s
<1>1. PICK m \in 0 .. MaxSides : s \in [1 .. m -> SideHashes]
  BY DEF Walks, SeqOf
<1>2. m \in Nat
  BY <1>1, PooledWalkAssumption
<1>3. s \in Seq(SideHashes) /\ Len(s) = m
  BY <1>1, <1>2
<1>4. Reverse(s) \in Seq(SideHashes) /\ Len(Reverse(s)) = m
  BY <1>2, <1>3 DEF Reverse
<1>5. << >> \o Reverse(s) = Reverse(s)
  BY <1>4
<1>6. Reverse(Reverse(s)) = s
  BY <1>2, <1>3, <1>4 DEF Reverse
<1> QED BY <1>5, <1>6

\* The side nodes of a call are a walk.
LEMMA SidesAreWalk ==
  ASSUME NEW start \in Starts
  PROVE  start.sides \in Walks
  BY DEF Starts

\* An entry of a walk is a side node.
LEMMA WalkEntry ==
  ASSUME NEW s \in Walks, NEW i \in Nat \ {0}, i <= Len(s)
  PROVE  i \in DOMAIN s /\ s[i] \in SideHashes
<1>1. PICK m \in 0 .. MaxSides : s \in [1 .. m -> SideHashes]
  BY DEF Walks, SeqOf
<1>2. m \in Nat
  BY <1>1, PooledWalkAssumption
<1> QED BY <1>1, <1>2

-----------------------------------------------------------------------------
\* Ownership.

\* Idle callers run no call.
LEMMA RunningJob ==
  ASSUME PoolsPrivate, NEW c \in Callers
  PROVE  /\ job[c] # Idle => Walking(job[c])
         /\ Walking(job[c]) => job[c] # Idle
         /\ job[c].pc \in {"fill", "value", "leaf", "climb"} => Walking(job[c])
  BY DEF PoolsPrivate, JobsOK, Walking, Idle

\* A step of one caller that leaves alone what the others own keeps every other
\* call as it is.
LEMMA StepOfOne ==
  ASSUME PoolsPrivate, NEW c \in Callers,
         job' = [job EXCEPT ![c] = job'[c]],
         \A d \in Callers \ {c} : job[d] # Idle =>
            /\ mem'[job[d].sc] = mem[job[d].sc]
            /\ sideNodes'[job[d].ps] = sideNodes[job[d].ps]
            /\ job[d].sc \notin scratchPool' /\ job[d].ps \notin slicesPool'
            /\ job'[c] # Idle => job'[c].sc # job[d].sc /\ job'[c].ps # job[d].ps,
         job'[c] # Idle => Walking(job[c])'
  PROVE  JobsOK' /\ OneOwner'
<1>1. \A d \in Callers \ {c} : job'[d] = job[d]
  BY DEF PoolsPrivate, JobsOK
<1>2. job' = [d \in Callers |-> job'[d]]
  BY DEF PoolsPrivate, JobsOK
<1>3. ASSUME NEW d \in Callers \ {c}, job[d] # Idle
      PROVE  Walking(job[d])'
  <2>1. Walking(job[d])
    BY <1>3, RunningJob
  <2>2. job'[d] = job[d]
    BY <1>1
  <2>3. /\ mem'[job[d].sc] = mem[job[d].sc]
        /\ sideNodes'[job[d].ps] = sideNodes[job[d].ps]
        /\ job[d].sc \notin scratchPool' /\ job[d].ps \notin slicesPool'
    BY <1>3
  <2>4. Running(job[d])'
    BY <2>1, <2>2, <2>3 DEF Walking, Running, hashBufs
  <2>5. isJob(job[d])'
    BY <2>1, <2>2 DEF Walking, isJob
  <2> QED BY <2>1, <2>2, <2>3, <2>4, <2>5 DEF Walking
<1>4. JobsOK'
  BY <1>1, <1>2, <1>3 DEF JobsOK
<1>5. OneOwner'
  BY <1>1 DEF PoolsPrivate, OneOwner
<1> QED BY <1>4, <1>5

\* Two calls share neither scratch nor slices.
LEMMA Apart ==
  ASSUME PoolsPrivate, NEW c \in Callers, NEW d \in Callers \ {c},
         job[c] # Idle, job[d] # Idle
  PROVE  /\ job[c].sc # job[d].sc /\ job[c].ps # job[d].ps
         /\ job[d].sc \in Scratches \ scratchPool /\ job[d].ps \in Slices \ slicesPool
<1>1. Walking(job[d])
  BY RunningJob
<1> QED BY <1>1 DEF PoolsPrivate, OneOwner, Walking

-----------------------------------------------------------------------------
\* The steps.

\* A call starts (UpdateForRoot: both checkouts and pathInto).
LEMMA StartStep ==
  ASSUME PoolsPrivate, NEW c \in Callers, NEW key, NEW start \in Starts,
         NEW x \in Scratches, NEW y \in Slices, UpdateForRoot(c, key, start, x, y)
  PROVE  PoolsPrivate'
<1> DEFINE j == [pc |-> "fill", key |-> key, start |-> start, sc |-> x, ps |-> y,
                 at |-> 1, turn |-> 0, reached |-> FALSE, current |-> Nil,
                 pure |-> Placeholder]
<1>1. /\ job[c] = Idle /\ job' = [job EXCEPT ![c] = j]
      /\ x \in scratchPool /\ scratchPool' = scratchPool \ {x}
      /\ y \in slicesPool /\ slicesPool' = slicesPool \ {y}
      /\ mem' = [mem EXCEPT ![x].pathBuf = digest(key)]
      /\ sideNodes' = sideNodes /\ nodes' = nodes /\ reply' = reply
  BY DEF UpdateForRoot, getUpdateScratch
<1>2. /\ mem = [z \in Scratches |-> [pathBuf |-> mem[z].pathBuf,
                   valueHashBuf |-> mem[z].valueHashBuf,
                   hashBufA |-> mem[z].hashBufA, hashBufB |-> mem[z].hashBufB]]
      /\ sideNodes = [z \in Slices |-> sideNodes[z]]
      /\ scratchPool \subseteq Scratches /\ slicesPool \subseteq Slices
      /\ sideNodes[y] = << >>
  BY <1>1 DEF PoolsPrivate, PoolsOK
<1>3. /\ mem'[x].pathBuf = digest(key)
      /\ \A z \in Scratches \ {x} : mem'[z] = mem[z]
  BY <1>1, <1>2
<1>4. PoolsOK'
  <2>1. mem' = [z \in Scratches |-> [pathBuf |-> mem'[z].pathBuf,
                   valueHashBuf |-> mem'[z].valueHashBuf,
                   hashBufA |-> mem'[z].hashBufA, hashBufB |-> mem'[z].hashBufB]]
    BY <1>1, <1>2
  <2> QED BY <1>1, <1>2, <2>1 DEF PoolsPrivate, PoolsOK
<1>9. job'[c] = j /\ job' = [job EXCEPT ![c] = job'[c]]
  BY <1>1 DEF PoolsPrivate, JobsOK
<1>5. Walking(job[c])'
  <2>1. job'[c] = j
    BY <1>9
  <2>2. /\ isJob(j) /\ j.pc = "fill" /\ j.start = start /\ j.turn = 0 /\ j.at = 1
        /\ j.sc = x /\ j.ps = y /\ j.key = key /\ j.current = Nil /\ j.pure = Placeholder
    BY DEF isJob
  <2> HIDE DEF j
  <2>3. isJob(job[c])' /\ Running(job[c])'
    BY <2>1, <2>2 DEF isJob, Running
  <2> QED BY <1>1, <1>2, <1>3, <2>1, <2>2, <2>3 DEF Walking
<1>6. ASSUME NEW d \in Callers \ {c}, job[d] # Idle
      PROVE  /\ mem'[job[d].sc] = mem[job[d].sc]
             /\ sideNodes'[job[d].ps] = sideNodes[job[d].ps]
             /\ job[d].sc \notin scratchPool' /\ job[d].ps \notin slicesPool'
             /\ job'[c].sc # job[d].sc /\ job'[c].ps # job[d].ps
  <2>1. Walking(job[d])
    BY <1>6, RunningJob
  <2>2. job[d].sc \in Scratches \ scratchPool /\ job[d].ps \in Slices \ slicesPool
    BY <2>1 DEF Walking
  <2>3. job'[c].sc = x /\ job'[c].ps = y
    BY <1>9
  <2> QED BY <1>1, <1>3, <2>2, <2>3
<1>7. JobsOK' /\ OneOwner'
  BY <1>9, <1>5, <1>6, StepOfOne
<1>8. Escaped'
  BY <1>1 DEF PoolsPrivate, Escaped
<1> QED BY <1>4, <1>7, <1>8 DEF PoolsPrivate

\* A call ends: what it checked out goes back to the pools, and what it leaves
\* behind is in memory of its own (the deferred puts and the copy).
LEMMA EndStep ==
  ASSUME PoolsPrivate, NEW c \in Callers, Walking(job[c]), PutBack(c),
         job' = [job EXCEPT ![c] = Idle], Escaped'
  PROVE  PoolsPrivate'
<1>1. /\ scratchPool' = scratchPool \cup {job[c].sc}
      /\ sideNodes' = [sideNodes EXCEPT ![job[c].ps] = << >>]
      /\ slicesPool' = slicesPool \cup {job[c].ps}
      /\ mem' = mem
  BY DEF PutBack, putPathSlices
<1>2. job[c].sc \in Scratches /\ job[c].ps \in Slices /\ job[c] # Idle
  BY RunningJob DEF Walking
<1>3. PoolsOK'
  BY <1>1, <1>2 DEF PoolsPrivate, PoolsOK
<1>4. ASSUME NEW d \in Callers \ {c}, job[d] # Idle
      PROVE  /\ mem'[job[d].sc] = mem[job[d].sc]
             /\ sideNodes'[job[d].ps] = sideNodes[job[d].ps]
             /\ job[d].sc \notin scratchPool' /\ job[d].ps \notin slicesPool'
  <2>1. /\ job[c].sc # job[d].sc /\ job[c].ps # job[d].ps
        /\ job[d].sc \in Scratches \ scratchPool /\ job[d].ps \in Slices \ slicesPool
    BY <1>2, <1>4, Apart
  <2>2. sideNodes = [z \in Slices |-> sideNodes[z]]
    BY DEF PoolsPrivate, PoolsOK
  <2> QED BY <1>1, <1>2, <2>1, <2>2
<1>5. job'[c] = Idle /\ job' = [job EXCEPT ![c] = job'[c]]
  BY DEF PoolsPrivate, JobsOK
<1>6. JobsOK' /\ OneOwner'
  BY <1>4, <1>5, StepOfOne
<1> QED BY <1>3, <1>6 DEF PoolsPrivate

\* A step that leaves the pools, the buffers and what outlives the call alone
\* (Bubble and Skip).
LEMMA QuietStep ==
  ASSUME PoolsPrivate, NEW c \in Callers, Walking(job[c]), UNCHANGED <<pools, nodes, reply>>,
         job' = [job EXCEPT ![c] = job'[c]],
         job'[c].sc = job[c].sc, job'[c].ps = job[c].ps,
         Walking(job[c])'
  PROVE  PoolsPrivate'
<1>1. UNCHANGED <<mem, sideNodes, scratchPool, slicesPool>>
  BY DEF pools
<1>2. job[c] # Idle
  BY RunningJob
<1>3. ASSUME NEW d \in Callers \ {c}, job[d] # Idle
      PROVE  /\ mem'[job[d].sc] = mem[job[d].sc]
             /\ sideNodes'[job[d].ps] = sideNodes[job[d].ps]
             /\ job[d].sc \notin scratchPool' /\ job[d].ps \notin slicesPool'
             /\ job'[c].sc # job[d].sc /\ job'[c].ps # job[d].ps
  BY <1>1, <1>2, <1>3, Apart
<1>4. JobsOK' /\ OneOwner'
  BY <1>3, StepOfOne
<1>5. PoolsOK' /\ Escaped'
  BY <1>1 DEF PoolsPrivate, PoolsOK, Escaped
<1> QED BY <1>4, <1>5 DEF PoolsPrivate

\* A node is hashed into the buffer whose turn it is, which is not the one that
\* holds the running hash, and is set under a copy of its hash.
LEMMA DigestStep ==
  ASSUME PoolsPrivate, NEW c \in Callers, Walking(job[c]),
         job[c].pc \in {"leaf", "climb"}, NEW data, NEW pure, Digest(data) = pure,
         DigestInto(c, data, pure),
         UNCHANGED <<sideNodes, scratchPool, slicesPool, reply>>
  PROVE  PoolsPrivate'
<1> DEFINE x == job[c].sc
           b == hashBufs[job[c].turn + 1]
           j == [job[c] EXCEPT !.current = In(x, b), !.turn = 1 - job[c].turn, !.pure = pure,
                    !.at = IF job[c].pc = "leaf" THEN job[c].at ELSE job[c].at + 1,
                    !.reached = job[c].pc = "climb", !.pc = "climb"]
<1>1. b \in {"hashBufA", "hashBufB"} /\ b = hashBufs[2 - (1 - job[c].turn)]
  BY DEF Walking, hashBufs
<1>2. /\ mem' = [mem EXCEPT ![x][b] = pure]
      /\ nodes' = [nodes EXCEPT ![c] = @ \cup {[key |-> Own(pure), data |-> data]}]
      /\ job' = [job EXCEPT ![c] = j]
  BY DEF DigestInto, setKey
<1> HIDE DEF b, j
<1>3. /\ mem = [z \in Scratches |-> [pathBuf |-> mem[z].pathBuf,
                   valueHashBuf |-> mem[z].valueHashBuf,
                   hashBufA |-> mem[z].hashBufA, hashBufB |-> mem[z].hashBufB]]
      /\ x \in Scratches
  BY DEF PoolsPrivate, PoolsOK, Walking
<1>4. /\ mem'[x][b] = pure /\ mem'[x].pathBuf = mem[x].pathBuf
      /\ mem'[x].valueHashBuf = mem[x].valueHashBuf
      /\ \A z \in Scratches \ {x} : mem'[z] = mem[z]
      /\ mem' = [z \in Scratches |-> [pathBuf |-> mem'[z].pathBuf,
                   valueHashBuf |-> mem'[z].valueHashBuf,
                   hashBufA |-> mem'[z].hashBufA, hashBufB |-> mem'[z].hashBufB]]
  <2>1. /\ mem'[x] = [mem[x] EXCEPT ![b] = pure]
        /\ \A z \in Scratches \ {x} : mem'[z] = mem[z]
        /\ DOMAIN mem' = Scratches
    BY <1>2, <1>3
  <2>2. \A z \in Scratches : mem[z] = [pathBuf |-> mem[z].pathBuf,
           valueHashBuf |-> mem[z].valueHashBuf,
           hashBufA |-> mem[z].hashBufA, hashBufB |-> mem[z].hashBufB]
    BY <1>3
  <2>3. /\ mem'[x][b] = pure /\ mem'[x].pathBuf = mem[x].pathBuf
        /\ mem'[x].valueHashBuf = mem[x].valueHashBuf
        /\ mem'[x] = [pathBuf |-> mem'[x].pathBuf,
              valueHashBuf |-> mem'[x].valueHashBuf,
              hashBufA |-> mem'[x].hashBufA, hashBufB |-> mem'[x].hashBufB]
    <3>1. CASE b = "hashBufA"
      <4>1. mem'[x] = [pathBuf |-> mem[x].pathBuf,
                       valueHashBuf |-> mem[x].valueHashBuf, hashBufA |-> pure,
                       hashBufB |-> mem[x].hashBufB]
        BY <1>3, <2>1, <2>2, <3>1
      <4> QED BY <3>1, <4>1
    <3>2. CASE b = "hashBufB"
      <4>1. mem'[x] = [pathBuf |-> mem[x].pathBuf,
                       valueHashBuf |-> mem[x].valueHashBuf,
                       hashBufA |-> mem[x].hashBufA, hashBufB |-> pure]
        BY <1>3, <2>1, <2>2, <3>2
      <4> QED BY <3>2, <4>1
    <3> QED BY <1>1, <3>1, <3>2
  <2>4. \A z \in Scratches : mem'[z] = [pathBuf |-> mem'[z].pathBuf,
           valueHashBuf |-> mem'[z].valueHashBuf,
           hashBufA |-> mem'[z].hashBufA, hashBufB |-> mem'[z].hashBufB]
    BY <2>1, <2>2, <2>3
  <2>5. mem' = [z \in Scratches |-> mem'[z]]
    BY <1>2, <1>3
  <2> QED BY <2>1, <2>3, <2>4, <2>5
<1>5. /\ isJob(job'[c])
      /\ job'[c].current = In(x, b) /\ job'[c].turn = 1 - job[c].turn
      /\ job'[c].pure = pure /\ job'[c].pc = "climb"
      /\ job'[c].at = IF job[c].pc = "leaf" THEN job[c].at ELSE job[c].at + 1
      /\ job'[c].sc = x /\ job'[c].ps = job[c].ps
      /\ job'[c].start = job[c].start /\ job'[c].key = job[c].key
      /\ job' = [job EXCEPT ![c] = job'[c]]
  <2>1. job = [d \in Callers |-> job[d]] /\ isJob(job[c])
    BY DEF PoolsPrivate, JobsOK, Walking
  <2>2. job' = [job EXCEPT ![c] = job'[c]]
    BY <1>2, <2>1
  <2>3. job'[c] = j
    BY <1>2, <2>1
  <2>4. job'[c] = [pc |-> "climb", key |-> job[c].key, start |-> job[c].start,
                   sc |-> x, ps |-> job[c].ps,
                   at |-> IF job[c].pc = "leaf" THEN job[c].at ELSE job[c].at + 1,
                   turn |-> 1 - job[c].turn, reached |-> (job[c].pc = "climb"),
                   current |-> In(x, b), pure |-> pure]
    BY <2>1, <2>3 DEF isJob, j
  <2> QED BY <2>2, <2>4 DEF isJob
<1>6. Walking(job[c])'
  <2>1. Running(job[c])'
    BY <1>1, <1>4, <1>5 DEF Running
  <2>2. isJob(job[c])'
    BY <1>5 DEF isJob
  <2>3. job'[c].turn \in {0, 1} /\ job'[c].at \in Nat \ {0}
    BY <1>5 DEF Walking
  <2> QED BY <1>4, <1>5, <2>1, <2>2, <2>3 DEF Walking
<1>7. job[c] # Idle
  BY RunningJob
<1>8. ASSUME NEW d \in Callers \ {c}, job[d] # Idle
      PROVE  /\ mem'[job[d].sc] = mem[job[d].sc]
             /\ sideNodes'[job[d].ps] = sideNodes[job[d].ps]
             /\ job[d].sc \notin scratchPool' /\ job[d].ps \notin slicesPool'
             /\ job'[c].sc # job[d].sc /\ job'[c].ps # job[d].ps
  BY <1>4, <1>5, <1>7, <1>8, Apart
<1>9. JobsOK' /\ OneOwner'
  BY <1>5, <1>6, <1>8, StepOfOne
<1>10. PoolsOK'
  BY <1>4 DEF PoolsPrivate, PoolsOK
<1>11. Escaped'
  <2>1. nodes = [d \in Callers |-> nodes[d]] /\ reply = [d \in Callers |-> reply[d]]
    BY DEF PoolsPrivate, Escaped
  <2>2. nodes'[c] = nodes[c] \cup {[key |-> Own(pure), data |-> data]}
    BY <1>2, <2>1
  <2>3. \A d \in Callers \ {c} : nodes'[d] = nodes[d]
    BY <1>2, <2>1
  <2>4. ASSUME NEW d \in Callers, NEW node \in nodes'[d]
        PROVE  node.key = Own(Digest(node.data))
    <3>1. CASE node \in nodes[d]
      BY <3>1 DEF PoolsPrivate, Escaped
    <3>2. CASE node = [key |-> Own(pure), data |-> data]
      BY <3>2
    <3> QED BY <2>2, <2>3, <2>4, <3>1, <3>2
  <2> QED BY <1>2, <2>1, <2>4 DEF PoolsPrivate, Escaped
<1> QED BY <1>9, <1>10, <1>11 DEF PoolsPrivate

\* The walk reads the side nodes that it found (sideNodes of the pathSlices).
LEMMA SideFound ==
  ASSUME PoolsPrivate, NEW c \in Callers, climbing(c)
  PROVE  /\ Walking(job[c])
         /\ side(c) = found(c) /\ side(c) \in SideHashes
         /\ job[c].at \in DOMAIN job[c].start.sides
<1>1. Walking(job[c])
  BY RunningJob DEF climbing
<1>2. sideNodes[job[c].ps] = job[c].start.sides /\ job[c].at \in Nat \ {0}
  BY <1>1 DEF Walking, climbing
<1>3. job[c].start.sides \in Walks
  BY <1>1, SidesAreWalk DEF Walking
<1> QED BY <1>1, <1>2, <1>3, WalkEntry DEF side, found, climbing

\* The running hash that Climb and the return read is the one the walk computed.
LEMMA RunningHash ==
  ASSUME PoolsPrivate, NEW c \in Callers, Walking(job[c])
  PROVE  /\ job[c].current = Nil => job[c].pure = Placeholder
         /\ job[c].current # Nil => Read(job[c].current) = job[c].pure
<1>1. 2 - job[c].turn \in {1, 2} /\ job[c].sc \in Scratches
  BY DEF Walking
<1>2. Running(job[c])
  BY DEF Walking
<1>3. CASE job[c].current = Nil /\ job[c].pure = Placeholder
  BY <1>3
<1>4. CASE job[c].current = Own(job[c].pure) /\ job[c].pure \in SideHashes
  BY <1>4, SliceFacts, NilAssumption
<1>5. CASE /\ job[c].current = In(job[c].sc, hashBufs[2 - job[c].turn])
           /\ mem[job[c].sc][hashBufs[2 - job[c].turn]] = job[c].pure
  BY <1>1, <1>5, SliceFacts, NilAssumption
<1> QED BY <1>2, <1>3, <1>4, <1>5 DEF Running

-----------------------------------------------------------------------------
\* One lemma per action.

LEMMA FillStep ==
  ASSUME PoolsPrivate, NEW c \in Callers, fillSideNodes(c)
  PROVE  PoolsPrivate'
<1> DEFINE pc == IF deleting(c) THEN "climb" ELSE "value"
<1>1. /\ job[c].pc = "fill"
      /\ sideNodes' = [sideNodes EXCEPT ![job[c].ps] = Reverse(@ \o Reverse(job[c].start.sides))]
      /\ job' = [job EXCEPT ![c].pc = pc] /\ pc \in {"value", "climb"}
      /\ pc = "climb" <=> deleting(c)
      /\ mem' = mem /\ scratchPool' = scratchPool /\ slicesPool' = slicesPool
      /\ nodes' = nodes /\ reply' = reply
  BY DEF fillSideNodes
<1> HIDE DEF pc
<1>2. Walking(job[c]) /\ job[c] # Idle
  BY <1>1, RunningJob
<1>3. /\ sideNodes[job[c].ps] = << >> /\ job[c].ps \in Slices \ slicesPool
      /\ job[c].start.sides \in Walks
  BY <1>1, <1>2, SidesAreWalk DEF Walking
<1>4. sideNodes' = [sideNodes EXCEPT ![job[c].ps] = job[c].start.sides]
  BY <1>1, <1>3, ReversedTwice
<1>5. /\ isJob(job'[c]) /\ job'[c].pc = pc /\ job'[c].current = job[c].current
      /\ job'[c].turn = job[c].turn /\ job'[c].pure = job[c].pure
      /\ job'[c].at = job[c].at /\ job'[c].sc = job[c].sc /\ job'[c].ps = job[c].ps
      /\ job'[c].start = job[c].start /\ job'[c].key = job[c].key
      /\ job' = [job EXCEPT ![c] = job'[c]]
  <2>1. job = [d \in Callers |-> job[d]] /\ isJob(job[c])
    BY <1>2 DEF PoolsPrivate, JobsOK, Walking
  <2>2. job' = [job EXCEPT ![c] = job'[c]] /\ job'[c] = [job[c] EXCEPT !.pc = pc]
    BY <1>1, <2>1
  <2> QED BY <2>1, <2>2 DEF isJob
<1>6. Walking(job[c])'
  <2>1. sideNodes'[job[c].ps] = job[c].start.sides
    BY <1>3, <1>4 DEF PoolsPrivate, PoolsOK
  <2>2. Running(job[c])' /\ isJob(job[c])'
    BY <1>1, <1>2, <1>5 DEF Walking, Running, isJob
  <2>3. job[c].start.op = "update" <=> ~ deleting(c)
    BY <1>2 DEF Walking, Starts, deleting
  <2>4. /\ pc # "leaf" /\ pc = "climb" => job'[c].start.op # "update"
        /\ pc = "value" => job'[c].start.op = "update"
    BY <1>1, <1>5, <2>3
  <2> QED BY <1>1, <1>2, <1>5, <2>1, <2>2, <2>4 DEF Walking
<1>7. ASSUME NEW d \in Callers \ {c}, job[d] # Idle
      PROVE  /\ mem'[job[d].sc] = mem[job[d].sc]
             /\ sideNodes'[job[d].ps] = sideNodes[job[d].ps]
             /\ job[d].sc \notin scratchPool' /\ job[d].ps \notin slicesPool'
             /\ job'[c].sc # job[d].sc /\ job'[c].ps # job[d].ps
  <2>1. /\ job[c].sc # job[d].sc /\ job[c].ps # job[d].ps
        /\ job[d].sc \in Scratches \ scratchPool /\ job[d].ps \in Slices \ slicesPool
    BY <1>2, <1>7, Apart
  <2>2. sideNodes = [z \in Slices |-> sideNodes[z]]
    BY DEF PoolsPrivate, PoolsOK
  <2> QED BY <1>1, <1>4, <1>5, <2>1, <2>2
<1>8. JobsOK' /\ OneOwner'
  BY <1>5, <1>6, <1>7, StepOfOne
<1>9. PoolsOK' /\ Escaped'
  <2>1. sideNodes' = [z \in Slices |-> sideNodes'[z]]
    BY <1>4 DEF PoolsPrivate, PoolsOK
  <2>2. \A z \in slicesPool' : sideNodes'[z] = << >>
    BY <1>1, <1>3, <1>4 DEF PoolsPrivate, PoolsOK
  <2> QED BY <1>1, <2>1, <2>2 DEF PoolsPrivate, PoolsOK, Escaped
<1> QED BY <1>8, <1>9 DEF PoolsPrivate

LEMMA KeyAlreadyEmptyStep ==
  ASSUME PoolsPrivate, NEW c \in Callers, KeyAlreadyEmpty(c)
  PROVE  PoolsPrivate'
<1>1. Walking(job[c])
  BY RunningJob DEF KeyAlreadyEmpty
<1>2. Escaped'
  BY DEF KeyAlreadyEmpty, PoolsPrivate, Escaped
<1> QED BY <1>1, <1>2, EndStep DEF KeyAlreadyEmpty

\* What a reply that is not a root leaves behind.
LEMMA NoRootReply ==
  ASSUME PoolsPrivate, NEW c \in Callers, nodes' = nodes,
         reply' = [reply EXCEPT ![c] = reply'[c]],
         reply'[c].status = "ok" => reply'[c].root = Own(reply'[c].pure)
  PROVE  Escaped'
<1>1. nodes = [d \in Callers |-> nodes[d]] /\ reply = [d \in Callers |-> reply[d]]
  BY DEF PoolsPrivate, Escaped
<1>2. reply' = [d \in Callers |-> reply'[d]] /\ \A d \in Callers \ {c} : reply'[d] = reply[d]
  BY <1>1
<1> QED BY <1>1, <1>2 DEF PoolsPrivate, Escaped

LEMMA StoreFailsStep ==
  ASSUME PoolsPrivate, NEW c \in Callers, StoreFails(c)
  PROVE  PoolsPrivate'
<1>1. Walking(job[c])
  BY RunningJob DEF StoreFails
<1>2. reply' = [reply EXCEPT ![c] = reply'[c]] /\ reply'[c].status = "none"
  BY DEF StoreFails, PoolsPrivate, Escaped, NoReply
<1>3. Escaped'
  BY <1>2, NoRootReply DEF StoreFails
<1> QED BY <1>1, <1>3, EndStep DEF StoreFails

LEMMA ValueHashStep ==
  ASSUME PoolsPrivate, NEW c \in Callers, ValueHash(c)
  PROVE  PoolsPrivate'
<1> DEFINE x == job[c].sc
           h == digest(job[c].start.value)
<1>1. /\ job[c].pc = "value" /\ mem' = [mem EXCEPT ![x].valueHashBuf = h]
      /\ job' = [job EXCEPT ![c].pc = "leaf"]
      /\ UNCHANGED <<sideNodes, scratchPool, slicesPool, nodes, reply>>
  BY DEF ValueHash
<1>2. Walking(job[c]) /\ job[c] # Idle
  BY <1>1, RunningJob
<1> HIDE DEF h
<1>3. /\ mem = [z \in Scratches |-> [pathBuf |-> mem[z].pathBuf,
                   valueHashBuf |-> mem[z].valueHashBuf,
                   hashBufA |-> mem[z].hashBufA, hashBufB |-> mem[z].hashBufB]]
      /\ x \in Scratches
  BY <1>2 DEF PoolsPrivate, PoolsOK, Walking
<1>4. /\ mem'[x] = [pathBuf |-> mem[x].pathBuf, valueHashBuf |-> h,
                    hashBufA |-> mem[x].hashBufA, hashBufB |-> mem[x].hashBufB]
      /\ \A z \in Scratches \ {x} : mem'[z] = mem[z]
      /\ mem' = [z \in Scratches |-> [pathBuf |-> mem'[z].pathBuf,
                   valueHashBuf |-> mem'[z].valueHashBuf,
                   hashBufA |-> mem'[z].hashBufA, hashBufB |-> mem'[z].hashBufB]]
  <2>1. /\ mem'[x] = [mem[x] EXCEPT !.valueHashBuf = h]
        /\ \A z \in Scratches \ {x} : mem'[z] = mem[z]
        /\ mem' = [z \in Scratches |-> mem'[z]]
    BY <1>1, <1>3
  <2>2. \A z \in Scratches : mem[z] = [pathBuf |-> mem[z].pathBuf,
           valueHashBuf |-> mem[z].valueHashBuf,
           hashBufA |-> mem[z].hashBufA, hashBufB |-> mem[z].hashBufB]
    BY <1>3
  <2>3. mem'[x] = [pathBuf |-> mem[x].pathBuf, valueHashBuf |-> h,
                   hashBufA |-> mem[x].hashBufA, hashBufB |-> mem[x].hashBufB]
    BY <1>3, <2>1, <2>2
  <2>4. \A z \in Scratches : mem'[z] = [pathBuf |-> mem'[z].pathBuf,
           valueHashBuf |-> mem'[z].valueHashBuf,
           hashBufA |-> mem'[z].hashBufA, hashBufB |-> mem'[z].hashBufB]
    BY <2>1, <2>2, <2>3
  <2> QED BY <2>1, <2>3, <2>4
<1>5. /\ isJob(job'[c]) /\ job'[c].pc = "leaf" /\ job'[c].current = job[c].current
      /\ job'[c].turn = job[c].turn /\ job'[c].pure = job[c].pure
      /\ job'[c].at = job[c].at /\ job'[c].sc = x /\ job'[c].ps = job[c].ps
      /\ job'[c].start = job[c].start /\ job'[c].key = job[c].key
      /\ job' = [job EXCEPT ![c] = job'[c]]
  <2>1. job = [d \in Callers |-> job[d]] /\ isJob(job[c])
    BY <1>2 DEF PoolsPrivate, JobsOK, Walking
  <2>2. job' = [job EXCEPT ![c] = job'[c]] /\ job'[c] = [job[c] EXCEPT !.pc = "leaf"]
    BY <1>1, <2>1
  <2> QED BY <2>1, <2>2 DEF isJob
<1>6. Walking(job[c])'
  <2>1. \A b \in {"hashBufA", "hashBufB"} : mem'[x][b] = mem[x][b]
    BY <1>4
  <2>2. hashBufs[2 - job[c].turn] \in {"hashBufA", "hashBufB"}
    BY <1>2 DEF Walking, hashBufs
  <2>3. Running(job[c])' /\ isJob(job[c])'
    BY <1>2, <1>5, <2>1, <2>2 DEF Walking, Running, isJob
  <2>4. mem'[x].pathBuf = mem[x].pathBuf /\ mem'[x].valueHashBuf = h
    BY <1>4
  <2> QED BY <1>1, <1>2, <1>5, <2>3, <2>4 DEF Walking, h
<1>7. ASSUME NEW d \in Callers \ {c}, job[d] # Idle
      PROVE  /\ mem'[job[d].sc] = mem[job[d].sc]
             /\ sideNodes'[job[d].ps] = sideNodes[job[d].ps]
             /\ job[d].sc \notin scratchPool' /\ job[d].ps \notin slicesPool'
             /\ job'[c].sc # job[d].sc /\ job'[c].ps # job[d].ps
  BY <1>1, <1>2, <1>4, <1>5, <1>7, Apart
<1>8. JobsOK' /\ OneOwner'
  BY <1>5, <1>6, <1>7, StepOfOne
<1>9. PoolsOK' /\ Escaped'
  BY <1>1, <1>4 DEF PoolsPrivate, PoolsOK, Escaped
<1> QED BY <1>8, <1>9 DEF PoolsPrivate

LEMMA LeafStep ==
  ASSUME PoolsPrivate, NEW c \in Callers, Leaf(c)
  PROVE  PoolsPrivate'
<1> DEFINE data == LeafData(mem[job[c].sc].pathBuf, mem[job[c].sc].valueHashBuf)
           pure == digestLeaf(digest(job[c].key), digest(job[c].start.value))
<1>1. /\ job[c].pc = "leaf" /\ DigestInto(c, data, pure)
      /\ UNCHANGED <<sideNodes, scratchPool, slicesPool, reply>>
  BY DEF Leaf
<1>2. Walking(job[c])
  BY <1>1, RunningJob
<1>3. Digest(data) = pure
  BY <1>1, <1>2 DEF Walking, digestLeaf
<1> HIDE DEF data, pure
<1> QED BY <1>1, <1>2, <1>3, DigestStep

LEMMA SameValueStep ==
  ASSUME PoolsPrivate, NEW c \in Callers, SameValue(c)
  PROVE  PoolsPrivate'
<1>1. Walking(job[c])
  BY RunningJob DEF SameValue, leafSet
<1>2. Escaped'
  BY DEF SameValue, PoolsPrivate, Escaped
<1> QED BY <1>1, <1>2, EndStep DEF SameValue

LEMMA ClimbStep ==
  ASSUME PoolsPrivate, NEW c \in Callers, Climb(c)
  PROVE  PoolsPrivate'
<1> DEFINE current == IF job[c].current = Nil THEN Placeholder ELSE Read(job[c].current)
           data == NodeData(current, side(c))
           pure == digestNode(job[c].pure, found(c))
<1>1. /\ climbing(c) /\ DigestInto(c, data, pure)
      /\ UNCHANGED <<sideNodes, scratchPool, slicesPool, reply>>
  BY DEF Climb
<1>2. Walking(job[c]) /\ side(c) = found(c) /\ job[c].pc = "climb"
  BY <1>1, SideFound DEF climbing
<1>3. current = job[c].pure
  BY <1>2, RunningHash
<1>4. Digest(data) = pure
  BY <1>2, <1>3 DEF digestNode
<1> HIDE DEF data, pure
<1> QED BY <1>1, <1>2, <1>4, DigestStep

LEMMA BubbleStep ==
  ASSUME PoolsPrivate, NEW c \in Callers, Bubble(c)
  PROVE  PoolsPrivate'
<1>1. climbing(c) /\ UNCHANGED <<pools, nodes, reply>>
  BY DEF Bubble
<1>2. /\ Walking(job[c]) /\ side(c) = found(c) /\ side(c) \in SideHashes
      /\ job[c].pc = "climb"
  BY <1>1, SideFound DEF climbing
<1>3. job = [d \in Callers |-> job[d]] /\ isJob(job[c])
  BY <1>2 DEF PoolsPrivate, JobsOK, Walking
<1>4. /\ job' = [job EXCEPT ![c] = job'[c]]
      /\ job'[c] = [pc |-> job[c].pc, key |-> job[c].key, start |-> job[c].start,
                    sc |-> job[c].sc, ps |-> job[c].ps, at |-> job[c].at + 1,
                    turn |-> job[c].turn, reached |-> job[c].reached,
                    current |-> Own(side(c)), pure |-> side(c)]
  BY <1>2, <1>3 DEF Bubble, isJob
<1>5. Walking(job[c])'
  <2>1. isJob(job[c])' /\ Running(job[c])'
    BY <1>2, <1>4 DEF isJob, Running
  <2>2. UNCHANGED <<mem, sideNodes, scratchPool, slicesPool>>
    BY <1>1 DEF pools
  <2>3. job'[c].at \in Nat \ {0}
    BY <1>2, <1>4 DEF Walking
  <2> QED BY <1>2, <1>4, <2>1, <2>2, <2>3 DEF Walking
<1> QED BY <1>1, <1>2, <1>4, <1>5, QuietStep

LEMMA SkipStep ==
  ASSUME PoolsPrivate, NEW c \in Callers, Skip(c)
  PROVE  PoolsPrivate'
<1>1. climbing(c) /\ UNCHANGED <<pools, nodes, reply>>
  BY DEF Skip
<1>2. Walking(job[c]) /\ job[c].pc = "climb"
  BY <1>1, SideFound DEF climbing
<1>3. job = [d \in Callers |-> job[d]] /\ isJob(job[c])
  BY <1>2 DEF PoolsPrivate, JobsOK, Walking
<1>4. job' = [job EXCEPT ![c] = job'[c]] /\ job'[c] = [job[c] EXCEPT !.at = @ + 1]
  BY <1>3 DEF Skip
<1>5. Walking(job[c])'
  <2>1. UNCHANGED <<mem, sideNodes, scratchPool, slicesPool>>
    BY <1>1 DEF pools
  <2>2. /\ isJob(job'[c]) /\ job'[c].pc = "climb" /\ job'[c].current = job[c].current
        /\ job'[c].turn = job[c].turn /\ job'[c].pure = job[c].pure
        /\ job'[c].at = job[c].at + 1 /\ job'[c].sc = job[c].sc /\ job'[c].ps = job[c].ps
        /\ job'[c].start = job[c].start /\ job'[c].key = job[c].key
    BY <1>2, <1>3, <1>4 DEF isJob
  <2>3. isJob(job[c])' /\ Running(job[c])'
    BY <1>2, <2>1, <2>2 DEF isJob, Walking, Running
  <2> QED BY <1>2, <2>1, <2>2, <2>3 DEF Walking
<1> QED BY <1>1, <1>2, <1>3, <1>4, <1>5, QuietStep DEF isJob

LEMMA ReturnStep ==
  ASSUME PoolsPrivate, NEW c \in Callers, Return(c)
  PROVE  PoolsPrivate'
<1>1. Walking(job[c])
  BY RunningJob DEF Return, ended
<1>2. newRoot(c) = Own(job[c].pure)
  BY <1>1, RunningHash DEF newRoot, copyOut
<1>3. /\ reply' = [reply EXCEPT ![c] = reply'[c]]
      /\ reply'[c].root = newRoot(c) /\ reply'[c].pure = job[c].pure
  BY DEF Return, PoolsPrivate, Escaped
<1>4. Escaped'
  BY <1>2, <1>3, NoRootReply DEF Return
<1> QED BY <1>1, <1>4, EndStep DEF Return

LEMMA DeleteValueFailsStep ==
  ASSUME PoolsPrivate, NEW c \in Callers, DeleteValueFails(c)
  PROVE  PoolsPrivate'
<1>1. Walking(job[c])
  BY RunningJob DEF DeleteValueFails, leafSet
<1>2. reply' = [reply EXCEPT ![c] = reply'[c]] /\ reply'[c].status = "error"
  BY DEF DeleteValueFails, PoolsPrivate, Escaped
<1>3. Escaped'
  BY <1>2, NoRootReply DEF DeleteValueFails
<1> QED BY <1>1, <1>3, EndStep DEF DeleteValueFails

-----------------------------------------------------------------------------
\* The theorems.

\* Every scratch and every pathSlices object is in its pool or with one caller,
\* and nothing that outlives a call points into one (pool.go, and the walk and
\* the copy of smt.go).
THEOREM PoolsStayPrivate == Spec => []PoolsPrivate
<1>1. Init => PoolsPrivate
  <2> SUFFICES ASSUME Init PROVE PoolsPrivate
    OBVIOUS
  <2>1. PoolsOK
    BY DEF Init, PoolsOK
  <2>2. JobsOK /\ OneOwner
    BY DEF Init, JobsOK, OneOwner
  <2>3. Escaped
    BY DEF Init, Escaped, NoReply
  <2> QED BY <2>1, <2>2, <2>3 DEF PoolsPrivate
<1>2. PoolsPrivate /\ [Next]_vars => PoolsPrivate'
  <2> SUFFICES ASSUME PoolsPrivate, [Next]_vars PROVE PoolsPrivate'
    OBVIOUS
  <2>1. CASE Next
    <3>1. PICK c \in Callers :
            \/ \E key \in Keys, start \in Starts, x \in Scratches, y \in Slices :
                  UpdateForRoot(c, key, start, x, y)
            \/ fillSideNodes(c) \/ KeyAlreadyEmpty(c) \/ StoreFails(c)
            \/ ValueHash(c) \/ Leaf(c) \/ SameValue(c) \/ Bubble(c) \/ Skip(c) \/ Climb(c)
            \/ Return(c) \/ DeleteValueFails(c)
      BY <2>1, Zenon DEF Next
    <3>2. ASSUME NEW key \in Keys, NEW start \in Starts, NEW x \in Scratches,
                 NEW y \in Slices, UpdateForRoot(c, key, start, x, y)
          PROVE  PoolsPrivate'
      BY <3>2, StartStep, Zenon
    <3> QED BY <3>1, <3>2, FillStep, KeyAlreadyEmptyStep, StoreFailsStep,
               ValueHashStep, LeafStep, SameValueStep, BubbleStep, SkipStep, ClimbStep,
               ReturnStep, DeleteValueFailsStep, Zenon
  <2>2. CASE UNCHANGED vars
    <3>1. UNCHANGED <<mem, sideNodes, scratchPool, slicesPool, job, nodes, reply>>
      BY <2>2 DEF vars, pools
    <3>2. PoolsOK' /\ OneOwner' /\ Escaped'
      BY <3>1 DEF PoolsPrivate, PoolsOK, OneOwner, Escaped
    <3>3. \A c \in Callers : Walking(job[c]) => Walking(job[c])'
      BY <3>1 DEF Walking, isJob, Running
    <3>4. JobsOK'
      BY <3>1, <3>3 DEF PoolsPrivate, JobsOK
    <3> QED BY <3>2, <3>4 DEF PoolsPrivate
  <2> QED BY <2>1, <2>2
<1> QED BY <1>1, <1>2, PTL DEF Spec

\* A root that was returned keeps its value (the copy at the end of
\* UpdateForRoot).
THEOREM RootsStayIntact == Spec => []RootIntact
<1>1. PoolsPrivate => RootIntact
  BY SliceFacts DEF PoolsPrivate, Escaped, RootIntact
<1> QED BY <1>1, PoolsStayPrivate, PTL

\* The node store finds every node under its hash ("Set copies the key").
THEOREM NodesStayUnderHash == Spec => []NodesUnderHash
<1>1. PoolsPrivate => NodesUnderHash
  BY SliceFacts DEF PoolsPrivate, Escaped, NodesUnderHash
<1> QED BY <1>1, PoolsStayPrivate, PTL

\* Between two levels the running hash is what the walk computes, in the buffer
\* of the caller's own scratch that was written last (updateWithSideNodes).
THEOREM TickTockHolds == Spec => []TickTock
<1>1. ASSUME PoolsPrivate
      PROVE  TickTock
  <2> SUFFICES ASSUME NEW c \in Callers, job[c].pc = "climb", job[c].current # Nil
               PROVE  /\ Read(job[c].current) = job[c].pure
                      /\ \/ job[c].current.at = Nil
                         \/ job[c].current = In(job[c].sc, hashBufs[2 - job[c].turn])
    BY DEF TickTock
  <2>1. Walking(job[c])
    BY <1>1, RunningJob
  <2>2. Read(job[c].current) = job[c].pure
    BY <1>1, <2>1, RunningHash
  <2>3. Running(job[c])
    BY <2>1 DEF Walking
  <2> QED BY <2>2, <2>3, SliceFacts DEF Running
<1> QED BY <1>1, PoolsStayPrivate, PTL
=============================================================================
