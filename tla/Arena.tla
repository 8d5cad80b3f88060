------------------------------- MODULE Arena --------------------------------
(***************************************************************************)
(* ArenaFixedSizeMap (mapstore_arena.go): a MapStore that copies values    *)
(* into slabs and keeps (slab, offset, length) per key.                    *)
(*                                                                         *)
(* Memory is explicit, because the hazards are about it: heap holds every  *)
(* backing array ever made, a slab is a slice header on one of them, and   *)
(* Get hands out a slice that the caller may keep for as long as it likes. *)
(* The tree does so: side nodes and path nodes are slices into the store   *)
(* that outlive the Delete of the node they were read from.                *)
(***************************************************************************)
EXTENDS Integers, Sequences

CONSTANTS StoreKeys,     \* the keys the store is called with
          FixedKeys,     \* those of them that are 32 bytes long
          Payloads,      \* the values it is called with, as sequences of bytes
          Missing,       \* marks a key the store does not hold
          SlabSize,      \* the size asked for
          MinSlabSize,   \* 64 in the code
          U32,           \* 2^32 in the code: entries hold uint32 numbers
          MaxArrays      \* bound: backing arrays ever made

ASSUME ArenaAssumption ==
    /\ FixedKeys \subseteq StoreKeys
    /\ \A v \in Payloads : v = [j \in 1 .. Len(v) |-> v[j]] /\ Len(v) \in Nat
    /\ Missing \notin Payloads
    /\ SlabSize \in Nat /\ MinSlabSize \in Nat \ {0} /\ MaxArrays \in Nat
    /\ U32 \in Nat /\ SlabSize < U32 /\ MinSlabSize < U32 /\ MaxArrays < U32
    /\ \A v \in Payloads : Len(v) < U32

VARIABLES
    m,        \* the map from keys to entries
    slabs,    \* the slabs, as slice headers
    cur,      \* the header of the slab being filled, or the nil slice
    heap,     \* the backing arrays: their capacity and their bytes
    held,     \* a slice that a caller got from Get, and the bytes it showed
    result    \* what the last call returned

arena == <<m, slabs, cur, heap>>
vars  == <<arena, held, result>>

NoEntry  == [slab |-> -1, off |-> 0, ln |-> 0]
NilSlice == [array |-> 0, len |-> 0]

\* The clamp of NewArenaFixedSizeMapWithSlabSize.
slabSize == IF SlabSize < MinSlabSize THEN MinSlabSize ELSE SlabSize

uint32(n) == n % U32

capacity(slice) == IF slice = NilSlice THEN 0 ELSE heap[slice.array].cap

\* The bytes at off .. off + n - 1 of a backing array.
BytesAt(array, off, n) == [j \in 1 .. n |-> heap[array].bytes[off + j]]

\* A backing array after v is copied to offset off.
Written(array, off, v) ==
    [array EXCEPT !.bytes =
        [j \in DOMAIN @ |-> IF j \in off + 1 .. off + Len(v) THEN v[j - off] ELSE @[j]]]

\* The slice am.slabs[e.slab][e.off : e.off + e.ln], and what it shows.
sliceOf(e) == [array |-> slabs[e.slab + 1].array, off |-> e.off, len |-> e.ln]
bytesOf(s) == BytesAt(s.array, s.off, s.len)

\* Indexing and slicing stay within their bounds.
inBounds(e) ==
    /\ e.slab < Len(slabs)
    /\ e.off <= uint32(e.off + e.ln)
    /\ uint32(e.off + e.ln) <= heap[slabs[e.slab + 1].array].cap

\* The map that the arena stands for: the bytes its entries point to.
contents ==
    [k \in StoreKeys |-> IF m[k] = NoEntry THEN Missing ELSE bytesOf(sliceOf(m[k]))]

Store == INSTANCE MapStore

-----------------------------------------------------------------------------

Get(k) ==
    /\ k \in FixedKeys
    /\ IF m[k] = NoEntry THEN result' = Store!InvalidKey(k) /\ UNCHANGED held
       ELSE IF ~inBounds(m[k]) THEN result' = Store!Panic(k) /\ UNCHANGED held
       ELSE LET s == sliceOf(m[k])
            IN  /\ result' = Store!OkValue(k, bytesOf(s))
                /\ held' \in {held, <<s, bytesOf(s)>>}
    /\ UNCHANGED arena

needsSlab(n) == cur.len + n > capacity(cur)

\* The copy of v, which a key of the wrong length does not prevent.  The append
\* stays within the capacity of the slab, for which one was made if need be, so it
\* never moves the slab to another array.
Append32(v) ==
    LET n     == Len(v)
        size  == IF n > slabSize THEN n ELSE slabSize
        fresh == needsSlab(n)
        into  == IF fresh THEN [array |-> Len(heap) + 1, len |-> 0] ELSE cur
        grown == IF fresh THEN Append(heap, [cap |-> size, bytes |-> [j \in 1 .. size |-> 0]]) ELSE heap
        full  == [into EXCEPT !.len = @ + n]
    IN  /\ fresh => Len(heap) < MaxArrays
        /\ heap' = [grown EXCEPT ![into.array] = Written(@, into.len, v)]
        /\ cur' = full
        /\ slabs' = IF fresh THEN Append(slabs, full)
                    ELSE [slabs EXCEPT ![Len(slabs)] = full]

\* A value of length zero needs no slab, so an arena with none has no last slab
\* to write the header back to: am.slabs[len(am.slabs)-1] panics.
noLastSlab(v) == slabs = << >> /\ ~needsSlab(Len(v))

SetPanics(k, v) ==
    /\ noLastSlab(v)
    /\ result' = Store!Panic(k)
    /\ UNCHANGED <<arena, held>>

\* Mutant: the entry points behind the value.
newEntryBehind(v) ==
    [slab |-> uint32(Len(slabs') - 1), off |-> uint32(cur'.len), ln |-> uint32(Len(v))]

\* Mutant: the offset is read before a new slab is made.
newEntryEarly(v) ==
    [slab |-> uint32(Len(slabs') - 1), off |-> uint32(cur.len), ln |-> uint32(Len(v))]

newEntry(v) ==
    [slab |-> uint32(Len(slabs') - 1), off |-> uint32(cur'.len - Len(v)),
     ln |-> uint32(Len(v))]

Set(k, v) ==
    /\ ~noLastSlab(v)
    /\ Append32(v)
    /\ IF k \in FixedKeys
       THEN m' = [m EXCEPT ![k] = newEntry(v)] /\ result' = Store!Ok(k)
       ELSE UNCHANGED m /\ result' = Store!Panic(k)
    /\ UNCHANGED held

Delete(k) ==
    /\ k \in FixedKeys
    /\ m' = [m EXCEPT ![k] = NoEntry]
    /\ result' = IF m[k] = NoEntry THEN Store!InvalidKey(k) ELSE Store!Ok(k)
    /\ UNCHANGED <<slabs, cur, heap, held>>

\* Get and Delete of a key of the wrong length.
BadKey(k) ==
    /\ k \notin FixedKeys
    /\ result' = Store!Panic(k)
    /\ UNCHANGED <<arena, held>>

\* Mutant: the first slab is filled again from its start.
ResetReuses ==
    /\ m' = [k \in StoreKeys |-> NoEntry]
    /\ slabs' = IF slabs = << >> THEN << >> ELSE <<[slabs[1] EXCEPT !.len = 0]>>
    /\ cur' = IF slabs = << >> THEN NilSlice ELSE [slabs[1] EXCEPT !.len = 0]
    /\ result' = Store!Fresh
    /\ UNCHANGED <<heap, held>>

Reset ==
    /\ m' = [k \in StoreKeys |-> NoEntry]
    /\ slabs' = << >>
    /\ cur' = NilSlice
    /\ result' = Store!Fresh
    /\ UNCHANGED <<heap, held>>

Init ==
    /\ m = [k \in StoreKeys |-> NoEntry]
    /\ slabs = << >> /\ cur = NilSlice /\ heap = << >>
    /\ held = << >> /\ result = Store!Fresh

Next ==
    \/ \E k \in StoreKeys :
          \/ Get(k) \/ Delete(k) \/ BadKey(k)
          \/ \E v \in Payloads : Set(k, v) \/ SetPanics(k, v)
    \/ Reset

Spec == Init /\ [][Next]_vars

-----------------------------------------------------------------------------

\* "Set updates the value for a key" and "Get gets the value for a key" (the
\* comments of MapStore in mapstore.go): the arena is a map store, whatever the
\* values' lengths do to its slabs.
ImplementsStore == Store!Spec

\* The same, but for the Set of an empty value on an arena with no slab, which
\* panics and changes nothing: a Get returns what the last Set of that key
\* stored, and a call with a key of the wrong length leaves the map alone
\* (mapstore_arena.go, Get, Set, Delete and Reset).
ImplementsStoreOnceUsed ==
    /\ Store!Init
    /\ [][\/ Store!Next
          \/ /\ slabs = << >>
             /\ \E k \in StoreKeys : result' = Store!Panic(k)
             /\ UNCHANGED contents]_(Store!vars)

\* A slice that Get handed out keeps showing the same bytes, through later Sets,
\* Deletes and Resets: the tree reads path and side nodes after it has deleted
\* them (mapstore_arena.go, "deleted entries' bytes are NOT reclaimed").
SlicesIntact == held # << >> => bytesOf(held[1]) = held[2]

\* Every slab fits its backing array, and every entry points into the part of a
\* slab that is filled (mapstore_arena.go, Set).
TypeOK ==
    /\ m \in [StoreKeys -> {NoEntry} \cup
                 [slab : 0 .. MaxArrays - 1, off : 0 .. U32 - 1, ln : 0 .. U32 - 1]]
    /\ Len(heap) <= MaxArrays
    /\ \A s \in {cur} \cup {slabs[j] : j \in 1 .. Len(slabs)} :
          /\ s.array \in 0 .. Len(heap)
          /\ s.len <= capacity(s)
    /\ \A k \in StoreKeys : m[k] # NoEntry =>
          inBounds(m[k]) /\ m[k].off + m[k].ln <= slabs[m[k].slab + 1].len

-----------------------------------------------------------------------------
(***************************************************************************)
(* The inductive invariant: the slabs are on different arrays, the last    *)
(* one is being filled, entries and held slices lie in what was filled,    *)
(* and no byte belongs to the entries of two keys.                         *)
(***************************************************************************)

isArray(a) ==
    /\ a = [cap |-> a.cap, bytes |-> a.bytes] /\ a.cap \in 0 .. U32 - 1
    /\ a.bytes = [j \in 1 .. a.cap |-> a.bytes[j]]

HeapOK ==
    /\ Len(heap) \in 0 .. MaxArrays /\ heap = [i \in 1 .. Len(heap) |-> heap[i]]
    /\ \A i \in 1 .. Len(heap) : isArray(heap[i])

SlabsOK ==
    /\ Len(slabs) \in 0 .. Len(heap) /\ slabs = [i \in 1 .. Len(slabs) |-> slabs[i]]
    /\ \A i \in 1 .. Len(slabs) :
          /\ slabs[i] = [array |-> slabs[i].array, len |-> slabs[i].len]
          /\ slabs[i].array \in 1 .. Len(heap)
          /\ slabs[i].len \in 0 .. heap[slabs[i].array].cap
    /\ \A i, j \in 1 .. Len(slabs) : slabs[i].array = slabs[j].array => i = j
    /\ cur = IF Len(slabs) = 0 THEN NilSlice ELSE slabs[Len(slabs)]

EntryOK(e) ==
    /\ e = [slab |-> e.slab, off |-> e.off, ln |-> e.ln]
    /\ e.slab \in 0 .. Len(slabs) - 1 /\ e.off \in Nat /\ e.ln \in Nat
    /\ e.off + e.ln <= slabs[e.slab + 1].len
    /\ bytesOf(sliceOf(e)) \in Payloads

EntriesOK ==
    /\ m = [k \in StoreKeys |-> m[k]]
    /\ \A k \in StoreKeys : m[k] = NoEntry \/ EntryOK(m[k])

\* The entries of two keys lie in different slabs, or one behind the other.
apart(e, f) ==
    e.slab = f.slab => e.off + e.ln <= f.off \/ f.off + f.ln <= e.off

EntriesApart ==
    \A k, l \in StoreKeys :
        k # l /\ m[k] # NoEntry /\ m[l] # NoEntry => apart(m[k], m[l])

\* A slice that the filling of the current slab does not reach.
Settled(s) ==
    /\ s.array \in 1 .. Len(heap) /\ s.off \in Nat /\ s.len \in Nat
    /\ s.off + s.len <= heap[s.array].cap
    /\ s.array = cur.array => s.off + s.len <= cur.len

HeldOK == held # << >> => Settled(held[1]) /\ bytesOf(held[1]) = held[2]

\* No two slabs share a backing array and no two keys' entries overlap, Set only
\* fills the last slab behind all that entries and callers' slices point to, and
\* every entry shows a value that was stored (mapstore_arena.go, Set).
ArenaInvariant == HeapOK /\ SlabsOK /\ EntriesOK /\ EntriesApart /\ HeldOK
=============================================================================
