--------------------------- MODULE ArenaTheorems ----------------------------
(***************************************************************************)
(* ArenaFixedSizeMap implements the map store and never changes a slice    *)
(* that it handed out, for every slab size, set of values and sequence of  *)
(* calls.                                                                  *)
(***************************************************************************)
EXTENDS Arena, TLAPS

-----------------------------------------------------------------------------
\* Sequences and numbers.

\* Appending to a sequence.
LEMMA AppendFacts ==
  ASSUME NEW s, NEW x, Len(s) \in Nat, s = [i \in 1 .. Len(s) |-> s[i]]
  PROVE  /\ Len(Append(s, x)) = Len(s) + 1
         /\ Append(s, x) = [i \in 1 .. Len(s) + 1 |-> Append(s, x)[i]]
         /\ \A i \in 1 .. Len(s) : Append(s, x)[i] = s[i]
         /\ Append(s, x)[Len(s) + 1] = x
<1> DEFINE S == {s[i] : i \in 1 .. Len(s)} \cup {x}
<1>1. s \in [1 .. Len(s) -> S]
  OBVIOUS
<1>2. s \in Seq(S) /\ x \in S
  BY <1>1
<1> HIDE DEF S
<1> DEFINE t == Append(s, x)
<1>3. t \in Seq(S) /\ Len(t) = Len(s) + 1
  BY <1>2
<1>4. t = [i \in 1 .. Len(t) |-> t[i]]
  <2> HIDE DEF t
  <2> QED BY <1>3
<1>5. \A i \in 1 .. Len(s) : t[i] = s[i]
  BY <1>2
<1>6. t[Len(s) + 1] = x
  BY <1>2
<1> QED BY <1>3, <1>4, <1>5, <1>6

\* Changing one element of a sequence.
LEMMA ExceptFacts ==
  ASSUME NEW s, NEW i, NEW x, Len(s) \in Nat, s = [j \in 1 .. Len(s) |-> s[j]],
         i \in 1 .. Len(s)
  PROVE  /\ Len([s EXCEPT ![i] = x]) = Len(s)
         /\ [s EXCEPT ![i] = x] = [j \in 1 .. Len(s) |-> [s EXCEPT ![i] = x][j]]
         /\ \A j \in 1 .. Len(s) : j # i => [s EXCEPT ![i] = x][j] = s[j]
         /\ [s EXCEPT ![i] = x][i] = x
<1> DEFINE S == {s[j] : j \in 1 .. Len(s)} \cup {x}
           t == [s EXCEPT ![i] = x]
<1>1. s \in [1 .. Len(s) -> S]
  OBVIOUS
<1>2. t \in [1 .. Len(s) -> S]
  BY <1>1
<1>3. t \in Seq(S) /\ Len(t) = Len(s)
  BY <1>2
<1> QED BY <1>1, <1>2, <1>3

\* A uint32 keeps a number below 2^32.
LEMMA Uint32Small ==
  ASSUME NEW a \in Nat, a < U32
  PROVE  uint32(a) = a
  BY ArenaAssumption DEF uint32

\* Copying a value into an array of the heap.
LEMMA WrittenFacts ==
  ASSUME NEW a, isArray(a), NEW off \in Nat, NEW v \in Payloads, off + Len(v) <= a.cap
  PROVE  /\ isArray(Written(a, off, v)) /\ Written(a, off, v).cap = a.cap
         /\ \A j \in 1 .. a.cap :
               Written(a, off, v).bytes[j] =
                  IF j \in off + 1 .. off + Len(v) THEN v[j - off] ELSE a.bytes[j]
         /\ \A j \in 1 .. Len(v) : Written(a, off, v).bytes[off + j] = v[j]
<1>1. Len(v) \in Nat /\ a.cap \in Nat
  BY ArenaAssumption DEF isArray
<1> DEFINE b == [j \in 1 .. a.cap |-> IF j \in off + 1 .. off + Len(v) THEN v[j - off]
                                      ELSE a.bytes[j]]
<1>2. Written(a, off, v) = [a EXCEPT !.bytes = b] /\ DOMAIN a.bytes = 1 .. a.cap
  BY DEF Written, isArray
<1>3. Written(a, off, v).cap = a.cap /\ Written(a, off, v).bytes = b
      /\ Written(a, off, v) = [cap |-> a.cap, bytes |-> b]
  BY <1>2 DEF isArray
<1>4. isArray(Written(a, off, v))
  BY <1>3 DEF isArray
<1>5. ASSUME NEW j \in 1 .. Len(v)
      PROVE  b[off + j] = v[j]
  <2>1. off + j \in 1 .. a.cap /\ off + j \in off + 1 .. off + Len(v) /\ off + j - off = j
    BY <1>1
  <2> QED BY <2>1
<1> QED BY <1>3, <1>4, <1>5

-----------------------------------------------------------------------------
\* The slab that Set copies a value into (Append32).

\* A value that needs a slab gets one on a new array.
LEMMA FreshSlab ==
  ASSUME ArenaInvariant, NEW v \in Payloads, needsSlab(Len(v)), Append32(v)
  PROVE  /\ HeapOK' /\ Len(heap') = Len(heap) + 1
         /\ \A i \in 1 .. Len(heap) : heap'[i] = heap[i]
         /\ cur' = [array |-> Len(heap) + 1, len |-> Len(v)]
         /\ slabs' = Append(slabs, cur')
         /\ Len(v) <= heap'[Len(heap) + 1].cap
         /\ \A j \in 1 .. Len(v) : heap'[Len(heap) + 1].bytes[j] = v[j]
<1> DEFINE n    == Len(v)
           size == IF n > slabSize THEN n ELSE slabSize
           a    == [cap |-> size, bytes |-> [j \in 1 .. size |-> 0]]
           i0   == Len(heap) + 1
           g    == Append(heap, a)
           w    == Written(a, 0, v)
<1>1. n \in Nat /\ size \in 0 .. U32 - 1 /\ n <= size
  BY ArenaAssumption DEF slabSize
<1>2. /\ heap' = [g EXCEPT ![i0] = Written(g[i0], 0, v)] /\ Len(heap) < MaxArrays
      /\ cur' = [array |-> i0, len |-> 0 + n]
      /\ slabs' = Append(slabs, cur')
  BY DEF Append32
<1> HIDE DEF size
<1>3. Len(heap) \in Nat /\ heap = [i \in 1 .. Len(heap) |-> heap[i]]
  BY ArenaAssumption DEF ArenaInvariant, HeapOK
<1>4. isArray(a) /\ a.cap = size
  BY <1>1 DEF isArray
<1> HIDE DEF a
<1>5. /\ Len(g) = i0 /\ g = [i \in 1 .. i0 |-> g[i]]
      /\ \A i \in 1 .. Len(heap) : g[i] = heap[i]
      /\ g[i0] = a
  BY <1>3, AppendFacts
<1> HIDE DEF g
<1>6. /\ isArray(w) /\ w.cap = size
      /\ \A j \in 1 .. n : w.bytes[0 + j] = v[j]
  BY <1>1, <1>4, WrittenFacts
<1>7. heap' = [g EXCEPT ![i0] = w]
  BY <1>2, <1>5
<1> HIDE DEF w
<1>8. /\ Len(heap') = i0 /\ heap' = [i \in 1 .. i0 |-> heap'[i]]
      /\ \A i \in 1 .. i0 : i # i0 => heap'[i] = g[i]
      /\ heap'[i0] = w
  <2>1. Len(g) \in Nat /\ i0 \in 1 .. Len(g)
    BY <1>3, <1>5
  <2> QED BY <1>5, <1>7, <2>1, ExceptFacts
<1>9. ASSUME NEW i \in 1 .. Len(heap) PROVE heap'[i] = heap[i]
  <2>1. i \in 1 .. i0 /\ i # i0
    BY <1>3
  <2> QED BY <1>5, <1>8, <2>1
<1>10. HeapOK'
  <2>1. \A i \in 1 .. i0 : isArray(heap'[i])
    BY <1>3, <1>6, <1>8, <1>9 DEF ArenaInvariant, HeapOK
  <2>2. i0 \in 0 .. MaxArrays
    BY <1>2, <1>3, ArenaAssumption
  <2> QED BY <1>8, <2>1, <2>2 DEF HeapOK, isArray
<1>11. \A j \in 1 .. n : heap'[i0].bytes[j] = v[j]
  BY <1>1, <1>6, <1>8
<1> QED BY <1>1, <1>2, <1>6, <1>8, <1>9, <1>10, <1>11

\* A value that fits is copied behind what the last slab holds.
LEMMA SameSlab ==
  ASSUME ArenaInvariant, NEW v \in Payloads, ~ needsSlab(Len(v)), ~ noLastSlab(v),
         Append32(v)
  PROVE  /\ Len(slabs) > 0 /\ cur = slabs[Len(slabs)] /\ cur.array \in 1 .. Len(heap)
         /\ cur.len \in Nat /\ cur.len + Len(v) <= heap[cur.array].cap
         /\ HeapOK' /\ Len(heap') = Len(heap)
         /\ \A i \in 1 .. Len(heap) : i # cur.array => heap'[i] = heap[i]
         /\ heap'[cur.array] = Written(heap[cur.array], cur.len, v)
         /\ cur' = [array |-> cur.array, len |-> cur.len + Len(v)]
         /\ slabs' = [slabs EXCEPT ![Len(slabs)] = cur']
<1>1. Len(v) \in Nat
  BY ArenaAssumption
<1>2. /\ heap' = [heap EXCEPT ![cur.array] = Written(heap[cur.array], cur.len, v)]
      /\ cur' = [cur EXCEPT !.len = cur.len + Len(v)]
      /\ slabs' = [slabs EXCEPT ![Len(slabs)] = cur']
  BY DEF Append32
<1>3. Len(slabs) \in Nat /\ slabs = [i \in 1 .. Len(slabs) |-> slabs[i]]
  BY ArenaAssumption DEF ArenaInvariant, SlabsOK, HeapOK
<1>4. Len(slabs) # 0
  <2>1. slabs # << >>
    BY DEF noLastSlab
  <2> QED BY <1>3, <2>1
<1>5. /\ cur = slabs[Len(slabs)] /\ Len(slabs) \in 1 .. Len(slabs)
      /\ cur = [array |-> cur.array, len |-> cur.len]
      /\ cur.array \in 1 .. Len(heap) /\ cur.len \in 0 .. heap[cur.array].cap
  BY <1>3, <1>4 DEF ArenaInvariant, SlabsOK
<1>6. /\ Len(heap) \in 0 .. MaxArrays /\ Len(heap) \in Nat
      /\ heap = [i \in 1 .. Len(heap) |-> heap[i]]
      /\ \A i \in 1 .. Len(heap) : isArray(heap[i])
  BY ArenaAssumption DEF ArenaInvariant, HeapOK
<1>7. cur.len \in Nat /\ heap[cur.array].cap \in Nat
  <2>1. heap[cur.array].cap \in 0 .. U32 - 1
    BY <1>5, <1>6 DEF isArray
  <2>2. U32 \in Nat
    BY ArenaAssumption
  <2> QED BY <1>5, <2>1, <2>2
<1>8. cur.len + Len(v) <= heap[cur.array].cap
  <2>1. cur # NilSlice
    BY <1>5, <1>6 DEF NilSlice
  <2> QED BY <1>1, <1>7, <2>1 DEF needsSlab, capacity
<1> DEFINE w == Written(heap[cur.array], cur.len, v)
<1>9. isArray(w)
  BY <1>5, <1>6, <1>7, <1>8, WrittenFacts
<1>10. heap' = [heap EXCEPT ![cur.array] = w]
  BY <1>2
<1> HIDE DEF w
<1>11. /\ Len(heap') = Len(heap) /\ heap' = [i \in 1 .. Len(heap) |-> heap'[i]]
       /\ \A i \in 1 .. Len(heap) : i # cur.array => heap'[i] = heap[i]
       /\ heap'[cur.array] = w
  BY <1>5, <1>6, <1>10, ExceptFacts
<1>12. HeapOK'
  <2>1. \A i \in 1 .. Len(heap) : isArray(heap'[i])
    BY <1>6, <1>9, <1>11
  <2> QED BY <1>6, <1>11, <2>1 DEF HeapOK, isArray
<1>13. cur' = [array |-> cur.array, len |-> cur.len + Len(v)]
  BY <1>2, <1>5
<1> QED BY <1>2, <1>3, <1>4, <1>5, <1>7, <1>8, <1>11, <1>12, <1>13 DEF w

\* What a settled slice shows survives the copy of another value.
LEMMA SettledKept ==
  ASSUME ArenaInvariant, NEW v \in Payloads, ~ noLastSlab(v), Append32(v),
         NEW s, Settled(s)
  PROVE  Settled(s)' /\ bytesOf(s)' = bytesOf(s)
<1>1. /\ s.array \in 1 .. Len(heap) /\ s.off \in Nat /\ s.len \in Nat
      /\ s.off + s.len <= heap[s.array].cap
      /\ s.array = cur.array => s.off + s.len <= cur.len
  BY DEF Settled
<1>2. Len(heap) \in Nat /\ Len(v) \in Nat
  BY ArenaAssumption DEF ArenaInvariant, HeapOK
<1>3. CASE needsSlab(Len(v))
  <2>1. /\ Len(heap') = Len(heap) + 1
        /\ \A i \in 1 .. Len(heap) : heap'[i] = heap[i]
        /\ cur' = [array |-> Len(heap) + 1, len |-> Len(v)]
    BY <1>3, FreshSlab
  <2>2. s.array \in 1 .. Len(heap') /\ s.array # cur'.array /\ heap'[s.array] = heap[s.array]
    BY <1>1, <1>2, <2>1
  <2> QED BY <1>1, <2>2 DEF Settled, bytesOf, BytesAt
<1>4. CASE ~ needsSlab(Len(v))
  <2>1. /\ Len(heap') = Len(heap) /\ cur.array \in 1 .. Len(heap) /\ cur.len \in Nat
        /\ cur.len + Len(v) <= heap[cur.array].cap
        /\ \A i \in 1 .. Len(heap) : i # cur.array => heap'[i] = heap[i]
        /\ heap'[cur.array] = Written(heap[cur.array], cur.len, v)
        /\ cur' = [array |-> cur.array, len |-> cur.len + Len(v)]
    BY <1>4, SameSlab
  <2>2. CASE s.array # cur.array
    BY <1>1, <2>1, <2>2 DEF Settled, bytesOf, BytesAt
  <2>3. CASE s.array = cur.array
    <3> DEFINE a == heap[cur.array]
               w == Written(a, cur.len, v)
    <3>1. isArray(a)
      BY <2>1 DEF ArenaInvariant, HeapOK
    <3>2. /\ w.cap = a.cap
          /\ \A j \in 1 .. a.cap :
                w.bytes[j] = IF j \in cur.len + 1 .. cur.len + Len(v) THEN v[j - cur.len]
                             ELSE a.bytes[j]
      BY <2>1, <3>1, WrittenFacts
    <3>3. a.cap \in Nat
      <4>1. a.cap \in 0 .. U32 - 1 /\ U32 \in Nat
        BY <3>1, ArenaAssumption DEF isArray
      <4> QED BY <4>1
    <3>4. heap'[s.array] = w /\ heap[s.array] = a
      BY <2>1, <2>3
    <3> HIDE DEF a, w
    <3>5. ASSUME NEW j \in 1 .. s.len
          PROVE  w.bytes[s.off + j] = a.bytes[s.off + j]
      <4>1. s.off + s.len <= a.cap /\ s.off + s.len <= cur.len
        BY <1>1, <2>3, <3>4
      <4>2. s.off \in Nat /\ s.len \in Nat /\ cur.len \in Nat
        BY <1>1, <2>1
      <4>3. s.off + j \in 1 .. a.cap /\ ~ (cur.len + 1 <= s.off + j)
        BY <3>3, <4>1, <4>2
      <4>4. s.off + j \notin cur.len + 1 .. cur.len + Len(v)
        BY <4>2, <4>3
      <4> QED BY <3>2, <4>3, <4>4
    <3>6. bytesOf(s)' = bytesOf(s)
      BY <3>4, <3>5 DEF bytesOf, BytesAt
    <3>7. Settled(s)'
      BY <1>1, <1>2, <2>1, <2>3, <3>2, <3>4 DEF Settled
    <3> QED BY <3>6, <3>7
  <2> QED BY <2>2, <2>3
<1> QED BY <1>3, <1>4

\* The slabs after the copy: on the same arrays as before, filled at least as
\* far, and the last one ends with the value, which lies behind all it held.
LEMMA Appended ==
  ASSUME ArenaInvariant, NEW v \in Payloads, ~ noLastSlab(v), Append32(v)
  PROVE  /\ HeapOK' /\ SlabsOK'
         /\ Len(slabs) <= Len(slabs') /\ Len(slabs') > 0
         /\ \A i \in 1 .. Len(slabs) :
               slabs'[i].array = slabs[i].array /\ slabs[i].len <= slabs'[i].len
         /\ cur' = slabs'[Len(slabs')] /\ cur'.len - Len(v) \in Nat
         /\ \A i \in 1 .. Len(slabs) : i = Len(slabs') => slabs[i].len <= cur'.len - Len(v)
         /\ [j \in 1 .. Len(v) |-> heap'[cur'.array].bytes[cur'.len - Len(v) + j]] = v
<1>1. Len(v) \in Nat /\ v = [j \in 1 .. Len(v) |-> v[j]]
  BY ArenaAssumption
<1>2. /\ Len(heap) \in Nat /\ Len(slabs) \in 0 .. Len(heap) /\ Len(slabs) \in Nat
      /\ slabs = [i \in 1 .. Len(slabs) |-> slabs[i]]
      /\ \A i \in 1 .. Len(slabs) :
            /\ slabs[i] = [array |-> slabs[i].array, len |-> slabs[i].len]
            /\ slabs[i].array \in 1 .. Len(heap)
            /\ slabs[i].len \in 0 .. heap[slabs[i].array].cap
      /\ \A i, j \in 1 .. Len(slabs) : slabs[i].array = slabs[j].array => i = j
  BY ArenaAssumption DEF ArenaInvariant, HeapOK, SlabsOK
<1>3. \A i \in 1 .. Len(heap) : heap[i].cap \in Nat
  <2>1. \A i \in 1 .. Len(heap) : heap[i].cap \in 0 .. U32 - 1
    BY DEF ArenaInvariant, HeapOK, isArray
  <2>2. U32 \in Nat
    BY ArenaAssumption
  <2> QED BY <2>1, <2>2
<1>4. CASE needsSlab(Len(v))
  <2> DEFINE i0 == Len(heap) + 1
             k0 == Len(slabs) + 1
  <2>1. /\ HeapOK' /\ Len(heap') = i0
        /\ \A i \in 1 .. Len(heap) : heap'[i] = heap[i]
        /\ cur' = [array |-> i0, len |-> Len(v)]
        /\ slabs' = Append(slabs, cur')
        /\ Len(v) <= heap'[i0].cap
        /\ \A j \in 1 .. Len(v) : heap'[i0].bytes[j] = v[j]
    BY <1>4, FreshSlab
  <2>2. /\ Len(slabs') = k0 /\ slabs' = [i \in 1 .. k0 |-> slabs'[i]]
        /\ \A i \in 1 .. Len(slabs) : slabs'[i] = slabs[i]
        /\ slabs'[k0] = cur'
    BY <1>2, <2>1, AppendFacts
  <2>3. heap'[i0].cap \in Nat
    <3>1. i0 \in 1 .. Len(heap') /\ U32 \in Nat
      BY <1>2, <2>1, ArenaAssumption
    <3>2. heap'[i0].cap \in 0 .. U32 - 1
      BY <2>1, <3>1 DEF HeapOK, isArray
    <3> QED BY <3>1, <3>2
  <2>4. ASSUME NEW i \in 1 .. k0
        PROVE  /\ slabs'[i] = [array |-> slabs'[i].array, len |-> slabs'[i].len]
               /\ slabs'[i].array \in 1 .. i0
               /\ slabs'[i].len \in 0 .. heap'[slabs'[i].array].cap
               /\ i = k0 <=> slabs'[i].array = i0
    <3>1. CASE i = k0
      BY <1>1, <1>2, <2>1, <2>2, <2>3, <3>1
    <3>2. CASE i # k0
      <4>1. i \in 1 .. Len(slabs)
        BY <1>2, <3>2
      <4>2. slabs'[i] = slabs[i] /\ slabs[i].array \in 1 .. Len(heap)
        BY <1>2, <2>2, <4>1
      <4>3. heap'[slabs[i].array] = heap[slabs[i].array]
        BY <2>1, <4>2
      <4> QED BY <1>2, <3>2, <4>1, <4>2, <4>3
    <3> QED BY <3>1, <3>2
  <2>5. \A i, j \in 1 .. k0 : slabs'[i].array = slabs'[j].array => i = j
    <3> SUFFICES ASSUME NEW i \in 1 .. k0, NEW j \in 1 .. k0,
                        slabs'[i].array = slabs'[j].array
                 PROVE  i = j
      OBVIOUS
    <3>1. CASE i = k0 \/ j = k0
      BY <2>4, <3>1
    <3>2. CASE i # k0 /\ j # k0
      <4>1. i \in 1 .. Len(slabs) /\ j \in 1 .. Len(slabs)
        BY <1>2, <3>2
      <4> QED BY <1>2, <2>2, <4>1
    <3> QED BY <3>1, <3>2
  <2>6. SlabsOK'
    <3>1. k0 \in 0 .. i0 /\ k0 # 0
      BY <1>2
    <3> QED BY <2>1, <2>2, <2>4, <2>5, <3>1 DEF SlabsOK
  <2>7. \A i \in 1 .. Len(slabs) :
           slabs'[i].array = slabs[i].array /\ slabs[i].len <= slabs'[i].len
    BY <1>2, <1>3, <2>2
  <2>8. /\ cur'.len - Len(v) = 0
        /\ [j \in 1 .. Len(v) |-> heap'[cur'.array].bytes[cur'.len - Len(v) + j]] = v
    BY <1>1, <2>1
  <2>9. \A i \in 1 .. Len(slabs) : i # Len(slabs')
    BY <1>2, <2>2
  <2> QED BY <1>2, <2>1, <2>2, <2>6, <2>7, <2>8, <2>9
<1>5. CASE ~ needsSlab(Len(v))
  <2> DEFINE k0 == Len(slabs)
  <2>1. /\ k0 > 0 /\ cur = slabs[k0] /\ cur.array \in 1 .. Len(heap)
        /\ cur.len \in Nat /\ cur.len + Len(v) <= heap[cur.array].cap
        /\ HeapOK' /\ Len(heap') = Len(heap)
        /\ \A i \in 1 .. Len(heap) : i # cur.array => heap'[i] = heap[i]
        /\ heap'[cur.array] = Written(heap[cur.array], cur.len, v)
        /\ cur' = [array |-> cur.array, len |-> cur.len + Len(v)]
        /\ slabs' = [slabs EXCEPT ![k0] = cur']
    BY <1>5, SameSlab
  <2>2. /\ Len(slabs') = k0 /\ slabs' = [i \in 1 .. k0 |-> slabs'[i]]
        /\ \A i \in 1 .. k0 : i # k0 => slabs'[i] = slabs[i]
        /\ slabs'[k0] = cur' /\ k0 \in 1 .. k0
    <3>1. Len(slabs) \in 1 .. Len(slabs)
      BY <1>2, <2>1
    <3> DEFINE x == cur'
    <3>2. slabs' = [slabs EXCEPT ![Len(slabs)] = x]
      BY <2>1
    <3> HIDE DEF x
    <3>3. /\ Len(slabs') = Len(slabs) /\ slabs' = [i \in 1 .. Len(slabs) |-> slabs'[i]]
          /\ \A i \in 1 .. Len(slabs) : i # Len(slabs) => slabs'[i] = slabs[i]
          /\ slabs'[Len(slabs)] = x
      BY <1>2, <3>1, <3>2, ExceptFacts
    <3> QED BY <3>1, <3>3 DEF x
  <2>3. /\ heap'[cur.array].cap = heap[cur.array].cap
        /\ \A j \in 1 .. Len(v) : heap'[cur.array].bytes[cur.len + j] = v[j]
    <3>1. isArray(heap[cur.array])
      BY <2>1 DEF ArenaInvariant, HeapOK
    <3> DEFINE a == heap[cur.array]
               w == Written(a, cur.len, v)
    <3>4. isArray(a) /\ cur.len \in Nat /\ cur.len + Len(v) <= a.cap
      BY <2>1, <3>1
    <3> HIDE DEF a
    <3>2. w.cap = a.cap /\ \A j \in 1 .. Len(v) : w.bytes[cur.len + j] = v[j]
      BY <3>4, WrittenFacts
    <3> HIDE DEF w
    <3>3. heap'[cur.array] = w
      BY <2>1 DEF a, w
    <3> QED BY <3>2, <3>3 DEF a
  <2>4. \A i \in 1 .. k0 : slabs'[i].array = slabs[i].array
    BY <2>1, <2>2
  <2>5. \A i \in 1 .. Len(heap) : heap'[i].cap = heap[i].cap
    BY <2>1, <2>3
  <2>6. ASSUME NEW i \in 1 .. k0
        PROVE  /\ slabs'[i] = [array |-> slabs'[i].array, len |-> slabs'[i].len]
               /\ slabs'[i].array \in 1 .. Len(heap)
               /\ slabs'[i].len \in 0 .. heap'[slabs'[i].array].cap
               /\ slabs[i].len <= slabs'[i].len
    <3>1. CASE i = k0
      BY <1>1, <1>2, <1>3, <2>1, <2>2, <2>3, <3>1
    <3>2. CASE i # k0
      BY <1>2, <1>3, <2>2, <2>5, <3>2
    <3> QED BY <3>1, <3>2
  <2>7. SlabsOK'
    <3>1. \A i, j \in 1 .. k0 : slabs'[i].array = slabs'[j].array => i = j
      BY <1>2, <2>4
    <3> QED BY <1>2, <2>1, <2>2, <2>6, <3>1 DEF SlabsOK
  <2>8. /\ cur'.len - Len(v) = cur.len
        /\ [j \in 1 .. Len(v) |-> heap'[cur'.array].bytes[cur'.len - Len(v) + j]] = v
    BY <1>1, <2>1, <2>3
  <2>9. \A i \in 1 .. k0 : i = Len(slabs') => slabs[i].len <= cur'.len - Len(v)
    BY <2>1, <2>2, <2>8
  <2> QED BY <1>2, <2>1, <2>2, <2>4, <2>6, <2>7, <2>8, <2>9
<1> QED BY <1>4, <1>5

-----------------------------------------------------------------------------
\* Entries.

\* What an entry points to is in bounds and settled.
LEMMA EntrySettled ==
  ASSUME ArenaInvariant, NEW e, EntryOK(e)
  PROVE  /\ Settled(sliceOf(e)) /\ inBounds(e)
         /\ e.off \in 0 .. U32 - 1 /\ e.ln \in 0 .. U32 - 1
<1> DEFINE i == e.slab + 1
           s == sliceOf(e)
<1>1. /\ e.slab \in 0 .. Len(slabs) - 1 /\ e.off \in Nat /\ e.ln \in Nat
      /\ e.off + e.ln <= slabs[i].len
  BY DEF EntryOK
<1>2. Len(heap) \in Nat /\ Len(slabs) \in Nat
  BY ArenaAssumption DEF ArenaInvariant, HeapOK, SlabsOK
<1>3. i \in 1 .. Len(slabs) /\ Len(slabs) # 0
  BY <1>1, <1>2
<1>4. slabs[i].array \in 1 .. Len(heap) /\ slabs[i].len \in 0 .. heap[slabs[i].array].cap
  BY <1>3 DEF ArenaInvariant, SlabsOK
<1>5. heap[slabs[i].array].cap \in 0 .. U32 - 1 /\ U32 \in Nat
  BY <1>4, ArenaAssumption DEF ArenaInvariant, HeapOK, isArray
<1>6. s.array = slabs[i].array /\ s.off = e.off /\ s.len = e.ln
  BY DEF sliceOf
<1>7. e.off + e.ln <= heap[slabs[i].array].cap /\ e.off + e.ln \in Nat /\ e.off + e.ln < U32
  <2> DEFINE cap == heap[slabs[i].array].cap
             len == slabs[i].len
  <2>1. cap \in Nat /\ cap < U32
    BY <1>5
  <2>2. len \in 0 .. cap /\ e.off \in Nat /\ e.ln \in Nat /\ e.off + e.ln <= len
    BY <1>1, <1>4
  <2> HIDE DEF cap, len
  <2>3. e.off + e.ln <= cap
    BY <2>1, <2>2
  <2> QED BY <1>5, <2>1, <2>2, <2>3 DEF cap
<1>8. slabs[i].array = cur.array => e.off + e.ln <= cur.len
  <2>1. cur = slabs[Len(slabs)] /\ Len(slabs) \in 1 .. Len(slabs)
    BY <1>2, <1>3 DEF ArenaInvariant, SlabsOK
  <2>2. slabs[i].array = cur.array => i = Len(slabs)
    BY <1>3, <2>1 DEF ArenaInvariant, SlabsOK
  <2> QED BY <1>1, <2>1, <2>2
<1>9. Settled(s)
  <2> HIDE DEF s
  <2> QED BY <1>1, <1>4, <1>6, <1>7, <1>8 DEF Settled
<1>10. inBounds(e)
  <2>1. uint32(e.off + e.ln) = e.off + e.ln
    BY <1>7, Uint32Small
  <2> QED BY <1>1, <1>2, <1>7, <2>1 DEF inBounds
<1> QED BY <1>1, <1>5, <1>7, <1>9, <1>10

\* An entry points to the same bytes after the copy of another value.
LEMMA EntryKept ==
  ASSUME ArenaInvariant, NEW v \in Payloads, ~ noLastSlab(v), Append32(v),
         NEW e, EntryOK(e)
  PROVE  EntryOK(e)' /\ bytesOf(sliceOf(e))' = bytesOf(sliceOf(e))
<1> DEFINE i == e.slab + 1
<1>1. /\ e.slab \in 0 .. Len(slabs) - 1 /\ e.off \in Nat /\ e.ln \in Nat
      /\ e.off + e.ln <= slabs[i].len /\ bytesOf(sliceOf(e)) \in Payloads
      /\ e = [slab |-> e.slab, off |-> e.off, ln |-> e.ln]
  BY DEF EntryOK
<1>2. Len(slabs) \in Nat /\ Len(slabs') \in Nat /\ Len(slabs) <= Len(slabs')
  <2>1. SlabsOK' /\ HeapOK' /\ Len(slabs) <= Len(slabs')
    BY Appended
  <2> QED BY <2>1, ArenaAssumption DEF ArenaInvariant, HeapOK, SlabsOK
<1>3. i \in 1 .. Len(slabs) /\ i \in 1 .. Len(slabs') /\ e.slab \in 0 .. Len(slabs') - 1
  BY <1>1, <1>2
<1>4. slabs'[i].array = slabs[i].array /\ slabs[i].len <= slabs'[i].len
  BY <1>3, Appended
<1>5. slabs[i].len \in Int /\ slabs'[i].len \in Int
  <2>1. U32 \in Nat
    BY ArenaAssumption
  <2>2. /\ slabs[i].array \in 1 .. Len(heap) /\ slabs[i].len \in 0 .. heap[slabs[i].array].cap
    BY <1>3 DEF ArenaInvariant, SlabsOK
  <2>3. heap[slabs[i].array].cap \in 0 .. U32 - 1
    BY <2>2 DEF ArenaInvariant, HeapOK, isArray
  <2>4. SlabsOK' /\ HeapOK'
    BY Appended
  <2>5. /\ slabs'[i].array \in 1 .. Len(heap')
        /\ slabs'[i].len \in 0 .. heap'[slabs'[i].array].cap
    BY <1>3, <2>4 DEF SlabsOK
  <2>6. heap'[slabs'[i].array].cap \in 0 .. U32 - 1
    BY <2>4, <2>5 DEF HeapOK, isArray
  <2> QED BY <2>1, <2>2, <2>3, <2>5, <2>6
<1>6. sliceOf(e)' = sliceOf(e)
  BY <1>4 DEF sliceOf
<1> DEFINE s == sliceOf(e)
<1>7. Settled(s)
  BY EntrySettled
<1>8. \A t : Settled(t) => bytesOf(t)' = bytesOf(t)
  BY SettledKept
<1>9. bytesOf(sliceOf(e))' = bytesOf(sliceOf(e))
  <2>1. bytesOf(sliceOf(e))' = BytesAt(s.array, s.off, s.len)'
    BY <1>6 DEF bytesOf
  <2>2. PICK t : t = s
    OBVIOUS
  <2>3. bytesOf(t)' = bytesOf(t)
    BY <1>7, <1>8, <2>2
  <2> QED BY <1>6, <2>2, <2>3 DEF bytesOf, BytesAt
<1>10. EntryOK(e)'
  BY <1>1, <1>3, <1>4, <1>5, <1>9 DEF EntryOK
<1> QED BY <1>9, <1>10

\* The entry of the value that was copied.
LEMMA EntryMade ==
  ASSUME ArenaInvariant, NEW v \in Payloads, ~ noLastSlab(v), Append32(v),
         NEW e, e = newEntry(v)
  PROVE  /\ EntryOK(e)' /\ bytesOf(sliceOf(e))' = v /\ e # NoEntry
         /\ e.slab + 1 = Len(slabs') /\ e.off = cur'.len - Len(v) /\ e.ln = Len(v)
<1>1. Len(v) \in Nat /\ Len(v) < U32
  BY ArenaAssumption
<1>2. /\ HeapOK' /\ SlabsOK' /\ Len(slabs') > 0
      /\ cur' = slabs'[Len(slabs')] /\ cur'.len - Len(v) \in Nat
      /\ [j \in 1 .. Len(v) |-> heap'[cur'.array].bytes[cur'.len - Len(v) + j]] = v
  BY Appended
<1>3. Len(slabs') \in Nat /\ Len(slabs') <= MaxArrays /\ U32 \in Nat /\ MaxArrays < U32
  BY <1>2, ArenaAssumption DEF SlabsOK, HeapOK
<1>4. Len(slabs') \in 1 .. Len(slabs')
  BY <1>2, <1>3
<1>5. cur'.array \in 1 .. Len(heap') /\ cur'.len \in 0 .. heap'[cur'.array].cap
  BY <1>2, <1>4 DEF SlabsOK
<1>6. heap'[cur'.array].cap \in 0 .. U32 - 1
  BY <1>2, <1>5 DEF HeapOK, isArray
<1> DEFINE off == cur'.len - Len(v)
<1>7. off \in Nat /\ off < U32 /\ off + Len(v) = cur'.len
  BY <1>1, <1>2, <1>3, <1>5, <1>6
<1>8. e = [slab |-> Len(slabs') - 1, off |-> off, ln |-> Len(v)]
  <2>1. uint32(Len(slabs') - 1) = Len(slabs') - 1
    <3>1. Len(slabs') - 1 \in Nat /\ Len(slabs') - 1 < U32
      BY <1>2, <1>3, ArenaAssumption
    <3> QED BY <3>1, Uint32Small
  <2>2. uint32(off) = off /\ uint32(Len(v)) = Len(v)
    BY <1>1, <1>7, Uint32Small
  <2> QED BY <2>1, <2>2 DEF newEntry
<1> HIDE DEF off
<1>9. e.slab + 1 = Len(slabs') /\ e.slab \in 0 .. Len(slabs') - 1
  BY <1>3, <1>4, <1>8
<1>10. sliceOf(e)' = [array |-> cur'.array, off |-> off, len |-> Len(v)]
  BY <1>2, <1>8, <1>9 DEF sliceOf
<1>11. bytesOf(sliceOf(e))' = v
  BY <1>2, <1>10 DEF bytesOf, BytesAt, off
<1>12. EntryOK(e)'
  <2>1. e.off + e.ln <= slabs'[e.slab + 1].len
    BY <1>2, <1>5, <1>6, <1>7, <1>8, <1>9
  <2> QED BY <1>1, <1>7, <1>8, <1>9, <1>11, <2>1 DEF EntryOK
<1>13. e # NoEntry
  BY <1>8, <1>9 DEF NoEntry
<1> QED BY <1>8, <1>9, <1>11, <1>12, <1>13 DEF off

\* It lies behind the entries that were there.
LEMMA EntryBehind ==
  ASSUME ArenaInvariant, NEW v \in Payloads, ~ noLastSlab(v), Append32(v),
         NEW f, f = newEntry(v), NEW e, EntryOK(e)
  PROVE  apart(e, f) /\ apart(f, e)
<1> SUFFICES ASSUME e.slab = f.slab
             PROVE  e.off + e.ln <= f.off
  BY DEF apart
<1> DEFINE i == e.slab + 1
<1>1. /\ e.slab \in 0 .. Len(slabs) - 1 /\ e.off \in Nat /\ e.ln \in Nat
      /\ e.off + e.ln <= slabs[i].len
  BY DEF EntryOK
<1>2. f.slab + 1 = Len(slabs') /\ f.off = cur'.len - Len(v)
  BY EntryMade
<1>3. Len(slabs) \in Nat /\ Len(heap) \in Nat /\ U32 \in Nat
  BY ArenaAssumption DEF ArenaInvariant, HeapOK, SlabsOK
<1>4. i \in 1 .. Len(slabs) /\ i = Len(slabs')
  BY <1>1, <1>2, <1>3
<1>5. slabs[i].len <= f.off /\ f.off \in Nat
  BY <1>2, <1>4, Appended
<1>6. slabs[i].len \in Nat
  <2>1. slabs[i].array \in 1 .. Len(heap) /\ slabs[i].len \in 0 .. heap[slabs[i].array].cap
    BY <1>4 DEF ArenaInvariant, SlabsOK
  <2>2. heap[slabs[i].array].cap \in 0 .. U32 - 1
    BY <2>1 DEF ArenaInvariant, HeapOK, isArray
  <2> QED BY <1>3, <2>1, <2>2
<1> QED BY <1>1, <1>5, <1>6

-----------------------------------------------------------------------------
\* The steps, and what each does to the map that the arena stands for.

\* The map of an arena.
LEMMA ContentsOf ==
  ASSUME ArenaInvariant
  PROVE  /\ contents = [k \in StoreKeys |-> contents[k]]
         /\ \A k \in StoreKeys : (contents[k] = Missing <=> m[k] = NoEntry)
         /\ \A k \in StoreKeys : m[k] # NoEntry => contents[k] = bytesOf(sliceOf(m[k]))
<1>1. \A k \in StoreKeys : m[k] # NoEntry => bytesOf(sliceOf(m[k])) \in Payloads
  BY DEF ArenaInvariant, EntriesOK, EntryOK
<1>2. Missing \notin Payloads
  BY ArenaAssumption
<1> QED BY <1>1, <1>2 DEF contents

\* A step that leaves the arena alone leaves the map alone.
LEMMA ArenaKept ==
  ASSUME ArenaInvariant, UNCHANGED arena
  PROVE  /\ contents' = contents /\ HeapOK' /\ SlabsOK' /\ EntriesOK' /\ EntriesApart'
         /\ held' = held => HeldOK'
<1>1. UNCHANGED <<m, slabs, cur, heap>>
  BY DEF arena
<1>2. \A s : bytesOf(s)' = bytesOf(s) /\ Settled(s)' = Settled(s)
  BY <1>1 DEF bytesOf, BytesAt, Settled
<1>3. \A e : sliceOf(e)' = sliceOf(e) /\ bytesOf(sliceOf(e))' = bytesOf(sliceOf(e))
  BY <1>1 DEF sliceOf, bytesOf, BytesAt
<1>4. contents' = contents
  <2>1. \A k \in StoreKeys : bytesOf(sliceOf(m[k]))' = bytesOf(sliceOf(m[k]))
    BY <1>1 DEF sliceOf, bytesOf, BytesAt
  <2> QED BY <1>1, <2>1 DEF contents
<1>5. HeapOK' /\ SlabsOK'
  BY <1>1 DEF ArenaInvariant, HeapOK, SlabsOK, isArray
<1>6. EntriesOK'
  BY <1>1, <1>3 DEF ArenaInvariant, EntriesOK, EntryOK, sliceOf, bytesOf, BytesAt
<1>7. held' = held => HeldOK'
  BY <1>1 DEF ArenaInvariant, HeldOK, Settled, bytesOf, BytesAt
<1>8. EntriesApart'
  BY <1>1 DEF ArenaInvariant, EntriesApart, apart
<1> QED BY <1>4, <1>5, <1>6, <1>7, <1>8

LEMMA GetStep ==
  ASSUME ArenaInvariant, NEW k \in StoreKeys, Get(k)
  PROVE  ArenaInvariant' /\ Store!Get(k)
<1>1. UNCHANGED arena /\ k \in FixedKeys
  BY DEF Get
<1>2. /\ contents' = contents /\ HeapOK' /\ SlabsOK' /\ EntriesOK' /\ EntriesApart'
      /\ held' = held => HeldOK'
  BY <1>1, ArenaKept
<1>3. CASE m[k] = NoEntry
  <2>1. held' = held /\ result' = Store!InvalidKey(k) /\ contents[k] = Missing
    BY <1>3, ContentsOf DEF Get
  <2> QED BY <1>1, <1>2, <2>1 DEF ArenaInvariant, Store!Get
<1>4. CASE m[k] # NoEntry
  <2> DEFINE s == sliceOf(m[k])
  <2>1. EntryOK(m[k])
    BY <1>4 DEF ArenaInvariant, EntriesOK
  <2>2. Settled(s) /\ inBounds(m[k])
    BY <2>1, EntrySettled
  <2>3. result' = Store!OkValue(k, bytesOf(s)) /\ held' \in {held, <<s, bytesOf(s)>>}
    BY <1>4, <2>2 DEF Get
  <2>4. contents[k] = bytesOf(s) /\ contents[k] # Missing
    BY <1>4, ContentsOf
  <2>5. Store!Get(k)
    BY <1>1, <1>2, <2>3, <2>4 DEF Store!Get
  <2>6. HeldOK'
    <3>1. CASE held' = held
      BY <1>2, <3>1
    <3>2. CASE held' = <<s, bytesOf(s)>>
      <4>1. UNCHANGED <<m, slabs, cur, heap>>
        BY <1>1 DEF arena
      <4> HIDE DEF s
      <4>2. held'[1] = s /\ held'[2] = bytesOf(s)
        BY <3>2
      <4>3. Settled(held[1])'
        BY <2>2, <4>1, <4>2 DEF Settled
      <4>4. bytesOf(held[1])' = held'[2]
        BY <4>1, <4>2 DEF bytesOf, BytesAt
      <4> QED BY <4>3, <4>4 DEF HeldOK
    <3> QED BY <2>3, <3>1, <3>2
  <2> QED BY <1>2, <2>5, <2>6 DEF ArenaInvariant
<1> QED BY <1>3, <1>4

LEMMA SetStep ==
  ASSUME ArenaInvariant, NEW k \in StoreKeys, NEW v \in Payloads, Set(k, v)
  PROVE  ArenaInvariant' /\ (Store!Set(k, v) \/ Store!BadKey(k))
<1>1. ~ noLastSlab(v) /\ Append32(v) /\ held' = held
  BY DEF Set
<1>2. HeapOK' /\ SlabsOK'
  BY <1>1, Appended
<1>3. \A e : EntryOK(e) => EntryOK(e)' /\ bytesOf(sliceOf(e))' = bytesOf(sliceOf(e))
  BY <1>1, EntryKept
<1>4. HeldOK'
  <2>1. \A s : Settled(s) => Settled(s)' /\ bytesOf(s)' = bytesOf(s)
    BY <1>1, SettledKept
  <2>2. SUFFICES ASSUME held # << >> PROVE Settled(held[1])' /\ bytesOf(held[1])' = held'[2]
    BY <1>1 DEF HeldOK
  <2>3. PICK s : s = held[1]
    OBVIOUS
  <2>4. Settled(s) /\ bytesOf(s) = held[2]
    BY <2>2, <2>3 DEF ArenaInvariant, HeldOK
  <2>5. Settled(s)' /\ bytesOf(s)' = held[2]
    BY <2>1, <2>4
  <2> QED BY <1>1, <2>3, <2>5 DEF Settled, bytesOf, BytesAt
<1>5. m = [l \in StoreKeys |-> m[l]] /\ \A l \in StoreKeys : m[l] = NoEntry \/ EntryOK(m[l])
  BY DEF ArenaInvariant, EntriesOK
<1>6. ASSUME NEW l \in StoreKeys, m'[l] = m[l]
      PROVE  /\ m'[l] = NoEntry \/ EntryOK(m[l])'
             /\ contents'[l] = contents[l]
  <2>1. PICK e : e = m[l]
    OBVIOUS
  <2>2. CASE e = NoEntry
    BY <1>6, <2>1, <2>2 DEF contents
  <2>3. CASE e # NoEntry
    <3>1. EntryOK(e)' /\ bytesOf(sliceOf(e))' = bytesOf(sliceOf(e))
      BY <1>3, <1>5, <2>1, <2>3
    <3>2. EntryOK(m[l])'
      BY <1>6, <2>1, <3>1 DEF EntryOK, sliceOf, bytesOf, BytesAt
    <3>3. bytesOf(sliceOf(m[l]))' = bytesOf(sliceOf(e))
      BY <1>6, <2>1, <3>1 DEF sliceOf, bytesOf, BytesAt
    <3> QED BY <1>6, <2>1, <2>3, <3>2, <3>3 DEF contents
  <2> QED BY <2>2, <2>3
<1>7. CASE k \notin FixedKeys
  <2>1. m' = m /\ result' = Store!Panic(k)
    BY <1>7 DEF Set
  <2>2. EntriesOK'
    BY <1>5, <1>6, <2>1 DEF EntriesOK
  <2>3. contents' = contents
    BY <1>6, <2>1 DEF contents
  <2>4. EntriesApart'
    BY <2>1 DEF ArenaInvariant, EntriesApart, apart
  <2> QED BY <1>2, <1>4, <1>7, <2>1, <2>2, <2>3, <2>4 DEF ArenaInvariant, Store!BadKey
<1>8. CASE k \in FixedKeys
  <2>1. PICK e : e = newEntry(v)
    OBVIOUS
  <2>2. m' = [m EXCEPT ![k] = e] /\ result' = Store!Ok(k)
    BY <1>8, <2>1 DEF Set
  <2>3. EntryOK(e)' /\ bytesOf(sliceOf(e))' = v /\ e # NoEntry
    BY <1>1, <2>1, EntryMade
  <2>4. m'[k] = e /\ m' = [l \in StoreKeys |-> m'[l]]
        /\ \A l \in StoreKeys \ {k} : m'[l] = m[l]
    BY <1>5, <2>2
  <2>5. EntryOK(m[k])' /\ bytesOf(sliceOf(m[k]))' = v
    BY <2>3, <2>4 DEF EntryOK, sliceOf, bytesOf, BytesAt
  <2>6. EntriesOK'
    BY <1>6, <2>4, <2>5 DEF EntriesOK
  <2>7. contents' = [contents EXCEPT ![k] = v]
    <3>1. contents'[k] = v
      BY <2>3, <2>4, <2>5 DEF contents
    <3>2. \A l \in StoreKeys \ {k} : contents'[l] = contents[l]
      BY <1>6, <2>4
    <3>3. contents' = [l \in StoreKeys |-> contents'[l]]
      BY DEF contents
    <3>4. contents = [l \in StoreKeys |-> contents[l]]
      BY DEF contents
    <3> HIDE DEF contents
    <3> QED BY <3>1, <3>2, <3>3, <3>4
  <2>8. EntriesApart'
    <3>1. \A f : EntryOK(f) => apart(f, e) /\ apart(e, f)
      BY <1>1, <2>1, EntryBehind
    <3>2. SUFFICES ASSUME NEW l1 \in StoreKeys, NEW l2 \in StoreKeys, l1 # l2,
                          m'[l1] # NoEntry, m'[l2] # NoEntry
                   PROVE  apart(m'[l1], m'[l2])
      BY DEF EntriesApart, apart
    <3>3. CASE l1 = k
      BY <1>5, <2>4, <3>1, <3>2, <3>3
    <3>4. CASE l2 = k
      BY <1>5, <2>4, <3>1, <3>2, <3>4
    <3>5. CASE l1 # k /\ l2 # k
      BY <2>4, <3>2, <3>5 DEF ArenaInvariant, EntriesApart
    <3> QED BY <3>3, <3>4, <3>5
  <2> QED BY <1>2, <1>4, <1>8, <2>2, <2>6, <2>7, <2>8 DEF ArenaInvariant, Store!Set
<1> QED BY <1>7, <1>8

LEMMA DeleteStep ==
  ASSUME ArenaInvariant, NEW k \in StoreKeys, Delete(k)
  PROVE  ArenaInvariant' /\ Store!Delete(k)
<1>1. /\ k \in FixedKeys /\ m' = [m EXCEPT ![k] = NoEntry]
      /\ UNCHANGED <<slabs, cur, heap, held>>
      /\ result' = IF m[k] = NoEntry THEN Store!InvalidKey(k) ELSE Store!Ok(k)
  BY DEF Delete
<1>2. m = [l \in StoreKeys |-> m[l]] /\ \A l \in StoreKeys : m[l] = NoEntry \/ EntryOK(m[l])
  BY DEF ArenaInvariant, EntriesOK
<1>3. /\ m'[k] = NoEntry /\ m' = [l \in StoreKeys |-> m'[l]]
      /\ \A l \in StoreKeys \ {k} : m'[l] = m[l]
  BY <1>1, <1>2
<1>4. \A l \in StoreKeys \ {k} :
         /\ EntryOK(m[l]) => EntryOK(m[l])'
         /\ bytesOf(sliceOf(m[l]))' = bytesOf(sliceOf(m[l]))
  BY <1>1, <1>3 DEF EntryOK, sliceOf, bytesOf, BytesAt
<1>5. EntriesOK'
  BY <1>2, <1>3, <1>4 DEF EntriesOK
<1>6. HeapOK' /\ SlabsOK' /\ HeldOK'
  BY <1>1 DEF ArenaInvariant, HeapOK, SlabsOK, isArray, HeldOK, Settled, bytesOf, BytesAt
<1>7. contents' = [contents EXCEPT ![k] = Missing]
  BY <1>3, <1>4 DEF contents
<1>8. result' = IF contents[k] = Missing THEN Store!InvalidKey(k) ELSE Store!Ok(k)
  BY <1>1, ContentsOf
<1>9. EntriesApart'
  BY <1>3 DEF ArenaInvariant, EntriesApart, apart
<1> QED BY <1>1, <1>5, <1>6, <1>7, <1>8, <1>9 DEF ArenaInvariant, Store!Delete

LEMMA ResetStep ==
  ASSUME ArenaInvariant, Reset
  PROVE  ArenaInvariant' /\ Store!Reset
<1>1. /\ m' = [k \in StoreKeys |-> NoEntry] /\ slabs' = << >> /\ cur' = NilSlice
      /\ UNCHANGED <<heap, held>> /\ result' = Store!Fresh
  BY DEF Reset
<1>2. HeapOK'
  BY <1>1 DEF ArenaInvariant, HeapOK, isArray
<1>3. SlabsOK'
  <2>1. Len(heap) \in Nat
    BY ArenaAssumption DEF ArenaInvariant, HeapOK
  <2>2. Len(slabs') = 0
    BY <1>1
  <2> QED BY <1>1, <2>1, <2>2 DEF SlabsOK
<1>4. EntriesOK' /\ EntriesApart' /\ contents' = [k \in StoreKeys |-> Missing]
  BY <1>1 DEF EntriesOK, EntriesApart, contents
<1>5. HeldOK'
  <2>1. Len(heap) \in Nat
    BY ArenaAssumption DEF ArenaInvariant, HeapOK
  <2>2. held # << >> => held[1].array \in 1 .. Len(heap)
    BY DEF ArenaInvariant, HeldOK, Settled
  <2> QED BY <1>1, <2>1, <2>2 DEF ArenaInvariant, HeldOK, Settled, bytesOf, BytesAt, NilSlice
<1> QED BY <1>1, <1>2, <1>3, <1>4, <1>5 DEF ArenaInvariant, Store!Reset

\* Calls that change nothing but the result: a panic.
LEMMA PanicStep ==
  ASSUME ArenaInvariant, NEW k \in StoreKeys, UNCHANGED <<arena, held>>
  PROVE  ArenaInvariant' /\ contents' = contents
<1>1. UNCHANGED arena /\ held' = held
  OBVIOUS
<1> QED BY <1>1, ArenaKept DEF ArenaInvariant

-----------------------------------------------------------------------------
\* The theorems.

\* A step that the map store does not make: the Set of an empty value on an
\* arena with no slab panics and changes nothing.
EmptyPanic ==
    /\ slabs = << >>
    /\ \E k \in StoreKeys : result' = Store!Panic(k)
    /\ UNCHANGED contents

\* Every call of the arena keeps its invariant and is a call of the map store.
LEMMA ArenaStep ==
  ASSUME ArenaInvariant, Next
  PROVE  ArenaInvariant' /\ (Store!Next \/ EmptyPanic)
<1>1. CASE Reset
  BY <1>1, ResetStep DEF Store!Next
<1>2. ASSUME NEW k \in StoreKeys, Get(k)
      PROVE  ArenaInvariant' /\ Store!Next
  BY <1>2, GetStep DEF Store!Next
<1>3. ASSUME NEW k \in StoreKeys, Delete(k)
      PROVE  ArenaInvariant' /\ Store!Next
  BY <1>3, DeleteStep DEF Store!Next
<1>4. ASSUME NEW k \in StoreKeys, BadKey(k)
      PROVE  ArenaInvariant' /\ Store!Next
  <2>1. ArenaInvariant' /\ contents' = contents
    BY <1>4, PanicStep DEF BadKey
  <2>2. Store!BadKey(k)
    BY <1>4, <2>1 DEF BadKey, Store!BadKey
  <2> QED BY <2>1, <2>2 DEF Store!Next
<1>5. ASSUME NEW k \in StoreKeys, NEW v \in Payloads, Set(k, v)
      PROVE  ArenaInvariant' /\ Store!Next
  BY <1>5, SetStep DEF Store!Next
<1>6. ASSUME NEW k \in StoreKeys, NEW v \in Payloads, SetPanics(k, v)
      PROVE  ArenaInvariant' /\ EmptyPanic
  <2>1. ArenaInvariant' /\ contents' = contents
    BY <1>6, PanicStep DEF SetPanics
  <2>2. slabs = << >> /\ result' = Store!Panic(k)
    BY <1>6 DEF SetPanics, noLastSlab
  <2> QED BY <2>1, <2>2 DEF EmptyPanic
<1> QED BY <1>1, <1>2, <1>3, <1>4, <1>5, <1>6 DEF Next

\* No two slabs share an array, no two keys' entries overlap, and entries and
\* callers' slices lie in what is filled (mapstore_arena.go, Set).
THEOREM ArenaInvariantHolds == Spec => []ArenaInvariant
<1>1. Init => ArenaInvariant
  <2> SUFFICES ASSUME Init PROVE ArenaInvariant
    OBVIOUS
  <2>1. Len(heap) = 0 /\ Len(slabs) = 0 /\ 0 \in 0 .. MaxArrays
    BY ArenaAssumption DEF Init
  <2>2. HeapOK /\ SlabsOK
    BY <2>1 DEF Init, HeapOK, SlabsOK
  <2>3. EntriesOK /\ EntriesApart /\ HeldOK
    BY DEF Init, EntriesOK, EntriesApart, HeldOK
  <2> QED BY <2>2, <2>3 DEF ArenaInvariant
<1>2. ArenaInvariant /\ [Next]_vars => ArenaInvariant'
  <2> SUFFICES ASSUME ArenaInvariant, [Next]_vars PROVE ArenaInvariant'
    OBVIOUS
  <2>1. CASE UNCHANGED vars
    <3>1. UNCHANGED arena /\ held' = held
      BY <2>1 DEF vars
    <3> QED BY <3>1, ArenaKept DEF ArenaInvariant
  <2> QED BY <2>1, ArenaStep
<1> QED BY <1>1, <1>2, PTL DEF Spec

\* A slice that Get handed out keeps showing the same bytes, through later Sets,
\* Deletes and Resets ("deleted entries' bytes are NOT reclaimed").
THEOREM HeldSlicesIntact == Spec => []SlicesIntact
<1>1. ArenaInvariant => SlicesIntact
  BY DEF ArenaInvariant, HeldOK, SlicesIntact
<1> QED BY <1>1, ArenaInvariantHolds, PTL

\* Every slab fits its array and every entry points into the filled part of a
\* slab, so no index or slice expression of the arena is out of range
\* (mapstore_arena.go).
THEOREM ArenaTypeCorrect == Spec => []TypeOK
<1>1. ASSUME ArenaInvariant
      PROVE  TypeOK
  <2>1. /\ Len(heap) \in Nat /\ Len(heap) <= MaxArrays /\ Len(slabs) \in Nat
        /\ Len(slabs) <= Len(heap) /\ MaxArrays \in Nat
    BY <1>1, ArenaAssumption DEF ArenaInvariant, HeapOK, SlabsOK
  <2>2. m = [k \in StoreKeys |-> m[k]] /\ \A k \in StoreKeys : m[k] = NoEntry \/ EntryOK(m[k])
    BY <1>1 DEF ArenaInvariant, EntriesOK
  <2>3. ASSUME NEW k \in StoreKeys, m[k] # NoEntry
        PROVE  /\ m[k] \in [slab : 0 .. MaxArrays - 1, off : 0 .. U32 - 1, ln : 0 .. U32 - 1]
               /\ inBounds(m[k]) /\ m[k].off + m[k].ln <= slabs[m[k].slab + 1].len
    <3>1. EntryOK(m[k])
      BY <2>2, <2>3
    <3>2. inBounds(m[k]) /\ m[k].off \in 0 .. U32 - 1 /\ m[k].ln \in 0 .. U32 - 1
      BY <1>1, <3>1, EntrySettled
    <3>3. m[k].slab \in 0 .. MaxArrays - 1
      BY <2>1, <3>1 DEF EntryOK
    <3>4. m[k] = [slab |-> m[k].slab, off |-> m[k].off, ln |-> m[k].ln]
      BY <3>1 DEF EntryOK
    <3>5. m[k].off + m[k].ln <= slabs[m[k].slab + 1].len
      BY <3>1 DEF EntryOK
    <3> QED BY <3>2, <3>3, <3>4, <3>5
  <2>4. ASSUME NEW i \in 1 .. Len(slabs)
        PROVE  slabs[i].array \in 0 .. Len(heap) /\ slabs[i].len <= capacity(slabs[i])
    <3>1. slabs[i].array \in 1 .. Len(heap) /\ slabs[i].len \in 0 .. heap[slabs[i].array].cap
      BY <1>1 DEF ArenaInvariant, SlabsOK
    <3>2. heap[slabs[i].array].cap \in 0 .. U32 - 1 /\ U32 \in Nat
      BY <1>1, <3>1, ArenaAssumption DEF ArenaInvariant, HeapOK, isArray
    <3>3. slabs[i] # NilSlice
      BY <2>1, <3>1 DEF NilSlice
    <3> QED BY <2>1, <3>1, <3>2, <3>3 DEF capacity
  <2>5. cur.array \in 0 .. Len(heap) /\ cur.len <= capacity(cur)
    <3>1. CASE Len(slabs) = 0
      BY <1>1, <2>1, <3>1 DEF ArenaInvariant, SlabsOK, NilSlice, capacity
    <3>2. CASE Len(slabs) # 0
      <4>1. cur = slabs[Len(slabs)] /\ Len(slabs) \in 1 .. Len(slabs)
        BY <1>1, <2>1, <3>2 DEF ArenaInvariant, SlabsOK
      <4> QED BY <2>4, <4>1
    <3> QED BY <3>1, <3>2
  <2>6. \A s \in {cur} \cup {slabs[j] : j \in 1 .. Len(slabs)} :
           s.array \in 0 .. Len(heap) /\ s.len <= capacity(s)
    BY <2>4, <2>5
  <2>7. m \in [StoreKeys -> {NoEntry} \cup
                  [slab : 0 .. MaxArrays - 1, off : 0 .. U32 - 1, ln : 0 .. U32 - 1]]
    BY <2>2, <2>3
  <2> QED BY <2>1, <2>3, <2>6, <2>7 DEF TypeOK
<1> QED BY <1>1, ArenaInvariantHolds, PTL

\* ArenaFixedSizeMap is a map store: but for the Set of an empty value on an
\* arena with no slab, every call does what Set, Get, Delete and Reset of a map
\* do (mapstore_arena.go, and the comments of MapStore in mapstore.go).
THEOREM ArenaIsMapStore == Spec => ImplementsStoreOnceUsed
<1>1. Init => Store!Init
  BY DEF Init, Store!Init, contents
<1>2. ArenaInvariant /\ [Next]_vars =>
         [Store!Next \/ EmptyPanic]_(Store!vars)
  <2> SUFFICES ASSUME ArenaInvariant, [Next]_vars
               PROVE  [Store!Next \/ EmptyPanic]_(Store!vars)
    OBVIOUS
  <2>1. CASE UNCHANGED vars
    <3>1. UNCHANGED arena /\ result' = result
      BY <2>1 DEF vars
    <3>2. contents' = contents
      BY <3>1, ArenaKept
    <3> QED BY <3>1, <3>2 DEF Store!vars
  <2> QED BY <2>1, ArenaStep
<1> QED BY <1>1, <1>2, ArenaInvariantHolds, PTL DEF Spec, ImplementsStoreOnceUsed, EmptyPanic
=============================================================================
