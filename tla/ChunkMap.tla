------------------------------ MODULE ChunkMap ------------------------------
(***************************************************************************)
(* A sparsemap in chunk mode, in a caller's buffer, under any sequence of  *)
(* single-index sets and unsets: the layer of src/sm.c below small mode    *)
(* and below the growing entry points.  SparseMap.tla adds those.          *)
(***************************************************************************)
EXTENDS ChunkStream

CONSTANTS
  Indices,   \* the indices the client uses
  Buffers    \* the sizes, in words, a caller's buffer may have

ASSUME IndicesAssumption == Indices \subseteq Nat
ASSUME BuffersAssumption == Buffers \subseteq Nat \ {0}

VARIABLE map

vars == << map >>

Init == \E cap \in Buffers : map = MapRecord(<< >>, HeaderWords, cap)

Set(i) == map' = MapSet(map, i).map
Unset(i) == map' = MapUnset(map, i).map

Next == \E i \in Indices : Set(i) \/ Unset(i)

Spec == Init /\ [][Next]_vars

----------------------------------------------------------------------------
Members(m) == {i \in Indices : HasBit(m.chunks, i)}

\* Type invariant of the map's buffer.
TypeOK == map \in [chunks : Seq(Chunks), used : Int, cap : Nat]

\* What sm_validate asks of the chunks holds after every call, whatever the
\* calls: starts are aligned and ascend, no chunk's span reaches into the next
\* one's, and no run is longer than its capacity.
ChunksInOrder == WellFormed(map.chunks)

\* And what it asks of the buffer: m_data_used, kept by adding and subtracting
\* what each step moved, is exactly the words of the stream and within the
\* buffer.
WordsAccounted == Accounted(map)

\* The payload is in step with the descriptors, and each set has one sparse
\* encoding: one word per mixed vector, no stored word all zeros or all ones,
\* no chunk without a bit, no run of length 0.
CanonicalChunks ==
  \A j \in DOMAIN map.chunks :
    LET c == map.chunks[j]
    IN IF IsRLE(c) THEN c.len > 0
       ELSE /\ Len(c.data) = Cardinality(Mixed(c.flag))
            /\ \A p \in DOMAIN c.data : c.data[p] \notin {{}, Bit}
            /\ ~IsEmptyChunk(c)

\* The outcome r of a call that is to turn the set into `to': it does, and when
\* it fails for want of room nothing has changed.
Exact(r, to) == IF r.ok THEN Members(r.map) = to ELSE r.map = map

\* A set adds the one index and loses no other, through every coalescing and
\* separation it causes; when it fails for want of room nothing has changed.
SetIsExact == \A i \in Indices : Exact(MapSet(map, i), Members(map) \cup {i})

\* What sm.h and docs/API.md say of sm_remove: it clears the one index.
UnsetIsExact == \A i \in Indices : Exact(MapUnset(map, i), Members(map) \ {i})

\* Outside that one case an unset clears exactly the one index.
UnsetIsExactOtherwise ==
  \A i \in Indices : ~JoinsAcrossRemoved(map, i) =>
    Exact(MapUnset(map, i), Members(map) \ {i})
=============================================================================
