---------------------------- MODULE ReaderProofs ----------------------------
(***************************************************************************)
(* The chunk map, the readers that remember something of it, and the       *)
(* queries that count or search it.                                        *)
(*                                                                         *)
(* ChunkMap keeps its chunks well formed and in order, its words counted   *)
(* and its chunks canonical, and a set and an unset change the one index   *)
(* they are called for.  What the readers of a map remember of it stays    *)
(* true of it, so that a lookup through a cursor, a chunk cache or a       *)
(* locator answers what a lookup without one does.  And the queries are    *)
(* right whatever chunks the map is made of: what each walk carries from   *)
(* chunk to chunk adds up to what the set of the members says.             *)
(***************************************************************************)
EXTENDS Query, Readers, CallTheorems

----------------------------------------------------------------------------
(* The system.                                                             *)

\* The indices the client uses all lie below a boundary that is no larger than
\* the largest run: no run can then reach the 31-bit limit.
IndicesBelow(L) == Limit(L) /\ \A i \in Indices : i < L

\* A new map satisfies the invariant.
LEMMA InitOK ==
  ASSUME NEW L, Init
  PROVE  MapOK(map, L)
<1>1. PICK cap \in Buffers : map = MapRecord(<< >>, HeaderWords, cap)  BY DEF Init
<1>2. cap \in Nat  BY BuffersAssumption
<1>3. << >> \in Seq(Chunks)  BY EmptySeq
<1>4. map = [chunks |-> << >>, used |-> 1, cap |-> cap]
  BY <1>1 DEF MapRecord, HeaderWords
<1> QED  BY <1>2, <1>3, <1>4, EmptyStream DEF MapOK

\* And every call keeps it.
LEMMA NextOK ==
  ASSUME NEW L, IndicesBelow(L), MapOK(map, L), [Next]_vars
  PROVE  MapOK(map', L)
<1>1. CASE Next
  <2>1. PICK i \in Indices : Set(i) \/ Unset(i)  BY <1>1 DEF Next
  <2>2. i \in Nat /\ i < L /\ Limit(L)  BY IndicesAssumption DEF IndicesBelow
  <2>3. CASE Set(i)
    <3>1. CallOK(MapSet(map, i), map, L)  BY <2>2, MapSetOK
    <3> QED  BY <2>3, <3>1 DEF Set, CallOK
  <2>4. CASE Unset(i)
    <3>1. CallOK(MapUnset(map, i), map, L)  BY <2>2, MapUnsetOK
    <3> QED  BY <2>4, <3>1 DEF Unset, CallOK
  <2> QED  BY <2>1, <2>3, <2>4
<1>2. CASE UNCHANGED vars
  BY <1>2 DEF vars
<1> QED  BY <1>1, <1>2

\* The inductive invariant of ChunkMap.
THEOREM MapStaysOK ==
  ASSUME NEW CONSTANT L, IndicesBelow(L)
  PROVE  Spec => []MapOK(map, L)
<1>1. Init => MapOK(map, L)  BY InitOK
<1>2. MapOK(map, L) /\ [Next]_vars => MapOK(map, L)'
  <2> SUFFICES ASSUME MapOK(map, L), [Next]_vars  PROVE MapOK(map', L)
    BY DEF MapOK
  <2> QED  BY NextOK
<1> QED  BY <1>1, <1>2, PTL DEF Spec

\* TypeOK of ChunkMap: the buffer never holds anything but chunks of the right
\* type, whatever the word size, the flags in a descriptor and the buffer are.
THEOREM TypeCorrect ==
  ASSUME NEW CONSTANT L, IndicesBelow(L)
  PROVE  Spec => []TypeOK
<1>1. MapOK(map, L) => TypeOK  BY DEF MapOK, TypeOK
<1> QED  BY <1>1, MapStaysOK, PTL

\* ChunksInOrder of ChunkMap: what sm_validate asks of starts, spans and run
\* lengths holds after every sequence of sets and unsets.
THEOREM StreamStaysInOrder ==
  ASSUME NEW CONSTANT L, IndicesBelow(L)
  PROVE  Spec => []ChunksInOrder
<1>1. MapOK(map, L) => ChunksInOrder
  BY StreamIsWellFormed DEF MapOK, ChunksInOrder
<1> QED  BY <1>1, MapStaysOK, PTL

----------------------------------------------------------------------------
(* The indices, the words and the encoding.                                *)

\* The inductive invariant of ChunkMap: the map is in order, every chunk is
\* canonical, the words add up, and they are within the buffer.  The set the
\* map stands for is the bits its chunks hold.
Sound(L) == Fits(map, Bits(map.chunks), L)

\* A map that holds some set soundly is sound.
LEMMA FitsItsBits ==
  ASSUME NEW m, NEW X, NEW L, Fits(m, X, L)
  PROVE  Bits(m.chunks) = X /\ Fits(m, Bits(m.chunks), L)
<1>1. Bits(m.chunks) = X  BY DEF Fits, Keeps, Encodes
<1> QED  BY <1>1

\* A new map is sound.
LEMMA InitSound ==
  ASSUME NEW L, Init
  PROVE  Sound(L)
<1>1. PICK cap \in Buffers : map = MapRecord(<< >>, HeaderWords, cap)  BY DEF Init
<1>2. cap \in Nat /\ 1 <= cap  BY BuffersAssumption
<1>3. map = [chunks |-> << >>, used |-> 1, cap |-> cap]
  BY <1>1 DEF MapRecord, HeaderWords
<1>4. MapOK(map, L)  BY InitOK
<1>5. map.chunks = << >> /\ map.used - HeaderWords = 0 /\ map.used <= map.cap
  BY <1>2, <1>3 DEF HeaderWords
<1>6. Encodes(map.chunks, {}, map.used - HeaderWords)  BY <1>5, HoldsNone
<1>7. Fits(map, {}, L)  BY <1>4, <1>5, <1>6 DEF Fits, Keeps
<1> QED  BY <1>7, FitsItsBits DEF Sound

\* A call that keeps the invariant leaves a sound map.
LEMMA CallSound ==
  ASSUME NEW r, NEW m, NEW to, NEW exact, NEW L,
         CallKeeps(r, m, to, exact, L), Fits(m, Bits(m.chunks), L)
  PROVE  Fits(r.map, Bits(r.map.chunks), L)
<1>1. CASE r.ok
  <2>1. PICK Y : Fits(r.map, Y, L)  BY <1>1 DEF CallKeeps
  <2> QED  BY <2>1, FitsItsBits
<1>2. CASE ~r.ok
  <2>1. r.map = m  BY <1>2 DEF CallKeeps
  <2> QED  BY <2>1
<1> QED  BY <1>1, <1>2

\* Every call leaves a sound map.
LEMMA NextSound ==
  ASSUME NEW L, IndicesBelow(L), Sound(L), [Next]_vars
  PROVE  Fits(map', Bits(map'.chunks), L)
<1> DEFINE X == Bits(map.chunks)
<1>0. Fits(map, X, L) /\ Limit(L)  BY DEF Sound, IndicesBelow
<1> HIDE DEF X
<1>1. CASE Next
  <2>1. PICK i \in Indices : Set(i) \/ Unset(i)  BY <1>1 DEF Next
  <2>2. i \in Nat /\ i < L  BY IndicesAssumption DEF IndicesBelow
  <2>3. CASE Set(i)
    <3>1. CallKeeps(MapSet(map, i), map, X \cup {i}, TRUE, L)
      BY <1>0, <2>2, MapSetKeeps
    <3>2. Fits(map, Bits(map.chunks), L)  BY <1>0 DEF X
    <3>3. Fits(MapSet(map, i).map, Bits(MapSet(map, i).map.chunks), L)
      BY <3>1, <3>2, CallSound
    <3> QED  BY <2>3, <3>3 DEF Set
  <2>4. CASE Unset(i)
    <3>1. CallKeeps(MapUnset(map, i), map, X \ {i}, ~JoinsAcrossRemoved(map, i), L)
      BY <1>0, <2>2, MapUnsetKeeps
    <3>2. Fits(map, Bits(map.chunks), L)  BY <1>0 DEF X
    <3>3. Fits(MapUnset(map, i).map, Bits(MapUnset(map, i).map.chunks), L)
      BY <3>1, <3>2, CallSound
    <3> QED  BY <2>4, <3>3 DEF Unset
  <2> QED  BY <2>1, <2>3, <2>4
<1>2. CASE UNCHANGED vars
  BY <1>0, <1>2 DEF vars, X
<1> QED  BY <1>1, <1>2

\* The members a client sees of a sound map are the indices its chunks hold.
LEMMA MembersAre ==
  ASSUME NEW m, NEW X, NEW L, Fits(m, X, L)
  PROVE  Members(m) = Indices \cap X
<1>1. StreamOK(m.chunks, 0, L) /\ Bits(m.chunks) = X
  BY DEF Fits, Keeps, MapOK, Encodes
<1>2. ASSUME NEW i \in Indices  PROVE HasBit(m.chunks, i) <=> i \in X
  <2>1. i \in Nat  BY IndicesAssumption
  <2>2. HasBit(m.chunks, i) <=> i \in Bits(m.chunks)  BY <1>1, <2>1, HasBitHolds
  <2> QED  BY <1>1, <2>2
<1> QED  BY <1>2 DEF Members

\* A call that is exact for `to' shows its client exactly that.
LEMMA CallIsExact ==
  ASSUME NEW r, NEW to, NEW L, CallKeeps(r, map, to, TRUE, L),
         NEW seen, Indices \cap to = seen
  PROVE  Exact(r, seen)
<1>1. CASE r.ok
  <2>1. Fits(r.map, to, L)  BY <1>1 DEF CallKeeps
  <2>2. Members(r.map) = seen  BY <2>1, MembersAre
  <2> QED  BY <1>1, <2>2 DEF Exact
<1>2. CASE ~r.ok
  BY <1>2 DEF CallKeeps, Exact
<1> QED  BY <1>1, <1>2

\* In a sound map the words are accounted for.
LEMMA SoundIsAccounted ==
  ASSUME NEW L, Sound(L)
  PROVE  WordsAccounted
<1>1. /\ map.used \in Int /\ map.used <= map.cap
      /\ StreamWords(map.chunks) = map.used - HeaderWords
  BY DEF Sound, Fits, Keeps, MapOK, Encodes
<1>2. map.used = HeaderWords + StreamWords(map.chunks)  BY <1>1 DEF HeaderWords
<1> QED  BY <1>1, <1>2 DEF WordsAccounted, Accounted

\* In a sound map the chunks are canonical, as ChunkMap states it.
LEMMA SoundIsCanonical ==
  ASSUME NEW L, Sound(L)
  PROVE  CanonicalChunks
<1>1. map.chunks \in Seq(Chunks) /\ \A j \in 1 .. Len(map.chunks) : Canonical(map.chunks[j])
  BY DEF Sound, Fits, Keeps, Encodes
<1>2. ASSUME NEW j \in DOMAIN map.chunks
      PROVE  IF IsRLE(map.chunks[j]) THEN map.chunks[j].len > 0
             ELSE /\ Len(map.chunks[j].data) = Cardinality(Mixed(map.chunks[j].flag))
                  /\ \A p \in DOMAIN map.chunks[j].data :
                       map.chunks[j].data[p] \notin {{}, Bit}
                  /\ ~IsEmptyChunk(map.chunks[j])
  <2> DEFINE c == map.chunks[j]
  <2>1. Canonical(c)
    <3>1. j \in 1 .. Len(map.chunks)  BY <1>1
    <3> QED  BY <1>1, <3>1
  <2> HIDE DEF c
  <2>2. CASE IsRLE(c)
    <3>1. c.len \in Nat /\ c.len >= 1
      <4>1. ChunkOK(c)  BY <2>1 DEF Canonical
      <4> QED  BY <2>2, <4>1, RunIsCanonical
    <3>2. c.len > 0  BY <3>1
    <3> QED  BY <2>2, <3>2 DEF c
  <2>3. CASE ~IsRLE(c)
    <3>1. SparseOK(c) /\ ProperWords(c) /\ ~IsEmptyChunk(c)
      BY <2>1, <2>3, CanonicalNotEmpty
    <3>2. c.data \in Seq(SUBSET Bit) /\ Len(c.data) = Cardinality(Mixed(c.flag))
      BY <3>1, SparseFields
    <3>3. DOMAIN c.data = 1 .. Len(c.data)  BY <3>2
    <3>4. \A p \in DOMAIN c.data : c.data[p] \notin {{}, Bit}
      BY <3>1, <3>3 DEF ProperWords
    <3> QED  BY <2>3, <3>1, <3>2, <3>4 DEF c
  <2> QED  BY <2>2, <2>3
<1> QED  BY <1>2 DEF CanonicalChunks

\* In a sound map a set is exact.
LEMMA SoundSets ==
  ASSUME NEW L, IndicesBelow(L), Sound(L)
  PROVE  SetIsExact
<1> DEFINE X == Bits(map.chunks)
<1>0. Fits(map, X, L) /\ Limit(L)  BY DEF Sound, IndicesBelow
<1> HIDE DEF X
<1>1. Members(map) = Indices \cap X  BY <1>0, MembersAre
<1>2. ASSUME NEW i \in Indices  PROVE Exact(MapSet(map, i), Members(map) \cup {i})
  <2>1. i \in Nat /\ i < L  BY IndicesAssumption DEF IndicesBelow
  <2>2. CallKeeps(MapSet(map, i), map, X \cup {i}, TRUE, L)
    BY <1>0, <2>1, MapSetKeeps
  <2>3. Indices \cap (X \cup {i}) = Members(map) \cup {i}  BY <1>1
  <2> QED  BY <2>2, <2>3, CallIsExact
<1> QED  BY <1>2 DEF SetIsExact

\* In a sound map an unset is exact, outside the one case.
LEMMA SoundUnsets ==
  ASSUME NEW L, IndicesBelow(L), Sound(L)
  PROVE  UnsetIsExactOtherwise
<1> DEFINE X == Bits(map.chunks)
<1>0. Fits(map, X, L) /\ Limit(L)  BY DEF Sound, IndicesBelow
<1> HIDE DEF X
<1>1. Members(map) = Indices \cap X  BY <1>0, MembersAre
<1>2. ASSUME NEW i \in Indices, ~JoinsAcrossRemoved(map, i)
      PROVE  Exact(MapUnset(map, i), Members(map) \ {i})
  <2>1. i \in Nat  BY IndicesAssumption
  <2>2. CallKeeps(MapUnset(map, i), map, X \ {i}, ~JoinsAcrossRemoved(map, i), L)
    BY <1>0, <2>1, MapUnsetKeeps
  <2>3. CallKeeps(MapUnset(map, i), map, X \ {i}, TRUE, L)
    BY <1>2, <2>2 DEF CallKeeps
  <2>4. Indices \cap (X \ {i}) = Members(map) \ {i}  BY <1>1
  <2> QED  BY <2>3, <2>4, CallIsExact
<1> QED  BY <1>2 DEF UnsetIsExactOtherwise

\* The inductive invariant holds in every state of ChunkMap: whatever the calls,
\* src/sm.c's stream is in order, canonical and counted in m_data_used.
THEOREM MapStaysSound ==
  ASSUME NEW CONSTANT L, IndicesBelow(L)
  PROVE  Spec => []Sound(L)
<1>1. Init => Sound(L)  BY InitSound
<1>2. Sound(L) /\ [Next]_vars => Sound(L)'
  <2> SUFFICES ASSUME Sound(L), [Next]_vars  PROVE Fits(map', Bits(map'.chunks), L)
    BY DEF Sound
  <2> QED  BY NextSound
<1> QED  BY <1>1, <1>2, PTL DEF Spec

\* WordsAccounted of ChunkMap: m_data_used, kept by adding and subtracting what
\* each step moves, is always the words of the stream and within the buffer.
THEOREM UsedWordsAreTheStreams ==
  ASSUME NEW CONSTANT L, IndicesBelow(L)
  PROVE  Spec => []WordsAccounted
<1>1. Sound(L) => WordsAccounted  BY SoundIsAccounted
<1> QED  BY <1>1, MapStaysSound, PTL

\* CanonicalChunks of ChunkMap: the payload stays in step with the descriptors,
\* no word of it is all zeros or all ones, and no chunk is left without a bit.
THEOREM ChunksStayCanonical ==
  ASSUME NEW CONSTANT L, IndicesBelow(L)
  PROVE  Spec => []CanonicalChunks
<1>1. Sound(L) => CanonicalChunks  BY SoundIsCanonical
<1> QED  BY <1>1, MapStaysSound, PTL

\* SetIsExact of ChunkMap: in every state sm_add's __sm_map_set adds the one
\* index and loses none, or fails and changes nothing.
THEOREM SetsAreExact ==
  ASSUME NEW CONSTANT L, IndicesBelow(L)
  PROVE  Spec => []SetIsExact
<1>1. Sound(L) => SetIsExact  BY SoundSets
<1> QED  BY <1>1, MapStaysSound, PTL

\* UnsetIsExactOtherwise of ChunkMap: in every state __sm_map_unset removes the
\* one index and no other, or fails and changes nothing, unless it removes a
\* chunk between two runs.
THEOREM UnsetsAreExactOtherwise ==
  ASSUME NEW CONSTANT L, IndicesBelow(L)
  PROVE  Spec => []UnsetIsExactOtherwise
<1>1. Sound(L) => UnsetIsExactOtherwise  BY SoundUnsets
<1> QED  BY <1>1, MapStaysSound, PTL

----------------------------------------------------------------------------
(* Offsets.                                                                *)

\* A chunk takes its start, its descriptor and its payload: where the next one
\* begins.
LEMMA NextOffset ==
  ASSUME NEW s \in Seq(Chunks), NEW j \in 1 .. Len(s)
  PROVE  /\ OffsetOf(s, j) \in Nat /\ OffsetOf(s, j + 1) \in Nat
         /\ OffsetOf(s, j + 1) = OffsetOf(s, j) + 1 + Size(s[j])
         /\ OffsetOf(s, j) + 2 <= OffsetOf(s, j + 1)
<1> DEFINE S == Chunks
           a == SubSeq(s, 1, j - 1)
           c == s[j]
           one == << c >>
           m == 1
           k == j - 1
<1>1. Len(s) \in Nat /\ (\A x \in 1 .. Len(s) : s[x] \in S) /\ j \in Nat /\ c \in Chunks
  BY LenProperties
<1>2. /\ m \in 1 .. Len(s) + 1 /\ k \in m - 1 .. Len(s) /\ j \in k .. Len(s)
      /\ m \in Int /\ k \in Int /\ k + 1 = j /\ j + 1 - 1 = j
  BY <1>1
<1>3. \A x \in m .. k : s[x] \in S  BY <1>1
<1>4. a \in Seq(Chunks)
  <2>1. a = SubSeq(s, m, k)  OBVIOUS
  <2> HIDE DEF m, k, a, S
  <2>2. SubSeq(s, m, k) \in Seq(S)  BY <1>2, <1>3, SubSeqProperties
  <2> QED  BY <2>1, <2>2 DEF S
<1>5. SubSeq(s, 1, j) = a \o one
  <2>1. s \in Seq(S) /\ m \in 1 .. Len(s) /\ j \in m .. Len(s)  BY <1>1
  <2>2. a = SubSeq(s, m, j - 1) /\ one = << s[j] >>  OBVIOUS
  <2> HIDE DEF S, a, one, m
  <2>3. SubSeq(s, m, j) = a \o one  BY <2>1, <2>2, SubSeqRecursiveSecond
  <2> QED  BY <2>3 DEF m
<1>6. one \in Seq(Chunks) /\ StreamWords(one) = 1 + Size(c)  BY <1>1, WordsOne
<1>7. StreamWords(a) \in Nat /\ Size(c) \in Nat /\ Size(c) >= 1
  <2>1. StreamWords(a) \in Nat  BY <1>4, StreamWordsIsNat
  <2>2. Size(c) \in Nat /\ Size(c) >= 1  BY MixedFinite DEF Size
  <2> QED  BY <2>1, <2>2
<1>8. OffsetOf(s, j) = StreamWords(a) /\ OffsetOf(s, j + 1) = StreamWords(SubSeq(s, 1, j))
  BY <1>2 DEF OffsetOf
<1> HIDE DEF a, one, c
<1>9. StreamWords(SubSeq(s, 1, j)) = StreamWords(a) + (1 + Size(c))
  BY <1>4, <1>5, <1>6, WordsConcat
<1> QED  BY <1>7, <1>8, <1>9 DEF c

\* Later chunks have greater offsets, by the two words of a chunk at least.
LEMMA OffsetsAscend ==
  ASSUME NEW s \in Seq(Chunks), NEW j \in 1 .. Len(s), NEW k \in 1 .. Len(s) + 1, j < k
  PROVE  OffsetOf(s, j) + 2 <= OffsetOf(s, k)
<1> DEFINE S == Chunks
           a == SubSeq(s, 1, j)
           b == SubSeq(s, j + 1, k - 1)
           m == 1
           n == k - 1
           o == j + 1
<1>1. Len(s) \in Nat /\ (\A x \in 1 .. Len(s) : s[x] \in S) /\ j \in Nat /\ k \in Nat
  BY LenProperties
<1>2. /\ m \in 1 .. Len(s) + 1 /\ j \in m - 1 .. Len(s) /\ n \in j .. Len(s)
      /\ m \in Int /\ j \in Int /\ n \in Int /\ o \in Int /\ o - 1 = j
      /\ s \in Seq(S)
  BY <1>1
<1>3. (\A x \in m .. j : s[x] \in S) /\ (\A x \in o .. n : s[x] \in S)  BY <1>1
<1>4. a \in Seq(Chunks) /\ b \in Seq(Chunks)
  <2>1. a = SubSeq(s, m, j) /\ b = SubSeq(s, o, n)  OBVIOUS
  <2> HIDE DEF m, n, o, a, b, S
  <2>2. SubSeq(s, m, j) \in Seq(S)  BY <1>2, <1>3, SubSeqProperties
  <2>3. SubSeq(s, o, n) \in Seq(S)  BY <1>2, <1>3, SubSeqProperties
  <2> QED  BY <2>1, <2>2, <2>3 DEF S
<1>5. SubSeq(s, 1, k - 1) = a \o b
  <2>1. a = SubSeq(s, m, j) /\ b = SubSeq(s, j + 1, n)  OBVIOUS
  <2> HIDE DEF S, a, b, m, n
  <2>2. SubSeq(s, m, n) = a \o b  BY <1>2, <2>1, ConcatAdjacentSubSeq
  <2> QED  BY <2>2 DEF m, n
<1> HIDE DEF a, b
<1>6. OffsetOf(s, k) = StreamWords(a) + StreamWords(b)
  BY <1>4, <1>5, WordsConcat DEF OffsetOf
<1>7. OffsetOf(s, j + 1) = StreamWords(a)  BY <1>2 DEF OffsetOf, a, o
<1>8. StreamWords(b) \in Nat  BY <1>4, StreamWordsIsNat
<1> QED  BY <1>6, <1>7, <1>8, NextOffset

\* The ends: the first chunk is at 0, and the stream ends after its words.
LEMMA OffsetsAtTheEnds ==
  ASSUME NEW s \in Seq(Chunks)
  PROVE  OffsetOf(s, 1) = 0 /\ OffsetOf(s, Len(s) + 1) = StreamWords(s)
<1> DEFINE S == Chunks
           m == 1
           n == 0
           e == << >>
<1>1. OffsetOf(s, 1) = StreamWords(SubSeq(s, m, n))  BY DEF OffsetOf
<1>2. SubSeq(s, m, n) = e
  <2>1. m \in Int /\ n \in Int /\ n < m  OBVIOUS
  <2>2. ASSUME NEW x \in Int, NEW y \in Int, y < x  PROVE SubSeq(s, x, y) = << >>
    BY <2>2, SubSeqEmpty
  <2> HIDE DEF m, n
  <2> QED  BY <2>1, <2>2
<1>3. OffsetOf(s, 1) = 0
  <2> HIDE DEF m, n
  <2> QED  BY <1>1, <1>2, WordsNone
<1>4. SubSeq(s, 1, Len(s)) = s
  <2>1. s \in Seq(S)  OBVIOUS
  <2> HIDE DEF S
  <2> QED  BY <2>1, SubSeqFull
<1>5. OffsetOf(s, Len(s) + 1) = StreamWords(SubSeq(s, 1, Len(s)))
  <2>1. Len(s) \in Nat  BY LenProperties
  <2>2. Len(s) + 1 - 1 = Len(s)  BY <2>1
  <2> QED  BY <2>2 DEF OffsetOf
<1> QED  BY <1>3, <1>4, <1>5

\* A chunk's offset leads back to it, and its start is the word found there.
LEMMA OffsetLeadsBack ==
  ASSUME NEW s \in Seq(Chunks), NEW j \in 1 .. Len(s)
  PROVE  /\ ChunkAt(s, OffsetOf(s, j)) = j
         /\ WordAt(s, OffsetOf(s, j)) = s[j].start
         /\ OffsetOf(s, j) \in Nat /\ OffsetOf(s, j) + 2 <= StreamWords(s)
<1> DEFINE o == OffsetOf(s, j)
           inside(k) == OffsetOf(s, k) <= o /\ o < OffsetOf(s, k + 1)
<1>1. Len(s) \in Nat /\ DOMAIN s = 1 .. Len(s) /\ j \in Nat  BY LenProperties
<1>2. \A k \in 1 .. Len(s) : OffsetOf(s, k) \in Nat /\ OffsetOf(s, k + 1) \in Nat
  BY NextOffset
<1>3. \A k \in 1 .. Len(s) : k < j => OffsetOf(s, k) < o /\ OffsetOf(s, k + 1) <= o
  <2> SUFFICES ASSUME NEW k \in 1 .. Len(s), k < j
               PROVE  OffsetOf(s, k) < o /\ OffsetOf(s, k + 1) <= o
    OBVIOUS
  <2>1. OffsetOf(s, k) + 2 <= o
    <3>1. j \in 1 .. Len(s) + 1  BY <1>1
    <3> QED  BY <3>1, OffsetsAscend
  <2>2. OffsetOf(s, k + 1) <= o
    <3>1. CASE k + 1 = j  BY <1>2, <3>1
    <3>2. CASE k + 1 < j
      <4> DEFINE n == k + 1
      <4>1. n \in 1 .. Len(s) /\ j \in 1 .. Len(s) + 1 /\ n < j  BY <1>1, <3>2
      <4> HIDE DEF n
      <4>2. OffsetOf(s, n) + 2 <= o  BY <4>1, OffsetsAscend
      <4> QED  BY <1>2, <4>1, <4>2 DEF n
    <3> QED  BY <1>1, <3>1, <3>2
  <2> QED  BY <1>2, <2>1, <2>2
<1>4. \A k \in 1 .. Len(s) : k > j => OffsetOf(s, k) > o
  <2> SUFFICES ASSUME NEW k \in 1 .. Len(s), k > j  PROVE OffsetOf(s, k) > o
    OBVIOUS
  <2>1. k \in 1 .. Len(s) + 1 /\ j < k  BY <1>1
  <2>2. o + 2 <= OffsetOf(s, k)  BY <2>1, OffsetsAscend
  <2> QED  BY <1>2, <2>2
<1>5. o \in Nat /\ o < OffsetOf(s, j + 1)  BY NextOffset
<1> HIDE DEF o
<1>6. ChunkAt(s, o) = j
  <2>1. \A k \in DOMAIN s : OffsetOf(s, k) = o <=> k = j
    <3> SUFFICES ASSUME NEW k \in 1 .. Len(s)  PROVE OffsetOf(s, k) = o <=> k = j
      BY <1>1
    <3>1. k < j \/ k = j \/ k > j  BY <1>1
    <3> QED  BY <1>2, <1>3, <1>4, <1>5, <3>1 DEF o
  <2>2. j \in DOMAIN s  BY <1>1
  <2> QED  BY <2>1, <2>2 DEF ChunkAt
<1>7. WordAt(s, o) = s[j].start
  <2>1. \A k \in DOMAIN s : inside(k) <=> k = j
    <3> SUFFICES ASSUME NEW k \in 1 .. Len(s)  PROVE inside(k) <=> k = j
      BY <1>1
    <3>1. k < j \/ k = j \/ k > j  BY <1>1
    <3> QED  BY <1>2, <1>3, <1>4, <1>5, <3>1 DEF o
  <2>2. WordAt(s, o) = WordOfChunk(s[CHOOSE k \in DOMAIN s : inside(k)],
                                   o - OffsetOf(s, CHOOSE k \in DOMAIN s : inside(k)))
    BY DEF WordAt
  <2>3. (CHOOSE k \in DOMAIN s : inside(k)) = j
    <3>1. j \in DOMAIN s  BY <1>1
    <3> HIDE DEF inside
    <3> QED  BY <2>1, <3>1
  <2>4. o - OffsetOf(s, j) = 0  BY <1>5 DEF o
  <2>5. WordOfChunk(s[j], 0) = s[j].start  BY DEF WordOfChunk
  <2> HIDE DEF inside
  <2> QED  BY <2>2, <2>3, <2>4, <2>5
<1>8. o + 2 <= StreamWords(s)
  <2> DEFINE k == Len(s) + 1
  <2>1. k \in 1 .. Len(s) + 1 /\ j < k  BY <1>1
  <2>2. OffsetOf(s, k) = StreamWords(s)  BY OffsetsAtTheEnds
  <2> HIDE DEF k
  <2>3. o + 2 <= OffsetOf(s, k)  BY <2>1, OffsetsAscend DEF o
  <2> QED  BY <2>2, <2>3
<1> QED  BY <1>5, <1>6, <1>7, <1>8 DEF o

----------------------------------------------------------------------------
(* Walks.                                                                  *)

\* A walk from a chunk that begins at or before i ends where a walk from the
\* head does.
LEMMA WalkIsLocate ==
  ASSUME NEW s, NEW hi, StreamOK(s, 0, hi), s # << >>, NEW i \in Nat,
         NEW from \in 1 .. Len(s), from = 1 \/ s[from].start <= i
  PROVE  /\ WalkFrom(s, from, i) = Locate(s, i)
         /\ from <= Locate(s, i) /\ Locate(s, i) \in 1 .. Len(s)
<1> DEFINE l == Locate(s, i)
           stops(j) == /\ \A k \in from .. j - 1 : i >= s[k].start + Capacity(s[k])
                       /\ j < Len(s) => i < s[j].start + Capacity(s[j])
<1>1. /\ l \in 1 .. Len(s) /\ (\A k \in 1 .. l - 1 : EndOf(s[k]) <= i)
      /\ l < Len(s) => i < EndOf(s[l])
  BY LocateProperties
<1>2. Len(s) \in Nat /\ from \in Nat  BY LenProperties DEF StreamOK
<1>3. \A k \in 1 .. Len(s) : /\ s[k].start \in Nat /\ EndOf(s[k]) \in Nat
                             /\ EndOf(s[k]) = s[k].start + Capacity(s[k])
  BY ChunkExtent DEF StreamOK, EndOf
<1> HIDE DEF l
<1>4. from <= l
  <2> SUFFICES ASSUME l < from  PROVE FALSE  BY <1>1, <1>2
  <2>1. EndOf(s[l]) <= s[from].start  BY <1>1, <1>2 DEF StreamOK
  <2>2. s[from].start <= i /\ i < EndOf(s[l])  BY <1>1, <1>2
  <2> QED  BY <1>1, <1>3, <2>1, <2>2
<1>5. \A j \in from .. Len(s) : stops(j) <=> j = l
  <2> SUFFICES ASSUME NEW j \in from .. Len(s)  PROVE stops(j) <=> j = l
    OBVIOUS
  <2>1. CASE j = l
    <3>1. \A k \in from .. j - 1 : i >= s[k].start + Capacity(s[k])
      <4> SUFFICES ASSUME NEW k \in from .. j - 1
                   PROVE  i >= s[k].start + Capacity(s[k])
        OBVIOUS
      <4>1. k \in 1 .. l - 1 /\ k \in 1 .. Len(s)  BY <1>1, <1>2, <2>1
      <4>2. EndOf(s[k]) <= i  BY <1>1, <4>1
      <4> QED  BY <1>3, <4>1, <4>2
    <3>2. j < Len(s) => i < s[j].start + Capacity(s[j])
      <4>1. i < EndOf(s[l]) => i < s[l].start + Capacity(s[l])  BY <1>1, <1>3
      <4> QED  BY <1>1, <2>1, <4>1
    <3> QED  BY <2>1, <3>1, <3>2
  <2>2. CASE j < l
    <3>1. j \in 1 .. l - 1 /\ j \in 1 .. Len(s) /\ j < Len(s)  BY <1>1, <1>2, <2>2
    <3>2. EndOf(s[j]) <= i  BY <1>1, <3>1
    <3>3. ~(i < s[j].start + Capacity(s[j]))  BY <1>3, <3>1, <3>2
    <3>4. ~stops(j)  BY <3>1, <3>3
    <3> QED  BY <2>2, <3>1, <3>4
  <2>3. CASE j > l
    <3>1. l \in from .. j - 1 /\ l < Len(s)  BY <1>1, <1>2, <1>4, <2>3
    <3>2. ~(i >= s[l].start + Capacity(s[l]))
      <4>1. i < EndOf(s[l])  BY <1>1, <3>1
      <4> QED  BY <1>1, <1>3, <4>1
    <3>3. ~stops(j)  BY <3>1, <3>2
    <3> QED  BY <1>1, <2>3, <3>3
  <2>4. j = l \/ j < l \/ j > l  BY <1>1, <1>2
  <2> QED  BY <2>1, <2>2, <2>3, <2>4
<1>6. WalkFrom(s, from, i) = CHOOSE j \in from .. Len(s) : stops(j)  BY DEF WalkFrom
<1>7. l \in from .. Len(s)  BY <1>1, <1>2, <1>4
<1> HIDE DEF stops
<1>8. WalkFrom(s, from, i) = l  BY <1>5, <1>6, <1>7
<1> QED  BY <1>1, <1>4, <1>8 DEF l

\* What a reader asks of the chunk it was led to is what sm_contains asks.
LEMMA InLocated ==
  ASSUME NEW s, s # << >>, NEW i
  PROVE  InChunk(s[Locate(s, i)], i) <=> HasBit(s, i)
  BY DEF InChunk, CoveredBy, HasBit

\* The chunk whose span covers i is the one located.
LEMMA CoveringIsLocated ==
  ASSUME NEW s, NEW hi, StreamOK(s, 0, hi), NEW i \in Nat, NEW j \in 1 .. Len(s),
         s[j].start <= i, i < EndOf(s[j])
  PROVE  s # << >> /\ Locate(s, i) = j
<1> DEFINE l == Locate(s, i)
<1>1. Len(s) \in Nat /\ s # << >>
  <2>1. s \in Seq(Chunks) /\ Len(s) \in Nat  BY LenProperties DEF StreamOK
  <2>2. Len(s) # 0  BY <2>1
  <2> QED  BY <2>1, <2>2, EmptySeq
<1>2. /\ l \in 1 .. Len(s) /\ (\A k \in 1 .. l - 1 : EndOf(s[k]) <= i)
      /\ l < Len(s) => i < EndOf(s[l])
  BY <1>1, LocateProperties
<1>3. \A k \in 1 .. Len(s) : s[k].start \in Nat /\ EndOf(s[k]) \in Nat
  BY ChunkExtent DEF StreamOK
<1> HIDE DEF l
<1>4. ~(j < l)
  <2> SUFFICES ASSUME j < l  PROVE FALSE  OBVIOUS
  <2>1. j \in 1 .. l - 1  BY <1>1, <1>2
  <2> QED  BY <1>2, <1>3, <2>1
<1>5. ~(l < j)
  <2> SUFFICES ASSUME l < j  PROVE FALSE  OBVIOUS
  <2>1. EndOf(s[l]) <= s[j].start /\ i < EndOf(s[l])  BY <1>1, <1>2 DEF StreamOK
  <2> QED  BY <1>2, <1>3, <2>1
<1> QED  BY <1>1, <1>2, <1>4, <1>5 DEF l

\* The part of the invariant of ChunkMap a reader relies on: its stream is in
\* order, and m_data_used says where it ends.
Readable(m, L) ==
  /\ StreamOK(m.chunks, 0, L)
  /\ m.used \in Int /\ m.used - HeaderWords = StreamWords(m.chunks)

\* A sound map is readable.
LEMMA SoundIsReadable ==
  ASSUME NEW L, Sound(L)
  PROVE  Readable(map, L)
<1>1. MapOK(map, L) /\ Encodes(map.chunks, Bits(map.chunks), map.used - HeaderWords)
  BY DEF Sound, Fits, Keeps
<1> QED  BY <1>1 DEF Readable, MapOK, Encodes

----------------------------------------------------------------------------
(* The cursor.                                                             *)

\* The cursor k is on chunk j of s, which begins at or before `asked' unless it
\* is the first, and its hint is a chunk's offset or none.
Seated(s, k, a, j) ==
  /\ j \in 1 .. Len(s)
  /\ k.offset = OffsetOf(s, j) /\ k.start = s[j].start
  /\ j = 1 \/ s[j].start <= a
  /\ k.prev \in Boundaries(s) \cup {NoOffset}

CursorOK(s, k, a) == a \in Int /\ (k = NoCursor \/ \E j \in 1 .. Len(s) : Seated(s, k, a, j))

\* Where a lookup through such a cursor begins its walk, and the chunk there.
LEMMA ResumesWell ==
  ASSUME NEW m, NEW L, Readable(m, L), NEW k, NEW a, CursorOK(m.chunks, k, a),
         NEW i \in Nat, m.chunks # << >>
  PROVE  /\ ResumeAt(m, k, i) \in 1 .. Len(m.chunks)
         /\ ResumeAt(m, k, i) = 1 \/ m.chunks[ResumeAt(m, k, i)].start <= i
<1> DEFINE s == m.chunks
<1>1. s \in Seq(Chunks) /\ Len(s) \in Nat /\ StreamOK(s, 0, L)
  BY LenProperties DEF Readable, StreamOK
<1>2. 1 \in 1 .. Len(s)
  <2> HIDE DEF s
  <2>1. s # << >>  BY DEF s
  <2>2. Len(s) # 0  BY <1>1, <2>1, EmptySeq
  <2> QED  BY <1>1, <2>2
<1>3. CASE ~Resumes(m, k, i)
  BY <1>2, <1>3 DEF ResumeAt
<1>4. CASE Resumes(m, k, i)
  <2>1. k # NoCursor  BY <1>4 DEF Resumes, NoCursor
  <2>2. PICK j \in 1 .. Len(s) : Seated(s, k, a, j)  BY <2>1 DEF CursorOK
  <2>3. ResumeAt(m, k, i) = j
    <3>1. ResumeAt(m, k, i) = ChunkAt(s, OffsetOf(s, j))
      BY <1>4, <2>2 DEF ResumeAt, Seated
    <3> HIDE DEF s
    <3> QED  BY <1>1, <2>2, <3>1, OffsetLeadsBack
  <2>4. s[j].start <= i
    <3>1. s[j].start \in Nat  BY <1>1, ChunkExtent DEF StreamOK
    <3>2. i >= s[j].start  BY <1>4, <2>2 DEF Resumes, Seated
    <3> QED  BY <3>1, <3>2
  <2> QED  BY <2>3, <2>4
<1> QED  BY <1>3, <1>4

\* LookupsAgree holds of such a cursor.
LEMMA CursorAgrees ==
  ASSUME NEW m, NEW L, Readable(m, L), NEW k, NEW a, CursorOK(m.chunks, k, a),
         NEW i \in Nat
  PROVE  ContainsFrom(m, k, i) <=> HasBit(m.chunks, i)
<1>1. CASE m.chunks = << >>  BY <1>1 DEF ContainsFrom, HasBit
<1>2. CASE m.chunks # << >>
  <2> DEFINE s == m.chunks
             from == ResumeAt(m, k, i)
  <2>1. from \in 1 .. Len(s) /\ (from = 1 \/ s[from].start <= i)  BY <1>2, ResumesWell
  <2>2. StreamOK(s, 0, L) /\ s # << >>  BY <1>2 DEF Readable
  <2>3. ContainsFrom(m, k, i) <=> InChunk(s[WalkFrom(s, from, i)], i)
    BY <1>2 DEF ContainsFrom
  <2> HIDE DEF s, from
  <2>4. WalkFrom(s, from, i) = Locate(s, i)  BY <2>1, <2>2, WalkIsLocate
  <2>5. InChunk(s[Locate(s, i)], i) <=> HasBit(s, i)  BY <2>2, InLocated
  <2> QED  BY <2>3, <2>4, <2>5 DEF s
<1> QED  BY <1>1, <1>2

\* The least of some numbers is one of them.
LEMMA MinIsLeast ==
  ASSUME NEW T \in SUBSET Nat, T # {}
  PROVE  Min(T) \in T /\ \A y \in T : Min(T) <= y
<1>1. \E x \in T : \A y \in T : x <= y  BY LeastElement
<1> QED  BY <1>1 DEF Min

\* The hint of such a cursor is a chunk's offset or none.
LEMMA HintIsBoundary ==
  ASSUME NEW s, NEW k, NEW a, CursorOK(s, k, a)
  PROVE  k.prev \in Boundaries(s) \cup {NoOffset}
<1>1. CASE k = NoCursor  BY <1>1 DEF NoCursor
<1>2. CASE \E j \in 1 .. Len(s) : Seated(s, k, a, j)  BY <1>2 DEF Seated
<1> QED  BY <1>1, <1>2 DEF CursorOK

\* A cursor put on chunk j is on chunk j.
LEMMA SeatedThere ==
  ASSUME NEW s, NEW j \in 1 .. Len(s), NEW prev \in Boundaries(s) \cup {NoOffset},
         NEW a \in Int, j = 1 \/ s[j].start <= a
  PROVE  CursorOK(s, SeatedAt(s, j, prev), a)
<1>1. Seated(s, SeatedAt(s, j, prev), a, j)  BY DEF Seated, SeatedAt
<1> QED  BY <1>1 DEF CursorOK

\* A cursor on an empty map has never been on a chunk.
LEMMA NoChunkNoCursor ==
  ASSUME NEW k, NEW a, CursorOK(<< >>, k, a), NEW b \in Int
  PROVE  CursorOK(<< >>, k, b)
<1>1. Len(<< >>) = 0  BY EmptySeq
<1>2. k = NoCursor  BY <1>1 DEF CursorOK
<1> QED  BY <1>2 DEF CursorOK

\* A lookup leaves the cursor on a chunk that begins at or before its index,
\* unless it is the first.
LEMMA LookUpSeats ==
  ASSUME NEW m, NEW L, Readable(m, L), NEW k, NEW a, CursorOK(m.chunks, k, a),
         NEW i \in Nat
  PROVE  CursorOK(m.chunks, AfterLookup(m, k, i), i)
<1>1. CASE m.chunks = << >>
  <2>1. AfterLookup(m, k, i) = k  BY <1>1 DEF AfterLookup
  <2> QED  BY <1>1, <2>1, NoChunkNoCursor
<1>2. CASE m.chunks # << >>
  <2> DEFINE s == m.chunks
             from == ResumeAt(m, k, i)
             l == WalkFrom(s, from, i)
             hint == IF Resumes(m, k, i) THEN k.prev ELSE NoOffset
             at == IF i < s[l].start /\ l > from THEN l - 1 ELSE l
             prev == KnownBefore(s, from, at, hint)
  <2>1. from \in 1 .. Len(s) /\ (from = 1 \/ s[from].start <= i)  BY <1>2, ResumesWell
  <2>2. StreamOK(s, 0, L) /\ s # << >>  BY <1>2 DEF Readable
  <2>3. AfterLookup(m, k, i) = SeatedAt(s, at, prev)
    BY <1>2 DEF AfterLookup, AfterWalk
  <2>4. hint \in Boundaries(s) \cup {NoOffset}  BY HintIsBoundary
  <2> HIDE DEF s, hint
  <2>5. s \in Seq(Chunks) /\ Len(s) \in Nat /\ DOMAIN s = 1 .. Len(s)
    BY <2>2, LenProperties DEF StreamOK
  <2> HIDE DEF from
  <2>6. /\ l = Locate(s, i) /\ from <= l /\ l \in 1 .. Len(s)
    BY <2>1, <2>2, WalkIsLocate
  <2>7. \A x \in 1 .. l - 1 : EndOf(s[x]) <= i  BY <2>2, <2>6, LocateProperties
  <2>8. \A x \in 1 .. Len(s) : s[x].start \in Nat /\ EndOf(s[x]) \in Nat
                              /\ s[x].start <= EndOf(s[x])
    <3> SUFFICES ASSUME NEW x \in 1 .. Len(s)
                 PROVE  s[x].start \in Nat /\ EndOf(s[x]) \in Nat /\ s[x].start <= EndOf(s[x])
      OBVIOUS
    <3>1. ChunkOK(s[x])  BY <2>2 DEF StreamOK
    <3> QED  BY <3>1, ChunkExtent, ChunkCapPositive
  <2> HIDE DEF l
  <2>9. at \in from .. Len(s) /\ at \in 1 .. Len(s)  BY <2>1, <2>5, <2>6
  <2>10. at = 1 \/ s[at].start <= i
    <3>1. CASE i < s[l].start /\ l > from
      <4>1. at = l - 1 /\ at \in 1 .. l - 1  BY <2>1, <2>5, <2>6, <3>1
      <4>2. EndOf(s[at]) <= i  BY <2>7, <4>1
      <4> HIDE DEF at
      <4> QED  BY <2>8, <2>9, <4>2
    <3>2. CASE ~(i < s[l].start) /\ l > from
      <4>1. at = l  BY <3>2
      <4> HIDE DEF at
      <4> QED  BY <2>6, <2>8, <3>2, <4>1
    <3>3. CASE ~(l > from)
      <4>1. at = from  BY <2>1, <2>5, <2>6, <3>3
      <4> HIDE DEF at
      <4> QED  BY <2>1, <4>1
    <3> QED  BY <3>1, <3>2, <3>3
  <2> HIDE DEF at
  <2>11. prev \in Boundaries(s) \cup {NoOffset}
    <3>1. CASE at > from
      <4>1. at - 1 \in DOMAIN s  BY <2>1, <2>5, <2>9, <3>1
      <4>2. prev = OffsetOf(s, at - 1)  BY <3>1 DEF KnownBefore
      <4> QED  BY <4>1, <4>2 DEF Boundaries
    <3>2. CASE ~(at > from)
      <4>1. prev = hint  BY <3>2 DEF KnownBefore
      <4> QED  BY <2>4, <4>1
    <3> QED  BY <3>1, <3>2
  <2> HIDE DEF prev
  <2>12. CursorOK(s, SeatedAt(s, at, prev), i)  BY <2>9, <2>10, <2>11, SeatedThere
  <2> QED  BY <2>3, <2>12 DEF s
<1> QED  BY <1>1, <1>2

\* sm_next_member leaves the cursor as it was, or on the chunk of the member it
\* found.
LEMMA NextSeats ==
  ASSUME NEW m, NEW L, Readable(m, L), NEW k, NEW a, CursorOK(m.chunks, k, a),
         NEW after \in Nat \cup {NoIndex}, NEW r, r = NextMember(m, k, after)
  PROVE  CursorOK(m.chunks, r.cur, IF r.index = NoIndex THEN a ELSE r.index)
<1> DEFINE s == m.chunks
           from == IF after = NoIndex THEN 1 ELSE ResumeAt(m, k, after)
           hits == {j \in from .. Len(s) : NextInChunk(s[j], after) # {}}
           j == Min(hits)
           found == NextInChunk(s[j], after)
<1>1. CASE s = << >>
  <2>1. r = Answer(NoIndex, k)  BY <1>1 DEF NextMember
  <2>2. r.index = NoIndex /\ r.cur = k  BY <2>1 DEF Answer
  <2> QED  BY <2>2
<1>2. CASE s # << >> /\ hits = {}
  <2>1. r = Answer(NoIndex, k)  BY <1>2 DEF NextMember, NextFrom
  <2>2. r.index = NoIndex /\ r.cur = k  BY <2>1 DEF Answer
  <2> QED  BY <2>2
<1>3. CASE s # << >> /\ hits # {}
  <2>1. r = Answer(Min(found), SeatedAt(s, j, k.prev))
    BY <1>3 DEF NextMember, NextFrom
  <2>2. r.index = Min(found) /\ r.cur = SeatedAt(s, j, k.prev)  BY <2>1 DEF Answer
  <2>3. s \in Seq(Chunks) /\ Len(s) \in Nat /\ StreamOK(s, 0, L)
    BY LenProperties DEF Readable, StreamOK
  <2>4. from \in 1 .. Len(s)
    <3>1. CASE after = NoIndex
      <4>1. Len(s) # 0
        <5> HIDE DEF s
        <5> QED  BY <1>3, <2>3, EmptySeq
      <4> QED  BY <2>3, <3>1, <4>1
    <3>2. CASE after # NoIndex
      <4>1. after \in Nat  BY <3>2
      <4>2. ResumeAt(m, k, after) \in 1 .. Len(s)  BY <1>3, <4>1, ResumesWell
      <4> QED  BY <3>2, <4>2
    <3> QED  BY <3>1, <3>2
  <2>5. k.prev \in Boundaries(s) \cup {NoOffset}  BY HintIsBoundary
  <2> HIDE DEF s, from
  <2>6. hits \in SUBSET Nat /\ hits \subseteq 1 .. Len(s)  BY <2>3, <2>4
  <2>7. j \in hits
    <3> HIDE DEF hits
    <3> QED  BY <1>3, <2>6, MinIsLeast
  <2>8. j \in 1 .. Len(s) /\ found # {}  BY <2>6, <2>7
  <2> HIDE DEF hits, j
  <2>9. s[j].start \in Nat  BY <2>3, <2>8, ChunkExtent DEF StreamOK
  <2>10. \A x \in found : x \in Int /\ s[j].start <= x /\ x \in Nat
    <3>1. found \subseteq ChunkMembers(s[j])  BY DEF NextInChunk
    <3>2. ChunkMembers(s[j]) \subseteq s[j].start .. s[j].start + Capacity(s[j]) - 1
      BY DEF ChunkMembers
    <3>3. \A x \in s[j].start .. s[j].start + Capacity(s[j]) - 1 :
            x \in Int /\ s[j].start <= x /\ x \in Nat
      BY <2>9
    <3> QED  BY <3>1, <3>2, <3>3
  <2> HIDE DEF found
  <2>11. Min(found) \in found
    <3>1. found \in SUBSET Nat  BY <2>10
    <3> QED  BY <2>8, <3>1, MinIsLeast
  <2>12. Min(found) \in Nat /\ s[j].start <= Min(found)  BY <2>10, <2>11
  <2>13. CursorOK(s, SeatedAt(s, j, k.prev), Min(found))
    BY <2>5, <2>8, <2>12, SeatedThere
  <2>14. Min(found) # NoIndex  BY <2>12 DEF NoIndex
  <2> QED  BY <2>2, <2>13, <2>14 DEF s
<1> QED  BY <1>1, <1>2, <1>3

\* AscendingResumes holds of such a cursor.
LEMMA CursorResumes ==
  ASSUME NEW m, NEW L, Readable(m, L), NEW k, NEW a, CursorOK(m.chunks, k, a),
         k # NoCursor
  PROVE  k.offset = 0 \/ Resumes(m, k, a)
<1> DEFINE s == m.chunks
<1>1. PICK j \in 1 .. Len(s) : Seated(s, k, a, j)  BY DEF CursorOK
<1>2. s \in Seq(Chunks)  BY DEF Readable, StreamOK
<1>3. a \in Int /\ k.offset = OffsetOf(s, j) /\ k.start = s[j].start
      /\ (j = 1 \/ s[j].start <= a)
  BY <1>1 DEF Seated, CursorOK
<1>4. m.used \in Int /\ m.used - HeaderWords = StreamWords(s)  BY DEF Readable
<1>5. s[j].start \in Nat  BY ChunkExtent DEF Readable, StreamOK
<1> HIDE DEF s
<1>6. CASE j = 1
  <2>1. OffsetOf(s, 1) = 0  BY <1>2, OffsetsAtTheEnds
  <2> QED  BY <1>3, <1>6, <2>1
<1>7. CASE s[j].start <= a
  <2>1. /\ WordAt(s, OffsetOf(s, j)) = s[j].start
        /\ OffsetOf(s, j) \in Nat /\ OffsetOf(s, j) + 2 <= StreamWords(s)
    BY <1>2, OffsetLeadsBack
  <2>2. k.offset # NoOffset  BY <1>3, <2>1 DEF NoOffset
  <2>3. k.offset + 1 <= m.used - HeaderWords
    <3>1. StreamWords(s) \in Int  BY <1>4 DEF HeaderWords
    <3> QED  BY <1>3, <1>4, <2>1, <3>1
  <2>4. a >= k.start  BY <1>3, <1>5, <1>7
  <2>5. WordAt(s, k.offset) = k.start  BY <1>3, <2>1
  <2> QED  BY <2>2, <2>3, <2>4, <2>5 DEF Resumes, s
<1> QED  BY <1>3, <1>6, <1>7

----------------------------------------------------------------------------
(* The chunk cache.                                                        *)

\* What the cache remembers of chunk j.
EntryOf(s, j) ==
  [start |-> s[j].start, end |-> s[j].start + Capacity(s[j]), offset |-> OffsetOf(s, j)]

\* Each valid way of the cache h remembers a chunk of s as it is.
CacheOK(s, h) ==
  /\ h.way = [w \in Way |-> h.way[w]] /\ h.mru \in Way /\ h.valid \subseteq Way
  /\ \A w \in h.valid : \E j \in 1 .. Len(s) : h.way[w] = EntryOf(s, j)

\* An empty cache does.
LEMMA EmptyCacheOK == ASSUME NEW s  PROVE CacheOK(s, EmptyCache)
<1>1. 0 \in Way  BY WaysAssumption DEF Way
<1>2. /\ EmptyCache.way = [w \in Way |-> NoEntry] /\ EmptyCache.mru = 0
      /\ EmptyCache.valid = {}
  BY DEF EmptyCache
<1>3. EmptyCache.way = [w \in Way |-> EmptyCache.way[w]]  BY <1>2
<1> QED  BY <1>1, <1>2, <1>3 DEF CacheOK

\* A hit is on the chunk the walk from the head ends at.
LEMMA HitIsLocated ==
  ASSUME NEW m, NEW L, Readable(m, L), NEW h, CacheOK(m.chunks, h), NEW i \in Nat,
         NEW w \in Hits(h, i)
  PROVE  /\ m.chunks # << >>
         /\ ChunkAt(m.chunks, h.way[w].offset) = Locate(m.chunks, i)
         /\ h.way[w].start = m.chunks[Locate(m.chunks, i)].start
         /\ CoveredBy(m.chunks[Locate(m.chunks, i)], i)
<1> DEFINE s == m.chunks
<1>1. StreamOK(s, 0, L) /\ s \in Seq(Chunks)  BY DEF Readable, StreamOK
<1>2. w \in h.valid /\ h.way[w].start <= i /\ i < h.way[w].end  BY DEF Hits
<1>3. PICK j \in 1 .. Len(s) : h.way[w] = EntryOf(s, j)  BY <1>2 DEF CacheOK
<1> HIDE DEF s
<1>4. /\ h.way[w].start = s[j].start /\ h.way[w].end = s[j].start + Capacity(s[j])
      /\ h.way[w].offset = OffsetOf(s, j)
  BY <1>3 DEF EntryOf
<1>5. s[j].start <= i /\ i < EndOf(s[j]) /\ EndOf(s[j]) = s[j].start + Capacity(s[j])
  BY <1>2, <1>4 DEF EndOf
<1>6. s # << >> /\ Locate(s, i) = j  BY <1>1, <1>5, CoveringIsLocated
<1>7. ChunkAt(s, OffsetOf(s, j)) = j  BY <1>1, OffsetLeadsBack
<1>8. CoveredBy(s[j], i)
  <2>1. ChunkOK(s[j])  BY <1>1 DEF StreamOK
  <2>2. s[j].start \in Nat /\ EndOf(s[j]) \in Nat  BY <2>1, ChunkExtent
  <2>3. Capacity(s[j]) \in Nat  BY <2>1, RunLengthBounds DEF ChunkOK
  <2>4. i - s[j].start < Capacity(s[j])  BY <1>5, <2>2, <2>3
  <2> QED  BY <1>5, <2>4 DEF CoveredBy
<1> QED  BY <1>4, <1>6, <1>7, <1>8 DEF s

\* CachedLookupsAgree holds of such a cache.
LEMMA CacheAgrees ==
  ASSUME NEW m, NEW L, Readable(m, L), NEW h, CacheOK(m.chunks, h), NEW i \in Nat
  PROVE  CachedContains(m, h, i) <=> HasBit(m.chunks, i)
<1>1. CASE Hits(h, i) = {}  BY <1>1 DEF CachedContains
<1>2. CASE Hits(h, i) # {}
  <2> DEFINE s == m.chunks
             w == Min(Hits(h, i))
             l == Locate(s, i)
  <2>1. w \in Hits(h, i)
    <3>1. Hits(h, i) \subseteq Way  BY DEF Hits, CacheOK
    <3>2. Way \subseteq Nat  BY WaysAssumption DEF Way
    <3>3. Hits(h, i) \in SUBSET Nat  BY <3>1, <3>2
    <3> QED  BY <1>2, <3>3, MinIsLeast
  <2>2. CachedContains(m, h, i) <=>
          IsSet(s[ChunkAt(s, h.way[w].offset)], i - h.way[w].start)
    BY <1>2 DEF CachedContains, HitAnswer
  <2> HIDE DEF w
  <2>3. /\ s # << >> /\ ChunkAt(s, h.way[w].offset) = l
        /\ h.way[w].start = s[l].start /\ CoveredBy(s[l], i)
    BY <2>1, HitIsLocated
  <2>4. HasBit(s, i) <=> InChunk(s[l], i)  BY <2>3, InLocated
  <2> HIDE DEF s, l
  <2>5. InChunk(s[l], i) <=> IsSet(s[l], i - s[l].start)  BY <2>3 DEF InChunk
  <2>6. CachedContains(m, h, i) <=> IsSet(s[l], i - s[l].start)  BY <2>2, <2>3
  <2> QED  BY <2>4, <2>5, <2>6 DEF s
<1> QED  BY <1>1, <1>2

\* A lookup leaves it such a cache.
LEMMA CachedKeeps ==
  ASSUME NEW m, NEW L, Readable(m, L), NEW h, CacheOK(m.chunks, h), NEW i \in Nat
  PROVE  CacheOK(m.chunks, AfterCached(m, h, i))
<1> DEFINE s == m.chunks
           l == Locate(s, i)
           e == EntryOf(s, l)
           g == AfterCached(m, h, i)
<1>1. CASE Hits(h, i) # {} \/ s = << >>  BY <1>1 DEF AfterCached
<1>2. CASE ~(Hits(h, i) # {} \/ s = << >>)
  <2>1. l \in 1 .. Len(s)
    <3>1. StreamOK(s, 0, L) /\ s # << >> /\ i \in Int  BY <1>2 DEF Readable
    <3> QED  BY <3>1, LocateProperties
  <2>2. /\ g.way = [h.way EXCEPT ![h.mru] = e]
        /\ g.mru = (h.mru + 1) % Ways /\ g.valid = h.valid \cup {h.mru}
    BY <1>2 DEF AfterCached, AfterMiss, Inserted, EntryOf
  <2> HIDE DEF g, e
  <2>3. h.mru \in Way /\ h.valid \subseteq Way /\ h.way = [w \in Way |-> h.way[w]]
    BY DEF CacheOK
  <2>4. g.mru \in Way
    <3>1. Ways \in Nat \ {0} /\ h.mru \in Nat  BY <2>3, WaysAssumption DEF Way
    <3>2. (h.mru + 1) % Ways \in 0 .. Ways - 1  BY <3>1
    <3> QED  BY <2>2, <3>2 DEF Way
  <2>5. g.way = [w \in Way |-> g.way[w]]  BY <2>2, <2>3
  <2>6. \A w \in g.valid : g.way[w] = IF w = h.mru THEN e ELSE h.way[w]
    BY <2>2, <2>3
  <2>7. \A w \in g.valid : \E j \in 1 .. Len(s) : g.way[w] = EntryOf(s, j)
    <3> SUFFICES ASSUME NEW w \in g.valid
                 PROVE  \E j \in 1 .. Len(s) : g.way[w] = EntryOf(s, j)
      OBVIOUS
    <3>1. CASE w = h.mru  BY <2>1, <2>6, <3>1 DEF e
    <3>2. CASE w # h.mru
      <4>1. w \in h.valid /\ g.way[w] = h.way[w]  BY <2>2, <2>6, <3>2
      <4> QED  BY <4>1 DEF CacheOK
    <3> QED  BY <3>1, <3>2
  <2>8. g.valid \subseteq Way  BY <2>2, <2>3
  <2> HIDE DEF s
  <2>9. CacheOK(s, g)  BY <2>4, <2>5, <2>7, <2>8 DEF CacheOK
  <2> QED  BY <2>9 DEF s, g
<1> QED  BY <1>1, <1>2

----------------------------------------------------------------------------
(* The locator.                                                            *)

\* The stride is the number of chunks' root.
LEMMA RootIsRoot ==
  ASSUME NEW n \in Nat \ {0}
  PROVE  RootOf(n) \in 1 .. n
<1> DEFINE T == {r \in Nat : n < (r + 1) * (r + 1)}
<1>1. n \in T
  <2>1. (n + 1) * (n + 1) = n * n + n + n + 1 /\ n * n \in Nat  OBVIOUS
  <2> QED  BY <2>1
<1>2. T \in SUBSET Nat  OBVIOUS
<1> HIDE DEF T
<1>3. PICK r \in T : \A y \in T : r <= y  BY <1>1, <1>2, LeastElement
<1>4. r \in Nat /\ r <= n /\ n < (r + 1) * (r + 1)  BY <1>1, <1>3 DEF T
<1>5. r * r <= n
  <2>1. CASE r = 0  BY <2>1
  <2>2. CASE r # 0
    <3>1. r - 1 \in Nat /\ r - 1 \notin T  BY <1>3, <1>4, <2>2
    <3>2. ~(n < ((r - 1) + 1) * ((r - 1) + 1))  BY <3>1 DEF T
    <3>3. (r - 1) + 1 = r  BY <1>4
    <3>4. ~(n < r * r)  BY <3>2, <3>3
    <3>5. r * r \in Nat  BY <1>4
    <3> QED  BY <3>4, <3>5
  <2> QED  BY <2>1, <2>2
<1>6. r \in 0 .. n  BY <1>4
<1>7. \E x \in 0 .. n : x * x <= n /\ n < (x + 1) * (x + 1)  BY <1>4, <1>5, <1>6
<1>8. /\ RootOf(n) \in 0 .. n /\ n < (RootOf(n) + 1) * (RootOf(n) + 1)
  BY <1>7 DEF RootOf
<1>9. RootOf(n) # 0
  <2> SUFFICES ASSUME RootOf(n) = 0  PROVE FALSE  OBVIOUS
  <2>1. n < (0 + 1) * (0 + 1)  BY <1>8
  <2> QED  BY <2>1
<1> QED  BY <1>8, <1>9

Stride(s) == RootOf(Len(s))
Blocks(s) == (Len(s) + Stride(s) - 1) \div Stride(s)
FirstOf(s, b) == (b - 1) * Stride(s) + 1

\* Each superblock samples a chunk, the first one the first, in their order.
LEMMA BlocksSample ==
  ASSUME NEW s \in Seq(Chunks), s # << >>
  PROVE  /\ Blocks(s) \in Nat \ {0} /\ FirstOf(s, 1) = 1
         /\ \A b \in 1 .. Blocks(s) : FirstOf(s, b) \in 1 .. Len(s)
         /\ \A b, c \in 1 .. Blocks(s) : b < c => FirstOf(s, b) < FirstOf(s, c)
         /\ DOMAIN Build(s).sb = 1 .. Blocks(s)
         /\ \A b \in 1 .. Blocks(s) : Build(s).sb[b] = Sample(s, FirstOf(s, b))
<1> DEFINE n == Len(s)
           d == Stride(s)
           q == Blocks(s)
<1>1. n \in Nat \ {0}  BY LenProperties, EmptySeq
<1>2. d \in 1 .. n  BY <1>1, RootIsRoot DEF Stride
<1>3. q = (n + d - 1) \div d  BY DEF Blocks
<1>4. /\ DOMAIN Build(s).sb = 1 .. q
      /\ \A b \in 1 .. q : Build(s).sb[b] = Sample(s, FirstOf(s, b))
  BY DEF Build, Directory, Blocks, FirstOf, Stride
<1>5. \A b : FirstOf(s, b) = (b - 1) * d + 1  BY DEF FirstOf
<1> HIDE DEF n, d, q
<1>6. q \in Nat /\ q * d <= n + d - 1 /\ n <= q * d
  <2> DEFINE a == n + d - 1
  <2>1. a \in Nat /\ d \in Nat \ {0}  BY <1>1, <1>2
  <2> HIDE DEF a
  <2>2. /\ a \div d \in Nat /\ a % d \in 0 .. d - 1 /\ a = d * (a \div d) + (a % d)
    BY <2>1
  <2>3. q = a \div d  BY <1>3 DEF a
  <2>4. q \in Nat /\ d * q <= a /\ a <= d * q + d - 1
    <3>1. d * q \in Nat  BY <2>1, <2>2, <2>3
    <3>2. a = d * q + (a % d)  BY <2>2, <2>3
    <3> HIDE DEF q
    <3> QED  BY <2>1, <2>2, <2>3, <3>1, <3>2
  <2>5. d * q = q * d /\ d * q \in Nat  BY <2>1, <2>4
  <2> QED  BY <1>1, <1>2, <2>4, <2>5 DEF a
<1>7. q # 0
  <2> SUFFICES ASSUME q = 0  PROVE FALSE  OBVIOUS
  <2>1. n <= 0 * d  BY <1>6
  <2>2. 0 * d = 0  BY <1>2
  <2> QED  BY <1>1, <2>1, <2>2
<1>8. ASSUME NEW b \in 1 .. q  PROVE FirstOf(s, b) \in 1 .. n
  <2>1. (q - b) \in Nat /\ d \in Nat /\ b \in Nat /\ b - 1 \in Nat  BY <1>2, <1>6
  <2>2. (q - b) * d \in Nat /\ (b - 1) * d \in Nat  BY <2>1
  <2>3. (q - b) * d + (b - 1) * d + d = q * d  BY <1>6, <2>1
  <2>4. (b - 1) * d + 1 \in 1 .. n
    <3> DEFINE x == (q - b) * d
               y == (b - 1) * d
               z == q * d
    <3>1. x \in Nat /\ y \in Nat /\ x + y + d = z /\ z <= n + d - 1
      BY <1>6, <2>2, <2>3
    <3> HIDE DEF x, y, z
    <3>2. y + 1 \in 1 .. n  BY <1>1, <1>2, <3>1
    <3> QED  BY <3>2 DEF y
  <2> QED  BY <1>5, <2>4
<1>9. ASSUME NEW b \in 1 .. q, NEW c \in 1 .. q, b < c
      PROVE  FirstOf(s, b) < FirstOf(s, c)
  <2>1. c - b \in Nat /\ c - b >= 1 /\ d \in Nat /\ d >= 1 /\ b - 1 \in Nat
    BY <1>2, <1>6, <1>9
  <2>2. (c - b) * d >= 1 /\ (c - b) * d \in Nat /\ (b - 1) * d \in Nat  BY <2>1
  <2>3. (c - 1) * d = (b - 1) * d + (c - b) * d  BY <2>1
  <2>4. (b - 1) * d + 1 < (c - 1) * d + 1
    <3> DEFINE x == (c - b) * d
               y == (b - 1) * d
               z == (c - 1) * d
    <3>1. x \in Nat /\ x >= 1 /\ y \in Nat /\ z = y + x  BY <2>2, <2>3
    <3> HIDE DEF x, y, z
    <3>2. y + 1 < z + 1  BY <3>1
    <3> QED  BY <3>2 DEF y, z
  <2> QED  BY <1>5, <2>4
<1>10. FirstOf(s, 1) = 1
  <2>1. (1 - 1) * d = 0  BY <1>2
  <2> QED  BY <1>5, <2>1
<1> QED  BY <1>4, <1>6, <1>7, <1>8, <1>9, <1>10 DEF n, q

\* A set of the first of n numbers is counted by its last.
LEMMA DownSet ==
  ASSUME NEW n \in Nat, NEW T \in SUBSET (1 .. n),
         \A x \in T : \A y \in 1 .. n : y < x => y \in T
  PROVE  T = 1 .. Cardinality(T) /\ Cardinality(T) \in 0 .. n
<1> DEFINE U == {y \in 1 .. n + 1 : y \notin T}
<1>1. U \in SUBSET Nat /\ n + 1 \in U  OBVIOUS
<1>2. PICK u \in U : \A y \in U : u <= y  BY <1>1, LeastElement
<1>3. u \in 1 .. n + 1 /\ u \notin T  BY <1>2
<1>4. \A y \in 1 .. n : y \in T <=> y <= u - 1
  <2> SUFFICES ASSUME NEW y \in 1 .. n  PROVE y \in T <=> y <= u - 1
    OBVIOUS
  <2>1. ASSUME y <= u - 1  PROVE y \in T
    <3>1. ~(u <= y) /\ y \in 1 .. n + 1  BY <1>3, <2>1
    <3> QED  BY <1>2, <3>1
  <2>2. ASSUME y \in T, ~(y <= u - 1)  PROVE FALSE
    <3>1. y # u  BY <1>3, <2>2
    <3>2. u < y /\ u \in 1 .. n  BY <1>3, <2>2, <3>1
    <3> QED  BY <1>3, <2>2, <3>2
  <2> QED  BY <2>1, <2>2
<1>5. T = 1 .. u - 1
  <2>1. \A y \in T : y \in 1 .. u - 1
    <3> SUFFICES ASSUME NEW y \in T  PROVE y \in 1 .. u - 1  OBVIOUS
    <3>1. y \in 1 .. n  OBVIOUS
    <3>2. y <= u - 1  BY <1>4, <3>1
    <3> QED  BY <1>3, <3>1, <3>2
  <2>2. \A y \in 1 .. u - 1 : y \in T
    <3> SUFFICES ASSUME NEW y \in 1 .. u - 1  PROVE y \in T  OBVIOUS
    <3>1. y \in 1 .. n /\ y <= u - 1  BY <1>3
    <3> QED  BY <1>4, <3>1
  <2> QED  BY <2>1, <2>2
<1>6. Cardinality(1 .. u - 1) = u - 1
  <2> DEFINE a == 1
             b == u - 1
  <2>1. a \in Int /\ b \in Int /\ (a > b => b = 0) /\ b - a + 1 = u - 1  BY <1>3
  <2>2. Cardinality(a .. b) = IF a > b THEN 0 ELSE b - a + 1
    <3> HIDE DEF a, b
    <3> QED  BY <2>1, FS_Interval
  <2>3. Cardinality(a .. b) = u - 1  BY <1>3, <2>1, <2>2
  <2> QED  BY <2>3
<1> QED  BY <1>3, <1>5, <1>6

\* The superblock a query begins at begins at or before its index, unless it
\* is the first: by where it begins, and by the members before it.
LEMMA SuperblockBegins ==
  ASSUME NEW s, NEW hi, StreamOK(s, 0, hi), s # << >>, NEW i \in Nat,
         NEW b, b = Superblock(Build(s), i)
  PROVE  /\ b \in 1 .. Blocks(s) /\ FirstOf(s, b) \in 1 .. Len(s)
         /\ FirstOf(s, b) = 1 \/ s[FirstOf(s, b)].start <= i
         /\ Build(s).sb[b] = Sample(s, FirstOf(s, b))
<1> DEFINE q == Blocks(s)
           sb == Build(s).sb
           T == {x \in 1 .. q : sb[x].start <= i}
<1>1. s \in Seq(Chunks) /\ Len(s) \in Nat  BY LenProperties DEF StreamOK
<1>2. /\ q \in Nat \ {0} /\ FirstOf(s, 1) = 1
      /\ \A x \in 1 .. q : FirstOf(s, x) \in 1 .. Len(s)
      /\ \A x, y \in 1 .. q : x < y => FirstOf(s, x) < FirstOf(s, y)
      /\ DOMAIN sb = 1 .. q
      /\ \A x \in 1 .. q : sb[x] = Sample(s, FirstOf(s, x))
  BY <1>1, BlocksSample
<1>3. b = Greater(1, Cardinality(T))  BY <1>2 DEF Superblock
<1> HIDE DEF q, sb
<1>4. \A x \in 1 .. q : sb[x].start = s[FirstOf(s, x)].start  BY <1>2 DEF Sample
<1>5. \A x \in 1 .. Len(s) : s[x].start \in Nat /\ EndOf(s[x]) \in Nat
                            /\ s[x].start <= EndOf(s[x])
  <2> SUFFICES ASSUME NEW x \in 1 .. Len(s)
               PROVE  s[x].start \in Nat /\ EndOf(s[x]) \in Nat /\ s[x].start <= EndOf(s[x])
    OBVIOUS
  <2>1. ChunkOK(s[x])  BY DEF StreamOK
  <2> QED  BY <2>1, ChunkExtent, ChunkCapPositive
<1>6. ASSUME NEW x \in T, NEW y \in 1 .. q, y < x  PROVE y \in T
  <2>1. x \in 1 .. q /\ s[FirstOf(s, x)].start <= i  BY <1>4
  <2>2. FirstOf(s, y) < FirstOf(s, x)  BY <1>2, <1>6, <2>1
  <2>3. FirstOf(s, x) \in 1 .. Len(s) /\ FirstOf(s, y) \in 1 .. Len(s)  BY <1>2, <2>1
  <2>4. EndOf(s[FirstOf(s, y)]) <= s[FirstOf(s, x)].start  BY <2>2, <2>3 DEF StreamOK
  <2>5. s[FirstOf(s, y)].start <= i
    <3> DEFINE p == FirstOf(s, x)
               o == FirstOf(s, y)
    <3>1. p \in 1 .. Len(s) /\ o \in 1 .. Len(s) /\ EndOf(s[o]) <= s[p].start
          /\ s[p].start <= i
      BY <2>1, <2>3, <2>4
    <3> HIDE DEF p, o
    <3>2. s[o].start <= i  BY <1>5, <3>1
    <3> QED  BY <3>2 DEF o
  <2> QED  BY <1>4, <2>5
<1>7. T \in SUBSET (1 .. q) /\ q \in Nat  BY <1>2
<1>8. \A x \in T : sb[x].start <= i  OBVIOUS
<1> HIDE DEF T
<1>9. T = 1 .. Cardinality(T) /\ Cardinality(T) \in 0 .. q
  BY <1>6, <1>7, DownSet
<1>10. b \in 1 .. q /\ (b = 1 \/ b \in T)
  <2>1. CASE Cardinality(T) = 0  BY <1>2, <1>3, <2>1 DEF Greater
  <2>2. CASE Cardinality(T) # 0
    <3>1. Cardinality(T) \in 1 .. q  BY <1>2, <1>9, <2>2
    <3>2. b = Cardinality(T)  BY <1>3, <3>1 DEF Greater
    <3>3. Cardinality(T) \in 1 .. Cardinality(T)  BY <3>1
    <3> QED  BY <1>9, <3>1, <3>2, <3>3
  <2> QED  BY <2>1, <2>2
<1>11. FirstOf(s, b) = 1 \/ s[FirstOf(s, b)].start <= i
  BY <1>2, <1>4, <1>8, <1>10
<1> QED  BY <1>2, <1>10, <1>11 DEF q, sb

\* The locator a client holds was built of the map as it is.
LocatorOK(s, d) == d = NoLocator \/ (s # << >> /\ d = Build(s))

\* NeverStale holds of such a locator.
LEMMA BuiltIsFresh ==
  ASSUME NEW m, NEW L, Readable(m, L), m.chunks # << >>
  PROVE  ~IsStale(m, Build(m.chunks))
<1> DEFINE s == m.chunks
           n == Len(s)
           d == Build(s)
<1>1. s \in Seq(Chunks) /\ n \in Nat \ {0}
  BY LenProperties, EmptySeq DEF Readable, StreamOK
<1>2. m.used \in Int /\ m.used - HeaderWords = StreamWords(s)  BY DEF Readable
<1>3. /\ d.count = n /\ d.first = s[1].start /\ d.last = s[n].start
      /\ d.lastOffset = OffsetOf(s, n)
  BY DEF Build
<1> HIDE DEF s, d
<1>4. n \in 1 .. Len(s)  BY <1>1
<1> HIDE DEF n
<1>5. /\ WordAt(s, OffsetOf(s, n)) = s[n].start
      /\ OffsetOf(s, n) \in Nat /\ OffsetOf(s, n) + 2 <= StreamWords(s)
  BY <1>1, <1>4, OffsetLeadsBack
<1>6. ~(d.lastOffset + 1 > m.used - HeaderWords)
  <2>1. StreamWords(s) \in Int  BY <1>2 DEF HeaderWords
  <2> QED  BY <1>2, <1>3, <1>5, <2>1
<1>7. n = Len(s)  BY DEF n
<1>8. ~IsStale(m, d)  BY <1>3, <1>5, <1>6, <1>7 DEF IsStale, s
<1> QED  BY <1>8 DEF d, s

\* The fine walk begins at the chunk its superblock samples.
LEMMA EntryIsSampled ==
  ASSUME NEW m, NEW L, Readable(m, L), m.chunks # << >>, NEW i \in Nat,
         NEW b, b = Superblock(Build(m.chunks), i)
  PROVE  EntryChunk(m, Build(m.chunks), b) = FirstOf(m.chunks, b)
<1> DEFINE s == m.chunks
           d == Build(s)
           f == FirstOf(s, b)
<1>1. StreamOK(s, 0, L) /\ s # << >> /\ s \in Seq(Chunks)  BY DEF Readable, StreamOK
<1>2. EntryChunk(m, d, b) = ChunkAt(s, d.sb[b].offset)  BY DEF EntryChunk
<1>3. b = Superblock(d, i)  OBVIOUS
<1> HIDE DEF s
<1>4. f \in 1 .. Len(s) /\ d.sb[b] = Sample(s, f)  BY <1>1, <1>3, SuperblockBegins
<1> HIDE DEF d, f
<1>5. d.sb[b].offset = OffsetOf(s, f)  BY <1>4 DEF Sample
<1>6. ChunkAt(s, OffsetOf(s, f)) = f  BY <1>1, <1>4, OffsetLeadsBack
<1>7. EntryChunk(m, d, b) = f  BY <1>2, <1>5, <1>6
<1> QED  BY <1>7 DEF s, d, f

\* ContainsAgrees holds of such a locator.
LEMMA LocatorAgrees ==
  ASSUME NEW m, NEW L, Readable(m, L), m.chunks # << >>, NEW i \in Nat
  PROVE  LocatorContains(m, Build(m.chunks), i) <=> HasBit(m.chunks, i)
<1> DEFINE s == m.chunks
           d == Build(s)
           b == Superblock(d, i)
           f == FirstOf(s, b)
<1>1. StreamOK(s, 0, L) /\ s # << >>  BY DEF Readable
<1>2. EntryChunk(m, d, b) = f  BY EntryIsSampled
<1>3. f \in 1 .. Len(s) /\ (f = 1 \/ s[f].start <= i)
  <2>1. b = Superblock(Build(s), i)  OBVIOUS
  <2> HIDE DEF s, d, b
  <2> QED  BY <1>1, <2>1, SuperblockBegins
<1>4. LocatorContains(m, d, i) <=> InChunk(s[WalkFrom(s, EntryChunk(m, d, b), i)], i)
  BY BuiltIsFresh DEF LocatorContains
<1> HIDE DEF s, d, b, f
<1>5. WalkFrom(s, f, i) = Locate(s, i)  BY <1>1, <1>3, WalkIsLocate
<1>6. InChunk(s[Locate(s, i)], i) <=> HasBit(s, i)  BY <1>1, InLocated
<1>7. LocatorContains(m, d, i) <=> HasBit(s, i)  BY <1>2, <1>4, <1>5, <1>6
<1> QED  BY <1>7 DEF s, d

----------------------------------------------------------------------------
(* The members a reader finds: when the client may use every index below   *)
(* the limit, the members of the map are what its chunks hold.             *)

EveryIndex(L) == Limit(L) /\ Indices = 0 .. L - 1

\* Every index a chunk holds is one a client may use.
LEMMA MembersAreBits ==
  ASSUME NEW L, EveryIndex(L), NEW m, Readable(m, L)
  PROVE  Members(m) = Bits(m.chunks) /\ Bits(m.chunks) \in SUBSET (0 .. L - 1)
<1> DEFINE s == m.chunks
<1>1. StreamOK(s, 0, L) /\ L \in Nat /\ Indices = 0 .. L - 1
  BY DEF Readable, EveryIndex, Limit
<1>2. Members(m) = {x \in Indices : HasBit(s, x)}  BY DEF Members
<1> HIDE DEF s
<1>3. ASSUME NEW x \in Bits(s)  PROVE x \in 0 .. L - 1
  <2>1. PICK j \in 1 .. Len(s) : x \in BitsOf(s[j])  BY DEF Bits
  <2>2. x \in Nat /\ x < EndOf(s[j])  BY <2>1 DEF BitsOf
  <2>3. EndOf(s[j]) \in Nat /\ EndOf(s[j]) <= L  BY <1>1, <2>1, ChunkExtent DEF StreamOK
  <2> QED  BY <1>1, <2>2, <2>3
<1>4. \A x \in 0 .. L - 1 : HasBit(s, x) <=> x \in Bits(s)  BY <1>1, HasBitHolds
<1>5. Members(m) = Bits(s)  BY <1>1, <1>2, <1>3, <1>4
<1> QED  BY <1>3, <1>5 DEF s

\* What a chunk holds, as the readers read it.
LEMMA HeldIsMembers ==
  ASSUME NEW c, ChunkOK(c)
  PROVE  ChunkMembers(c) = BitsOf(c)
<1>1. c.start \in Nat /\ Capacity(c) \in Nat /\ EndOf(c) = c.start + Capacity(c)
  BY ChunkExtent, RunLengthBounds DEF EndOf
<1>2. \A x : x \in c.start .. c.start + Capacity(c) - 1 <=>
             x \in Nat /\ c.start <= x /\ x < EndOf(c)
  BY <1>1
<1> QED  BY <1>2 DEF ChunkMembers, BitsOf

\* What sm_next_member finds in one chunk: what the chunk holds after `after'.
LEMMA NextIsLater ==
  ASSUME NEW c, ChunkOK(c), NEW after \in Nat \cup {NoIndex}
  PROVE  NextInChunk(c, after) = {x \in BitsOf(c) : x > after}
<1>1. c.start \in Nat /\ Capacity(c) \in Nat /\ EndOf(c) = c.start + Capacity(c)
  BY ChunkExtent, RunLengthBounds DEF EndOf
<1>2. CASE ~EndsBefore(c, after)  BY <1>2, HeldIsMembers DEF NextInChunk
<1>3. CASE EndsBefore(c, after)
  <2>1. after \in Nat /\ c.start + Capacity(c) - 1 <= after
    BY <1>3 DEF EndsBefore
  <2>2. \A x \in BitsOf(c) : x \in Nat /\ x < c.start + Capacity(c)  BY <1>1 DEF BitsOf
  <2>3. \A x \in BitsOf(c) : ~(x > after)  BY <1>1, <2>1, <2>2
  <2>4. NextInChunk(c, after) = {}  BY <1>3 DEF NextInChunk
  <2> QED  BY <2>3, <2>4
<1> QED  BY <1>2, <1>3

\* What the chunks of s hold after `after'.
Later(s, after) == {x \in Bits(s) : x > after}
LeastOf(T) == IF T = {} THEN NoIndex ELSE Min(T)

\* NextIsLeast holds of such a cursor.
LEMMA NextAgrees ==
  ASSUME NEW m, NEW L, Readable(m, L), NEW k, NEW a, CursorOK(m.chunks, k, a),
         NEW after \in Nat \cup {NoIndex}, NEW later, later = Later(m.chunks, after)
  PROVE  NextMember(m, k, after).index = LeastOf(later)
<1> DEFINE s == m.chunks
           from == IF after = NoIndex THEN 1 ELSE ResumeAt(m, k, after)
           hits == {j \in from .. Len(s) : NextInChunk(s[j], after) # {}}
           j == Min(hits)
           found == NextInChunk(s[j], after)
           index == NextMember(m, k, after).index
<1>1. StreamOK(s, 0, L) /\ s \in Seq(Chunks) /\ Len(s) \in Nat
  BY LenProperties DEF Readable, StreamOK
<1>2. CASE s = << >>
  <2>1. index = NoIndex  BY <1>2 DEF NextMember, Answer
  <2>2. Len(s) = 0  BY <1>2, EmptySeq
  <2> HIDE DEF s
  <2>3. Bits(s) = {}  BY <2>2 DEF Bits
  <2>4. later = {}  BY <2>3 DEF s, Later
  <2> QED  BY <2>1, <2>4 DEF LeastOf
<1>3. CASE s # << >>
  <2>1. from \in 1 .. Len(s)
        /\ (from = 1 \/ (after \in Nat /\ s[from].start <= after))
    <3>1. CASE after = NoIndex
      <4>1. Len(s) # 0
        <5> HIDE DEF s
        <5> QED  BY <1>1, <1>3, EmptySeq
      <4> QED  BY <1>1, <3>1, <4>1
    <3>2. CASE after # NoIndex
      <4>1. after \in Nat  BY <3>2
      <4>2. /\ ResumeAt(m, k, after) \in 1 .. Len(s)
            /\ ResumeAt(m, k, after) = 1 \/ s[ResumeAt(m, k, after)].start <= after
        BY <1>3, <4>1, ResumesWell
      <4> QED  BY <3>2, <4>1, <4>2
    <3> QED  BY <3>1, <3>2
  <2>2. index = IF hits = {} THEN NoIndex ELSE Min(found)
    BY <1>3 DEF NextMember, NextFrom, Answer
  <2> HIDE DEF index, from
  <2>3. \A p \in 1 .. Len(s) : NextInChunk(s[p], after) = {x \in BitsOf(s[p]) : x > after}
    BY <1>1, NextIsLater DEF StreamOK
  <2>4. \A x : x \in later <=> \E p \in 1 .. Len(s) : x \in BitsOf(s[p]) /\ x > after
    BY DEF Bits, Later
  <2> HIDE DEF s
  <2>5. ASSUME NEW p \in 1 .. Len(s), NEW x \in BitsOf(s[p]), x > after
        PROVE  p \in hits /\ x \in NextInChunk(s[p], after)
    <3>1. x \in NextInChunk(s[p], after)  BY <2>3, <2>5
    <3>2. ~(p < from)
      <4> SUFFICES ASSUME p < from  PROVE FALSE  OBVIOUS
      <4>1. from # 1 /\ after \in Nat /\ s[from].start <= after  BY <1>1, <2>1
      <4>2. x < s[from].start /\ x \in Nat
        BY <1>1, <2>1, <2>5, HeldAscends, HeldWithin
      <4>3. s[from].start \in Nat  BY <1>1, <2>1, ChunkExtent DEF StreamOK
      <4> QED  BY ONLY <2>5, <4>1, <4>2, <4>3
    <3>3. p \in from .. Len(s)  BY <1>1, <2>1, <3>2
    <3> QED  BY <3>1, <3>3
  <2>6. CASE hits = {}
    <3>1. later = {}
      <4> SUFFICES ASSUME NEW x \in later  PROVE FALSE  OBVIOUS
      <4>1. PICK p \in 1 .. Len(s) : x \in BitsOf(s[p]) /\ x > after  BY <2>4
      <4>2. p \in hits  BY <2>5, <4>1
      <4> QED  BY <2>6, <4>2
    <3> QED  BY <2>2, <2>6, <3>1 DEF index, LeastOf
  <2>7. CASE hits # {}
    <3>1. hits \in SUBSET Nat /\ hits \subseteq 1 .. Len(s)  BY <1>1, <2>1
    <3>2. \A p \in hits : NextInChunk(s[p], after) # {}  OBVIOUS
    <3> HIDE DEF hits
    <3>3. j \in hits /\ \A p \in hits : j <= p  BY <2>7, <3>1, MinIsLeast
    <3>4. j \in 1 .. Len(s) /\ found # {} /\ j \in Nat  BY <3>1, <3>2, <3>3
    <3> HIDE DEF j
    <3>5. found = {x \in BitsOf(s[j]) : x > after}  BY <2>3, <3>4
    <3>6. found \in SUBSET Nat  BY <3>5 DEF BitsOf
    <3> HIDE DEF found
    <3>7. Min(found) \in found /\ \A y \in found : Min(found) <= y
      BY <3>4, <3>6, MinIsLeast
    <3>8. Min(found) \in later /\ Min(found) \in BitsOf(s[j]) /\ Min(found) \in Nat
      BY <2>4, <3>4, <3>5, <3>6, <3>7
    <3>9. ASSUME NEW y \in later  PROVE Min(found) <= y
      <4>1. PICK p \in 1 .. Len(s) : y \in BitsOf(s[p]) /\ y > after  BY <2>4
      <4>2. p \in hits  BY <2>5, <4>1
      <4>3. j <= p /\ p \in Nat  BY <3>1, <3>3, <4>2
      <4>4. CASE p = j  BY <3>5, <3>7, <4>1, <4>4
      <4>5. CASE p # j
        <5>1. j < p  BY <3>4, <4>3, <4>5
        <5>2. \A x \in BitsOf(s[p]) : EndOf(s[j]) <= x /\ s[j].start <= x
          BY <1>1, <3>4, <4>1, <5>1, HeldAscends
        <5>3. EndOf(s[j]) <= y  BY <4>1, <5>2
        <5>4. y \in Nat  BY <1>1, <4>1, HeldWithin
        <5>5. Min(found) < EndOf(s[j]) /\ EndOf(s[j]) \in Nat  BY <1>1, <3>4, <3>8, HeldWithin
        <5> QED  BY ONLY <3>8, <5>3, <5>4, <5>5
      <4> QED  BY <4>4, <4>5
    <3>10. Min(later) = Min(found)
      <4>1. later \in SUBSET Nat /\ later # {}
        <5>1. \A x \in later : x \in Nat  BY <2>4 DEF BitsOf
        <5> QED  BY <3>8, <5>1
      <4>2. Min(later) \in later /\ \A y \in later : Min(later) <= y
        BY ONLY <4>1, MinIsLeast
      <4>3. Min(later) <= Min(found) /\ Min(found) <= Min(later) /\ Min(later) \in Nat
        BY <3>8, <3>9, <4>1, <4>2
      <4> QED  BY ONLY <3>8, <4>3
    <3>11. later # {}  BY <3>8
    <3> QED  BY <2>2, <2>7, <3>10, <3>11 DEF index, LeastOf
  <2> QED  BY <2>6, <2>7
<1> QED  BY <1>2, <1>3

----------------------------------------------------------------------------
(* Counting the members.                                                   *)

\* The members before chunk f, and those from it on.
LEMMA PartsAt ==
  ASSUME NEW s, NEW hi \in Nat, StreamOK(s, 0, hi), NEW f \in 1 .. Len(s),
         NEW P, P = MembersBetween(s, 1, f - 1),
         NEW W, W = MembersBetween(s, f, Len(s))
  PROVE  /\ Bits(s) = P \cup W /\ P \cap W = {} /\ IsFiniteSet(Bits(s))
         /\ s[f].start \in Nat
         /\ \A x \in P : x \in Nat /\ x < s[f].start
         /\ \A x \in W : x \in Nat /\ s[f].start <= x
         /\ f = 1 => P = {}
<1>1. Len(s) \in Nat /\ f \in Nat  BY LenProperties DEF StreamOK
<1>2. \A p \in 1 .. Len(s) : ChunkMembers(s[p]) = BitsOf(s[p])
  BY HeldIsMembers DEF StreamOK
<1>3. \A x : x \in P <=> \E p \in 1 .. f - 1 : x \in BitsOf(s[p])
  <2>1. \A p \in 1 .. f - 1 : p \in 1 .. Len(s)  BY <1>1
  <2> QED  BY <1>2, <2>1 DEF MembersBetween
<1>4. \A x : x \in W <=> \E p \in f .. Len(s) : x \in BitsOf(s[p])
  <2>1. \A p \in f .. Len(s) : p \in 1 .. Len(s)  BY <1>1
  <2> QED  BY <1>2, <2>1 DEF MembersBetween
<1>5. s[f].start \in Nat  BY ChunkExtent DEF StreamOK
<1>6. ASSUME NEW x \in P  PROVE x \in Nat /\ x < s[f].start
  <2>1. PICK p \in 1 .. f - 1 : x \in BitsOf(s[p])  BY <1>3
  <2>2. p \in 1 .. Len(s) /\ p < f  BY <1>1
  <2>3. x \in Nat  BY <2>1 DEF BitsOf
  <2>4. \A y \in BitsOf(s[p]) : y < s[f].start  BY <2>2, HeldAscends
  <2> QED  BY <2>1, <2>3, <2>4
<1>7. ASSUME NEW x \in W  PROVE x \in Nat /\ s[f].start <= x
  <2>1. PICK p \in f .. Len(s) : x \in BitsOf(s[p])  BY <1>4
  <2>2. x \in Nat  BY <2>1 DEF BitsOf
  <2>3. CASE p = f  BY <2>1, <2>2, <2>3 DEF BitsOf
  <2>4. CASE p # f
    <3>1. p \in 1 .. Len(s) /\ f < p  BY <1>1, <2>4
    <3>2. \A y \in BitsOf(s[p]) : EndOf(s[f]) <= y /\ s[f].start <= y  BY <3>1, HeldAscends
    <3> QED  BY <2>1, <2>2, <3>2
  <2> QED  BY <2>3, <2>4
<1>8. P \cap W = {}
  <2> SUFFICES ASSUME NEW x \in P \cap W  PROVE FALSE  OBVIOUS
  <2>1. x \in Nat /\ x < s[f].start /\ s[f].start <= x  BY <1>6, <1>7
  <2> QED  BY ONLY <1>5, <2>1
<1>9. Bits(s) = P \cup W
  <2>1. \A x : x \in Bits(s) <=> \E p \in 1 .. Len(s) : x \in BitsOf(s[p])  BY DEF Bits
  <2>2. \A p : p \in 1 .. Len(s) <=> p \in 1 .. f - 1 \/ p \in f .. Len(s)  BY <1>1
  <2> QED  BY <1>3, <1>4, <2>1, <2>2
<1>10. IsFiniteSet(Bits(s))
  <2>1. \A x \in Bits(s) : x \in Nat /\ x <= hi
    <3> SUFFICES ASSUME NEW x \in Bits(s)  PROVE x \in Nat /\ x <= hi  OBVIOUS
    <3>1. PICK p \in 1 .. Len(s) : x \in BitsOf(s[p])  BY DEF Bits
    <3>2. x \in Nat /\ x < EndOf(s[p])  BY <3>1 DEF BitsOf
    <3>3. ChunkOK(s[p]) /\ EndOf(s[p]) <= hi  BY DEF StreamOK
    <3>4. EndOf(s[p]) \in Nat  BY <3>3, ChunkExtent
    <3> QED  BY <3>2, <3>3, <3>4
  <2>2. Bits(s) \in SUBSET Nat  BY <2>1
  <2> QED  BY <2>1, <2>2, FS_BoundedSetOfNaturals
<1>11. f = 1 => P = {}
  <2> SUFFICES ASSUME f = 1, NEW x \in P  PROVE FALSE  OBVIOUS
  <2>1. PICK p \in 1 .. f - 1 : x \in BitsOf(s[p])  BY <1>3
  <2> QED  BY <2>1
<1> QED  BY <1>5, <1>6, <1>7, <1>8, <1>9, <1>10, <1>11

\* A built locator counts the indices up to x, whichever superblock it counts
\* them from.
LEMMA RankUpToIs ==
  ASSUME NEW m, NEW L \in Nat, Readable(m, L), m.chunks # << >>, NEW x \in Nat
  PROVE  RankUpTo(m, Build(m.chunks), x) = Cardinality({i \in Bits(m.chunks) : i <= x})
<1> DEFINE s == m.chunks
           d == Build(s)
           b == Superblock(d, x)
           f == FirstOf(s, b)
           P == MembersBetween(s, 1, f - 1)
           W == MembersBetween(s, f, Len(s))
           V == {i \in W : 0 <= i /\ i <= x}
           S == {i \in Bits(s) : i <= x}
<1>1. StreamOK(s, 0, L) /\ s # << >>  BY DEF Readable
<1>2. EntryChunk(m, d, b) = f  BY EntryIsSampled
<1>3. /\ f \in 1 .. Len(s) /\ (f = 1 \/ s[f].start <= x)
      /\ d.sb[b] = Sample(s, f)
  <2>1. b = Superblock(Build(s), x)  OBVIOUS
  <2> HIDE DEF s, d, b
  <2>2. /\ b \in 1 .. Blocks(s) /\ FirstOf(s, b) \in 1 .. Len(s)
        /\ FirstOf(s, b) = 1 \/ s[FirstOf(s, b)].start <= x
        /\ Build(s).sb[b] = Sample(s, FirstOf(s, b))
    BY <1>1, <2>1, SuperblockBegins
  <2> QED  BY <2>2 DEF d
<1>4. RankUpTo(m, d, x) = d.sb[b].prefix + Cardinality(V)
  BY <1>2 DEF RankUpTo, RankFrom, WalkedMembers, RankOf
<1>5. d.sb[b].prefix = Cardinality(P)
  <2> HIDE DEF s, d, b, f
  <2> QED  BY <1>3 DEF Sample
<1> HIDE DEF s, d, b, f
<1>6. /\ Bits(s) = P \cup W /\ P \cap W = {} /\ IsFiniteSet(Bits(s))
      /\ s[f].start \in Nat
      /\ \A i \in P : i \in Nat /\ i < s[f].start
      /\ \A i \in W : i \in Nat /\ s[f].start <= i
      /\ f = 1 => P = {}
  BY <1>1, <1>3, PartsAt
<1> HIDE DEF P, W
<1>7. \A i \in P : i <= x
  <2> SUFFICES ASSUME NEW i \in P  PROVE i <= x  OBVIOUS
  <2>1. f # 1 /\ i \in Nat /\ i < s[f].start  BY <1>6
  <2>2. s[f].start <= x  BY <1>3, <2>1
  <2> QED  BY <1>6, <2>1, <2>2
<1>8. \A i \in W : i <= x <=> 0 <= i /\ i <= x  BY <1>6
<1>9. S = P \cup V /\ P \cap V = {}  BY <1>6, <1>7, <1>8
<1>10. IsFiniteSet(S)
  <2>1. S \subseteq Bits(s)  OBVIOUS
  <2> QED  BY <1>6, <2>1, CountPart
<1> HIDE DEF S, V
<1>11. Cardinality(S) = Cardinality(P) + Cardinality(V)  BY <1>9, <1>10, CountParts
<1>12. RankUpTo(m, d, x) = Cardinality(S)  BY <1>4, <1>5, <1>11
<1> QED  BY <1>12 DEF d, S, s

\* RankAgrees holds of such a locator.
LEMMA RankIs ==
  ASSUME NEW m, NEW L \in Nat, Readable(m, L), m.chunks # << >>,
         NEW lo \in Nat, NEW hi \in Nat, Members(m) = Bits(m.chunks)
  PROVE  LocatorRank(m, Build(m.chunks), lo, hi) = RankOf(Members(m), lo, hi)
<1> DEFINE s == m.chunks
           d == Build(s)
           B == Bits(s)
           V == {i \in B : lo <= i /\ i <= hi}
           upTo(x) == {i \in B : i <= x}
<1>1. StreamOK(s, 0, L)  BY DEF Readable
<1>2. ~IsStale(m, d)  BY BuiltIsFresh
<1>3. RankOf(Members(m), lo, hi) = Cardinality(V)  BY DEF RankOf
<1>4. \A x \in Nat : RankUpTo(m, d, x) = Cardinality(upTo(x))  BY RankUpToIs
<1>5. 1 \in 1 .. Len(s)
  <2>1. s \in Seq(Chunks) /\ s # << >>  BY <1>1 DEF StreamOK
  <2> HIDE DEF s
  <2>2. Len(s) \in Nat \ {0}  BY <2>1, LenProperties, EmptySeq
  <2> QED  BY <2>2
<1>6. IsFiniteSet(B) /\ B \subseteq Nat
  <2>1. B \subseteq Nat  BY DEF Bits, BitsOf
  <2>2. PICK f \in 1 .. Len(s) : TRUE  BY <1>5
  <2> HIDE DEF s
  <2> QED  BY <1>1, <2>1, <2>2, PartsAt
<1>7. LocatorRank(m, d, lo, hi) =
        IF lo > hi THEN 0
        ELSE RankUpTo(m, d, hi) - IF lo = 0 THEN 0 ELSE RankUpTo(m, d, lo - 1)
  BY <1>2 DEF LocatorRank
<1> HIDE DEF s, d, B
<1>8. CASE lo > hi
  <2>1. V = {}
    <3> SUFFICES ASSUME NEW i \in V  PROVE FALSE  OBVIOUS
    <3>1. i \in Nat /\ lo <= i /\ i <= hi  BY <1>6
    <3> QED  BY <1>8, <3>1
  <2>2. Cardinality(V) = 0  BY <2>1, FS_EmptySet
  <2>3. LocatorRank(m, d, lo, hi) = 0  BY <1>7, <1>8
  <2> QED  BY <1>3, <2>2, <2>3 DEF d, s
<1>9. CASE ~(lo > hi)
  <2>1. CASE lo = 0
    <3>1. V = upTo(hi)
      <4>1. \A i \in B : lo <= i  BY <1>6, <2>1
      <4> QED  BY <4>1
    <3>2. LocatorRank(m, d, lo, hi) = RankUpTo(m, d, hi) - 0  BY <1>7, <1>9, <2>1
    <3>3. Cardinality(upTo(hi)) \in Nat
      <4>1. upTo(hi) \subseteq B  OBVIOUS
      <4> QED  BY <1>6, <4>1, CountPart
    <3>4. LocatorRank(m, d, lo, hi) = Cardinality(upTo(hi))
      <4>1. RankUpTo(m, d, hi) = Cardinality(upTo(hi))  BY <1>4
      <4> HIDE DEF upTo
      <4> QED  BY <3>2, <3>3, <4>1
    <3> QED  BY <1>3, <3>1, <3>4 DEF d, s
  <2>2. CASE lo # 0
    <3>1. lo - 1 \in Nat  BY <2>2
    <3>2. LocatorRank(m, d, lo, hi) = RankUpTo(m, d, hi) - RankUpTo(m, d, lo - 1)
      BY <1>7, <1>9, <2>2
    <3>3. upTo(hi) = upTo(lo - 1) \cup V /\ upTo(lo - 1) \cap V = {}
      <4>1. \A i \in Nat : i <= hi <=> i <= lo - 1 \/ (lo <= i /\ i <= hi)
        BY <1>9, <2>2
      <4>2. \A i \in Nat : ~(i <= lo - 1 /\ lo <= i)  BY <2>2
      <4> QED  BY <1>6, <4>1, <4>2
    <3>4. IsFiniteSet(upTo(hi))
      <4>1. upTo(hi) \subseteq B  OBVIOUS
      <4> QED  BY <1>6, <4>1, CountPart
    <3>5. /\ RankUpTo(m, d, hi) = Cardinality(upTo(hi))
          /\ RankUpTo(m, d, lo - 1) = Cardinality(upTo(lo - 1))
      BY <1>4, <3>1
    <3> DEFINE S == upTo(hi)
               T == upTo(lo - 1)
    <3>6. IsFiniteSet(S) /\ S = T \cup V /\ T \cap V = {}  BY <3>3, <3>4
    <3>7. RankUpTo(m, d, hi) = Cardinality(S) /\ RankUpTo(m, d, lo - 1) = Cardinality(T)
      BY <3>5
    <3> HIDE DEF V, S, T
    <3>8. /\ IsFiniteSet(T) /\ IsFiniteSet(V)
          /\ Cardinality(S) \in Nat /\ Cardinality(T) \in Nat /\ Cardinality(V) \in Nat
          /\ Cardinality(S) = Cardinality(T) + Cardinality(V)
      BY ONLY <3>6, CountParts
    <3>9. LocatorRank(m, d, lo, hi) = Cardinality(V)  BY <3>2, <3>7, <3>8
    <3> QED  BY <1>3, <3>9 DEF d, s
  <2> QED  BY <2>1, <2>2
<1> QED  BY <1>8, <1>9

\* The superblock a select begins at has at most n members before it.
LEMMA SelectBlockBegins ==
  ASSUME NEW s, NEW hi \in Nat, StreamOK(s, 0, hi), s # << >>, NEW n \in Nat,
         NEW b, b = SelectBlock(Build(s), n)
  PROVE  /\ FirstOf(s, b) \in 1 .. Len(s)
         /\ Build(s).sb[b] = Sample(s, FirstOf(s, b))
         /\ Cardinality(MembersBetween(s, 1, FirstOf(s, b) - 1)) <= n
<1> DEFINE q == Blocks(s)
           sb == Build(s).sb
           T == {x \in 1 .. q : sb[x].prefix <= n}
           part(x) == MembersBetween(s, 1, FirstOf(s, x) - 1)
<1>1. s \in Seq(Chunks) /\ Len(s) \in Nat  BY LenProperties DEF StreamOK
<1>2. /\ q \in Nat \ {0} /\ FirstOf(s, 1) = 1
      /\ \A x \in 1 .. q : FirstOf(s, x) \in 1 .. Len(s)
      /\ \A x, y \in 1 .. q : x < y => FirstOf(s, x) < FirstOf(s, y)
      /\ DOMAIN sb = 1 .. q
      /\ \A x \in 1 .. q : sb[x] = Sample(s, FirstOf(s, x))
  BY <1>1, BlocksSample
<1>3. b = Greater(1, Cardinality(T))  BY <1>2 DEF SelectBlock
<1> HIDE DEF q, sb
<1>4. \A x \in 1 .. q : sb[x].prefix = Cardinality(part(x))  BY <1>2 DEF Sample
<1>5. ASSUME NEW x \in 1 .. q
      PROVE  IsFiniteSet(part(x)) /\ (FirstOf(s, x) = 1 => part(x) = {})
  <2> DEFINE f == FirstOf(s, x)
             P == MembersBetween(s, 1, f - 1)
             W == MembersBetween(s, f, Len(s))
  <2>1. f \in 1 .. Len(s)  BY <1>2
  <2> HIDE DEF f
  <2>2. /\ Bits(s) = P \cup W /\ IsFiniteSet(Bits(s)) /\ (f = 1 => P = {})
    BY <2>1, PartsAt
  <2>3. P \subseteq Bits(s)  BY <2>2
  <2> HIDE DEF P
  <2>4. IsFiniteSet(P)  BY <2>2, <2>3, CountPart
  <2> QED  BY <2>2, <2>4 DEF P, f
<1>6. ASSUME NEW x \in T, NEW y \in 1 .. q, y < x  PROVE y \in T
  <2>1. x \in 1 .. q /\ Cardinality(part(x)) <= n  BY <1>4
  <2>2. FirstOf(s, y) < FirstOf(s, x)  BY <1>2, <1>6, <2>1
  <2>3. FirstOf(s, x) \in Nat /\ FirstOf(s, y) \in Nat  BY <1>1, <1>2, <2>1
  <2>4. part(y) \subseteq part(x)
    <3>1. \A j \in 1 .. FirstOf(s, y) - 1 : j \in 1 .. FirstOf(s, x) - 1
      BY <2>2, <2>3
    <3> QED  BY <3>1 DEF MembersBetween
  <2>5. IsFiniteSet(part(x))  BY <1>5, <2>1
  <2> DEFINE U == part(x)
             V == part(y)
  <2>6. IsFiniteSet(U) /\ V \subseteq U  BY <2>4, <2>5
  <2>7. Cardinality(U) <= n  BY <2>1
  <2> HIDE DEF U, V
  <2>8. Cardinality(V) <= Cardinality(U) /\ Cardinality(V) \in Nat /\ Cardinality(U) \in Nat
    BY <2>6, CountPart
  <2>9. Cardinality(V) <= n  BY <2>7, <2>8
  <2> QED  BY <1>4, <2>9 DEF V
<1>7. T \in SUBSET (1 .. q) /\ q \in Nat  BY <1>2
<1>8. 1 \in T
  <2>1. 1 \in 1 .. q  BY <1>2
  <2>2. part(1) = {}  BY <1>2, <1>5, <2>1
  <2>3. sb[1].prefix = 0  BY <1>4, <2>1, <2>2, FS_EmptySet
  <2> QED  BY <2>1, <2>3
<1>9. \A x \in T : x \in 1 .. q /\ Cardinality(part(x)) <= n  BY <1>4
<1> HIDE DEF T
<1>10. T = 1 .. Cardinality(T) /\ Cardinality(T) \in 0 .. q
  BY <1>6, <1>7, DownSet
<1>11. b \in T
  <2>1. Cardinality(T) \in 1 .. q
    <3>1. 1 \in 1 .. Cardinality(T)  BY <1>8, <1>10
    <3> QED  BY <1>7, <1>10, <3>1
  <2>2. b = Cardinality(T)  BY <1>3, <2>1 DEF Greater
  <2>3. Cardinality(T) \in 1 .. Cardinality(T)  BY <2>1
  <2> QED  BY <1>10, <2>2, <2>3
<1>12. b \in 1 .. q /\ Cardinality(part(b)) <= n  BY <1>9, <1>11
<1> QED  BY <1>2, <1>12 DEF q, sb

\* The n-th of some numbers is the one of the second part as many places on, when
\* the first part lies below the second and has at most n.
LEMMA SelectInPart ==
  ASSUME NEW S, NEW P, NEW W, IsFiniteSet(S), S = P \cup W, P \cap W = {},
         NEW a \in Nat, \A x \in P : x \in Nat /\ x < a,
         \A x \in W : x \in Nat /\ a <= x,
         NEW n \in Nat, Cardinality(P) <= n
  PROVE  SelectOf(S, n) = SelectOf(W, n - Cardinality(P))
<1> DEFINE before(X, i) == {k \in X : k < i}
           p == n - Cardinality(P)
<1>1. /\ IsFiniteSet(P) /\ IsFiniteSet(W)
      /\ Cardinality(S) \in Nat /\ Cardinality(P) \in Nat /\ Cardinality(W) \in Nat
      /\ Cardinality(S) = Cardinality(P) + Cardinality(W)
  BY CountParts
<1>2. p \in Nat /\ (n >= Cardinality(S) <=> p >= Cardinality(W))  BY <1>1
<1>3. ASSUME NEW i \in P  PROVE Cardinality(before(S, i)) # n
  <2> DEFINE B == before(S, i)
             Q == P \ {i}
  <2>1. B \subseteq Q
    <3> SUFFICES ASSUME NEW k \in B  PROVE k \in Q  OBVIOUS
    <3>1. k \in S /\ k < i /\ i < a /\ i \in Nat  OBVIOUS
    <3>2. k \notin W
      <4> SUFFICES ASSUME k \in W  PROVE FALSE  OBVIOUS
      <4>1. k \in Nat /\ a <= k  OBVIOUS
      <4> QED  BY <3>1, <4>1
    <3>3. k \in P /\ k \in Nat  BY <3>1, <3>2
    <3>4. k # i  BY <3>1, <3>3
    <3> QED  BY <3>3, <3>4
  <2>2. IsFiniteSet(Q) /\ Cardinality(Q) = Cardinality(P) - 1  BY <1>1, FS_RemoveElement
  <2> HIDE DEF B, Q
  <2>3. Cardinality(B) \in Nat /\ Cardinality(B) <= Cardinality(Q)
    BY <2>1, <2>2, CountPart
  <2>4. Cardinality(B) < n  BY <1>1, <2>2, <2>3
  <2>5. Cardinality(B) # n  BY <2>3, <2>4
  <2> QED  BY <2>5 DEF B
<1>4. ASSUME NEW i \in W
      PROVE  Cardinality(before(S, i)) = n <=> Cardinality(before(W, i)) = p
  <2> DEFINE B == before(S, i)
             Q == before(W, i)
  <2>1. \A k \in P : k < i
    <3> SUFFICES ASSUME NEW k \in P  PROVE k < i  OBVIOUS
    <3>1. k \in Nat /\ k < a /\ a <= i /\ i \in Nat  OBVIOUS
    <3> QED  BY ONLY <3>1, a \in Nat
  <2>2. B = P \cup Q /\ P \cap Q = {}  BY <2>1
  <2>3. IsFiniteSet(B)
    <3>1. B \subseteq S  OBVIOUS
    <3> QED  BY <3>1, CountPart
  <2> HIDE DEF B, Q
  <2>4. /\ Cardinality(B) \in Nat /\ Cardinality(P) \in Nat /\ Cardinality(Q) \in Nat
        /\ Cardinality(B) = Cardinality(P) + Cardinality(Q)
    BY <2>2, <2>3, CountParts
  <2>5. Cardinality(B) = n <=> Cardinality(Q) = p  BY <2>4
  <2> QED  BY <2>5 DEF B, Q
<1> HIDE DEF p
<1>5. \A i : (i \in S /\ Cardinality(before(S, i)) = n)
             <=> (i \in W /\ Cardinality(before(W, i)) = p)
  <2> HIDE DEF before
  <2> QED  BY <1>3, <1>4
<1>6. (CHOOSE i \in S : Cardinality({k \in S : k < i}) = n)
      = (CHOOSE i \in W : Cardinality({k \in W : k < i}) = p)
  BY ONLY <1>5, Zenon
<1>7. SelectOf(S, n) = SelectOf(W, p)
  <2> DEFINE u == CHOOSE i \in S : Cardinality({k \in S : k < i}) = n
             v == CHOOSE i \in W : Cardinality({k \in W : k < i}) = p
  <2>1. SelectOf(S, n) = IF n >= Cardinality(S) THEN NoIndex ELSE u  BY DEF SelectOf
  <2>2. SelectOf(W, p) = IF p >= Cardinality(W) THEN NoIndex ELSE v  BY DEF SelectOf
  <2>3. u = v  BY ONLY <1>6
  <2> HIDE DEF u, v
  <2>4. n >= Cardinality(S) <=> p >= Cardinality(W)  BY <1>2
  <2> QED  BY ONLY <2>1, <2>2, <2>3, <2>4
<1> QED  BY <1>7 DEF p

\* SelectAgrees holds of such a locator.
LEMMA SelectIs ==
  ASSUME NEW m, NEW L \in Nat, Readable(m, L), m.chunks # << >>, NEW n \in Nat,
         Members(m) = Bits(m.chunks)
  PROVE  LocatorSelect(m, Build(m.chunks), n) = SelectOf(Members(m), n)
<1> DEFINE s == m.chunks
           d == Build(s)
           b == SelectBlock(d, n)
           f == FirstOf(s, b)
           P == MembersBetween(s, 1, f - 1)
           W == MembersBetween(s, f, Len(s))
           S == Bits(s)
           a == s[f].start
<1>1. StreamOK(s, 0, L) /\ s # << >> /\ s \in Seq(Chunks)
  BY DEF Readable, StreamOK
<1>2. ~IsStale(m, d)  BY BuiltIsFresh
<1>3. /\ f \in 1 .. Len(s) /\ d.sb[b] = Sample(s, f) /\ Cardinality(P) <= n
  <2>1. b = SelectBlock(Build(s), n)  OBVIOUS
  <2> HIDE DEF s, d, b
  <2>2. /\ FirstOf(s, b) \in 1 .. Len(s)
        /\ Build(s).sb[b] = Sample(s, FirstOf(s, b))
        /\ Cardinality(MembersBetween(s, 1, FirstOf(s, b) - 1)) <= n
    BY <1>1, <2>1, SelectBlockBegins
  <2> QED  BY <2>2 DEF d
<1>4. d.sb[b].offset = OffsetOf(s, f) /\ d.sb[b].prefix = Cardinality(P)
  <2> HIDE DEF s, d, b, f
  <2> QED  BY <1>3 DEF Sample
<1>5. EntryChunk(m, d, b) = f
  <2>1. EntryChunk(m, d, b) = ChunkAt(s, d.sb[b].offset)  BY DEF EntryChunk
  <2> HIDE DEF s, d, b, f
  <2>2. ChunkAt(s, OffsetOf(s, f)) = f  BY <1>1, <1>3, OffsetLeadsBack
  <2> QED  BY <1>4, <2>1, <2>2
<1>6. LocatorSelect(m, d, n) = SelectOf(WalkedMembers(m, d, b), n - d.sb[b].prefix)
  BY <1>2 DEF LocatorSelect, SelectFrom
<1>7. WalkedMembers(m, d, b) = W  BY <1>5 DEF WalkedMembers
<1>8. Members(m) = S  OBVIOUS
<1> HIDE DEF s, d, b, f
<1>9. /\ S = P \cup W /\ P \cap W = {} /\ IsFiniteSet(S)
      /\ a \in Nat
      /\ \A x \in P : x \in Nat /\ x < a
      /\ \A x \in W : x \in Nat /\ a <= x
  BY <1>1, <1>3, PartsAt
<1> HIDE DEF P, W, S, a
<1>10. SelectOf(S, n) = SelectOf(W, n - Cardinality(P))  BY <1>3, <1>9, SelectInPart
<1>11. LocatorSelect(m, d, n) = SelectOf(S, n)  BY <1>4, <1>6, <1>7, <1>10
<1> QED  BY <1>8, <1>11 DEF d, s

----------------------------------------------------------------------------
(* What the readers remember is true of the map, in every state.           *)

\* The inductive invariant: the map is sound, the cursor is on a chunk, each
\* valid way of the cache remembers one, and the locator is of this map.
ReadersOK(L) ==
  /\ Sound(L)
  /\ CursorOK(map.chunks, cur, asked)
  /\ CacheOK(map.chunks, cache)
  /\ LocatorOK(map.chunks, loc)

\* The readers begin with nothing.
LEMMA IdleReaders ==
  ASSUME NEW s
  PROVE  CursorOK(s, NoCursor, NoIndex) /\ CacheOK(s, EmptyCache) /\ LocatorOK(s, NoLocator)
<1>1. CursorOK(s, NoCursor, NoIndex)  BY DEF CursorOK, NoIndex
<1> QED  BY <1>1, EmptyCacheOK DEF LocatorOK

\* They do so in the first state.
LEMMA ReadersInitOK ==
  ASSUME NEW L, ReadersInit
  PROVE  ReadersOK(L)
<1>1. Init /\ cur = NoCursor /\ asked = NoIndex /\ cache = EmptyCache /\ loc = NoLocator
  BY DEF ReadersInit, CursorInit, CacheInit, LocatorInit
<1>2. Sound(L)  BY <1>1, InitSound
<1> QED  BY <1>1, <1>2, IdleReaders DEF ReadersOK

\* Whatever happens next, it is true of the next map.
LEMMA ReadersNextOK ==
  ASSUME NEW L, IndicesBelow(L), ReadersOK(L), [ReadersNext]_rvars
  PROVE  /\ Fits(map', Bits(map'.chunks), L)
         /\ CursorOK(map'.chunks, cur', asked')
         /\ CacheOK(map'.chunks, cache')
         /\ LocatorOK(map'.chunks, loc')
<1>1. /\ Sound(L) /\ CursorOK(map.chunks, cur, asked)
      /\ CacheOK(map.chunks, cache) /\ LocatorOK(map.chunks, loc)
      /\ Readable(map, L)
  BY SoundIsReadable DEF ReadersOK
<1>2. Indices \subseteq Nat  BY IndicesAssumption
<1>3. ASSUME UNCHANGED map  PROVE Fits(map', Bits(map'.chunks), L)
  BY <1>1, <1>3 DEF Sound
<1>4. CASE \E i \in Indices : Change(i)
  <2>1. PICK i \in Indices : Change(i)  BY <1>4
  <2>2. [Next]_vars  BY <2>1 DEF Change, Next
  <2>3. Fits(map', Bits(map'.chunks), L)  BY <1>1, <2>2, NextSound
  <2>4. cur' = NoCursor /\ asked' = NoIndex /\ cache' = EmptyCache /\ loc' = NoLocator
    BY <2>1 DEF Change, ResetCursor, ClearCache, DropLocator
  <2> QED  BY <2>3, <2>4, IdleReaders
<1>5. CASE ReadWithCursor
  <2>1. UNCHANGED << map, cache, loc >>
    BY <1>5 DEF ReadWithCursor, LookUp, FindNext
  <2>2. CASE \E i \in Indices : LookUp(i)
    <3>1. PICK i \in Indices : LookUp(i)  BY <2>2
    <3>2. cur' = AfterLookup(map, cur, i) /\ asked' = i /\ i \in Nat
      BY <1>2, <3>1 DEF LookUp
    <3>3. CursorOK(map.chunks, AfterLookup(map, cur, i), i)  BY <1>1, <3>2, LookUpSeats
    <3>4. CursorOK(map'.chunks, cur', asked')  BY <2>1, <3>2, <3>3
    <3> QED  BY <1>1, <1>3, <2>1, <3>4
  <2>3. CASE \E after \in Indices \cup {NoIndex} : FindNext(after)
    <3>1. PICK after \in Indices \cup {NoIndex} : FindNext(after)  BY <2>3
    <3> DEFINE r == NextMember(map, cur, after)
    <3>2. cur' = r.cur /\ asked' = IF r.index = NoIndex THEN asked ELSE r.index
      BY <3>1 DEF FindNext
    <3>3. after \in Nat \cup {NoIndex} /\ r = NextMember(map, cur, after)  BY <1>2
    <3> HIDE DEF r
    <3>4. CursorOK(map.chunks, r.cur, IF r.index = NoIndex THEN asked ELSE r.index)
      BY <1>1, <3>3, NextSeats
    <3>5. CursorOK(map'.chunks, cur', asked')  BY <2>1, <3>2, <3>4
    <3> QED  BY <1>1, <1>3, <2>1, <3>5
  <2> QED  BY <1>5, <2>2, <2>3 DEF ReadWithCursor
<1>6. CASE ReadWithCache
  <2>1. UNCHANGED << map, cur, asked, loc >>
    BY <1>6 DEF ReadWithCache, ContainsCached
  <2>2. PICK i \in Indices : ContainsCached(i)  BY <1>6 DEF ReadWithCache
  <2>3. cache' = AfterCached(map, cache, i) /\ i \in Nat
    BY <1>2, <2>2 DEF ContainsCached
  <2>4. CacheOK(map.chunks, AfterCached(map, cache, i))  BY <1>1, <2>3, CachedKeeps
  <2>5. CacheOK(map'.chunks, cache')  BY <2>1, <2>3, <2>4
  <2> QED  BY <1>1, <1>3, <2>1, <2>5
<1>7. CASE ReadWithLocator
  <2>1. UNCHANGED << map, cur, asked, cache >>
    BY <1>7 DEF ReadWithLocator, BuildLocator
  <2>2. loc' = IF map.chunks = << >> THEN NoLocator ELSE Build(map.chunks)
    BY <1>7 DEF ReadWithLocator, BuildLocator
  <2>3. LocatorOK(map.chunks, loc')  BY <2>2 DEF LocatorOK
  <2>4. LocatorOK(map'.chunks, loc')  BY <2>1, <2>3
  <2> QED  BY <1>1, <1>3, <2>1, <2>4
<1>8. CASE UNCHANGED rvars
  <2>1. UNCHANGED << map, cur, asked, cache, loc >>  BY <1>8 DEF rvars
  <2> QED  BY <1>1, <1>3, <2>1
<1> QED  BY <1>4, <1>5, <1>6, <1>7, <1>8 DEF ReadersNext

\* What each reader remembers of the map is true of it, in every state a client
\* that keeps the contract of sm.h can bring about.
THEOREM ReadersRemember ==
  ASSUME NEW CONSTANT L, IndicesBelow(L)
  PROVE  ReadersSpec => []ReadersOK(L)
<1>1. ReadersInit => ReadersOK(L)  BY ReadersInitOK
<1>2. ReadersOK(L) /\ [ReadersNext]_rvars => ReadersOK(L)'
  <2> SUFFICES ASSUME ReadersOK(L), [ReadersNext]_rvars
               PROVE  /\ Fits(map', Bits(map'.chunks), L)
                      /\ CursorOK(map'.chunks, cur', asked')
                      /\ CacheOK(map'.chunks, cache')
                      /\ LocatorOK(map'.chunks, loc')
    BY DEF ReadersOK, Sound
  <2> QED  BY ReadersNextOK
<1> QED  BY <1>1, <1>2, PTL DEF ReadersSpec

\* LookupsAgree of Cursor: sm_contains through a cursor answers what it answers
\* without one, whatever lookups the cursor has been through.
THEOREM CursorLookupsAgree ==
  ASSUME NEW CONSTANT L, IndicesBelow(L)
  PROVE  ReadersSpec => []LookupsAgree
<1>1. ReadersOK(L) => LookupsAgree
  <2> SUFFICES ASSUME ReadersOK(L), NEW i \in Indices
               PROVE  ContainsFrom(map, cur, i) = HasBit(map.chunks, i)
    BY DEF LookupsAgree
  <2>1. CursorOK(map.chunks, cur, asked) /\ Readable(map, L) /\ i \in Nat
    BY IndicesAssumption, SoundIsReadable DEF ReadersOK
  <2>2. ContainsFrom(map, cur, i) <=> HasBit(map.chunks, i)  BY <2>1, CursorAgrees
  <2>3. ContainsFrom(map, cur, i) \in BOOLEAN  BY DEF ContainsFrom, InChunk, CoveredBy
  <2>4. HasBit(map.chunks, i) \in BOOLEAN  BY DEF HasBit
  <2> QED  BY <2>2, <2>3, <2>4
<1> QED  BY <1>1, ReadersRemember, PTL

\* HintIsAChunk of Cursor: the offset the coalescing may read its left
\* neighbour's start at is a chunk's, or none.
THEOREM HintStaysAChunk ==
  ASSUME NEW CONSTANT L, IndicesBelow(L)
  PROVE  ReadersSpec => []HintIsAChunk
<1>1. ReadersOK(L) => HintIsAChunk
  BY HintIsBoundary DEF ReadersOK, HintIsAChunk
<1> QED  BY <1>1, ReadersRemember, PTL

\* AscendingResumes of Cursor: a lookup of an index not below the last one
\* resumes where that ended.
THEOREM AscendingLookupsResume ==
  ASSUME NEW CONSTANT L, IndicesBelow(L)
  PROVE  ReadersSpec => []AscendingResumes
<1>1. ReadersOK(L) => AscendingResumes
  <2> SUFFICES ASSUME ReadersOK(L), cur # NoCursor
               PROVE  cur.offset = 0 \/ Resumes(map, cur, asked)
    BY DEF AscendingResumes
  <2>1. CursorOK(map.chunks, cur, asked) /\ Readable(map, L)
    BY SoundIsReadable DEF ReadersOK
  <2> QED  BY <2>1, CursorResumes
<1> QED  BY <1>1, ReadersRemember, PTL

\* sm_chunk_is_set answers true or false.
LEMMA IsSetIsTruth == ASSUME NEW c, NEW i  PROVE IsSet(c, i) \in BOOLEAN
<1>1. CASE IsRLE(c)
  <2>1. IsSet(c, i) <=> i < c.len  BY <1>1 DEF IsSet
  <2>2. IsSet(c, i) = (i < c.len)  BY <1>1 DEF IsSet
  <2> QED  BY <2>2
<1>2. CASE ~IsRLE(c)  BY <1>2 DEF IsSet
<1> QED  BY <1>1, <1>2

\* CachedLookupsAgree of ChunkCache: a lookup that hits answers what the walk
\* from the head answers, whatever was looked up and evicted before.
THEOREM CacheLookupsAgree ==
  ASSUME NEW CONSTANT L, IndicesBelow(L)
  PROVE  ReadersSpec => []CachedLookupsAgree
<1>1. ReadersOK(L) => CachedLookupsAgree
  <2> SUFFICES ASSUME ReadersOK(L), NEW i \in Indices
               PROVE  CachedContains(map, cache, i) = HasBit(map.chunks, i)
    BY DEF CachedLookupsAgree
  <2>1. CacheOK(map.chunks, cache) /\ Readable(map, L) /\ i \in Nat
    BY IndicesAssumption, SoundIsReadable DEF ReadersOK
  <2>2. CachedContains(map, cache, i) <=> HasBit(map.chunks, i)  BY <2>1, CacheAgrees
  <2>3. HasBit(map.chunks, i) \in BOOLEAN  BY DEF HasBit
  <2>4. CachedContains(map, cache, i) \in BOOLEAN
    BY <2>3, IsSetIsTruth DEF CachedContains, HitAnswer
  <2> QED  BY <2>2, <2>3, <2>4
<1> QED  BY <1>1, ReadersRemember, PTL

\* NeverStale of Locator: a locator of an unchanged map is never taken for a
\* stale one, so its queries use the directory.
THEOREM LocatorStaysFresh ==
  ASSUME NEW CONSTANT L, IndicesBelow(L)
  PROVE  ReadersSpec => []NeverStale
<1>1. ReadersOK(L) => NeverStale
  <2> SUFFICES ASSUME ReadersOK(L), loc # NoLocator  PROVE ~IsStale(map, loc)
    BY DEF NeverStale
  <2>1. Readable(map, L) /\ map.chunks # << >> /\ loc = Build(map.chunks)
    BY SoundIsReadable DEF ReadersOK, LocatorOK
  <2>2. ~IsStale(map, Build(map.chunks))  BY <2>1, BuiltIsFresh
  <2> QED  BY <2>1, <2>2
<1> QED  BY <1>1, ReadersRemember, PTL

\* ContainsAgrees of Locator: sm_locator_contains answers what sm_contains does,
\* wherever its index lies among superblocks, chunks and gaps.
THEOREM LocatorLookupsAgree ==
  ASSUME NEW CONSTANT L, IndicesBelow(L)
  PROVE  ReadersSpec => []ContainsAgrees
<1>1. ReadersOK(L) => ContainsAgrees
  <2> SUFFICES ASSUME ReadersOK(L), loc # NoLocator, NEW i \in Indices
               PROVE  LocatorContains(map, loc, i) = HasBit(map.chunks, i)
    BY DEF ContainsAgrees
  <2>1. Readable(map, L) /\ map.chunks # << >> /\ loc = Build(map.chunks) /\ i \in Nat
    BY IndicesAssumption, SoundIsReadable DEF ReadersOK, LocatorOK
  <2>2. LocatorContains(map, loc, i) <=> HasBit(map.chunks, i)  BY <2>1, LocatorAgrees
  <2>3. HasBit(map.chunks, i) \in BOOLEAN  BY DEF HasBit
  <2>4. LocatorContains(map, loc, i) \in BOOLEAN
    BY <2>3 DEF LocatorContains, InChunk, CoveredBy
  <2> QED  BY <2>2, <2>3, <2>4
<1> QED  BY <1>1, ReadersRemember, PTL

\* A client that may use every index below the limit is such a client.
LEMMA EveryIndexBelow ==
  ASSUME NEW L, EveryIndex(L)
  PROVE  IndicesBelow(L) /\ L \in Nat
<1>1. Limit(L) /\ Indices = 0 .. L - 1 /\ L \in Nat  BY DEF EveryIndex, Limit
<1>2. \A i \in Indices : i < L  BY <1>1
<1> QED  BY <1>1, <1>2 DEF IndicesBelow

\* NextIsLeast of Cursor: sm_next_member through a cursor skips no member.
THEOREM NextMemberIsLeast ==
  ASSUME NEW CONSTANT L, EveryIndex(L)
  PROVE  ReadersSpec => []NextIsLeast
<1>1. ReadersOK(L) => NextIsLeast
  <2> SUFFICES ASSUME ReadersOK(L), NEW after \in Indices \cup {NoIndex}, NEW later,
                      later = {i \in Members(map) : i > after}
               PROVE  NextMember(map, cur, after).index = LeastOf(later)
    BY DEF NextIsLeast, LeastOf
  <2>1. /\ CursorOK(map.chunks, cur, asked) /\ Readable(map, L)
        /\ after \in Nat \cup {NoIndex}
    BY IndicesAssumption, SoundIsReadable DEF ReadersOK
  <2>2. later = Later(map.chunks, after)
    <3>1. Members(map) = Bits(map.chunks)  BY <2>1, MembersAreBits
    <3> QED  BY <3>1 DEF Later
  <2>3. /\ Readable(map, L) /\ CursorOK(map.chunks, cur, asked)
        /\ after \in Nat \cup {NoIndex} /\ later = Later(map.chunks, after)
    BY <2>1, <2>2
  <2> QED  BY ONLY <2>3, NextAgrees
<1>2. ReadersSpec => []ReadersOK(L)  BY EveryIndexBelow, ReadersRemember
<1> QED  BY <1>1, <1>2, PTL

\* RankAgrees of Locator: a rank counted from the superblocks' prefixes is the
\* number of members between the two indices.
THEOREM LocatorRanksAgree ==
  ASSUME NEW CONSTANT L, EveryIndex(L)
  PROVE  ReadersSpec => []RankAgrees
<1>1. ReadersOK(L) => RankAgrees
  <2> SUFFICES ASSUME ReadersOK(L), loc # NoLocator, NEW lo \in Indices, NEW hi \in Indices
               PROVE  LocatorRank(map, loc, lo, hi) = RankOf(Members(map), lo, hi)
    BY DEF RankAgrees
  <2>1. /\ Readable(map, L) /\ map.chunks # << >> /\ loc = Build(map.chunks)
        /\ lo \in Nat /\ hi \in Nat /\ L \in Nat
    BY IndicesAssumption, SoundIsReadable, EveryIndexBelow DEF ReadersOK, LocatorOK
  <2>2. Members(map) = Bits(map.chunks)  BY <2>1, MembersAreBits
  <2>3. LocatorRank(map, Build(map.chunks), lo, hi) = RankOf(Members(map), lo, hi)
    BY <2>1, <2>2, RankIs
  <2> QED  BY <2>1, <2>3
<1>2. ReadersSpec => []ReadersOK(L)  BY EveryIndexBelow, ReadersRemember
<1> QED  BY <1>1, <1>2, PTL

\* SelectAgrees of Locator: a select that begins at a superblock finds the n-th
\* member of the whole set.
THEOREM LocatorSelectsAgree ==
  ASSUME NEW CONSTANT L, EveryIndex(L)
  PROVE  ReadersSpec => []SelectAgrees
<1>1. ReadersOK(L) => SelectAgrees
  <2> SUFFICES ASSUME ReadersOK(L), loc # NoLocator, NEW n \in Indices
               PROVE  LocatorSelect(map, loc, n) = SelectOf(Members(map), n)
    BY DEF SelectAgrees
  <2>1. /\ Readable(map, L) /\ map.chunks # << >> /\ loc = Build(map.chunks)
        /\ n \in Nat /\ L \in Nat
    BY IndicesAssumption, SoundIsReadable, EveryIndexBelow DEF ReadersOK, LocatorOK
  <2>2. Members(map) = Bits(map.chunks)  BY <2>1, MembersAreBits
  <2>3. LocatorSelect(map, Build(map.chunks), n) = SelectOf(Members(map), n)
    BY <2>1, <2>2, SelectIs
  <2> QED  BY <2>1, <2>3
<1>2. ReadersSpec => []ReadersOK(L)  BY EveryIndexBelow, ReadersRemember
<1> QED  BY <1>1, <1>2, PTL

----------------------------------------------------------------------------
(* The n-th of some numbers.                                               *)

\* Each of them is the n-th for the number n of those below it, and no other.
LEMMA NthOnly ==
  ASSUME NEW S, NEW top, Low(S, top), NEW i \in S
  PROVE  /\ Nth(S, Cardinality(LowerPart(S, i))) = i
         /\ Cardinality(LowerPart(S, i)) \in Nat
         /\ Cardinality(LowerPart(S, i)) < Cardinality(S)
<1> DEFINE n == Cardinality(LowerPart(S, i))
<1>1. \A k \in S : k \in Nat  BY DEF Low
<1>2. \A k \in S : Cardinality(LowerPart(S, k)) \in Nat  BY LowerIsFinite
<1>3. ASSUME NEW k \in S, Cardinality(LowerPart(S, k)) = n  PROVE k = i
  <2>1. CASE k < i
    <3>1. Cardinality(LowerPart(S, k)) < Cardinality(LowerPart(S, i))
      BY <1>1, <2>1, LowerGrows
    <3> QED  BY <1>2, <1>3, <3>1
  <2>2. CASE i < k
    <3>1. Cardinality(LowerPart(S, i)) < Cardinality(LowerPart(S, k))
      BY <1>1, <2>2, LowerGrows
    <3> QED  BY <1>2, <1>3, <3>1
  <2> QED  BY <1>1, <2>1, <2>2
<1>4. \A k \in S : Cardinality({x \in S : x < k}) = n <=> k = i
  BY <1>3 DEF LowerPart
<1>5. n < Cardinality(S)
  <2>1. top \in Nat /\ i \in Nat /\ i < top /\ LowerPart(S, top) = S
    BY LowerAtTheEnds
  <2>2. Cardinality(LowerPart(S, i)) < Cardinality(LowerPart(S, top))
    BY <2>1, LowerGrows
  <2> QED  BY <2>1, <2>2
<1>6. n \in Nat  BY <1>2
<1> HIDE DEF n
<1>7. Nth(S, n) = i  BY <1>4 DEF Nth
<1> QED  BY <1>5, <1>6, <1>7 DEF n

\* There is an n-th for each n less than their number.
LEMMA NthIs ==
  ASSUME NEW S, NEW top, Low(S, top), NEW n \in Nat, n < Cardinality(S)
  PROVE  /\ Nth(S, n) \in S /\ Nth(S, n) \in Nat
         /\ Cardinality(LowerPart(S, Nth(S, n))) = n
<1>1. PICK i \in S : i \in Nat /\ Cardinality(LowerPart(S, i)) = n  BY HasSoManyBelow
<1>2. Nth(S, Cardinality(LowerPart(S, i))) = i  BY <1>1, NthOnly
<1> QED  BY <1>1, <1>2

\* A later one is greater.
LEMMA NthAscends ==
  ASSUME NEW S, NEW top, Low(S, top), NEW m \in Nat, NEW n \in Nat, m < n,
         n < Cardinality(S)
  PROVE  Nth(S, m) < Nth(S, n)
<1>0. Cardinality(S) \in Nat /\ m < Cardinality(S)
  <2>1. Cardinality(S) \in Nat  BY LowerIsFinite
  <2> QED  BY <2>1
<1>1. /\ Nth(S, m) \in S /\ Nth(S, m) \in Nat /\ Cardinality(LowerPart(S, Nth(S, m))) = m
      /\ Nth(S, n) \in S /\ Nth(S, n) \in Nat /\ Cardinality(LowerPart(S, Nth(S, n))) = n
  BY <1>0, NthIs
<1> DEFINE x == Nth(S, m)
           y == Nth(S, n)
<1> HIDE DEF x, y
<1>2. /\ x \in S /\ x \in Nat /\ Cardinality(LowerPart(S, x)) = m
      /\ y \in S /\ y \in Nat /\ Cardinality(LowerPart(S, y)) = n
  BY <1>1 DEF x, y
<1>3. y # x  BY <1>2
<1>4. ~(y < x)
  <2> SUFFICES ASSUME y < x  PROVE FALSE  OBVIOUS
  <2>1. Cardinality(LowerPart(S, y)) < Cardinality(LowerPart(S, x))  BY <1>2, LowerGrows
  <2> QED  BY <1>2, <2>1
<1>5. x < y  BY <1>2, <1>3, <1>4
<1> QED  BY <1>5 DEF x, y

\* S falls into P and W, and P lies below W.
InParts(S, P, W, top) ==
  Low(S, top) /\ S = P \cup W /\ \A x \in P, y \in W : x < y

\* Numbers of which one part lies below the other are counted part by part.
LEMMA OrderedParts ==
  ASSUME NEW S, NEW top, NEW P, NEW W, InParts(S, P, W, top)
  PROVE  /\ Low(P, top) /\ Low(W, top) /\ P \cap W = {}
         /\ Cardinality(S) \in Nat /\ Cardinality(P) \in Nat /\ Cardinality(W) \in Nat
         /\ Cardinality(S) = Cardinality(P) + Cardinality(W)
<1> USE DEF InParts
<1>1. Low(P, top) /\ Low(W, top) /\ \A x \in S : x \in Nat  BY DEF Low
<1>2. P \cap W = {}
  <2> SUFFICES ASSUME NEW x \in P, x \in W  PROVE FALSE  OBVIOUS
  <2>1. x < x /\ x \in Nat  BY <1>1
  <2> QED  BY <2>1
<1>3. IsFiniteSet(S) /\ S = P \cup W  BY LowerIsFinite
<1>4. /\ IsFiniteSet(P) /\ IsFiniteSet(W)
      /\ Cardinality(S) \in Nat /\ Cardinality(P) \in Nat /\ Cardinality(W) \in Nat
      /\ Cardinality(S) = Cardinality(P) + Cardinality(W)
  BY ONLY <1>2, <1>3, CountParts
<1> QED  BY <1>1, <1>2, <1>4

\* The first of them are those of the lower part, the later ones those of the other.
LEMMA NthOfParts ==
  ASSUME NEW S, NEW top, NEW P, NEW W, InParts(S, P, W, top),
         NEW n \in Nat, n < Cardinality(S)
  PROVE  /\ n < Cardinality(P) => Nth(S, n) = Nth(P, n)
         /\ ~(n < Cardinality(P)) =>
              /\ n - Cardinality(P) \in Nat /\ n - Cardinality(P) < Cardinality(W)
              /\ Nth(S, n) = Nth(W, n - Cardinality(P))
<1> Low(S, top) /\ S = P \cup W /\ \A x \in P, y \in W : x < y  BY DEF InParts
<1>1. \A x \in S : x \in Nat  BY DEF Low
<1>2. Low(P, top) /\ Low(W, top) /\ P \cap W = {}  BY OrderedParts
<1>3. /\ Cardinality(S) \in Nat /\ Cardinality(P) \in Nat /\ Cardinality(W) \in Nat
      /\ Cardinality(S) = Cardinality(P) + Cardinality(W)
  BY OrderedParts
<1>4. ASSUME n < Cardinality(P)  PROVE Nth(S, n) = Nth(P, n)
  <2> DEFINE i == Nth(P, n)
  <2>1. i \in P /\ Cardinality(LowerPart(P, i)) = n  BY <1>2, <1>4, NthIs
  <2> HIDE DEF i
  <2>2. \A y \in W : ~(y < i)
    <3> SUFFICES ASSUME NEW y \in W, y < i  PROVE FALSE  OBVIOUS
    <3>1. i < y /\ i \in Nat /\ y \in Nat  BY <1>1, <2>1
    <3> QED  BY ONLY <3>1, y < i
  <2>3. LowerPart(S, i) = LowerPart(P, i)  BY <2>2 DEF LowerPart
  <2>4. i \in S  BY <2>1
  <2>5. Nth(S, Cardinality(LowerPart(S, i))) = i  BY <2>4, NthOnly
  <2>6. Nth(S, n) = i  BY <2>1, <2>3, <2>5
  <2> QED  BY <2>6 DEF i
<1>5. ASSUME ~(n < Cardinality(P))
      PROVE  /\ n - Cardinality(P) \in Nat /\ n - Cardinality(P) < Cardinality(W)
             /\ Nth(S, n) = Nth(W, n - Cardinality(P))
  <2> DEFINE p == n - Cardinality(P)
             i == Nth(W, p)
  <2>1. p \in Nat /\ p < Cardinality(W) /\ n = Cardinality(P) + p  BY <1>3, <1>5
  <2> HIDE DEF p
  <2>2. i \in W /\ Cardinality(LowerPart(W, i)) = p  BY <1>2, <2>1, NthIs
  <2> HIDE DEF i
  <2>3. i \in S /\ LowerPart(S, i) = P \cup LowerPart(W, i)  BY <2>2 DEF LowerPart
  <2>4. Cardinality(LowerPart(S, i)) = n
    <3> DEFINE A == LowerPart(S, i)
               B == LowerPart(W, i)
    <3>1. IsFiniteSet(A) /\ A = P \cup B /\ P \cap B = {}
      <4>1. B \subseteq W  BY DEF LowerPart
      <4>2. IsFiniteSet(A)  BY LowerIsFinite
      <4> QED  BY <1>2, <2>3, <4>1, <4>2
    <3> HIDE DEF A, B
    <3>2. Cardinality(A) = Cardinality(P) + Cardinality(B)  BY <3>1, CountParts
    <3> QED  BY <2>1, <2>2, <3>2 DEF A, B
  <2>5. Nth(S, Cardinality(LowerPart(S, i))) = i  BY <2>3, NthOnly
  <2>6. Nth(S, n) = i  BY <2>4, <2>5
  <2>7. p \in Nat /\ p < Cardinality(W) /\ Nth(S, n) = Nth(W, p)  BY <2>1, <2>6 DEF i
  <2> QED  BY <2>7 DEF p
<1> QED  BY <1>4, <1>5

\* Numbers moved up by some distance keep their order.
LEMMA NthMoves ==
  ASSUME NEW D, NEW top, Low(D, top), NEW by \in Nat
  PROVE  LET T == {by + i : i \in D}
         IN /\ Low(T, by + top) /\ Cardinality(T) = Cardinality(D)
            /\ \A n \in Nat : n < Cardinality(D) => Nth(T, n) = by + Nth(D, n)
<1> DEFINE T == {by + i : i \in D}
<1>1. \A i \in D : i \in Nat /\ i < top /\ by + i \in 0 .. by + top - 1  BY DEF Low
<1>2. Low(T, by + top)
  <2>1. T \in SUBSET (0 .. by + top - 1)  BY <1>1
  <2>2. by + top \in Nat  BY DEF Low
  <2> QED  BY <2>1, <2>2 DEF Low
<1>3. ASSUME NEW U \in SUBSET D
      PROVE  Cardinality({by + i : i \in U}) = Cardinality(U)
  <2> DEFINE V == {by + i : i \in U}
             f == [i \in U |-> by + i]
  <2>1. IsFiniteSet(U)
    <3>1. IsFiniteSet(D)  BY LowerIsFinite
    <3> QED  BY <3>1, CountPart
  <2>2. f \in [U -> V] /\ (\A y \in V : \E i \in U : f[i] = y)  OBVIOUS
  <2>3. \A i, k \in U : f[i] = f[k] => i = k
    <3>1. \A i, k \in U : by + i = by + k => i = k  BY <1>1
    <3> QED  BY <3>1
  <2> HIDE DEF f, V
  <2>4. f \in Bijection(U, V)  BY <2>2, <2>3, Fun_IsBij
  <2>5. ExistsBijection(U, V)  BY <2>4 DEF ExistsBijection
  <2>6. Cardinality(V) = Cardinality(U)  BY <2>1, <2>5, FS_Bijection
  <2> QED  BY <2>6 DEF V
<1>4. Cardinality(T) = Cardinality(D)
  <2>1. D \in SUBSET D  OBVIOUS
  <2> QED  BY <1>3, <2>1
<1>5. ASSUME NEW n \in Nat, n < Cardinality(D)  PROVE Nth(T, n) = by + Nth(D, n)
  <2> DEFINE i == Nth(D, n)
             x == by + i
             U == LowerPart(D, i)
  <2>1. i \in D /\ Cardinality(U) = n  BY <1>5, NthIs
  <2> HIDE DEF i
  <2>2. x \in T  BY <2>1
  <2>3. LowerPart(T, x) = {by + k : k \in U}
    <3>1. \A k \in D : by + k < by + i <=> k < i  BY <1>1, <2>1
    <3> QED  BY <3>1 DEF LowerPart
  <2>4. Cardinality(LowerPart(T, x)) = n
    <3>1. U \in SUBSET D  BY DEF LowerPart
    <3> HIDE DEF U
    <3>2. Cardinality({by + k : k \in U}) = Cardinality(U)  BY <1>3, <3>1
    <3> QED  BY <2>1, <2>3, <3>2
  <2> HIDE DEF x, T, U
  <2>5. Nth(T, Cardinality(LowerPart(T, x))) = x  BY <1>2, <2>2, NthOnly
  <2> QED  BY <2>4, <2>5 DEF i, x
<1> QED  BY <1>2, <1>4, <1>5

----------------------------------------------------------------------------
(* Folds.                                                                  *)

\* Two functions of the parts of a finite set that agree on none of it, and on a
\* part when they agree on it without some element, agree on all of it.
LEMMA FoldsAgree ==
  ASSUME NEW S, IsFiniteSet(S), NEW F, NEW G, F[{}] = G[{}],
         \A t \in SUBSET S : t # {} =>
           \E x \in t : F[t \ {x}] = G[t \ {x}] => F[t] = G[t]
  PROVE  F[S] = G[S]
<1> DEFINE U == {t \in SUBSET S : F[t] # G[t]}
           T == {Cardinality(t) : t \in U}
<1>1. \A t \in SUBSET S : IsFiniteSet(t) /\ Cardinality(t) \in Nat  BY CountPart
<1>2. ASSUME T # {}  PROVE FALSE
  <2>1. T \in SUBSET Nat  BY <1>1
  <2>2. PICK m \in T : \A k \in T : m <= k  BY <1>2, <2>1, LeastElement
  <2>3. PICK t \in U : m = Cardinality(t)  BY <2>2
  <2>4. t \in SUBSET S /\ F[t] # G[t] /\ t # {}  BY <2>3
  <2>5. PICK x \in t : F[t \ {x}] = G[t \ {x}] => F[t] = G[t]  BY <2>4
  <2> DEFINE r == t \ {x}
  <2>6. r \in SUBSET S  BY <2>4
  <2>7. Cardinality(r) = m - 1
    <3>1. IsFiniteSet(t)  BY <1>1, <2>4
    <3> QED  BY <2>3, <2>5, <3>1, FS_RemoveElement
  <2>8. r \in U  BY <2>4, <2>5, <2>6
  <2>9. Cardinality(r) \in T  BY <2>8
  <2>10. m <= m - 1 /\ m \in Nat  BY <2>1, <2>2, <2>7, <2>9
  <2> QED  BY <2>10
<1>3. S \in SUBSET S  OBVIOUS
<1> QED  BY <1>2, <1>3

----------------------------------------------------------------------------
(* What some of the chunks hold.                                           *)

HeldBy(s, t) == UNION {BitsOf(s[j]) : j \in t}

\* None of the chunks hold nothing, and all of them what the stream holds.
LEMMA HeldByEnds ==
  ASSUME NEW s, NEW hi \in Nat, StreamOK(s, 0, hi)
  PROVE  /\ HeldBy(s, {}) = {} /\ HeldBy(s, DOMAIN s) = Bits(s)
         /\ DOMAIN s = 1 .. Len(s) /\ Len(s) \in Nat /\ IsFiniteSet(DOMAIN s)
         /\ \A t \in SUBSET DOMAIN s : Low(HeldBy(s, t), hi)
<1>1. DOMAIN s = 1 .. Len(s) /\ Len(s) \in Nat  BY LenProperties DEF StreamOK
<1>2. IsFiniteSet(1 .. Len(s))  BY <1>1, FS_Interval
<1>3. HeldBy(s, {}) = {} /\ HeldBy(s, 1 .. Len(s)) = Bits(s)  BY DEF HeldBy, Bits
<1>4. ASSUME NEW t \in SUBSET DOMAIN s, NEW x \in HeldBy(s, t)  PROVE x \in 0 .. hi - 1
  <2>1. PICK j \in t : x \in BitsOf(s[j])  BY DEF HeldBy
  <2>2. j \in 1 .. Len(s)  BY <1>1
  <2>3. x \in Nat /\ EndOf(s[j]) \in Nat /\ x < EndOf(s[j])  BY <2>1, <2>2, HeldWithin
  <2>4. EndOf(s[j]) <= hi  BY <2>2 DEF StreamOK
  <2> QED  BY <2>3, <2>4
<1>5. \A t \in SUBSET DOMAIN s : Low(HeldBy(s, t), hi)
  <2> SUFFICES ASSUME NEW t \in SUBSET DOMAIN s  PROVE Low(HeldBy(s, t), hi)  OBVIOUS
  <2>1. HeldBy(s, t) \subseteq 0 .. hi - 1  BY <1>4
  <2> QED  BY <2>1 DEF Low
<1> QED  BY <1>1, <1>2, <1>3, <1>5

\* One of them holds what the others do not.
LEMMA HeldByOneMore ==
  ASSUME NEW s, NEW hi \in Nat, StreamOK(s, 0, hi), NEW t \in SUBSET DOMAIN s, NEW m \in t
  PROVE  /\ m \in 1 .. Len(s) /\ ChunkOK(s[m]) /\ t \ {m} \in SUBSET DOMAIN s
         /\ HeldBy(s, t) = HeldBy(s, t \ {m}) \cup BitsOf(s[m])
         /\ HeldBy(s, t \ {m}) \cap BitsOf(s[m]) = {}
<1>1. DOMAIN s = 1 .. Len(s)  BY HeldByEnds
<1>2. m \in 1 .. Len(s) /\ ChunkOK(s[m])  BY <1>1 DEF StreamOK
<1>3. HeldBy(s, t) = HeldBy(s, t \ {m}) \cup BitsOf(s[m])
  <2>1. t = (t \ {m}) \cup {m}  OBVIOUS
  <2>2. {BitsOf(s[j]) : j \in t} = {BitsOf(s[j]) : j \in t \ {m}} \cup {BitsOf(s[m])}
    BY <2>1
  <2> QED  BY <2>2 DEF HeldBy
<1>4. HeldBy(s, t \ {m}) \cap BitsOf(s[m]) = {}
  <2> SUFFICES ASSUME NEW x \in HeldBy(s, t \ {m}), x \in BitsOf(s[m])  PROVE FALSE
    OBVIOUS
  <2>1. PICK j \in t \ {m} : x \in BitsOf(s[j])  BY DEF HeldBy
  <2>2. j \in 1 .. Len(s) /\ j # m  BY <1>1
  <2>3. j = m  BY <1>2, <2>1, <2>2, HeldApart
  <2> QED  BY <2>2, <2>3
<1> QED  BY <1>2, <1>3, <1>4

\* The last of them holds greater indices than the others.
LEMMA HeldByLast ==
  ASSUME NEW s, NEW hi \in Nat, StreamOK(s, 0, hi), NEW t \in SUBSET DOMAIN s, t # {}
  PROVE  /\ Max(t) \in t
         /\ \A x \in HeldBy(s, t \ {Max(t)}), y \in BitsOf(s[Max(t)]) : x < y
<1> DEFINE m == Max(t)
<1>1. DOMAIN s = 1 .. Len(s) /\ Len(s) \in Nat  BY HeldByEnds
<1>2. m \in t /\ \A j \in t : j <= m
  <2>1. t \in SUBSET Nat /\ \A j \in t : j <= Len(s)  BY <1>1
  <2> QED  BY <1>1, <2>1, MaxIsGreatest
<1> HIDE DEF m
<1>3. ASSUME NEW x \in HeldBy(s, t \ {m}), NEW y \in BitsOf(s[m])  PROVE x < y
  <2>1. PICK j \in t \ {m} : x \in BitsOf(s[j])  BY DEF HeldBy
  <2>2. j \in 1 .. Len(s) /\ m \in 1 .. Len(s) /\ j < m
    <3>1. j \in 1 .. Len(s) /\ m \in 1 .. Len(s) /\ j <= m /\ j # m  BY <1>1, <1>2
    <3> QED  BY <3>1
  <2>3. x < s[m].start  BY <2>1, <2>2, HeldAscends
  <2>4. y \in Nat /\ s[m].start \in Nat /\ s[m].start <= y  BY <2>2, HeldWithin
  <2>5. x \in Nat  BY <2>1 DEF BitsOf
  <2> QED  BY <2>3, <2>4, <2>5
<1> QED  BY <1>2, <1>3 DEF m

\* No chunk holds an index at or past the end of the last.
LEMMA HeldBeyond ==
  ASSUME NEW s, NEW hi \in Nat, StreamOK(s, 0, hi)
  PROVE  /\ Beyond(s) \in Nat
         /\ \A x \in Bits(s) : x \in Nat /\ x < Beyond(s)
<1>1. s \in Seq(Chunks) /\ Len(s) \in Nat  BY LenProperties DEF StreamOK
<1>2. CASE s = << >>
  <2>1. Len(s) = 0 /\ Beyond(s) = 0  BY <1>2, EmptySeq DEF Beyond
  <2> QED  BY <2>1 DEF Bits
<1>3. CASE s # << >>
  <2> DEFINE n == Len(s)
  <2>1. n \in 1 .. Len(s) /\ n \in Nat  BY <1>1, <1>3, EmptySeq
  <2>2. Beyond(s) = EndOf(s[n])  BY <1>3 DEF Beyond, Last, EndOf
  <2>3. EndOf(s[n]) \in Nat /\ s[n].start \in Nat  BY <2>1, ChunkExtent DEF StreamOK
  <2>4. ASSUME NEW x \in Bits(s)  PROVE x \in Nat /\ x < EndOf(s[n])
    <3>1. PICK k \in 1 .. Len(s) : x \in BitsOf(s[k])  BY DEF Bits
    <3>2. x \in Nat  BY <3>1 DEF BitsOf
    <3>3. CASE k = n  BY <3>1, <3>3 DEF BitsOf
    <3>4. CASE k # n
      <4>1. k < n  BY <2>1, <3>4
      <4>2. x < s[n].start  BY <2>1, <3>1, <4>1, HeldAscends
      <4>3. s[n].start <= EndOf(s[n])
        BY <2>1, ChunkExtent, ChunkCapPositive DEF StreamOK
      <4> QED  BY <2>3, <3>2, <4>2, <4>3
    <3> QED  BY <3>3, <3>4, <3>2
  <2> QED  BY <2>2, <2>3, <2>4
<1> QED  BY <1>2, <1>3

----------------------------------------------------------------------------
(* sm_rank.                                                                *)

Within(S, lo, hi) == {x \in S : lo <= x /\ x <= hi}

\* __sm_chunk_rank of a chunk the range meets counts the chunk's members in the
\* range.
LEMMA RankInIs ==
  ASSUME NEW c, ChunkOK(c), NEW lo \in Nat, NEW hi \in Nat, c.start <= hi, lo < EndOf(c)
  PROVE  RankIn(c, lo, hi) = Cardinality(Within(BitsOf(c), lo, hi))
<1> DEFINE a == c.start
           n == Capacity(c)
           from == Greater(lo, a) - a
           D == {i \in from .. Lesser(hi - a, n - 1) : IsSet(c, i)}
<1>1. a \in Nat /\ n \in Nat /\ EndOf(c) = a + n /\ n >= 1
  BY ChunkExtent, RunLengthBounds, ChunkCapPositive DEF EndOf
<1>2. ~(IsRLE(c) /\ c.len = 0)
  <2>1. IsRLE(c) => c.len \in 1 .. c.cap  BY DEF ChunkOK
  <2>2. c.len \in 1 .. c.cap => c.len # 0  OBVIOUS
  <2> QED  BY <2>1, <2>2
<1>3. from \in Nat /\ from < n  BY <1>1 DEF Greater
<1>4. RankIn(c, lo, hi) = Cardinality(D)
  <2>1. ~(from >= n)  BY <1>1, <1>3
  <2>2. RankIn(c, lo, hi) =
          Cardinality({i \in from .. Lesser(hi - a, n - 1) :
                         IsSet(c, i) \/ (IsRLE(c) /\ c.len = 0)})
    BY <2>1 DEF RankIn, ChunkRank
  <2> QED  BY <1>2, <2>2
<1>5. \A i \in Int : i \in from .. Lesser(hi - a, n - 1) <=>
                      0 <= i /\ i < n /\ lo <= a + i /\ a + i <= hi
  BY <1>1 DEF Greater, Lesser
<1>6. Low(D, n)
  <2>1. \A i \in D : i \in Int  BY <1>1, <1>3
  <2>2. \A i \in D : i \in 0 .. n - 1  BY <1>1, <1>5, <2>1
  <2> HIDE DEF D
  <2> QED  BY <1>1, <2>2 DEF Low
<1>7. Within(BitsOf(c), lo, hi) = {a + i : i \in D}
  <2>1. ASSUME NEW x \in Within(BitsOf(c), lo, hi)  PROVE x \in {a + i : i \in D}
    <3> DEFINE i == x - a
    <3>1. x \in Nat /\ a <= x /\ x < a + n /\ IsSet(c, i) /\ lo <= x /\ x <= hi
      BY <1>1 DEF Within, BitsOf
    <3>2. i \in Int /\ a + i = x /\ 0 <= i /\ i < n  BY <1>1, <3>1
    <3> HIDE DEF i
    <3>3. i \in from .. Lesser(hi - a, n - 1)  BY <1>5, <3>1, <3>2
    <3> QED  BY <3>1, <3>2, <3>3
  <2>2. ASSUME NEW i \in D  PROVE a + i \in Within(BitsOf(c), lo, hi)
    <3>1. i \in Int /\ IsSet(c, i)  BY <1>1, <1>3
    <3>2. 0 <= i /\ i < n /\ lo <= a + i /\ a + i <= hi  BY <1>5, <3>1
    <3>3. a + i \in Nat /\ a <= a + i /\ a + i < a + n /\ (a + i) - a = i
      BY <1>1, <3>1, <3>2
    <3> QED  BY <1>1, <3>1, <3>2, <3>3 DEF Within, BitsOf
  <2> QED  BY <2>1, <2>2
<1> HIDE DEF D
<1>8. Cardinality({a + i : i \in D}) = Cardinality(D)
  <2> HIDE DEF a, n
  <2> QED  BY <1>1, <1>6, NthMoves
<1> QED  BY <1>4, <1>7, <1>8

\* The sum over the chunks a range meets.
LEMMA RankSums ==
  ASSUME NEW s, NEW lo, NEW hi
  PROVE  OnesIn(s, lo, hi)
           = (CHOOSE it :
                it = [t \in SUBSET Meeting(s, lo, hi) |->
                        IF t = {} THEN 0
                        ELSE RankIn(s[CHOOSE x \in t : TRUE], lo, hi)
                             + it[t \ {CHOOSE x \in t : TRUE}]])[Meeting(s, lo, hi)]
  BY DEF OnesIn, MapThenSumSet, MapThenFoldSet

\* sm_rank of the set bits: the number of the members in the range.
LEMMA OnesInIs ==
  ASSUME NEW s, NEW top \in Nat, StreamOK(s, 0, top), NEW lo \in Nat, NEW hi \in Nat
  PROVE  OnesIn(s, lo, hi) = Cardinality(Within(Bits(s), lo, hi))
<1> DEFINE M == Meeting(s, lo, hi)
           one(t) == CHOOSE x \in t : TRUE
           held(t) == Within(HeldBy(s, t), lo, hi)
           G == [t \in SUBSET M |-> Cardinality(held(t))]
           A(it) == it = [t \in SUBSET M |->
                            IF t = {} THEN 0
                            ELSE RankIn(s[one(t)], lo, hi) + it[t \ {one(t)}]]
           F == CHOOSE it : A(it)
<1>1. M \subseteq DOMAIN s /\ IsFiniteSet(M)
  <2>1. M \subseteq DOMAIN s  BY DEF Meeting
  <2>2. IsFiniteSet(DOMAIN s)  BY HeldByEnds
  <2> HIDE DEF M
  <2> QED  BY <2>1, <2>2, CountPart
<1>2. \A j \in M : s[j].start <= hi /\ lo < EndOf(s[j])  BY DEF Meeting, EndOf
<1>3. held({}) = {}  BY HeldByEnds DEF Within
<1>4. held(M) = Within(Bits(s), lo, hi)
  <2>1. ASSUME NEW x \in Bits(s), lo <= x, x <= hi  PROVE x \in HeldBy(s, M)
    <3>1. PICK j \in 1 .. Len(s) : x \in BitsOf(s[j])  BY DEF Bits
    <3>2. /\ x \in Nat /\ s[j].start \in Nat /\ EndOf(s[j]) \in Nat
          /\ s[j].start <= x /\ x < EndOf(s[j])
      BY <3>1, HeldWithin
    <3>3. s[j].start <= hi /\ lo < EndOf(s[j])  BY <2>1, <3>2
    <3>4. j \in DOMAIN s  BY HeldByEnds
    <3>5. j \in M  BY <3>3, <3>4 DEF Meeting, EndOf
    <3> HIDE DEF M
    <3> QED  BY <3>1, <3>5 DEF HeldBy
  <2>2. HeldBy(s, M) \subseteq Bits(s)
    <3>1. DOMAIN s = 1 .. Len(s)  BY HeldByEnds
    <3> HIDE DEF M
    <3> QED  BY <1>1, <3>1 DEF HeldBy, Bits
  <2> HIDE DEF M
  <2> QED  BY <2>1, <2>2 DEF Within
<1>5. \A t \in SUBSET M : IsFiniteSet(held(t)) /\ Cardinality(held(t)) \in Nat
  <2> SUFFICES ASSUME NEW t \in SUBSET M
               PROVE  IsFiniteSet(held(t)) /\ Cardinality(held(t)) \in Nat
    OBVIOUS
  <2>1. Low(HeldBy(s, t), top)  BY <1>1, HeldByEnds
  <2>2. IsFiniteSet(HeldBy(s, t))  BY <2>1, LowerIsFinite
  <2>3. held(t) \subseteq HeldBy(s, t)  BY DEF Within
  <2> QED  BY <2>2, <2>3, CountPart
<1> HIDE DEF M
<1>6. ASSUME NEW t \in SUBSET M, t # {}
      PROVE  /\ one(t) \in t
             /\ Cardinality(held(t)) =
                  RankIn(s[one(t)], lo, hi) + Cardinality(held(t \ {one(t)}))
  <2> DEFINE m == one(t)
             B == Within(BitsOf(s[m]), lo, hi)
             P == held(t \ {m})
             S == held(t)
  <2>1. m \in t  BY <1>6
  <2>2. m \in M /\ t \in SUBSET DOMAIN s  BY <1>1, <2>1
  <2> HIDE DEF m
  <2>3. /\ ChunkOK(s[m]) /\ HeldBy(s, t) = HeldBy(s, t \ {m}) \cup BitsOf(s[m])
        /\ HeldBy(s, t \ {m}) \cap BitsOf(s[m]) = {}
    BY <2>1, <2>2, HeldByOneMore
  <2>4. RankIn(s[m], lo, hi) = Cardinality(B)
    BY <1>2, <2>2, <2>3, RankInIs
  <2>5. S = P \cup B /\ P \cap B = {}  BY <2>3 DEF Within
  <2>6. IsFiniteSet(S)  BY <1>5
  <2> HIDE DEF S, P, B
  <2>7. /\ Cardinality(P) \in Nat /\ Cardinality(B) \in Nat
        /\ Cardinality(S) = Cardinality(P) + Cardinality(B)
    BY <2>5, <2>6, CountParts
  <2>8. Cardinality(S) = RankIn(s[m], lo, hi) + Cardinality(P)  BY <2>4, <2>7
  <2> QED  BY <2>1, <2>8 DEF S, P, m
<1> HIDE DEF held, one
<1>7. Cardinality({}) = 0  BY FS_EmptySet
<1>8. A(G)
  <2>1. \A t \in SUBSET M :
          G[t] = IF t = {} THEN 0 ELSE RankIn(s[one(t)], lo, hi) + G[t \ {one(t)}]
    <3> SUFFICES ASSUME NEW t \in SUBSET M
                 PROVE  G[t] = IF t = {} THEN 0
                               ELSE RankIn(s[one(t)], lo, hi) + G[t \ {one(t)}]
      OBVIOUS
    <3>1. CASE t = {}  BY <1>3, <1>7, <3>1
    <3>2. CASE t # {}
      <4>1. t \ {one(t)} \in SUBSET M  OBVIOUS
      <4>2. G[t] = Cardinality(held(t)) /\ G[t \ {one(t)}] = Cardinality(held(t \ {one(t)}))
        BY <4>1
      <4> HIDE DEF G
      <4> QED  BY <1>6, <3>2, <4>2
    <3> QED  BY <3>1, <3>2
  <2>2. G = [t \in SUBSET M |-> G[t]]  OBVIOUS
  <2> HIDE DEF G
  <2> QED  BY <2>1, <2>2
<1>9. A(F)
  <2> HIDE DEF A, G
  <2> QED  BY <1>8
<1>10. OnesIn(s, lo, hi) = F[M]  BY RankSums DEF one, M
<1> HIDE DEF F
<1>11. F[{}] = G[{}]
  <2>1. {} \in SUBSET M  OBVIOUS
  <2> QED  BY <1>8, <1>9, <2>1
<1>12. \A t \in SUBSET M : t # {} =>
         \E x \in t : F[t \ {x}] = G[t \ {x}] => F[t] = G[t]
  <2> SUFFICES ASSUME NEW t \in SUBSET M, t # {}
               PROVE  \E x \in t : F[t \ {x}] = G[t \ {x}] => F[t] = G[t]
    OBVIOUS
  <2>1. one(t) \in t  BY <1>6
  <2>2. /\ F[t] = RankIn(s[one(t)], lo, hi) + F[t \ {one(t)}]
        /\ G[t] = RankIn(s[one(t)], lo, hi) + G[t \ {one(t)}]
    <3> HIDE DEF G
    <3> QED  BY <1>8, <1>9
  <2> HIDE DEF G
  <2> QED  BY <2>1, <2>2
<1>13. G[M] = Cardinality(held(M))  OBVIOUS
<1> HIDE DEF G
<1>14. F[M] = G[M]  BY <1>1, <1>11, <1>12, FoldsAgree
<1> QED  BY <1>4, <1>10, <1>13, <1>14

----------------------------------------------------------------------------
(* sm_select of set bits.                                                  *)

\* The places of a chunk where its bit is set are those of its members.
LEMMA PlacesAre ==
  ASSUME NEW c, ChunkOK(c)
  PROVE  /\ Low(Candidates(c, TRUE), Capacity(c)) /\ c.start \in Nat
         /\ BitsOf(c) = {c.start + i : i \in Candidates(c, TRUE)}
<1> DEFINE a == c.start
           n == Capacity(c)
           D == Candidates(c, TRUE)
<1>1. a \in Nat /\ n \in Nat /\ EndOf(c) = a + n
  BY ChunkExtent, RunLengthBounds DEF EndOf
<1>2. Present(c) = 0 .. n - 1
  <2>1. CASE IsRLE(c)  BY <2>1 DEF Present, Capacity
  <2>2. CASE ~IsRLE(c)
    <3>1. c.flag \in [Vec -> Flag]  BY <2>2, SparseKind DEF ChunkOK, Chunks, SparseChunks
    <3>2. Absent(c.flag) = {}  BY <3>1 DEF Absent, Flag
    <3>3. n = ChunkCap  BY <2>2, SparseCapacity
    <3> QED  BY <2>2, <3>2, <3>3 DEF Present
  <2> QED  BY <2>1, <2>2
<1>3. \A i : i \in D <=> i \in 0 .. n - 1 /\ IsSet(c, i)
  <2> HIDE DEF n
  <2>1. \A i : (IsSet(c, i) = TRUE) <=> IsSet(c, i)  BY IsSetIsTruth
  <2> QED  BY <1>2, <2>1 DEF Candidates
<1> HIDE DEF D
<1>4. Low(D, n)  BY <1>1, <1>3 DEF Low
<1>5. ASSUME NEW x \in BitsOf(c)  PROVE x \in {a + i : i \in D}
  <2> DEFINE i == x - a
  <2>1. x \in Nat /\ a <= x /\ x < a + n /\ IsSet(c, i)  BY <1>1 DEF BitsOf
  <2>2. i \in 0 .. n - 1 /\ a + i = x  BY <1>1, <2>1
  <2> HIDE DEF i
  <2> QED  BY <1>3, <2>1, <2>2
<1>6. ASSUME NEW i \in D  PROVE a + i \in BitsOf(c)
  <2>1. i \in 0 .. n - 1 /\ IsSet(c, i)  BY <1>3
  <2>2. a + i \in Nat /\ a <= a + i /\ a + i < a + n /\ (a + i) - a = i  BY <1>1, <2>1
  <2> QED  BY <1>1, <2>1, <2>2 DEF BitsOf
<1> QED  BY <1>1, <1>4, <1>5, <1>6 DEF D

\* What a search for the n-th of some numbers has come to when it is past them.
SearchFor(T, n) ==
  IF n < Cardinality(T) THEN Found(Nth(T, n)) ELSE Searching(n - Cardinality(T))

\* __sm_chunk_select takes the search past one chunk more.
LEMMA SelectInIs ==
  ASSUME NEW c, ChunkOK(c), NEW top, NEW P, Low(P \cup BitsOf(c), top),
         \A x \in P, y \in BitsOf(c) : x < y, NEW n \in Nat
  PROVE  SelectIn(SearchFor(P, n), c, TRUE) = SearchFor(P \cup BitsOf(c), n)
<1> DEFINE W == BitsOf(c)
           S == P \cup W
           D == Candidates(c, TRUE)
           r == SearchFor(P, n)
           p == n - Cardinality(P)
<1>1. /\ Low(P, top) /\ Low(W, top) /\ P \cap W = {}
      /\ Cardinality(S) \in Nat /\ Cardinality(P) \in Nat /\ Cardinality(W) \in Nat
      /\ Cardinality(S) = Cardinality(P) + Cardinality(W)
  <2>1. InParts(S, P, W, top)  BY DEF InParts
  <2> HIDE DEF S, W
  <2> QED  BY ONLY <2>1, OrderedParts
<1>2. /\ Cardinality(W) = Cardinality(D) /\ c.start \in Nat
      /\ \A k \in Nat : k < Cardinality(D) => Nth(W, k) = c.start + Nth(D, k)
  <2>1. Low(D, Capacity(c)) /\ c.start \in Nat /\ W = {c.start + i : i \in D}
    BY PlacesAre
  <2> HIDE DEF D, W
  <2> QED  BY <2>1, NthMoves
<1>3. ASSUME n < Cardinality(S)
      PROVE  /\ n < Cardinality(P) => Nth(S, n) = Nth(P, n)
             /\ ~(n < Cardinality(P)) =>
                  /\ p \in Nat /\ p < Cardinality(W) /\ Nth(S, n) = Nth(W, p)
  <2>1. InParts(S, P, W, top) /\ n \in Nat /\ n < Cardinality(S)
    BY <1>3 DEF InParts
  <2> HIDE DEF S, W
  <2> QED  BY ONLY <2>1, NthOfParts
<1>4. SelectIn(r, c, TRUE) =
        IF r.index # NoIndex THEN r
        ELSE IF r.left < Cardinality(D) THEN Found(c.start + Nth(D, r.left))
        ELSE Searching(r.left - Cardinality(D))
  BY DEF SelectIn
<1> HIDE DEF S, W, D
<1>5. CASE n < Cardinality(P)
  <2>1. r = Found(Nth(P, n)) /\ n < Cardinality(S)  BY <1>1, <1>5 DEF SearchFor
  <2>2. Nth(P, n) \in Nat  BY <1>1, <1>5, NthIs
  <2>3. r.index # NoIndex  BY <2>1, <2>2 DEF Found, NoIndex
  <2>4. Nth(S, n) = Nth(P, n)  BY <1>3, <1>5, <2>1
  <2> HIDE DEF r
  <2>5. SelectIn(r, c, TRUE) = SearchFor(S, n)  BY <1>4, <2>1, <2>3, <2>4 DEF SearchFor
  <2> QED  BY <2>5 DEF r, S, W
<1>6. CASE ~(n < Cardinality(P))
  <2>1. r = Searching(p) /\ p \in Nat /\ n = Cardinality(P) + p  BY <1>1, <1>6 DEF SearchFor
  <2> HIDE DEF r, p
  <2>2. r.index = NoIndex /\ r.left = p  BY <2>1 DEF Searching
  <2>3. CASE p < Cardinality(W)
    <3>1. n < Cardinality(S)  BY <1>1, <2>1, <2>3
    <3>2. Nth(S, n) = c.start + Nth(D, p)  BY <1>2, <1>3, <1>6, <2>1, <2>3, <3>1
    <3>3. SelectIn(r, c, TRUE) = SearchFor(S, n)
      BY <1>2, <1>4, <2>2, <2>3, <3>1, <3>2 DEF SearchFor
    <3> QED  BY <3>3 DEF r, S, W
  <2>4. CASE ~(p < Cardinality(W))
    <3>1. ~(n < Cardinality(S)) /\ n - Cardinality(S) = p - Cardinality(W)
      BY <1>1, <2>1, <2>4
    <3>2. SelectIn(r, c, TRUE) = SearchFor(S, n)
      BY <1>2, <1>4, <2>2, <2>4, <3>1 DEF SearchFor
    <3> QED  BY <3>2 DEF r, S, W
  <2> QED  BY <2>3, <2>4
<1> QED  BY <1>5, <1>6

\* The loop of sm_select.
LEMMA SelectLoops ==
  ASSUME NEW s, NEW n, NEW value
  PROVE  FoldLeft(LAMBDA r, c : SelectIn(r, c, value), Searching(n), s)
           = (CHOOSE it :
                it = [t \in SUBSET DOMAIN s |->
                        IF t = {} THEN Searching(n)
                        ELSE SelectIn(it[t \ {Max(t)}], s[Max(t)], value)])[DOMAIN s]
  BY DEF FoldLeft, MapThenFoldSet

\* sm_select of set bits: the n-th member, or none.
LEMMA SelectOnesIs ==
  ASSUME NEW s, NEW top \in Nat, StreamOK(s, 0, top), NEW n \in Nat
  PROVE  Select(s, n, TRUE) = SearchFor(Bits(s), n).index
<1> DEFINE M == DOMAIN s
           G == [t \in SUBSET M |-> SearchFor(HeldBy(s, t), n)]
           A(it) == it = [t \in SUBSET M |->
                            IF t = {} THEN Searching(n)
                            ELSE SelectIn(it[t \ {Max(t)}], s[Max(t)], TRUE)]
           F == CHOOSE it : A(it)
<1>1. /\ IsFiniteSet(M) /\ HeldBy(s, M) = Bits(s) /\ HeldBy(s, {}) = {}
      /\ \A t \in SUBSET M : Low(HeldBy(s, t), top)
  BY HeldByEnds
<1>2. SearchFor({}, n) = Searching(n)
  <2>1. Cardinality({}) = 0  BY FS_EmptySet
  <2>2. ~(n < 0) /\ n - 0 = n  OBVIOUS
  <2> QED  BY <2>1, <2>2 DEF SearchFor
<1>3. ASSUME NEW t \in SUBSET M, t # {}
      PROVE  /\ Max(t) \in t
             /\ SearchFor(HeldBy(s, t), n) =
                  SelectIn(SearchFor(HeldBy(s, t \ {Max(t)}), n), s[Max(t)], TRUE)
  <2> DEFINE m == Max(t)
             P == HeldBy(s, t \ {m})
             c == s[m]
  <2>1. m \in t /\ \A x \in P, y \in BitsOf(c) : x < y  BY <1>3, HeldByLast
  <2> HIDE DEF m
  <2>2. ChunkOK(c) /\ HeldBy(s, t) = P \cup BitsOf(c)  BY <2>1, HeldByOneMore
  <2>3. Low(P \cup BitsOf(c), top)  BY <1>1, <2>2
  <2> HIDE DEF P, c
  <2>4. SelectIn(SearchFor(P, n), c, TRUE) = SearchFor(P \cup BitsOf(c), n)
    BY <2>1, <2>2, <2>3, SelectInIs
  <2> QED  BY <2>1, <2>2, <2>4 DEF P, c, m
<1>4. A(G)
  <2>1. \A t \in SUBSET M :
          G[t] = IF t = {} THEN Searching(n) ELSE SelectIn(G[t \ {Max(t)}], s[Max(t)], TRUE)
    <3> SUFFICES ASSUME NEW t \in SUBSET M
                 PROVE  G[t] = IF t = {} THEN Searching(n)
                               ELSE SelectIn(G[t \ {Max(t)}], s[Max(t)], TRUE)
      OBVIOUS
    <3>1. CASE t = {}  BY <1>1, <1>2, <3>1
    <3>2. CASE t # {}
      <4>1. t \ {Max(t)} \in SUBSET M  OBVIOUS
      <4>2. /\ G[t] = SearchFor(HeldBy(s, t), n)
            /\ G[t \ {Max(t)}] = SearchFor(HeldBy(s, t \ {Max(t)}), n)
        BY <4>1
      <4> HIDE DEF G
      <4> QED  BY <1>3, <3>2, <4>2
    <3> QED  BY <3>1, <3>2
  <2>2. G = [t \in SUBSET M |-> G[t]]  OBVIOUS
  <2> HIDE DEF G
  <2> QED  BY <2>1, <2>2
<1>5. A(F)
  <2> HIDE DEF A, G
  <2> QED  BY <1>4
<1>6. FoldLeft(LAMBDA r, c : SelectIn(r, c, TRUE), Searching(n), s) = F[M]
  BY SelectLoops
<1> HIDE DEF F
<1>7. F[{}] = G[{}]
  <2>1. {} \in SUBSET M  OBVIOUS
  <2> QED  BY <1>4, <1>5, <2>1
<1>8. \A t \in SUBSET M : t # {} =>
        \E x \in t : F[t \ {x}] = G[t \ {x}] => F[t] = G[t]
  <2> SUFFICES ASSUME NEW t \in SUBSET M, t # {}
               PROVE  \E x \in t : F[t \ {x}] = G[t \ {x}] => F[t] = G[t]
    OBVIOUS
  <2>1. Max(t) \in t  BY <1>3
  <2>2. /\ F[t] = SelectIn(F[t \ {Max(t)}], s[Max(t)], TRUE)
        /\ G[t] = SelectIn(G[t \ {Max(t)}], s[Max(t)], TRUE)
    <3> HIDE DEF G
    <3> QED  BY <1>4, <1>5
  <2> HIDE DEF G
  <2> QED  BY <2>1, <2>2
<1>9. G[M] = SearchFor(Bits(s), n)  BY <1>1
<1> HIDE DEF G
<1>10. F[M] = G[M]  BY <1>1, <1>7, <1>8, FoldsAgree
<1>11. CASE s = << >>
  <2>1. Len(s) = 0  BY <1>11, EmptySeq
  <2>2. Bits(s) = {}  BY <2>1 DEF Bits
  <2>3. SearchFor(Bits(s), n).index = NoIndex  BY <1>2, <2>2 DEF Searching
  <2>4. Select(s, n, TRUE) = NoIndex  BY <1>11 DEF Select
  <2> QED  BY <2>3, <2>4
<1>12. CASE s # << >>
  <2>1. Select(s, n, TRUE) =
          FoldLeft(LAMBDA r, c : SelectIn(r, c, TRUE), Searching(n), s).index
    BY <1>12 DEF Select
  <2>2. Select(s, n, TRUE) = F[M].index  BY <1>6, <2>1
  <2> QED  BY <1>9, <1>10, <2>2
<1> QED  BY <1>11, <1>12

----------------------------------------------------------------------------
(* sm_span of set bits.                                                    *)

\* Passed: the matching bits before idx are the members below it.
LEMMA PassedIs ==
  ASSUME NEW s, NEW top \in Nat, StreamOK(s, 0, top), NEW idx \in Nat
  PROVE  Passed(s, idx, TRUE) = Cardinality(LowerPart(Bits(s), idx))
<1> DEFINE B == Bits(s)
<1>1. Low(B, top)  BY HeldByEnds
<1> HIDE DEF B
<1>2. CASE idx = 0
  <2>1. LowerPart(B, 0) = {}  BY <1>1, LowerAtTheEnds
  <2>2. Cardinality({}) = 0  BY FS_EmptySet
  <2>3. Passed(s, 0, TRUE) = 0  BY DEF Passed
  <2> QED  BY <1>2, <2>1, <2>2, <2>3 DEF B
<1>3. CASE idx # 0
  <2>1. idx - 1 \in Nat /\ 0 \in Nat /\ ~(0 > idx - 1)  BY <1>3
  <2>2. Passed(s, idx, TRUE) = OnesIn(s, 0, idx - 1)  BY <1>3, <2>1 DEF Passed, Rank
  <2>3. OnesIn(s, 0, idx - 1) = Cardinality(Within(B, 0, idx - 1))
    BY <2>1, OnesInIs DEF B
  <2>4. \A x \in B : x \in Nat  BY <1>1, LowerAtTheEnds
  <2>5. \A x \in B : x < idx <=> 0 <= x /\ x <= idx - 1  BY <2>4
  <2>6. Within(B, 0, idx - 1) = LowerPart(B, idx)  BY <2>5 DEF Within, LowerPart
  <2> QED  BY <2>2, <2>3, <2>6 DEF B
<1> QED  BY <1>2, <1>3

\* A range has as many members as indices when all of its indices are members.
LEMMA FullRange ==
  ASSUME NEW B, NEW top, Low(B, top), NEW at \in Nat, NEW len \in Nat, len >= 1
  PROVE  Cardinality(Within(B, at, at + len - 1)) >= len <=> at .. at + len - 1 \subseteq B
<1> DEFINE a == at
           b == at + len - 1
           R == a .. b
           W == Within(B, a, b)
<1>1. a \in Int /\ b \in Int /\ ~(a > b) /\ (b - a) + 1 = len  OBVIOUS
<1>2. \A x \in B : x \in Nat  BY LowerAtTheEnds
<1>3. \A x : x \in W <=> x \in B /\ x \in R  BY <1>1, <1>2 DEF Within
<1> HIDE DEF a, b
<1>4. IsFiniteSet(R) /\ Cardinality(R) = len
  <2>1. IsFiniteSet(a .. b) /\ Cardinality(a .. b) = (b - a) + 1  BY <1>1, FS_Interval
  <2> QED  BY <1>1, <2>1
<1> HIDE DEF R, W
<1>5. W \in SUBSET R  BY <1>3
<1>6. Cardinality(W) <= Cardinality(R) /\ Cardinality(W) \in Nat  BY <1>4, <1>5, CountPart
<1>7. IsFiniteSet(W) /\ Cardinality(W) <= Cardinality(R)
      /\ (Cardinality(R) = Cardinality(W) => R = W)
  BY <1>4, <1>5, FS_Subset
<1>8. Cardinality(W) >= len <=> W = R  BY <1>4, <1>6, <1>7
<1>9. W = R <=> R \subseteq B  BY <1>3, <1>5
<1>10. Cardinality(W) >= len <=> R \subseteq B  BY <1>8, <1>9
<1> QED  BY <1>10 DEF W, R, a, b

\* The n-th member ends the search when there is none, or a span begins at it.
LEMMA EndsIs ==
  ASSUME NEW s, NEW top \in Nat, StreamOK(s, 0, top), NEW len \in Nat, len >= 1,
         NEW n \in Nat
  PROVE  EndsSearch(s, Select(s, n, TRUE), len, TRUE) <=>
           \/ ~(n < Cardinality(Bits(s)))
           \/ Nth(Bits(s), n) .. Nth(Bits(s), n) + len - 1 \subseteq Bits(s)
<1> DEFINE B == Bits(s)
           at == Select(s, n, TRUE)
<1>1. Low(B, top)  BY HeldByEnds
<1>2. at = SearchFor(B, n).index  BY SelectOnesIs
<1>3. CASE ~(n < Cardinality(B))
  <2>1. at = NoIndex  BY <1>2, <1>3 DEF SearchFor, Searching
  <2> HIDE DEF at
  <2> QED  BY <1>3, <2>1 DEF EndsSearch, at
<1>4. CASE n < Cardinality(B)
  <2>1. at = Nth(B, n)  BY <1>2, <1>4 DEF SearchFor, Found
  <2> HIDE DEF at, B
  <2>2. at \in B /\ at \in Nat  BY <1>1, <1>4, <2>1, NthIs
  <2>3. at # NoIndex  BY <2>2 DEF NoIndex
  <2>4. ~(at > at + len - 1) /\ at + len - 1 \in Nat  BY <2>2
  <2>5. Rank(s, at, at + len - 1, TRUE) = Cardinality(Within(B, at, at + len - 1))
    <3>1. Rank(s, at, at + len - 1, TRUE) = OnesIn(s, at, at + len - 1)  BY <2>4 DEF Rank
    <3>2. OnesIn(s, at, at + len - 1) = Cardinality(Within(B, at, at + len - 1))
      BY <2>2, <2>4, OnesInIs DEF B
    <3> QED  BY <3>1, <3>2
  <2>6. Rank(s, at, at + len - 1, TRUE) >= len <=> at .. at + len - 1 \subseteq B
    BY <1>1, <2>2, <2>5, FullRange
  <2>7. len = 1 => at .. at + len - 1 \subseteq B
    <3>1. ASSUME len = 1  PROVE at .. at + len - 1 = {at}  BY <2>2, <3>1
    <3> QED  BY <2>2, <3>1
  <2>8. EndsSearch(s, at, len, TRUE) <=> at .. at + len - 1 \subseteq B
    BY <2>3, <2>6, <2>7 DEF EndsSearch
  <2> QED  BY <1>4, <2>1, <2>8 DEF B, at
<1> QED  BY <1>3, <1>4

\* There are no more members than indices before the end of the last chunk.
LEMMA FewerThanBeyond ==
  ASSUME NEW s, NEW top \in Nat, StreamOK(s, 0, top)
  PROVE  /\ Beyond(s) \in Nat /\ Cardinality(Bits(s)) \in Nat
         /\ Cardinality(Bits(s)) <= Beyond(s)
<1> DEFINE b == Beyond(s)
<1>1. b \in Nat /\ \A x \in Bits(s) : x \in Nat /\ x < b  BY HeldBeyond
<1> HIDE DEF b
<1>2. IsFiniteSet(0 .. b - 1) /\ Cardinality(0 .. b - 1) = b
  <2> DEFINE z == 0
             y == b - 1
  <2>1. z \in Int /\ y \in Int /\ (IF z > y THEN 0 ELSE y - z + 1) = b  BY <1>1
  <2> HIDE DEF z, y
  <2>2. IsFiniteSet(z .. y) /\ Cardinality(z .. y) = IF z > y THEN 0 ELSE y - z + 1
    BY <2>1, FS_Interval
  <2> QED  BY <2>1, <2>2 DEF z, y
<1>3. Bits(s) \subseteq 0 .. b - 1  BY <1>1
<1>4. Cardinality(Bits(s)) \in Nat /\ Cardinality(Bits(s)) <= b  BY <1>2, <1>3, CountPart
<1> QED  BY <1>1, <1>4 DEF b

\* The spans a search at or after idx has to choose among.
Sought(s, top, idx, len, spans) ==
  /\ top \in Nat /\ StreamOK(s, 0, top) /\ idx \in Nat /\ len \in Nat /\ len >= 1
  /\ spans = {i \in Bits(s) : i >= idx /\ i .. i + len - 1 \subseteq Bits(s)}

\* sm_span finds the first index at or after idx where a span of members begins.
LEMMA SpanIs ==
  ASSUME NEW s, NEW top, NEW idx, NEW len, NEW spans, Sought(s, top, idx, len, spans)
  PROVE  Span(s, idx, len, TRUE) = LeastOf(spans)
<1> DEFINE B == Bits(s)
           k == Cardinality(LowerPart(B, idx))
           N == Cardinality(B)
           b == Beyond(s)
           Ends(n) == EndsSearch(s, Select(s, n, TRUE), len, TRUE)
           Begins(i) == i .. i + len - 1 \subseteq B
           IsFirst(n) == Ends(n) /\ \A p \in k .. n - 1 : ~Ends(p)
           f == CHOOSE n \in k .. k + b : IsFirst(n)
<1> /\ top \in Nat /\ StreamOK(s, 0, top) /\ idx \in Nat /\ len \in Nat /\ len >= 1
    /\ spans = {i \in Bits(s) : i >= idx /\ i .. i + len - 1 \subseteq Bits(s)}
  BY DEF Sought
<1>1. Low(B, top) /\ \A x \in B : x \in Nat
  <2>1. Low(B, top)  BY HeldByEnds
  <2> HIDE DEF B
  <2> QED  BY <2>1, LowerAtTheEnds
<1>2. b \in Nat /\ N \in Nat /\ N <= b  BY FewerThanBeyond
<1>3. k \in Nat /\ k <= N
  <2> HIDE DEF B
  <2> QED  BY <1>1, LowerIsFinite
<1>4. Span(s, idx, len, TRUE) = Select(s, f, TRUE)
  <2>1. Passed(s, idx, TRUE) = k  BY PassedIs
  <2> HIDE DEF k
  <2> QED  BY <2>1 DEF Span, SpanFrom
<1>5. \A n \in Nat : Ends(n) <=> ~(n < N) \/ Begins(Nth(B, n))  BY EndsIs
<1>6. \A n \in Nat : Select(s, n, TRUE) = IF n < N THEN Nth(B, n) ELSE NoIndex
  <2>1. ASSUME NEW n \in Nat
        PROVE  Select(s, n, TRUE) = IF n < N THEN Nth(B, n) ELSE NoIndex
    <3>1. Select(s, n, TRUE) = SearchFor(B, n).index  BY SelectOnesIs
    <3> HIDE DEF B
    <3> QED  BY <3>1 DEF SearchFor, Found, Searching
  <2> QED  BY <2>1
<1>7. spans = {i \in B : i >= idx /\ Begins(i)}  OBVIOUS
<1> HIDE DEF Ends, Begins, B, N, b
<1>8. f \in k .. k + b /\ IsFirst(f)
  <2> DEFINE C == {n \in k .. k + b : Ends(n)}
  <2>1. N \in C
    <3>1. ~(N < N)  BY <1>2
    <3>2. Ends(N)  BY <1>2, <1>5, <3>1
    <3>3. N \in k .. k + b  BY <1>2, <1>3
    <3> QED  BY <3>2, <3>3
  <2>2. \A n \in k .. k + b : n \in Nat  BY <1>2, <1>3
  <2>3. C \in SUBSET Nat  BY <2>2
  <2> HIDE DEF k
  <2>4. PICK m \in C : \A y \in C : m <= y  BY <2>1, <2>3, LeastElement
  <2>5. m \in k .. k + b /\ Ends(m)  BY <2>4
  <2>6. ASSUME NEW p \in k .. m - 1  PROVE ~Ends(p)
    <3>1. p \in k .. k + b /\ ~(m <= p)  BY <1>2, <1>3, <2>5
    <3> QED  BY <2>4, <3>1
  <2>7. \E n \in k .. k + b : IsFirst(n)  BY <2>5, <2>6
  <2> HIDE DEF IsFirst
  <2> QED  BY <2>7
<1>9. f \in Nat /\ k <= f  BY <1>2, <1>3, <1>8
<1> HIDE DEF f
<1>10. \A n \in Nat : k <= n /\ n < f => ~Ends(n)
  <2>1. ASSUME NEW n \in Nat, k <= n, n < f  PROVE ~Ends(n)
    <3>1. n \in k .. f - 1  BY <1>3, <1>9, <2>1
    <3> QED  BY <1>8, <3>1
  <2> QED  BY <2>1
<1>11. ASSUME NEW i \in spans
       PROVE  LET n == Cardinality(LowerPart(B, i))
              IN n \in Nat /\ n < N /\ k <= n /\ Ends(n) /\ i \in B
  <2> DEFINE n == Cardinality(LowerPart(B, i))
  <2>1. i \in B /\ i >= idx /\ Begins(i) /\ i \in Nat  BY <1>1, <1>7
  <2>2. n \in Nat /\ n < N /\ Nth(B, n) = i  BY <1>1, <2>1, NthOnly DEF N
  <2>3. k <= n
    <3>1. \A x \in B : x < idx => x < i  BY <1>1, <2>1
    <3>2. LowerPart(B, idx) \subseteq LowerPart(B, i)  BY <3>1 DEF LowerPart
    <3>3. IsFiniteSet(LowerPart(B, i))  BY <1>1, LowerIsFinite
    <3> QED  BY <3>2, <3>3, CountPart
  <2> HIDE DEF n
  <2>4. Ends(n)  BY <1>5, <2>1, <2>2
  <2> QED  BY <2>1, <2>2, <2>3, <2>4 DEF n
<1> HIDE DEF k
<1>12. CASE ~(f < N)
  <2>1. spans = {}
    <3> SUFFICES ASSUME NEW i \in spans  PROVE FALSE  OBVIOUS
    <3> DEFINE n == Cardinality(LowerPart(B, i))
    <3>1. n \in Nat /\ n < N /\ k <= n /\ Ends(n)  BY <1>11
    <3> HIDE DEF n
    <3>2. n < f  BY <1>2, <1>9, <1>12, <3>1
    <3> QED  BY <1>10, <3>1, <3>2
  <2>2. Span(s, idx, len, TRUE) = NoIndex  BY <1>4, <1>6, <1>9, <1>12
  <2> QED  BY <2>1, <2>2 DEF LeastOf
<1>13. CASE f < N
  <2> DEFINE v == Nth(B, f)
  <2>1. v \in B /\ v \in Nat /\ Cardinality(LowerPart(B, v)) = f
    BY <1>1, <1>9, <1>13, NthIs DEF N
  <2>2. Begins(v)
    <3>1. Ends(f)  BY <1>8
    <3> QED  BY <1>5, <1>9, <1>13, <3>1
  <2>3. Span(s, idx, len, TRUE) = v  BY <1>4, <1>6, <1>9, <1>13
  <2> HIDE DEF v
  <2>4. v >= idx
    <3>1. ASSUME v < idx  PROVE FALSE
      <4>1. Cardinality(LowerPart(B, v)) < Cardinality(LowerPart(B, idx))
        BY <1>1, <2>1, <3>1, LowerGrows
      <4>2. f < k  BY <2>1, <4>1 DEF k
      <4> QED  BY <1>3, <1>9, <4>2
    <3> QED  BY <2>1, <3>1
  <2>5. v \in spans  BY <1>7, <2>1, <2>2, <2>4
  <2>6. ASSUME NEW i \in spans  PROVE v <= i
    <3> DEFINE n == Cardinality(LowerPart(B, i))
    <3>1. n \in Nat /\ k <= n /\ Ends(n) /\ i \in B  BY <1>11
    <3>2. ASSUME i < v  PROVE FALSE
      <4>1. n < f
        <5>1. Cardinality(LowerPart(B, i)) < Cardinality(LowerPart(B, v))
          BY <1>1, <2>1, <3>1, <3>2, LowerGrows
        <5> QED  BY <2>1, <5>1
      <4> HIDE DEF n
      <4> QED  BY <1>10, <3>1, <4>1
    <3>3. i \in Nat  BY <1>1, <3>1
    <3> QED  BY <2>1, <3>2, <3>3
  <2>7. spans \in SUBSET Nat /\ spans # {}  BY <1>1, <1>7, <2>5
  <2>8. Min(spans) \in spans /\ \A y \in spans : Min(spans) <= y  BY <2>7, MinIsLeast
  <2>9. Min(spans) = v
    <3>1. Min(spans) \in Nat /\ Min(spans) <= v /\ v <= Min(spans)  BY <2>5, <2>6, <2>7, <2>8
    <3> QED  BY <2>1, <3>1
  <2> QED  BY <2>3, <2>7, <2>9 DEF LeastOf
<1> QED  BY <1>12, <1>13

\* SpanIsFirst of Query: sm_span finds the first span of set bits at or after an
\* index, over however many chunks it reaches, and none only if there is none.
THEOREM SpansAreFirst ==
  ASSUME NEW CONSTANT L, EveryIndex(L)
  PROVE  Spec => []SpanIsFirst
<1>1. Sound(L) => SpanIsFirst
  <2> SUFFICES ASSUME Sound(L), NEW idx \in Indices, NEW len \in 1 .. ChunkCap + 1,
                      NEW spans,
                      spans = {i \in Members(map) :
                                 i >= idx /\ i .. i + len - 1 \subseteq Members(map)}
               PROVE  Span(map.chunks, idx, len, TRUE) = LeastOf(spans)
    BY DEF SpanIsFirst, LeastOf
  <2>1. Readable(map, L) /\ L \in Nat  BY SoundIsReadable, EveryIndexBelow
  <2>2. /\ StreamOK(map.chunks, 0, L) /\ Members(map) = Bits(map.chunks)
        /\ idx \in Nat /\ len \in Nat /\ len >= 1
    BY <2>1, MembersAreBits, IndicesAssumption, ChunkCapPositive DEF Readable
  <2>3. Sought(map.chunks, L, idx, len, spans)  BY <2>1, <2>2 DEF Sought
  <2> QED  BY ONLY <2>3, SpanIs
<1>2. Spec => []Sound(L)  BY EveryIndexBelow, MapStaysSound
<1> QED  BY <1>1, <1>2, PTL

----------------------------------------------------------------------------
(* sm_scan.                                                                *)

\* Members in order, one after the other.
LEMMA AscendingIs ==
  ASSUME NEW T, NEW top, Low(T, top)
  PROVE  /\ Ascending(T) \in Seq(Nat) /\ Len(Ascending(T)) = Cardinality(T)
         /\ Cardinality(T) \in Nat
         /\ \A k \in 1 .. Cardinality(T) : Ascending(T)[k] = Nth(T, k - 1)
<1> DEFINE n == Cardinality(T)
           q == [k \in 1 .. n |-> Nth(T, k - 1)]
<1>1. n \in Nat  BY LowerIsFinite
<1>2. \A k \in 1 .. n : Nth(T, k - 1) \in Nat
  <2> SUFFICES ASSUME NEW k \in 1 .. n  PROVE Nth(T, k - 1) \in Nat  OBVIOUS
  <2> DEFINE m == k - 1
  <2>1. m \in Nat /\ m < Cardinality(T)  BY <1>1
  <2> HIDE DEF m, n
  <2>2. Nth(T, m) \in Nat  BY <2>1, NthIs
  <2> QED  BY <2>2 DEF m
<1>3. Ascending(T) = q  BY DEF Ascending
<1> HIDE DEF n
<1>4. q \in Seq(Nat) /\ Len(q) = n /\ \A k \in 1 .. n : q[k] = Nth(T, k - 1)
  BY <1>1, <1>2
<1> HIDE DEF q
<1> QED  BY <1>1, <1>3, <1>4 DEF n

\* Those of a lower part come first.
LEMMA AscendingParts ==
  ASSUME NEW S, NEW top, NEW P, NEW W, InParts(S, P, W, top)
  PROVE  Ascending(S) = Ascending(P) \o Ascending(W)
<1> DEFINE a == Ascending(S)
           b == Ascending(P)
           c == Ascending(W)
           p == Cardinality(P)
           w == Cardinality(W)
<1>1. /\ Low(P, top) /\ Low(W, top) /\ P \cap W = {}
      /\ Cardinality(S) \in Nat /\ p \in Nat /\ w \in Nat /\ Cardinality(S) = p + w
  <2> HIDE DEF a, b, c
  <2>1. InParts(S, P, W, top)  OBVIOUS
  <2> QED  BY ONLY <2>1, OrderedParts
<1>2. a \in Seq(Nat) /\ Len(a) = p + w /\ \A k \in 1 .. p + w : a[k] = Nth(S, k - 1)
  <2>1. /\ a \in Seq(Nat) /\ Len(a) = Cardinality(S) /\ Cardinality(S) \in Nat
        /\ \A k \in 1 .. Cardinality(S) : a[k] = Nth(S, k - 1)
    <3>1. Low(S, top)  BY DEF InParts
    <3> QED  BY <3>1, AscendingIs
  <2> HIDE DEF a, p, w
  <2> QED  BY <1>1, <2>1
<1>3. b \in Seq(Nat) /\ Len(b) = p /\ \A k \in 1 .. p : b[k] = Nth(P, k - 1)
  BY <1>1, AscendingIs
<1>4. c \in Seq(Nat) /\ Len(c) = w /\ \A k \in 1 .. w : c[k] = Nth(W, k - 1)
  BY <1>1, AscendingIs
<1>5. ASSUME NEW m \in Nat, m < p + w
      PROVE  /\ m < p => Nth(S, m) = Nth(P, m)
             /\ ~(m < p) => m - p \in Nat /\ m - p < w /\ Nth(S, m) = Nth(W, m - p)
  <2>1. m < Cardinality(S)  BY <1>1, <1>5
  <2> QED  BY <2>1, NthOfParts
<1> HIDE DEF a, b, c, p, w
<1>6. /\ b \o c \in Seq(Nat) /\ Len(b \o c) = p + w
      /\ \A k \in 1 .. p + w : (b \o c)[k] = IF k <= p THEN b[k] ELSE c[k - p]
  <2>1. /\ b \o c \in Seq(Nat) /\ Len(b \o c) = Len(b) + Len(c)
        /\ \A k \in 1 .. Len(b) + Len(c) :
             (b \o c)[k] = IF k <= Len(b) THEN b[k] ELSE c[k - Len(b)]
    BY <1>3, <1>4, ConcatProperties
  <2> QED  BY <1>3, <1>4, <2>1
<1>7. ASSUME NEW k \in 1 .. p + w  PROVE a[k] = (b \o c)[k]
  <2> DEFINE m == k - 1
  <2>1. m \in Nat /\ m < p + w /\ k = m + 1  BY <1>1
  <2>2. CASE k <= p
    <3>1. m < p /\ k \in 1 .. p  BY <1>1, <2>1, <2>2
    <3>2. b[k] = Nth(P, m)  BY <1>3, <3>1
    <3>3. a[k] = Nth(S, m)  BY <1>2
    <3> HIDE DEF m
    <3>4. Nth(S, m) = Nth(P, m)  BY <1>5, <2>1, <3>1
    <3> QED  BY <1>6, <2>2, <3>2, <3>3, <3>4
  <2>3. CASE ~(k <= p)
    <3>1. ~(m < p) /\ k - p \in 1 .. w /\ (k - p) - 1 = m - p  BY <1>1, <2>1, <2>3
    <3>2. c[k - p] = Nth(W, (k - p) - 1)  BY <1>4, <3>1
    <3>3. c[k - p] = Nth(W, m - p)  BY <3>1, <3>2
    <3>4. a[k] = Nth(S, m)  BY <1>2
    <3> HIDE DEF m
    <3>5. Nth(S, m) = Nth(W, m - p)  BY <1>5, <2>1, <3>1
    <3> QED  BY <1>6, <2>3, <3>3, <3>4, <3>5
  <2> QED  BY <2>2, <2>3
<1>8. a = b \o c
  <2> DEFINE d == b \o c
  <2>1. d \in Seq(Nat) /\ Len(d) = p + w /\ \A k \in 1 .. p + w : a[k] = d[k]
    BY <1>6, <1>7
  <2> HIDE DEF d
  <2>2. a = d  BY <1>2, <2>1, SeqEqual
  <2> QED  BY <2>2 DEF d
<1> QED  BY <1>8 DEF a, b, c

\* Of p places and then w, the first `skip' are skipped: x of the p, y of the w.
Skipping(skip, p, w, x, y) == x = Lesser(skip, p) /\ y = Lesser(skip - x, w)

\* Neither skips more than there is, and together they skip what one would.
LEMMA SkipCounts ==
  ASSUME NEW p \in Nat, NEW w \in Nat, NEW skip \in Nat,
         NEW x, NEW y, Skipping(skip, p, w, x, y)
  PROVE  /\ x \in Nat /\ y \in Nat /\ x <= p /\ y <= w
         /\ Lesser(skip, p + w) = x + y /\ (x < p => y = 0)
<1> USE DEF Skipping
<1>1. CASE skip <= p
  <2>1. x = skip  BY <1>1 DEF Lesser
  <2>2. y = 0  BY <2>1 DEF Lesser
  <2>3. Lesser(skip, p + w) = skip  BY <1>1 DEF Lesser
  <2> QED  BY <1>1, <2>1, <2>2, <2>3
<1>2. CASE ~(skip <= p)
  <2>1. x = p  BY <1>2 DEF Lesser
  <2>2. y = Lesser(skip - p, w) /\ skip - p \in Nat  BY <1>2, <2>1
  <2>3. CASE skip - p <= w
    <3>1. y = skip - p  BY <2>2, <2>3 DEF Lesser
    <3>2. Lesser(skip, p + w) = skip  BY <1>2, <2>3 DEF Lesser
    <3> QED  BY <1>2, <2>1, <2>2, <2>3, <3>1, <3>2
  <2>4. CASE ~(skip - p <= w)
    <3>1. y = w  BY <2>2, <2>4 DEF Lesser
    <3>2. Lesser(skip, p + w) = p + w  BY <1>2, <2>4 DEF Lesser
    <3> QED  BY <1>2, <2>1, <3>1, <3>2
  <2> QED  BY <2>3, <2>4
<1> QED  BY <1>1, <1>2

\* Where the k-th place that is left lies.
LEMMA PlacesLeft ==
  ASSUME NEW p \in Nat, NEW w \in Nat, NEW x \in Nat, NEW y \in Nat,
         x <= p, y <= w, x < p => y = 0, NEW k \in 1 .. (p - x) + (w - y)
  PROVE  /\ k \in Nat /\ k >= 1 /\ x + y + k \in 1 .. p + w
         /\ k <= p - x =>
              x + y + k <= p /\ x + y + k = x + k /\ k \in 1 .. p - x
         /\ ~(k <= p - x) =>
              /\ ~(x + y + k <= p) /\ k - (p - x) \in 1 .. w - y
              /\ (x + y + k) - p = y + (k - (p - x))
<1>1. k \in Nat /\ k >= 1 /\ k <= (p - x) + (w - y) /\ x + y + k \in 1 .. p + w
  OBVIOUS
<1>2. ASSUME k <= p - x
      PROVE  x + y + k <= p /\ x + y + k = x + k /\ k \in 1 .. p - x
  <2>1. y = 0  BY <1>1, <1>2
  <2> QED  BY <1>1, <1>2, <2>1
<1>3. ASSUME ~(k <= p - x)
      PROVE  /\ ~(x + y + k <= p) /\ k - (p - x) \in 1 .. w - y
             /\ (x + y + k) - p = y + (k - (p - x))
  BY <1>1, <1>3
<1> QED  BY <1>1, <1>2, <1>3

\* What is left of two sequences, one after the other, once x elements of the
\* one and y of the other, `skip' of both, are skipped.
LeftOfBoth(skip, a, b, x, y) ==
  /\ x \in Nat /\ y \in Nat /\ Lesser(skip, Len(a) + Len(b)) = x + y
  /\ SubSeq(a \o b, x + y + 1, Len(a) + Len(b))
       = SubSeq(a, x + 1, Len(a)) \o SubSeq(b, y + 1, Len(b))

\* Skipping part by part leaves what skipping in the whole leaves.
LEMMA SkipParts ==
  ASSUME NEW S, NEW a \in Seq(S), NEW b \in Seq(S), NEW skip \in Nat,
         NEW x, NEW y, Skipping(skip, Len(a), Len(b), x, y)
  PROVE  LeftOfBoth(skip, a, b, x, y)
<1> DEFINE p == Len(a)
           w == Len(b)
           c == a \o b
           l == SubSeq(c, x + y + 1, p + w)
           e == SubSeq(a, x + 1, p)
           f == SubSeq(b, y + 1, w)
           g == e \o f
<1>1. /\ p \in Nat /\ w \in Nat
      /\ (\A k \in 1 .. p : a[k] \in S) /\ (\A k \in 1 .. w : b[k] \in S)
  BY LenProperties
<1>2. /\ c \in Seq(S) /\ Len(c) = p + w
      /\ \A k \in 1 .. p + w : c[k] = IF k <= p THEN a[k] ELSE b[k - p]
  BY ConcatProperties
<1>3. \A k \in 1 .. p + w : c[k] \in S
  <2> HIDE DEF c, p, w
  <2>1. Len(c) \in Nat /\ \A k \in 1 .. Len(c) : c[k] \in S  BY <1>2, LenProperties
  <2> QED  BY <1>2, <2>1
<1>4. Skipping(skip, p, w, x, y)  OBVIOUS
<1> HIDE DEF p, w, c
<1>5. /\ x \in Nat /\ y \in Nat /\ x <= p /\ y <= w
      /\ Lesser(skip, p + w) = x + y /\ (x < p => y = 0)
      /\ p \in Nat /\ w \in Nat
  <2>1. /\ p \in Nat /\ w \in Nat /\ skip \in Nat
        /\ Skipping(skip, p, w, x, y)
    BY <1>1, <1>4
  <2>2. /\ x \in Nat /\ y \in Nat /\ x <= p /\ y <= w
        /\ Lesser(skip, p + w) = x + y /\ (x < p => y = 0)
    BY ONLY <2>1, SkipCounts
  <2> QED  BY ONLY <2>1, <2>2
<1>6. /\ l \in Seq(S) /\ Len(l) = (p - x) + (w - y)
      /\ \A k \in 1 .. (p - x) + (w - y) : l[k] = c[x + y + k]
  <2> DEFINE m == x + y + 1
             n == p + w
  <2>1. m \in Int /\ n \in Int /\ \A k \in m .. n : c[k] \in S
    <3>1. m \in Int /\ n \in Int /\ \A k \in m .. n : k \in 1 .. p + w  BY <1>1, <1>5
    <3> QED  BY <1>3, <3>1
  <2>2. (IF m <= n THEN n - m + 1 ELSE 0) = (p - x) + (w - y)
        /\ n - m + 1 = (p - x) + (w - y)
    BY ONLY <1>5
  <2>3. \A k \in Int : m + k - 1 = x + y + k  BY <1>5
  <2>4. l = SubSeq(c, m, n)  OBVIOUS
  <2>5. \A k \in 1 .. (p - x) + (w - y) : k \in Int  BY <1>1, <1>5
  <2> HIDE DEF m, n, l
  <2>6. /\ SubSeq(c, m, n) \in Seq(S)
        /\ Len(SubSeq(c, m, n)) = IF m <= n THEN n - m + 1 ELSE 0
        /\ \A k \in 1 .. n - m + 1 : SubSeq(c, m, n)[k] = c[m + k - 1]
    BY ONLY <2>1, SubSeqProperties
  <2> QED  BY <2>2, <2>3, <2>4, <2>5, <2>6
<1>7. /\ e \in Seq(S) /\ Len(e) = p - x /\ \A k \in 1 .. p - x : e[k] = a[x + k]
  <2> DEFINE m == x + 1
  <2>1. m \in Int /\ p \in Int /\ \A k \in m .. p : a[k] \in S
    <3>1. m \in Int /\ p \in Int /\ \A k \in m .. p : k \in 1 .. p  BY <1>1, <1>5
    <3> QED  BY <1>1, <3>1
  <2>2. (IF m <= p THEN p - m + 1 ELSE 0) = p - x /\ p - m + 1 = p - x  BY <1>1, <1>5
  <2>3. \A k \in Int : m + k - 1 = x + k  BY <1>5
  <2>4. e = SubSeq(a, m, p) /\ \A k \in 1 .. p - x : k \in Int  BY <1>1, <1>5
  <2> HIDE DEF m, e
  <2>5. /\ SubSeq(a, m, p) \in Seq(S)
        /\ Len(SubSeq(a, m, p)) = IF m <= p THEN p - m + 1 ELSE 0
        /\ \A k \in 1 .. p - m + 1 : SubSeq(a, m, p)[k] = a[m + k - 1]
    BY ONLY <2>1, SubSeqProperties
  <2> QED  BY <2>2, <2>3, <2>4, <2>5
<1>8. /\ f \in Seq(S) /\ Len(f) = w - y /\ \A k \in 1 .. w - y : f[k] = b[y + k]
  <2> DEFINE m == y + 1
  <2>1. m \in Int /\ w \in Int /\ \A k \in m .. w : b[k] \in S
    <3>1. m \in Int /\ w \in Int /\ \A k \in m .. w : k \in 1 .. w  BY <1>1, <1>5
    <3> QED  BY <1>1, <3>1
  <2>2. (IF m <= w THEN w - m + 1 ELSE 0) = w - y /\ w - m + 1 = w - y  BY <1>1, <1>5
  <2>3. \A k \in Int : m + k - 1 = y + k  BY <1>5
  <2>4. f = SubSeq(b, m, w) /\ \A k \in 1 .. w - y : k \in Int  BY <1>1, <1>5
  <2> HIDE DEF m, f
  <2>5. /\ SubSeq(b, m, w) \in Seq(S)
        /\ Len(SubSeq(b, m, w)) = IF m <= w THEN w - m + 1 ELSE 0
        /\ \A k \in 1 .. w - m + 1 : SubSeq(b, m, w)[k] = b[m + k - 1]
    BY ONLY <2>1, SubSeqProperties
  <2> QED  BY <2>2, <2>3, <2>4, <2>5
<1> HIDE DEF l, e, f
<1>9. /\ g \in Seq(S) /\ Len(g) = (p - x) + (w - y)
      /\ \A k \in 1 .. (p - x) + (w - y) :
           g[k] = IF k <= p - x THEN e[k] ELSE f[k - (p - x)]
  <2>1. /\ e \o f \in Seq(S) /\ Len(e \o f) = Len(e) + Len(f)
        /\ \A k \in 1 .. Len(e) + Len(f) :
             (e \o f)[k] = IF k <= Len(e) THEN e[k] ELSE f[k - Len(e)]
    <3>1. e \in Seq(S) /\ f \in Seq(S)  BY ONLY <1>7, <1>8
    <3> QED  BY ONLY <3>1, ConcatProperties
  <2> QED  BY <1>7, <1>8, <2>1
<1> HIDE DEF g
<1>10. ASSUME NEW k \in 1 .. (p - x) + (w - y)  PROVE l[k] = g[k]
  <2>1. /\ k \in Nat /\ k >= 1 /\ x + y + k \in 1 .. p + w
        /\ k <= p - x =>
             x + y + k <= p /\ x + y + k = x + k /\ k \in 1 .. p - x
        /\ ~(k <= p - x) =>
             /\ ~(x + y + k <= p) /\ k - (p - x) \in 1 .. w - y
             /\ (x + y + k) - p = y + (k - (p - x))
    <3>1. k \in 1 .. (p - x) + (w - y)  OBVIOUS
    <3> QED  BY ONLY <1>5, <3>1, PlacesLeft
  <2>2. l[k] = IF x + y + k <= p THEN a[x + y + k] ELSE b[(x + y + k) - p]
    BY <1>2, <1>6, <2>1
  <2>3. CASE k <= p - x
    <3>1. x + y + k <= p /\ x + y + k = x + k /\ k \in 1 .. p - x
      BY ONLY <2>1, <2>3
    <3> QED  BY <1>7, <1>9, <2>2, <2>3, <3>1
  <2>4. CASE ~(k <= p - x)
    <3>1. /\ ~(x + y + k <= p) /\ k - (p - x) \in 1 .. w - y
          /\ (x + y + k) - p = y + (k - (p - x))
      BY ONLY <2>1, <2>4
    <3>2. g[k] = f[k - (p - x)] /\ f[k - (p - x)] = b[y + (k - (p - x))]
      BY <1>8, <1>9, <2>4, <3>1
    <3> QED  BY <2>2, <3>1, <3>2
  <2> QED  BY <2>3, <2>4
<1>11. l = g
  <2>1. Len(l) = Len(g) /\ \A k \in 1 .. Len(l) : l[k] = g[k]  BY <1>6, <1>9, <1>10
  <2> QED  BY <1>6, <1>9, <2>1, SeqEqual
<1> QED  BY <1>5, <1>11 DEF l, g, e, f, c, p, w, LeftOfBoth

\* The members a chunk hands over are those it holds, in order.
LEMMA AscendingMembersAre ==
  ASSUME NEW c, ChunkOK(c)
  PROVE  AscendingMembers(c) = Ascending(BitsOf(c))
<1>1. CASE IsRLE(c)
  <2>1. c.len \in 1 .. c.cap /\ RunLength(c) = c.len  BY <1>1, RunLengthBounds DEF ChunkOK
  <2>2. RunLength(c) > 0  BY <2>1
  <2>3. BitsOf(c) = c.start .. c.start + c.len - 1  BY <2>1, <2>2, HeldRun
  <2> QED  BY <1>1, <2>3 DEF AscendingMembers
<1>2. CASE ~IsRLE(c)  BY <1>2, HeldIsMembers DEF AscendingMembers
<1> QED  BY <1>1, <1>2

\* What a scan that skips the first `skip' members has come to when it is past T.
ScanOf(T, skip) ==
  LET skipped == Lesser(skip, Cardinality(T))
  IN Progress(SubSeq(Ascending(T), skipped + 1, Cardinality(T)), skip - skipped)

\* __sm_chunk_scan takes the scan past one chunk more.
LEMMA ScanChunkIs ==
  ASSUME NEW c, ChunkOK(c), NEW top, NEW P, Low(P \cup BitsOf(c), top),
         \A u \in P, v \in BitsOf(c) : u < v, NEW skip \in Nat
  PROVE  ScanChunk(ScanOf(P, skip), c) = ScanOf(P \cup BitsOf(c), skip)
<1> DEFINE W == BitsOf(c)
           S == P \cup W
           a == Ascending(P)
           b == Ascending(W)
           x == Lesser(skip, Cardinality(P))
           y == Lesser(skip - x, Cardinality(W))
           r == ScanOf(P, skip)
<1>1. InParts(S, P, W, top) /\ Low(S, top)  BY DEF InParts
<1>2. AscendingMembers(c) = b  BY AscendingMembersAre
<1> HIDE DEF S, W
<1>3. /\ Low(P, top) /\ Low(W, top) /\ P \cap W = {}
      /\ Cardinality(S) \in Nat /\ Cardinality(P) \in Nat /\ Cardinality(W) \in Nat
      /\ Cardinality(S) = Cardinality(P) + Cardinality(W)
  BY ONLY <1>1, OrderedParts
<1>4. Ascending(S) = a \o b
  <2>1. Ascending(S) = Ascending(P) \o Ascending(W)
    <3> HIDE DEF a, b, x, y, r
    <3> QED  BY ONLY <1>1, AscendingParts
  <2> QED  BY <2>1
<1>5. /\ a \in Seq(Nat) /\ Len(a) = Cardinality(P)
      /\ b \in Seq(Nat) /\ Len(b) = Cardinality(W)
  BY <1>3, AscendingIs
<1>6. r = Progress(SubSeq(a, x + 1, Len(a)), skip - x)  BY <1>5 DEF ScanOf
<1>7. x = Lesser(skip, Len(a)) /\ y = Lesser(skip - x, Len(b))  BY <1>5
<1> HIDE DEF a, b, r, x, y
<1>8. /\ x \in Nat /\ y \in Nat /\ Lesser(skip, Len(a) + Len(b)) = x + y
      /\ SubSeq(a \o b, x + y + 1, Len(a) + Len(b))
           = SubSeq(a, x + 1, Len(a)) \o SubSeq(b, y + 1, Len(b))
  <2> DEFINE N == Nat
  <2>1. a \in Seq(N) /\ b \in Seq(N) /\ skip \in Nat
        /\ Skipping(skip, Len(a), Len(b), x, y)
    BY <1>5, <1>7 DEF Skipping
  <2> HIDE DEF N
  <2>2. LeftOfBoth(skip, a, b, x, y)  BY ONLY <2>1, SkipParts
  <2> QED  BY <2>2 DEF LeftOfBoth
<1>9. r.seen = SubSeq(a, x + 1, Len(a)) /\ r.skip = skip - x  BY <1>6 DEF Progress
<1>10. ScanChunk(r, c) =
         Progress(r.seen \o SubSeq(b, Lesser(r.skip, Len(b)) + 1, Len(b)),
                  r.skip - Lesser(r.skip, Len(b)))
  BY <1>2 DEF ScanChunk
<1>11. ScanChunk(r, c) =
         Progress(SubSeq(a, x + 1, Len(a)) \o SubSeq(b, y + 1, Len(b)), (skip - x) - y)
  BY <1>7, <1>9, <1>10
<1>12. ScanOf(S, skip) =
         Progress(SubSeq(a \o b, (x + y) + 1, Len(a) + Len(b)), skip - (x + y))
  <2>1. Cardinality(S) = Len(a) + Len(b)  BY <1>3, <1>5
  <2> QED  BY <1>4, <1>8, <2>1 DEF ScanOf
<1>13. (skip - x) - y = skip - (x + y)  BY <1>8
<1>14. ScanChunk(r, c) = ScanOf(S, skip)  BY <1>8, <1>11, <1>12, <1>13
<1> QED  BY <1>14 DEF r, S, W

\* The loop of sm_scan.
LEMMA ScanLoops ==
  ASSUME NEW s, NEW skip
  PROVE  Scan(s, skip)
           = (CHOOSE it :
                it = [t \in SUBSET DOMAIN s |->
                        IF t = {} THEN Progress(<< >>, skip)
                        ELSE ScanChunk(it[t \ {Max(t)}], s[Max(t)])])[DOMAIN s].seen
  BY DEF Scan, FoldLeft, MapThenFoldSet

\* A scan of no members has skipped none.
LEMMA ScanOfNone ==
  ASSUME NEW skip \in Nat
  PROVE  ScanOf({}, skip) = Progress(<< >>, skip)
<1> DEFINE T == {}
           q == Ascending(T)
           u == SubSeq(q, 1, 0)
<1>1. Cardinality(T) = 0  BY FS_EmptySet
<1>2. Lesser(skip, 0) = 0 /\ skip - 0 = skip /\ 0 + 1 = 1  BY DEF Lesser
<1>3. ScanOf(T, skip) = Progress(u, skip)  BY <1>1, <1>2 DEF ScanOf
<1>4. u = << >>  BY SubSeqEmpty
<1> QED  BY <1>3, <1>4

\* sm_scan: the members in order, but for the first `skip'.
LEMMA ScanIs ==
  ASSUME NEW s, NEW top \in Nat, StreamOK(s, 0, top), NEW skip \in Nat
  PROVE  Scan(s, skip) = ScanOf(Bits(s), skip).seen
<1> DEFINE M == DOMAIN s
           none == Progress(<< >>, skip)
           G == [t \in SUBSET M |-> ScanOf(HeldBy(s, t), skip)]
           A(it) == it = [t \in SUBSET M |->
                            IF t = {} THEN none
                            ELSE ScanChunk(it[t \ {Max(t)}], s[Max(t)])]
           F == CHOOSE it : A(it)
<1>1. /\ IsFiniteSet(M) /\ HeldBy(s, M) = Bits(s) /\ HeldBy(s, {}) = {}
      /\ \A t \in SUBSET M : Low(HeldBy(s, t), top)
  BY HeldByEnds
<1>2. ScanOf({}, skip) = none  BY ScanOfNone
<1>3. ASSUME NEW t \in SUBSET M, t # {}
      PROVE  /\ Max(t) \in t
             /\ ScanOf(HeldBy(s, t), skip) =
                  ScanChunk(ScanOf(HeldBy(s, t \ {Max(t)}), skip), s[Max(t)])
  <2> DEFINE m == Max(t)
             P == HeldBy(s, t \ {m})
             c == s[m]
  <2>1. m \in t /\ \A u \in P, v \in BitsOf(c) : u < v  BY <1>3, HeldByLast
  <2> HIDE DEF m
  <2>2. ChunkOK(c) /\ HeldBy(s, t) = P \cup BitsOf(c)  BY <2>1, HeldByOneMore
  <2>3. Low(P \cup BitsOf(c), top)  BY <1>1, <2>2
  <2> HIDE DEF P, c
  <2>4. ScanChunk(ScanOf(P, skip), c) = ScanOf(P \cup BitsOf(c), skip)
    BY <2>1, <2>2, <2>3, ScanChunkIs
  <2> QED  BY <2>1, <2>2, <2>4 DEF P, c, m
<1>4. Scan(s, skip) = F[M].seen  BY ScanLoops
<1> HIDE DEF none
<1>5. A(G)
  <2>1. \A t \in SUBSET M :
          G[t] = IF t = {} THEN none ELSE ScanChunk(G[t \ {Max(t)}], s[Max(t)])
    <3> SUFFICES ASSUME NEW t \in SUBSET M
                 PROVE  G[t] = IF t = {} THEN none
                               ELSE ScanChunk(G[t \ {Max(t)}], s[Max(t)])
      OBVIOUS
    <3>1. CASE t = {}  BY <1>1, <1>2, <3>1
    <3>2. CASE t # {}
      <4>1. t \ {Max(t)} \in SUBSET M  OBVIOUS
      <4>2. /\ G[t] = ScanOf(HeldBy(s, t), skip)
            /\ G[t \ {Max(t)}] = ScanOf(HeldBy(s, t \ {Max(t)}), skip)
        BY <4>1
      <4> HIDE DEF G
      <4> QED  BY <1>3, <3>2, <4>2
    <3> QED  BY <3>1, <3>2
  <2>2. G = [t \in SUBSET M |-> G[t]]  OBVIOUS
  <2> HIDE DEF G
  <2> QED  BY <2>1, <2>2
<1>6. A(F)
  <2> HIDE DEF A, G
  <2> QED  BY <1>5
<1> HIDE DEF F
<1>7. F[{}] = G[{}]
  <2>1. {} \in SUBSET M  OBVIOUS
  <2> QED  BY <1>5, <1>6, <2>1
<1>8. \A t \in SUBSET M : t # {} =>
        \E x \in t : F[t \ {x}] = G[t \ {x}] => F[t] = G[t]
  <2> SUFFICES ASSUME NEW t \in SUBSET M, t # {}
               PROVE  \E x \in t : F[t \ {x}] = G[t \ {x}] => F[t] = G[t]
    OBVIOUS
  <2>1. Max(t) \in t  BY <1>3
  <2>2. /\ F[t] = ScanChunk(F[t \ {Max(t)}], s[Max(t)])
        /\ G[t] = ScanChunk(G[t \ {Max(t)}], s[Max(t)])
    <3> HIDE DEF G
    <3> QED  BY <1>5, <1>6
  <2> HIDE DEF G
  <2> QED  BY <2>1, <2>2
<1>9. G[M] = ScanOf(Bits(s), skip)  BY <1>1
<1> HIDE DEF G
<1>10. F[M] = G[M]  BY <1>1, <1>7, <1>8, FoldsAgree
<1> QED  BY <1>4, <1>9, <1>10

\* ScanSkipsExactly of Query: sm_scan hands over every member but the first
\* `skip' once, in order, wherever among the chunks the skipping ends.
THEOREM ScansSkipExactly ==
  ASSUME NEW CONSTANT L, EveryIndex(L)
  PROVE  Spec => []ScanSkipsExactly
<1>1. Sound(L) => ScanSkipsExactly
  <2> SUFFICES ASSUME Sound(L), NEW skip \in Indices
               PROVE  Scan(map.chunks, skip) =
                        SubSeq(Ascending(Members(map)), skip + 1, Cardinality(Members(map)))
    BY DEF ScanSkipsExactly
  <2> DEFINE s == map.chunks
             B == Bits(s)
             n == Cardinality(B)
             q == Ascending(B)
  <2>1. Readable(map, L) /\ L \in Nat /\ skip \in Nat
    BY SoundIsReadable, EveryIndexBelow, IndicesAssumption
  <2>2. StreamOK(s, 0, L) /\ Members(map) = B  BY <2>1, MembersAreBits DEF Readable
  <2> HIDE DEF s
  <2>3. Scan(s, skip) = ScanOf(B, skip).seen  BY <2>1, <2>2, ScanIs
  <2>4. n \in Nat
    <3>1. Low(B, L)  BY <2>1, <2>2, HeldByEnds
    <3> QED  BY <3>1, LowerIsFinite
  <2>5. Scan(s, skip) = SubSeq(q, Lesser(skip, n) + 1, n)  BY <2>3 DEF ScanOf, Progress
  <2> HIDE DEF B, n, q
  <2>6. SubSeq(q, Lesser(skip, n) + 1, n) = SubSeq(q, skip + 1, n)
    <3>1. CASE skip <= n  BY <3>1 DEF Lesser
    <3>2. CASE ~(skip <= n)
      <4>1. Lesser(skip, n) = n  BY <3>2 DEF Lesser
      <4>2. n + 1 \in Int /\ n < n + 1 /\ skip + 1 \in Int /\ n < skip + 1 /\ n \in Int
        BY <2>1, <2>4, <3>2
      <4>3. SubSeq(q, n + 1, n) = << >> /\ SubSeq(q, skip + 1, n) = << >>
        BY <4>2, SubSeqEmpty
      <4> QED  BY <4>1, <4>3
    <3> QED  BY <3>1, <3>2
  <2> QED  BY <2>2, <2>5, <2>6 DEF s, n, q
<1>2. Spec => []Sound(L)  BY EveryIndexBelow, MapStaysSound
<1> QED  BY <1>1, <1>2, PTL

----------------------------------------------------------------------------
(* sm_prev_member.                                                         *)

GreatestOf(T) == IF T = {} THEN NoIndex ELSE Max(T)
Earlier(c, before) == {x \in BitsOf(c) : x < before}

\* The greatest of a chunk's members below an index is one of them.
LEMMA EarlierIsBounded ==
  ASSUME NEW c, ChunkOK(c), NEW before \in Nat, Earlier(c, before) # {}
  PROVE  LET g == Max(Earlier(c, before))
         IN /\ g \in Earlier(c, before) /\ g \in Nat
            /\ \A x \in Earlier(c, before) : x <= g
<1> DEFINE T == Earlier(c, before)
<1>1. T \in SUBSET Nat /\ \A y \in T : y <= before  BY DEF Earlier, BitsOf
<1> HIDE DEF T
<1>2. T # {} => Max(T) \in T /\ Max(T) \in Nat /\ \A y \in T : y <= Max(T)
  BY <1>1, MaxIsGreatest
<1> QED  BY <1>2 DEF T

\* __sm_chunk_prev_set of a chunk that begins before `before': its greatest
\* member below.
LEMMA PrevInChunkIs ==
  ASSUME NEW c, ChunkOK(c), NEW before \in Nat, c.start < before
  PROVE  PrevInChunk(c, before) = GreatestOf(Earlier(c, before))
<1> DEFINE T == Earlier(c, before)
<1>1. c.start \in Nat /\ EndOf(c) \in Nat  BY ChunkExtent
<1>2. CASE IsRLE(c)
  <2>1. c.len \in Nat /\ c.len >= 1 /\ RunLength(c) = c.len
    <3>1. c.len \in 1 .. c.cap /\ RunLength(c) = c.len  BY <1>2, RunLengthBounds DEF ChunkOK
    <3> QED  BY <3>1
  <2>2. BitsOf(c) = c.start .. c.start + c.len - 1  BY <2>1, HeldRun
  <2> DEFINE g == Lesser(before, c.start + c.len) - 1
  <2>3. PrevInChunk(c, before) = g  BY <1>2, <2>1 DEF PrevInChunk
  <2>4. g \in T /\ \A x \in T : x <= g
    <3>1. T = {x \in c.start .. c.start + c.len - 1 : x < before}  BY <2>2 DEF Earlier
    <3> HIDE DEF T
    <3>2. g \in c.start .. c.start + c.len - 1 /\ g < before  BY <1>1, <2>1 DEF Lesser
    <3>3. \A x \in c.start .. c.start + c.len - 1 : x < before => x <= g
      BY <1>1, <2>1 DEF Lesser
    <3> QED  BY <3>1, <3>2, <3>3
  <2> HIDE DEF g
  <2>5. Max(T) \in T /\ Max(T) \in Nat /\ \A x \in T : x <= Max(T)
    <3>1. T # {}  BY <2>4
    <3> QED  BY <3>1, EarlierIsBounded
  <2>6. T \subseteq Nat  BY DEF Earlier, BitsOf
  <2>7. Max(T) = g  BY <2>4, <2>5, <2>6
  <2> QED  BY <2>3, <2>4, <2>7 DEF GreatestOf
<1>3. CASE ~IsRLE(c)
  <2>1. ChunkMembers(c) = BitsOf(c)  BY HeldIsMembers
  <2> QED  BY <1>3, <2>1 DEF PrevInChunk, GreatestOf, Earlier
<1> QED  BY <1>2, <1>3

\* The chunks' greatest member below: that of the last chunk with one.
LEMMA PrevInIs ==
  ASSUME NEW s, NEW hi \in Nat, StreamOK(s, 0, hi), NEW before \in Nat
  PROVE  PrevIn(s, before) = GreatestOf({x \in Bits(s) : x < before})
<1> DEFINE hits == {j \in DOMAIN s : s[j].start < before
                                    /\ PrevInChunk(s[j], before) # NoIndex}
           T == {x \in Bits(s) : x < before}
           j == Max(hits)
           g == Max(Earlier(s[j], before))
<1>1. Len(s) \in Nat /\ DOMAIN s = 1 .. Len(s)  BY LenProperties DEF StreamOK
<1>2. PrevIn(s, before) = IF hits = {} THEN NoIndex ELSE PrevInChunk(s[j], before)
  BY DEF PrevIn
<1>3. \A x : x \in T <=> \E k \in 1 .. Len(s) : x \in Earlier(s[k], before)
  BY DEF Bits, Earlier
<1>4. ASSUME NEW k \in 1 .. Len(s)
      PROVE  k \in hits <=> Earlier(s[k], before) # {}
  <2>1. ChunkOK(s[k])  BY DEF StreamOK
  <2>2. CASE s[k].start < before
    <3>1. PrevInChunk(s[k], before) = GreatestOf(Earlier(s[k], before))
      BY <2>1, <2>2, PrevInChunkIs
    <3>2. CASE Earlier(s[k], before) = {}
      <4>1. PrevInChunk(s[k], before) = NoIndex  BY <3>1, <3>2 DEF GreatestOf
      <4> QED  BY <3>2, <4>1
    <3>3. CASE Earlier(s[k], before) # {}
      <4>1. Max(Earlier(s[k], before)) \in Nat  BY <2>1, <3>3, EarlierIsBounded
      <4>2. PrevInChunk(s[k], before) \in Nat  BY <3>1, <3>3, <4>1 DEF GreatestOf
      <4>3. PrevInChunk(s[k], before) # NoIndex  BY <4>2 DEF NoIndex
      <4> QED  BY <1>1, <2>2, <3>3, <4>3
    <3> QED  BY <3>2, <3>3
  <2>3. CASE ~(s[k].start < before)
    <3>1. s[k].start \in Nat  BY <2>1, ChunkExtent
    <3>2. Earlier(s[k], before) = {}
      <4> SUFFICES ASSUME NEW x \in Earlier(s[k], before)  PROVE FALSE  OBVIOUS
      <4>1. x \in Nat /\ s[k].start <= x /\ x < before  BY DEF Earlier, BitsOf
      <4> QED  BY <2>3, <3>1, <4>1
    <3> QED  BY <2>3, <3>2
  <2> QED  BY <2>2, <2>3
<1>5. hits \subseteq 1 .. Len(s) /\ \A k \in hits : s[k].start < before  BY <1>1
<1> HIDE DEF hits
<1>6. CASE hits = {}
  <2>1. T = {}
    <3> SUFFICES ASSUME NEW x \in T  PROVE FALSE  OBVIOUS
    <3>1. PICK k \in 1 .. Len(s) : x \in Earlier(s[k], before)  BY <1>3
    <3> QED  BY <1>4, <1>6, <3>1
  <2> HIDE DEF T
  <2>2. PrevIn(s, before) = GreatestOf(T)  BY <1>2, <1>6, <2>1 DEF GreatestOf
  <2> QED  BY <2>2 DEF T
<1>7. CASE hits # {}
  <2>1. j \in hits /\ j \in Nat /\ \A k \in hits : k <= j
    <3>1. hits \in SUBSET Nat /\ \A y \in hits : y <= Len(s)  BY <1>1, <1>5
    <3> QED  BY <1>1, <1>7, <3>1, MaxIsGreatest
  <2>2. j \in 1 .. Len(s) /\ s[j].start < before  BY <1>5, <2>1
  <2> HIDE DEF j
  <2>3. ChunkOK(s[j]) /\ Earlier(s[j], before) # {}  BY <1>4, <2>1, <2>2 DEF StreamOK
  <2>4. PrevIn(s, before) = g
    <3>1. PrevInChunk(s[j], before) = GreatestOf(Earlier(s[j], before))
      BY <2>2, <2>3, PrevInChunkIs
    <3> QED  BY <1>2, <1>7, <2>3, <3>1 DEF GreatestOf, j
  <2>5. /\ g \in Earlier(s[j], before) /\ g \in Nat
        /\ \A x \in Earlier(s[j], before) : x <= g
    BY <2>3, EarlierIsBounded
  <2> HIDE DEF g
  <2>6. g \in T  BY <1>3, <2>2, <2>5
  <2>7. ASSUME NEW y \in T  PROVE y <= g
    <3>1. PICK k \in 1 .. Len(s) : y \in Earlier(s[k], before)  BY <1>3
    <3>2. k <= j /\ k \in Nat  BY <1>4, <2>1, <3>1
    <3>3. CASE k = j  BY <2>5, <3>1, <3>3
    <3>4. CASE k # j
      <4>1. k < j  BY <2>1, <3>2, <3>4
      <4>2. y \in BitsOf(s[k]) /\ g \in BitsOf(s[j])  BY <2>5, <3>1 DEF Earlier
      <4>3. y < s[j].start  BY <2>2, <4>1, <4>2, HeldAscends
      <4>4. y \in Nat /\ s[j].start \in Nat /\ s[j].start <= g
        BY <2>2, <4>2, HeldWithin
      <4> QED  BY ONLY <2>5, <4>3, <4>4
    <3> QED  BY <3>3, <3>4
  <2>8. T \in SUBSET Nat /\ \A y \in T : y <= before
    <3>1. \A x \in T : x \in Nat /\ x < before  BY <1>3 DEF Earlier, BitsOf
    <3> HIDE DEF T
    <3> QED  BY <3>1
  <2> HIDE DEF T
  <2>9. Max(T) \in T /\ Max(T) \in Nat /\ \A y \in T : y <= Max(T)
    BY <2>6, <2>8, MaxIsGreatest
  <2>10. Max(T) = g  BY <2>5, <2>6, <2>7, <2>9
  <2>11. PrevIn(s, before) = GreatestOf(T)  BY <2>4, <2>6, <2>10 DEF GreatestOf
  <2> QED  BY <2>11 DEF T
<1> QED  BY <1>6, <1>7

\* PrevIsGreatest of Query: sm_prev_member finds the greatest member below, in
\* whatever chunk it is.
THEOREM PrevMemberIsGreatest ==
  ASSUME NEW CONSTANT L, EveryIndex(L)
  PROVE  Spec => []PrevIsGreatest
<1>1. Sound(L) => PrevIsGreatest
  <2> SUFFICES ASSUME Sound(L), NEW before \in Indices \cup {NoIndex}, NEW lower,
                      lower = {i \in Members(map) : before = NoIndex \/ i < before}
               PROVE  PrevMember(map.chunks, before) = GreatestOf(lower)
    BY DEF PrevIsGreatest, GreatestOf
  <2> DEFINE s == map.chunks
             bound == UpperBound(s, before)
  <2>1. Readable(map, L) /\ L \in Nat  BY SoundIsReadable, EveryIndexBelow
  <2>2. StreamOK(s, 0, L)  BY <2>1 DEF Readable
  <2>3. Members(map) = Bits(s)  BY <2>1, MembersAreBits
  <2>4. bound \in Nat /\ lower = {x \in Bits(s) : x < bound}
    <3>1. Beyond(s) \in Nat /\ \A x \in Bits(s) : x \in Nat /\ x < Beyond(s)
      BY <2>1, <2>2, HeldBeyond
    <3>2. CASE before = NoIndex
      <4>1. bound = Beyond(s)  BY <3>2 DEF UpperBound
      <4> HIDE DEF bound, s
      <4> QED  BY <2>3, <3>1, <3>2, <4>1
    <3>3. CASE before # NoIndex
      <4>1. bound = before /\ before \in Nat  BY <3>3, IndicesAssumption DEF UpperBound
      <4> HIDE DEF bound, s
      <4> QED  BY <2>3, <3>3, <4>1
    <3> QED  BY <3>2, <3>3
  <2>5. CASE s = << >>
    <3>1. Len(s) = 0  BY <2>5, EmptySeq
    <3>2. Bits(s) = {}  BY <3>1 DEF Bits
    <3>3. lower = {}  BY <2>4, <3>2
    <3> QED  BY <2>5, <3>3 DEF PrevMember, GreatestOf
  <2>6. CASE s # << >>
    <3>1. PrevMember(s, before) = PrevIn(s, bound)  BY <2>6 DEF PrevMember
    <3> HIDE DEF s, bound
    <3>2. PrevIn(s, bound) = GreatestOf({x \in Bits(s) : x < bound})
      BY <2>1, <2>2, <2>4, PrevInIs
    <3> QED  BY <2>4, <3>1, <3>2 DEF s
  <2> QED  BY <2>5, <2>6
<1>2. Spec => []Sound(L)  BY EveryIndexBelow, MapStaysSound
<1> QED  BY <1>1, <1>2, PTL
=============================================================================
