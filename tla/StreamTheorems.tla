--------------------------- MODULE StreamTheorems ---------------------------
(***************************************************************************)
(* Facts about one chunk: what the operations on it do to its shape, and to *)
(* the indices it holds and their one encoding; and about streams of       *)
(* chunks and coalescing: that the chunks stay in order, which indices     *)
(* they hold, and how many words they take.                                *)
(***************************************************************************)
EXTENDS ChunkStream, TLAPS, WellFoundedInduction, FiniteSetTheorems, SequenceTheorems,
        FunctionTheorems

\* Every non-empty set of naturals has a least element.
LEMMA LeastElement ==
  ASSUME NEW T \in SUBSET Nat, T # {}
  PROVE  \E x \in T : \A y \in T : x <= y
<1> DEFINE Below == OpToRel(<, Nat)
<1>1. IsWellFoundedOn(Below, Nat)  BY NatLessThanWellFounded
<1>2. ASSUME NEW x \in T, NEW y \in T, y < x  PROVE << y, x >> \in Below
  BY <1>2 DEF OpToRel
<1> HIDE DEF Below
<1>3. PICK x \in T : \A y \in T : << y, x >> \notin Below  BY <1>1, WFMin
<1>4. \A y \in T : ~(y < x) => x <= y  OBVIOUS
<1> QED  BY <1>2, <1>3, <1>4

\* The greatest of some numbers below a bound is one of them.
LEMMA MaxIsGreatest ==
  ASSUME NEW T \in SUBSET Nat, T # {}, NEW top \in Nat, \A y \in T : y <= top
  PROVE  Max(T) \in T /\ Max(T) \in Nat /\ Max(T) <= top /\ \A y \in T : y <= Max(T)
<1> DEFINE U == {top - y : y \in T}
<1>1. U \in SUBSET Nat /\ U # {}
  <2>1. ASSUME NEW y \in T  PROVE top - y \in Nat
    <3>1. y \in Nat /\ y <= top  OBVIOUS
    <3> QED  BY <3>1
  <2>2. PICK y \in T : TRUE  OBVIOUS
  <2>3. top - y \in U  BY <2>2
  <2>4. \A x \in U : x \in Nat  BY <2>1
  <2> QED  BY ONLY <2>3, <2>4
<1>2. PICK u \in U : \A x \in U : u <= x  BY <1>1, LeastElement
<1>3. PICK z \in T : u = top - z  BY <1>2
<1>4. \A y \in T : z >= y
  <2>1. ASSUME NEW y \in T  PROVE z >= y
    <3>1. top - y \in U  OBVIOUS
    <3>2. top - z <= top - y  BY <1>2, <1>3, <3>1
    <3> HIDE DEF U
    <3> QED  BY <3>2
  <2> QED  BY <2>1
<1>5. Max(T) \in T /\ \A y \in T : Max(T) >= y  BY <1>3, <1>4 DEF Max
<1> HIDE DEF U
<1> QED  BY <1>5

----------------------------------------------------------------------------
(* Window boundaries.                                                      *)

Boundary(x) == x \in Int /\ x % ChunkCap = 0

\* A window has at least two indices.
LEMMA ChunkCapPositive == ChunkCap \in Nat /\ ChunkCap >= 2
  BY ChunkConstants DEF ChunkCap

\* The boundaries are the multiples of the window.
LEMMA BoundaryMultiple ==
  ASSUME NEW x
  PROVE  Boundary(x) <=> \E k \in Int : x = k * ChunkCap
<1>1. ASSUME Boundary(x)  PROVE \E k \in Int : x = k * ChunkCap
  <2>1. x = (x \div ChunkCap) * ChunkCap /\ x \div ChunkCap \in Int
    BY <1>1, ChunkCapPositive DEF Boundary
  <2> QED  BY <2>1
<1>2. ASSUME NEW k \in Int, x = k * ChunkCap  PROVE Boundary(x)
  BY <1>2, ChunkCapPositive DEF Boundary
<1> QED  BY <1>1, <1>2

\* 0 and the window itself are boundaries.
LEMMA BoundaryZero == Boundary(0) /\ Boundary(ChunkCap)
  BY ChunkCapPositive DEF Boundary

\* The sum and the difference of two boundaries are boundaries.
LEMMA BoundarySum ==
  ASSUME NEW x, NEW y, Boundary(x), Boundary(y)
  PROVE  Boundary(x + y) /\ Boundary(x - y)
<1>1. PICK k \in Int : x = k * ChunkCap  BY BoundaryMultiple
<1>2. PICK l \in Int : y = l * ChunkCap  BY BoundaryMultiple
<1>3. x + y = (k + l) * ChunkCap /\ x - y = (k - l) * ChunkCap
  BY <1>1, <1>2, ChunkCapPositive
<1> QED  BY <1>3, BoundaryMultiple

\* Two different boundaries are at least a window apart.
LEMMA BoundaryGap ==
  ASSUME NEW x, NEW y, Boundary(x), Boundary(y), x < y
  PROVE  x + ChunkCap <= y
<1>1. PICK k \in Int : x = k * ChunkCap  BY BoundaryMultiple
<1>2. PICK l \in Int : y = l * ChunkCap  BY BoundaryMultiple
<1>3. k < l  BY <1>1, <1>2, ChunkCapPositive
<1>4. PICK d \in Nat : l = k + 1 + d  BY <1>3
<1>5. y = x + ChunkCap + d * ChunkCap  BY <1>1, <1>2, <1>4, ChunkCapPositive
<1>6. d * ChunkCap \in Nat  BY ChunkCapPositive
<1> QED  BY <1>1, <1>5, <1>6, ChunkCapPositive

\* An index lies in the window its quotient names.
LEMMA DivBounds ==
  ASSUME NEW i \in Nat
  PROVE  /\ i \div ChunkCap \in Nat
         /\ (i \div ChunkCap) * ChunkCap <= i
         /\ i < (i \div ChunkCap) * ChunkCap + ChunkCap
  BY ChunkCapPositive

\* __sm_get_chunk_aligned_offset: the start of the window that holds i.
LEMMA AlignedOffsetBounds ==
  ASSUME NEW i \in Nat
  PROVE  /\ AlignedOffset(i) \in Nat
         /\ Boundary(AlignedOffset(i))
         /\ AlignedOffset(i) <= i
         /\ i < AlignedOffset(i) + ChunkCap
<1> DEFINE k == i \div ChunkCap
<1>1. AlignedOffset(i) = k * ChunkCap  BY DEF AlignedOffset
<1>2. k \in Nat /\ k * ChunkCap <= i /\ i < k * ChunkCap + ChunkCap  BY DivBounds
<1> HIDE DEF k
<1>3. k * ChunkCap \in Nat  BY <1>2, ChunkCapPositive
<1> QED  BY <1>1, <1>2, <1>3, BoundaryMultiple

\* The rounding of __sm_chunk_rle_capacity_limit goes up by less than a window.
LEMMA RoundUpBounds ==
  ASSUME NEW n \in Nat
  PROVE  /\ RoundUp(n) \in Nat
         /\ Boundary(RoundUp(n))
         /\ n <= RoundUp(n)
         /\ RoundUp(n) < n + ChunkCap
<1> DEFINE m == n + ChunkCap - 1
<1>1. m \in Nat  BY ChunkCapPositive
<1>2. RoundUp(n) = AlignedOffset(m)  BY DEF RoundUp, AlignedOffset
<1> QED  BY <1>1, <1>2, AlignedOffsetBounds, ChunkCapPositive

\* A boundary at or after n is at or after n rounded up.
LEMMA RoundUpLeast ==
  ASSUME NEW n \in Nat, NEW u, Boundary(u), n <= u
  PROVE  RoundUp(n) <= u
<1>1. u \in Int  BY DEF Boundary
<1>2. ASSUME u < RoundUp(n)  PROVE FALSE
  <2>1. u + ChunkCap <= RoundUp(n)  BY <1>2, BoundaryGap, RoundUpBounds
  <2> QED  BY <1>1, <2>1, RoundUpBounds, ChunkCapPositive
<1> QED  BY <1>1, <1>2, RoundUpBounds

----------------------------------------------------------------------------
(* The encoding of a sparse chunk.                                         *)

\* A sparse chunk has one payload word for each mixed vector.
InStep(flag, data) == Len(data) = Cardinality(Mixed(flag))

\* The mixed vectors of a descriptor can be counted.
LEMMA MixedFinite ==
  ASSUME NEW flag
  PROVE  /\ Mixed(flag) \subseteq Vec
         /\ IsFiniteSet(Mixed(flag))
         /\ Cardinality(Mixed(flag)) \in Nat
<1>1. Mixed(flag) \subseteq Vec  BY DEF Mixed
<1>2. IsFiniteSet(Vec)  BY FS_Interval, ChunkConstants DEF Vec
<1> QED  BY <1>1, <1>2, FS_Subset, FS_CardinalityType

\* A vector's place in the payload is one of the words, or the one after.
LEMMA PositionBounds ==
  ASSUME NEW c \in SparseChunks, NEW v \in Vec
  PROVE  /\ Position(c, v) \in 1 .. Cardinality(Mixed(c.flag)) + 1
         /\ c.flag[v] = "mixed" => Position(c, v) <= Cardinality(Mixed(c.flag))
<1> DEFINE M == Mixed(c.flag)
           L == {u \in M : u < v}
<1>1. IsFiniteSet(M) /\ Cardinality(M) \in Nat  BY MixedFinite
<1>2. L \subseteq M  OBVIOUS
<1>3. /\ IsFiniteSet(L)
      /\ Cardinality(L) \in Nat
      /\ Cardinality(L) <= Cardinality(M)
  BY <1>1, <1>2, FS_Subset, FS_CardinalityType
<1>4. Position(c, v) = 1 + Cardinality(L)  BY DEF Position
<1>5. ASSUME c.flag[v] = "mixed"  PROVE Cardinality(L) <= Cardinality(M) - 1
  <2>1. v \in M  BY <1>5 DEF Mixed
  <2>2. L \subseteq M \ {v}  BY DEF Vec
  <2>3. IsFiniteSet(M \ {v}) /\ Cardinality(M \ {v}) = Cardinality(M) - 1
    BY <1>1, <2>1, FS_RemoveElement
  <2> QED  BY <2>2, <2>3, FS_Subset
<1> HIDE DEF M, L
<1>6. M = Mixed(c.flag) BY DEF M
<1> QED  BY <1>1, <1>3, <1>4, <1>5, <1>6

\* The two places where the payload grows or shrinks by a word.
LEMMA InsertAtProperties ==
  ASSUME NEW S, NEW s \in Seq(S), NEW e \in S, NEW p \in 1 .. Len(s) + 1
  PROVE  InsertAt(s, p, e) \in Seq(S) /\ Len(InsertAt(s, p, e)) = Len(s) + 1
<1> DEFINE l == SubSeq(s, 1, p - 1)
           r == SubSeq(s, p, Len(s))
<1>1. Len(s) \in Nat /\ \A x \in 1 .. Len(s) : s[x] \in S  BY LenProperties
<1>2. l \in Seq(S) /\ Len(l) = p - 1  BY <1>1, SubSeqProperties
<1>3. r \in Seq(S) /\ Len(r) = Len(s) - p + 1  BY <1>1, SubSeqProperties
<1>4. << e >> \in Seq(S) /\ Len(<< e >>) = 1  OBVIOUS
<1> HIDE DEF l, r
<1>5. l \o << e >> \in Seq(S) /\ Len(l \o << e >>) = p
  BY <1>1, <1>2, <1>4, ConcatProperties
<1> DEFINE le == l \o << e >>
<1> HIDE DEF le
<1>6. le \o r \in Seq(S) /\ Len(le \o r) = Len(le) + Len(r)
  BY <1>3, <1>5, ConcatProperties DEF le
<1>7. Len(le) = p  BY <1>5 DEF le
<1>8. InsertAt(s, p, e) = le \o r  BY DEF InsertAt, le, l, r
<1> QED  BY <1>1, <1>3, <1>6, <1>7, <1>8

\* Removing a word shortens the payload by one.
LEMMA RemoveAtProperties ==
  ASSUME NEW S, NEW s \in Seq(S), NEW p \in 1 .. Len(s)
  PROVE  RemoveAt(s, p) \in Seq(S) /\ Len(RemoveAt(s, p)) = Len(s) - 1
<1> DEFINE l == SubSeq(s, 1, p - 1)
           r == SubSeq(s, p + 1, Len(s))
<1>1. Len(s) \in Nat /\ \A x \in 1 .. Len(s) : s[x] \in S  BY LenProperties
<1>2. l \in Seq(S) /\ Len(l) = p - 1  BY <1>1, SubSeqProperties
<1>3. r \in Seq(S) /\ Len(r) = Len(s) - p  BY <1>1, SubSeqProperties
<1> HIDE DEF l, r
<1>4. l \o r \in Seq(S) /\ Len(l \o r) = Len(l) + Len(r)
  BY <1>2, <1>3, ConcatProperties
<1>5. RemoveAt(s, p) = l \o r  BY DEF RemoveAt, l, r
<1>6. Len(l) + Len(r) = Len(s) - 1  BY <1>1, <1>2, <1>3
<1> QED  BY <1>4, <1>5, <1>6

\* A chunk whose vector v turns from mixed to full or empty, or back.
LEMMA MixedGrows ==
  ASSUME NEW flag \in [Vec -> Flag], NEW v \in Vec, flag[v] # "mixed"
  PROVE  Cardinality(Mixed([flag EXCEPT ![v] = "mixed"])) = Cardinality(Mixed(flag)) + 1
<1>1. Mixed([flag EXCEPT ![v] = "mixed"]) = Mixed(flag) \cup {v}  BY DEF Mixed
<1>2. v \notin Mixed(flag)  BY DEF Mixed
<1> QED  BY <1>1, <1>2, MixedFinite, FS_AddElement

\* And the payload it should have is a word shorter.
LEMMA MixedShrinks ==
  ASSUME NEW flag \in [Vec -> Flag], NEW v \in Vec, flag[v] = "mixed",
         NEW to \in {"zeros", "ones"}
  PROVE  Cardinality(Mixed([flag EXCEPT ![v] = to])) = Cardinality(Mixed(flag)) - 1
<1>1. Mixed([flag EXCEPT ![v] = to]) = Mixed(flag) \ {v}  BY DEF Mixed
<1>2. v \in Mixed(flag)  BY DEF Mixed
<1> QED  BY <1>1, <1>2, MixedFinite, FS_RemoveElement

\* The window's bits: the vector and the place in it.
LEMMA BitOfIndex ==
  ASSUME NEW i \in 0 .. ChunkCap - 1
  PROVE  i \div BitsPerVector \in Vec /\ i % BitsPerVector \in Bit
<1> DEFINE v == i \div BitsPerVector
           b == i % BitsPerVector
<1>1. v \in Int /\ b \in Bit /\ i = v * BitsPerVector + b
  BY ChunkConstants, ChunkCapPositive DEF Bit
<1> HIDE DEF v, b
<1>2. v >= 0
  <2>1. ASSUME v <= 0 - 1  PROVE v * BitsPerVector <= 0 - BitsPerVector
    BY <1>1, <2>1, ChunkConstants
  <2> QED  BY <1>1, <2>1, ChunkConstants DEF Bit
<1>3. v <= FlagsPerIndex - 1
  <2>1. ASSUME v >= FlagsPerIndex  PROVE v * BitsPerVector >= ChunkCap
    BY <1>1, <2>1, ChunkConstants DEF ChunkCap
  <2> QED  BY <1>1, <2>1, ChunkConstants, ChunkCapPositive DEF Bit
<1>4. i \div BitsPerVector \in Vec BY <1>1, <1>2, <1>3, ChunkConstants DEF v, Vec
<1> QED  BY <1>1, <1>4 DEF b

----------------------------------------------------------------------------
(* What the program keeps of every chunk: it begins on a boundary, a run is *)
(* within its capacity, which ends on a boundary, and a sparse chunk has a  *)
(* word for each mixed vector.                                              *)
ChunkOK(c) ==
  /\ c \in Chunks
  /\ Boundary(c.start)
  /\ IsRLE(c) => c.len \in 1 .. c.cap /\ Boundary(c.cap)
  /\ ~IsRLE(c) => InStep(c.flag, c.data)

\* The same, of a chunk known to be sparse.
SparseOK(c) ==
  c \in SparseChunks /\ Boundary(c.start) /\ InStep(c.flag, c.data)

\* The kind field tells the two kinds of chunk apart.
LEMMA SparseKind ==
  /\ \A c \in SparseChunks : ~IsRLE(c)
  /\ \A c \in RLEChunks : IsRLE(c)
  BY DEF SparseChunks, RLEChunks, IsRLE

\* A well-formed chunk that is not a run is a well-formed sparse chunk.
LEMMA SparseIsOK ==
  ASSUME NEW c
  PROVE  SparseOK(c) <=> ChunkOK(c) /\ ~IsRLE(c)
  BY SparseKind DEF SparseOK, ChunkOK, Chunks

\* A sparse chunk stays well formed when a flag and the payload change in step.
LEMMA SetFlagOK ==
  ASSUME NEW c, SparseOK(c), NEW v \in Vec, NEW to \in Flag,
         NEW data \in Seq(SUBSET Bit), InStep([c.flag EXCEPT ![v] = to], data)
  PROVE  SparseOK(SetFlag(c, v, to, data)) /\ SetFlag(c, v, to, data).start = c.start
  BY DEF SparseOK, SparseChunks, SetFlag, SparseChunk

\* __sm_chunk_set_bit and the payload change that goes with it.
LEMMA SetBitOK ==
  ASSUME NEW c, SparseOK(c), NEW i \in 0 .. ChunkCap - 1
  PROVE  SparseOK(SetBit(c, i)) /\ SetBit(c, i).start = c.start
<1> DEFINE v == i \div BitsPerVector
           b == i % BitsPerVector
           p == Position(c, v)
<1>1. v \in Vec /\ b \in Bit  BY BitOfIndex
<1> HIDE DEF v, b
<1>2. /\ c \in SparseChunks /\ c.flag \in [Vec -> Flag]
      /\ c.data \in Seq(SUBSET Bit) /\ Len(c.data) = Cardinality(Mixed(c.flag))
  BY DEF SparseOK, SparseChunks, InStep
<1>3. /\ p \in 1 .. Len(c.data) + 1
      /\ c.flag[v] = "mixed" => p \in 1 .. Len(c.data)
  BY <1>1, <1>2, PositionBounds, LenProperties
<1> HIDE DEF p
<1>4. c.flag[v] \in {"zeros", "ones", "mixed"}  BY <1>1, <1>2 DEF Flag
<1>5. CASE c.flag[v] = "ones"
  <2>1. SetBit(c, i) = c  BY <1>5 DEF SetBit, v
  <2> QED  BY <2>1
<1>6. CASE c.flag[v] = "zeros"
  <2> DEFINE data == InsertAt(c.data, p, {b})
  <2>0. {b} \in SUBSET Bit  BY <1>1
  <2>1. data \in Seq(SUBSET Bit) /\ Len(data) = Len(c.data) + 1
    <3>1. c.data \in Seq(SUBSET Bit) /\ p \in 1 .. Len(c.data) + 1
      BY <1>2, <1>3
    <3> QED  BY ONLY <2>0, <3>1, InsertAtProperties
  <2>2. InStep([c.flag EXCEPT ![v] = "mixed"], data)
    BY <1>1, <1>2, <1>6, <2>1, MixedGrows DEF InStep
  <2>3. SetBit(c, i) = SetFlag(c, v, "mixed", data)
    BY <1>6 DEF SetBit, v, b, p
  <2> HIDE DEF data
  <2>4. "mixed" \in Flag  BY DEF Flag
  <2>5. /\ SparseOK(SetFlag(c, v, "mixed", data))
        /\ SetFlag(c, v, "mixed", data).start = c.start
    BY <1>1, <2>1, <2>2, <2>4, SetFlagOK
  <2> QED  BY <2>3, <2>5
<1>7. CASE c.flag[v] = "mixed" /\ c.data[p] \cup {b} = Bit
  <2> DEFINE data == RemoveAt(c.data, p)
  <2>1. data \in Seq(SUBSET Bit) /\ Len(data) = Len(c.data) - 1
    BY <1>2, <1>3, <1>7, RemoveAtProperties
  <2>2. InStep([c.flag EXCEPT ![v] = "ones"], data)
    BY <1>1, <1>2, <1>7, <2>1, MixedShrinks DEF InStep
  <2>3. SetBit(c, i) = SetFlag(c, v, "ones", data)
    BY <1>7 DEF SetBit, v, b, p
  <2> HIDE DEF data
  <2>4. "ones" \in Flag  BY DEF Flag
  <2>5. /\ SparseOK(SetFlag(c, v, "ones", data))
        /\ SetFlag(c, v, "ones", data).start = c.start
    BY <1>1, <2>1, <2>2, <2>4, SetFlagOK
  <2> QED  BY <2>3, <2>5
<1>8. CASE c.flag[v] = "mixed" /\ c.data[p] \cup {b} # Bit
  <2> DEFINE data == [c.data EXCEPT ![p] = @ \cup {b}]
  <2>1. c.data[p] \cup {b} \in SUBSET Bit  BY <1>1, <1>2, <1>3, <1>8, LenProperties
  <2>2. data \in Seq(SUBSET Bit) /\ Len(data) = Len(c.data)
    BY <1>2, <1>3, <1>8, <2>1, ExceptSeq
  <2>3. SetBit(c, i) = [c EXCEPT !.data = data]
    BY <1>8 DEF SetBit, v, b, p
  <2> HIDE DEF data
  <2>4. SetBit(c, i) = [kind |-> c.kind, start |-> c.start,
                        flag |-> c.flag, data |-> data]
    BY <1>2, <2>3 DEF SparseChunks
  <2> QED  BY <1>2, <2>2, <2>4 DEF SparseOK, SparseChunks, InStep
<1> QED  BY <1>4, <1>5, <1>6, <1>7, <1>8

\* __sm_chunk_clr_bit and the payload change that goes with it.
LEMMA ClrBitOK ==
  ASSUME NEW c, SparseOK(c), NEW i \in 0 .. ChunkCap - 1
  PROVE  SparseOK(ClrBit(c, i)) /\ ClrBit(c, i).start = c.start
<1> DEFINE v == i \div BitsPerVector
           b == i % BitsPerVector
           p == Position(c, v)
<1>1. v \in Vec /\ b \in Bit  BY BitOfIndex
<1> HIDE DEF v, b
<1>2. /\ c \in SparseChunks /\ c.flag \in [Vec -> Flag]
      /\ c.data \in Seq(SUBSET Bit) /\ Len(c.data) = Cardinality(Mixed(c.flag))
  BY DEF SparseOK, SparseChunks, InStep
<1>3. /\ p \in 1 .. Len(c.data) + 1
      /\ c.flag[v] = "mixed" => p \in 1 .. Len(c.data)
  BY <1>1, <1>2, PositionBounds, LenProperties
<1> HIDE DEF p
<1>4. c.flag[v] \in {"zeros", "ones", "mixed"}  BY <1>1, <1>2 DEF Flag
<1>5. CASE c.flag[v] = "zeros"
  <2>1. ClrBit(c, i) = c  BY <1>5 DEF ClrBit, v
  <2> QED  BY <2>1
<1>6. CASE c.flag[v] = "ones"
  <2> DEFINE data == InsertAt(c.data, p, Bit \ {b})
  <2>0. Bit \ {b} \in SUBSET Bit  BY <1>1
  <2>1. data \in Seq(SUBSET Bit) /\ Len(data) = Len(c.data) + 1
    <3>1. c.data \in Seq(SUBSET Bit) /\ p \in 1 .. Len(c.data) + 1
      BY <1>2, <1>3
    <3> QED  BY ONLY <2>0, <3>1, InsertAtProperties
  <2>2. InStep([c.flag EXCEPT ![v] = "mixed"], data)
    BY <1>1, <1>2, <1>6, <2>1, MixedGrows DEF InStep
  <2>3. ClrBit(c, i) = SetFlag(c, v, "mixed", data)
    BY <1>6 DEF ClrBit, v, b, p
  <2> HIDE DEF data
  <2>4. "mixed" \in Flag  BY DEF Flag
  <2>5. /\ SparseOK(SetFlag(c, v, "mixed", data))
        /\ SetFlag(c, v, "mixed", data).start = c.start
    BY <1>1, <2>1, <2>2, <2>4, SetFlagOK
  <2> QED  BY <2>3, <2>5
<1>7. CASE c.flag[v] = "mixed" /\ c.data[p] \ {b} = {}
  <2> DEFINE data == RemoveAt(c.data, p)
  <2>1. data \in Seq(SUBSET Bit) /\ Len(data) = Len(c.data) - 1
    BY <1>2, <1>3, <1>7, RemoveAtProperties
  <2>2. InStep([c.flag EXCEPT ![v] = "zeros"], data)
    BY <1>1, <1>2, <1>7, <2>1, MixedShrinks DEF InStep
  <2>3. ClrBit(c, i) = SetFlag(c, v, "zeros", data)
    BY <1>7 DEF ClrBit, v, b, p
  <2> HIDE DEF data
  <2>4. "zeros" \in Flag  BY DEF Flag
  <2>5. /\ SparseOK(SetFlag(c, v, "zeros", data))
        /\ SetFlag(c, v, "zeros", data).start = c.start
    BY <1>1, <2>1, <2>2, <2>4, SetFlagOK
  <2> QED  BY <2>3, <2>5
<1>8. CASE c.flag[v] = "mixed" /\ c.data[p] \ {b} # {}
  <2> DEFINE data == [c.data EXCEPT ![p] = @ \ {b}]
  <2>1. c.data[p] \ {b} \in SUBSET Bit  BY <1>1, <1>2, <1>3, <1>8, LenProperties
  <2>2. data \in Seq(SUBSET Bit) /\ Len(data) = Len(c.data)
    BY <1>2, <1>3, <1>8, <2>1, ExceptSeq
  <2>3. ClrBit(c, i) = [c EXCEPT !.data = data]
    BY <1>8 DEF ClrBit, v, b, p
  <2> HIDE DEF data
  <2>4. ClrBit(c, i) = [kind |-> c.kind, start |-> c.start,
                        flag |-> c.flag, data |-> data]
    BY <1>2, <2>3 DEF SparseChunks
  <2> QED  BY <1>2, <2>2, <2>4 DEF SparseOK, SparseChunks, InStep
<1> QED  BY <1>4, <1>5, <1>6, <1>7, <1>8

\* Quotient and remainder by the word.
LEMMA WordSplit ==
  ASSUME NEW n \in Nat
  PROVE  /\ n \div BitsPerVector \in Nat
         /\ n % BitsPerVector \in Bit
         /\ n = (n \div BitsPerVector) * BitsPerVector + (n % BitsPerVector)
  BY ChunkConstants DEF Bit

\* A chunk all of ones and a chunk all of zeros need no payload.
LEMMA PlainChunksOK ==
  ASSUME NEW start \in Nat, Boundary(start)
  PROVE  /\ SparseOK(OnesChunk(start)) /\ OnesChunk(start).start = start
         /\ SparseOK(ZerosChunk(start)) /\ ZerosChunk(start).start = start
<1>1. ASSUME NEW flag \in [Vec -> {"ones", "zeros"}]
      PROVE  SparseOK(SparseChunk(start, flag, << >>))
  <2>1. flag \in [Vec -> Flag]  BY DEF Flag
  <2>2. Mixed(flag) = {}  BY DEF Mixed
  <2>3. Cardinality(Mixed(flag)) = 0  BY <2>2, FS_EmptySet
  <2>4. << >> \in Seq(SUBSET Bit) /\ Len(<< >>) = 0  BY EmptySeq
  <2> QED  BY <2>1, <2>3, <2>4 DEF SparseOK, SparseChunks, SparseChunk, InStep
<1>2. /\ [v \in Vec |-> "ones"] \in [Vec -> {"ones", "zeros"}]
      /\ [v \in Vec |-> "zeros"] \in [Vec -> {"ones", "zeros"}]
  OBVIOUS
<1> QED  BY <1>1, <1>2 DEF OnesChunk, ZerosChunk, SparseChunk

\* The sparse chunk a short remainder of a run becomes has its payload word.
LEMMA PrefixChunkOK ==
  ASSUME NEW start \in Nat, Boundary(start), NEW n \in 1 .. ChunkCap
  PROVE  SparseOK(PrefixChunk(start, n)) /\ PrefixChunk(start, n).start = start
<1> DEFINE full == n \div BitsPerVector
           rest == n % BitsPerVector
           flag == [v \in Vec |-> IF v < full THEN "ones"
                                  ELSE IF v = full /\ rest > 0 THEN "mixed"
                                  ELSE "zeros"]
           data == IF rest > 0 THEN << 0 .. rest - 1 >> ELSE << >>
<1>1. PrefixChunk(start, n) = SparseChunk(start, flag, data)  BY DEF PrefixChunk
<1>2. /\ full \in Nat /\ rest \in Bit
      /\ n = full * BitsPerVector + rest
  BY WordSplit, ChunkCapPositive
<1> HIDE DEF full, rest
<1>3. rest > 0 => full \in Vec
  <2>1. ASSUME full >= FlagsPerIndex  PROVE full * BitsPerVector >= ChunkCap
    BY <1>2, <2>1, ChunkConstants DEF ChunkCap
  <2> QED  BY <1>2, <2>1, ChunkConstants, ChunkCapPositive DEF Vec, Bit
<1>4. flag \in [Vec -> Flag]  BY DEF Flag
<1>5. CASE rest > 0
  <2>1. Mixed(flag) = {full}  BY <1>2, <1>3, <1>5 DEF Mixed, Vec
  <2>2. data \in Seq(SUBSET Bit) /\ Len(data) = 1
    <3>1. 0 .. rest - 1 \in SUBSET Bit  BY <1>2, ChunkConstants DEF Bit
    <3> QED  BY <3>1, <1>5
  <2> HIDE DEF flag, data
  <2>3. InStep(flag, data)  BY <2>1, <2>2, FS_Singleton DEF InStep
  <2> QED  BY <1>1, <1>4, <2>2, <2>3 DEF SparseOK, SparseChunks, SparseChunk
<1>6. CASE ~(rest > 0)
  <2>1. Mixed(flag) = {}  BY <1>6 DEF Mixed
  <2>2. data = << >> /\ data \in Seq(SUBSET Bit) /\ Len(data) = 0
    BY <1>6, EmptySeq
  <2> HIDE DEF flag, data
  <2>3. InStep(flag, data)  BY <2>1, <2>2, FS_EmptySet DEF InStep
  <2> QED  BY <1>1, <1>4, <2>2, <2>3 DEF SparseOK, SparseChunks, SparseChunk
<1> QED  BY <1>5, <1>6

\* c has at most one mixed vector, u, and it begins before n.
LEMMA MaskTailOK ==
  ASSUME NEW c, SparseOK(c), NEW n \in Nat, NEW u \in Vec,
         Mixed(c.flag) \subseteq {u},
         Mixed(c.flag) # {} => u * BitsPerVector < n
  PROVE  SparseOK(MaskTail(c, n)) /\ MaskTail(c, n).start = c.start
<1> DEFINE tail == n \div BitsPerVector
           k == n % BitsPerVector
           mask == 0 .. k - 1
           flag == [v \in Vec |-> IF v < tail THEN c.flag[v]
                                  ELSE IF v = tail /\ mask # {} THEN "mixed"
                                  ELSE "zeros"]
           data == IF mask = {} THEN c.data
                   ELSE IF c.flag[tail] = "mixed"
                        THEN [c.data EXCEPT ![1] = @ \cap mask]
                        ELSE Append(c.data, mask)
<1>1. CASE n >= ChunkCap
  BY <1>1 DEF MaskTail
<1>2. CASE n < ChunkCap
  <2>1. MaskTail(c, n) = SparseChunk(c.start, flag, data)
    BY <1>2, ChunkCapPositive DEF MaskTail
  <2>2. /\ tail \in Vec /\ k \in Bit /\ k \in 0 .. BitsPerVector - 1
        /\ n = tail * BitsPerVector + k
    BY <1>2, WordSplit, BitOfIndex, ChunkCapPositive DEF Bit
  <2> HIDE DEF tail, k
  <2>3. /\ c \in SparseChunks /\ Boundary(c.start)
        /\ c.flag \in [Vec -> Flag]
        /\ c.data \in Seq(SUBSET Bit)
        /\ Len(c.data) = Cardinality(Mixed(c.flag))
    BY DEF SparseOK, SparseChunks, InStep
  <2>4. flag \in [Vec -> Flag]  BY <2>3 DEF Flag
  <2>m. mask \in SUBSET Bit /\ (k > 0 => 0 \in mask)
    BY <2>2, ChunkConstants DEF Bit
  <2>5. Mixed(c.flag) # {} => u <= tail /\ (k = 0 => u < tail)
    <3>1. ASSUME u >= tail + 1
          PROVE  u * BitsPerVector >= tail * BitsPerVector + BitsPerVector
      BY <2>2, <3>1, ChunkConstants DEF Vec
    <3>2. u = tail => u * BitsPerVector = tail * BitsPerVector  OBVIOUS
    <3>3. u * BitsPerVector \in Int /\ tail * BitsPerVector \in Int
      BY <2>2, ChunkConstants DEF Vec
    <3> QED  BY <2>2, <3>1, <3>2, <3>3, ChunkConstants DEF Vec
  <2>6. data \in Seq(SUBSET Bit) /\ Len(data) = Cardinality(Mixed(flag))
    <3>1. CASE k = 0
      <4>1. mask = {}  BY <3>1
      <4>2. Mixed(flag) = Mixed(c.flag)  BY <2>2, <2>5, <3>1, <4>1 DEF Mixed, Vec
      <4> QED  BY <2>3, <4>1, <4>2
    <3>2. CASE k > 0 /\ c.flag[tail] = "mixed"
      <4>1. mask # {} /\ mask \in SUBSET Bit  BY <2>m, <3>2
      <4>2. u = tail /\ Mixed(c.flag) = {tail}  BY <2>2, <3>2 DEF Mixed
      <4>3. Mixed(flag) = {tail}  BY <2>2, <4>1, <4>2 DEF Mixed, Vec
      <4>4. Len(c.data) = 1  BY <2>3, <4>2, FS_Singleton
      <4>5. c.data[1] \cap mask \in SUBSET Bit  BY <4>1
      <4>6. data = [c.data EXCEPT ![1] = @ \cap mask]  BY <3>2, <4>1
      <4> HIDE DEF mask, flag
      <4>7. data \in Seq(SUBSET Bit) /\ Len(data) = 1
        BY <2>3, <4>4, <4>5, <4>6, ExceptSeq
      <4> QED  BY <4>3, <4>7, FS_Singleton
    <3>3. CASE k > 0 /\ c.flag[tail] # "mixed"
      <4>1. mask # {} /\ mask \in SUBSET Bit  BY <2>m, <3>3
      <4>2. Mixed(flag) = Mixed(c.flag) \cup {tail} /\ tail \notin Mixed(c.flag)
        BY <2>2, <2>5, <3>3, <4>1 DEF Mixed, Vec
      <4>3. Cardinality(Mixed(flag)) = Cardinality(Mixed(c.flag)) + 1
        BY <4>2, MixedFinite, FS_AddElement
      <4>4. data = Append(c.data, mask)  BY <3>3, <4>1
      <4> HIDE DEF mask, flag
      <4>5. data \in Seq(SUBSET Bit) /\ Len(data) = Len(c.data) + 1
        BY <2>3, <4>1, <4>4, AppendProperties
      <4> QED  BY <2>3, <4>3, <4>5
    <3>4. k = 0 \/ k > 0  BY <2>2, ChunkConstants
    <3> HIDE DEF flag, data
    <3> QED  BY <3>1, <3>2, <3>3, <3>4
  <2> HIDE DEF flag, data
  <2> QED  BY <2>1, <2>3, <2>4, <2>6 DEF SparseOK, SparseChunks, SparseChunk, InStep
<1> QED  BY <1>1, <1>2, ChunkCapPositive

\* What is mixed in the chunks a separation writes.
LEMMA OneBitCleared ==
  ASSUME NEW start, NEW i \in 0 .. ChunkCap - 1
  PROVE  /\ Mixed(OnesChunk(start).flag) = {}
         /\ Mixed(ClrBit(OnesChunk(start), i).flag) \subseteq {i \div BitsPerVector}
<1> DEFINE v == i \div BitsPerVector
           c == OnesChunk(start)
<1>1. v \in Vec  BY BitOfIndex
<1>2. c.flag = [u \in Vec |-> "ones"]  BY DEF OnesChunk, SparseChunk
<1> HIDE DEF v, c
<1>3. Mixed(c.flag) = {}  BY <1>2 DEF Mixed
<1>4. c.flag[v] = "ones"  BY <1>1, <1>2
<1>5. ClrBit(c, i).flag = [c.flag EXCEPT ![v] = "mixed"]
  BY <1>4 DEF ClrBit, SetFlag, SparseChunk, v
<1>6. Mixed(ClrBit(c, i).flag) \subseteq {v}  BY <1>1, <1>2, <1>5 DEF Mixed
<1> QED  BY <1>3, <1>6 DEF v, c

----------------------------------------------------------------------------
(* Runs.                                                                   *)

\* A run within a capacity of whole windows loses nothing to the field width.
LEMMA RLEChunkOK ==
  ASSUME NEW start \in Nat, Boundary(start), NEW cap \in Nat, Boundary(cap),
         cap <= RLEMax, NEW len \in 1 .. cap
  PROVE  /\ ChunkOK(RLEChunk(start, len, cap))
         /\ RLEChunk(start, len, cap) =
              [kind |-> "rle", start |-> start, len |-> len, cap |-> cap]
<1>1. \A x \in 0 .. RLEMax : x % (RLEMax + 1) = x  BY ChunkConstants
<1>2. len \in 0 .. RLEMax /\ cap \in 0 .. RLEMax  BY ChunkConstants
<1>3. RLEChunk(start, len, cap) =
        [kind |-> "rle", start |-> start, len |-> len, cap |-> cap]
  BY <1>1, <1>2 DEF RLEChunk
<1> QED  BY <1>2, <1>3 DEF ChunkOK, Chunks, RLEChunks, IsRLE

\* LeadingOnes is defined for every descriptor.
LEMMA LeadingOnesBounds ==
  ASSUME NEW flag \in [Vec -> Flag]
  PROVE  /\ LeadingOnes(flag) \in 0 .. FlagsPerIndex
         /\ \A v \in 0 .. LeadingOnes(flag) - 1 : flag[v] = "ones"
         /\ LeadingOnes(flag) < FlagsPerIndex => flag[LeadingOnes(flag)] # "ones"
<1> DEFINE stops == {n \in 0 .. FlagsPerIndex : n < FlagsPerIndex => flag[n] # "ones"}
           good(n) == /\ \A v \in 0 .. n - 1 : flag[v] = "ones"
                      /\ n < FlagsPerIndex => flag[n] # "ones"
<1>1. FlagsPerIndex \in stops /\ stops \in SUBSET Nat  BY ChunkConstants
<1>2. PICK n \in stops : \A m \in stops : n <= m  BY <1>1, LeastElement
<1>3. n \in 0 .. FlagsPerIndex /\ good(n)
  <2>1. ASSUME NEW v \in 0 .. n - 1  PROVE flag[v] = "ones"
    <3>1. v \notin stops  BY <1>2, <2>1, ChunkConstants
    <3> QED  BY <1>2, <2>1, <3>1, ChunkConstants
  <2> QED  BY <1>2, <2>1
<1>4. LeadingOnes(flag) = CHOOSE m \in 0 .. FlagsPerIndex : good(m)
  BY DEF LeadingOnes
<1> HIDE DEF good
<1>5. LeadingOnes(flag) \in 0 .. FlagsPerIndex /\ good(LeadingOnes(flag))
  BY <1>3, <1>4
<1> QED  BY <1>5 DEF good

\* A sparse chunk without an absent vector answers for its whole window.
LEMMA SparseCapacity ==
  ASSUME NEW c, ChunkOK(c), ~IsRLE(c)
  PROVE  Capacity(c) = ChunkCap
<1>1. c.flag \in [Vec -> Flag]  BY SparseKind DEF ChunkOK, Chunks, SparseChunks
<1>2. Absent(c.flag) = {}  BY <1>1 DEF Absent, Flag
<1>3. Cardinality(Absent(c.flag)) = 0  BY <1>2, FS_EmptySet
<1>4. ChunkCap \in Nat  BY ChunkCapPositive
<1> QED  BY <1>3, <1>4, ChunkConstants DEF Capacity

\* __sm_chunk_get_run_length never gives more than the chunk's capacity.
LEMMA RunLengthBounds ==
  ASSUME NEW c, ChunkOK(c)
  PROVE  /\ Capacity(c) \in Nat
         /\ Boundary(Capacity(c))
         /\ Capacity(c) >= ChunkCap
         /\ RunLength(c) \in 0 .. Capacity(c)
         /\ IsRLE(c) => RunLength(c) = c.len /\ Capacity(c) = c.cap
         /\ ~IsRLE(c) => Capacity(c) = ChunkCap
<1>1. CASE IsRLE(c)
  <2>1. c \in RLEChunks  BY <1>1, SparseKind DEF ChunkOK, Chunks
  <2>2. c.len \in 1 .. c.cap /\ c.cap \in Nat /\ Boundary(c.cap)
    BY <1>1, <2>1 DEF ChunkOK, RLEChunks
  <2>3. c.cap >= ChunkCap  BY <2>2, BoundaryGap, BoundaryZero, ChunkCapPositive
  <2> QED  BY <1>1, <2>2, <2>3 DEF Capacity, RunLength
<1>2. CASE ~IsRLE(c)
  <2>1. /\ c \in SparseChunks /\ c.flag \in [Vec -> Flag]
        /\ c.data \in Seq(SUBSET Bit) /\ Len(c.data) = Cardinality(Mixed(c.flag))
    BY <1>2, SparseKind DEF ChunkOK, Chunks, SparseChunks, InStep
  <2> DEFINE lead == LeadingOnes(c.flag)
             tail == IF lead \in Vec /\ c.flag[lead] = "mixed" THEN c.data[1] ELSE {}
  <2>2. lead \in 0 .. FlagsPerIndex  BY <2>1, LeadingOnesBounds
  <2>3. RunLength(c) \in {0, lead * BitsPerVector + Cardinality(tail)}
    BY <1>2 DEF RunLength, SparseRun
  <2> HIDE DEF lead
  <2>4. tail \in SUBSET Bit /\ (lead = FlagsPerIndex => tail = {})
    <3>1. ASSUME lead \in Vec, c.flag[lead] = "mixed"  PROVE c.data[1] \in SUBSET Bit
      <4>1. Mixed(c.flag) # {}  BY <3>1 DEF Mixed
      <4>2. Cardinality(Mixed(c.flag)) \in Nat \ {0}  BY <4>1, MixedFinite, FS_EmptySet
      <4> QED  BY <2>1, <4>2, LenProperties
    <3>2. lead = FlagsPerIndex => lead \notin Vec  BY ChunkConstants DEF Vec
    <3> QED  BY <3>1, <3>2
  <2> HIDE DEF tail
  <2>5. /\ Cardinality(tail) \in 0 .. BitsPerVector
        /\ lead = FlagsPerIndex => Cardinality(tail) = 0
    <3>1. IsFiniteSet(Bit) /\ Cardinality(Bit) = BitsPerVector
      BY FS_Interval, ChunkConstants DEF Bit
    <3>2. IsFiniteSet(tail) /\ Cardinality(tail) <= Cardinality(Bit)
      BY <2>4, <3>1, FS_Subset
    <3> QED  BY <2>4, <3>1, <3>2, FS_CardinalityType, FS_EmptySet
  <2>6. lead * BitsPerVector + Cardinality(tail) \in 0 .. ChunkCap
    <3>1. CASE lead = FlagsPerIndex
      BY <2>5, <3>1, ChunkConstants DEF ChunkCap
    <3>2. CASE lead < FlagsPerIndex
      <4>1. PICK d \in Nat : FlagsPerIndex = lead + 1 + d
        <5>1. FlagsPerIndex - lead - 1 \in Nat  BY <2>2, <3>2, ChunkConstants
        <5> QED  BY <2>2, <5>1, ChunkConstants
      <4>2. d * BitsPerVector \in Nat /\ lead * BitsPerVector \in Nat
        BY <2>2, ChunkConstants
      <4>3. ChunkCap = lead * BitsPerVector + BitsPerVector + d * BitsPerVector
        BY <2>2, <4>1, ChunkConstants DEF ChunkCap
      <4> QED  BY <2>5, <4>2, <4>3, ChunkConstants
    <3> QED  BY <2>2, <3>1, <3>2, ChunkConstants
  <2>7. Capacity(c) = ChunkCap  BY <1>2, SparseCapacity
  <2> QED  BY <1>2, <2>3, <2>6, <2>7, ChunkCapPositive, BoundaryZero
<1> QED  BY <1>1, <1>2

\* A window with one bit holds no run: its first vector is not full.
LEMMA OneBitNoRun ==
  ASSUME NEW start, NEW i \in 0 .. ChunkCap - 1
  PROVE  RunLength(SetBit(ZerosChunk(start), i)) = 0
<1> DEFINE v == i \div BitsPerVector
           z == ZerosChunk(start)
           c == SetBit(z, i)
<1>1. v \in Vec  BY BitOfIndex
<1>2. z.flag = [u \in Vec |-> "zeros"]  BY DEF ZerosChunk, SparseChunk
<1> HIDE DEF v, z
<1>3. z.flag[v] = "zeros"  BY <1>1, <1>2
<1>4. c.kind = "sparse" /\ c.flag = [z.flag EXCEPT ![v] = "mixed"]
  BY <1>3 DEF SetBit, SetFlag, SparseChunk, v
<1> HIDE DEF c
<1>5. c.flag \in [Vec -> Flag] /\ c.flag[0] # "ones"
  BY <1>1, <1>2, <1>4, ChunkConstants DEF Vec, Flag
<1>6. LeadingOnes(c.flag) = 0  BY <1>5, LeadingOnesBounds, ChunkConstants
<1>7. RunLength(c) = 0  BY <1>4, <1>6 DEF RunLength, SparseRun, IsRLE
<1> QED  BY <1>7 DEF c, z

----------------------------------------------------------------------------
(* The indices a chunk holds.                                              *)

\* The bits of one vector, whichever way the chunk encodes them.
VectorBits(c, v) ==
  IF c.flag[v] = "ones" THEN Bit
  ELSE IF c.flag[v] = "mixed" THEN c.data[Position(c, v)] ELSE {}

\* No payload word is one that a flag could stand for.
ProperWords(c) == \A p \in 1 .. Len(c.data) : c.data[p] \notin {{}, Bit}

\* The fields of a well-formed sparse chunk.
LEMMA SparseFields ==
  ASSUME NEW c, SparseOK(c)
  PROVE  /\ c \in SparseChunks /\ ~IsRLE(c) /\ c.start \in Nat
         /\ c.flag \in [Vec -> Flag]
         /\ c.data \in Seq(SUBSET Bit) /\ Len(c.data) \in Nat
         /\ Len(c.data) = Cardinality(Mixed(c.flag))
         /\ c = [kind |-> "sparse", start |-> c.start, flag |-> c.flag, data |-> c.data]
  BY SparseKind, LenProperties DEF SparseOK, SparseChunks, InStep

----------------------------------------------------------------------------
(* Where the payload words are.                                            *)

\* What an insertion and a removal in the middle of the payload leave where.
LEMMA InsertAtElements ==
  ASSUME NEW S, NEW s \in Seq(S), NEW e \in S, NEW p \in 1 .. Len(s) + 1
  PROVE  /\ InsertAt(s, p, e)[p] = e
         /\ \A x \in 1 .. p - 1 : InsertAt(s, p, e)[x] = s[x]
         /\ \A x \in p .. Len(s) : InsertAt(s, p, e)[x + 1] = s[x]
<1> DEFINE l == SubSeq(s, 1, p - 1)
           r == SubSeq(s, p, Len(s))
           le == l \o << e >>
<1>1. Len(s) \in Nat /\ \A x \in 1 .. Len(s) : s[x] \in S  BY LenProperties
<1>2. l \in Seq(S) /\ Len(l) = p - 1 /\ \A x \in 1 .. p - 1 : l[x] = s[x]
  BY <1>1, SubSeqProperties
<1>3. /\ r \in Seq(S) /\ Len(r) = Len(s) - p + 1
      /\ \A x \in 1 .. Len(s) - p + 1 : r[x] = s[p + x - 1]
  BY <1>1, SubSeqProperties
<1> HIDE DEF l, r
<1>4. << e >> \in Seq(S) /\ Len(<< e >>) = 1 /\ << e >>[1] = e  OBVIOUS
<1>5. /\ le \in Seq(S) /\ Len(le) = p
      /\ \A x \in 1 .. p : le[x] = IF x <= p - 1 THEN l[x] ELSE << e >>[x - (p - 1)]
  BY <1>1, <1>2, <1>4, ConcatProperties
<1> HIDE DEF le
<1>6. \A x \in 1 .. p + Len(r) : (le \o r)[x] = IF x <= p THEN le[x] ELSE r[x - p]
  BY <1>3, <1>5, ConcatProperties
<1>7. InsertAt(s, p, e) = le \o r  BY DEF InsertAt, le, l, r
<1> DEFINE w == le \o r
<1> HIDE DEF w
<1>8. w[p] = e
  <2>1. p \in 1 .. p + Len(r)  BY <1>1, <1>3
  <2>2. w[p] = le[p] /\ le[p] = << e >>[p - (p - 1)]  BY <1>5, <1>6, <2>1 DEF w
  <2>3. p - (p - 1) = 1  BY <1>1
  <2>4. << e >>[1] = e  BY <1>4
  <2> QED  BY ONLY <2>2, <2>3, <2>4, Zenon
<1>9. ASSUME NEW x \in 1 .. p - 1  PROVE w[x] = s[x]
  <2>1. x \in 1 .. p + Len(r) /\ x \in 1 .. p /\ x <= p  BY <1>1, <1>3
  <2>2. w[x] = le[x]  BY <1>6, <2>1 DEF w
  <2>3. le[x] = l[x]  BY <1>5, <2>1
  <2> QED  BY <1>2, <2>2, <2>3
<1>10. ASSUME NEW x \in p .. Len(s)  PROVE w[x + 1] = s[x]
  <2>1. x + 1 \in 1 .. p + Len(r) /\ ~(x + 1 <= p) /\ (x + 1) - p \in 1 .. Len(s) - p + 1
        /\ p + ((x + 1) - p) - 1 = x
    BY <1>1, <1>3
  <2> DEFINE y == (x + 1) - p
  <2>2. w[x + 1] = r[y]  BY <1>6, <2>1 DEF w
  <2>3. r[y] = s[p + y - 1]  BY <1>3, <2>1
  <2> QED  BY <2>1, <2>2, <2>3
<1> QED  BY <1>7, <1>8, <1>9, <1>10 DEF w

\* The other words keep their order when one goes.
LEMMA RemoveAtElements ==
  ASSUME NEW S, NEW s \in Seq(S), NEW p \in 1 .. Len(s)
  PROVE  /\ \A x \in 1 .. p - 1 : RemoveAt(s, p)[x] = s[x]
         /\ \A x \in p + 1 .. Len(s) : RemoveAt(s, p)[x - 1] = s[x]
<1> DEFINE l == SubSeq(s, 1, p - 1)
           r == SubSeq(s, p + 1, Len(s))
           w == l \o r
<1>1. Len(s) \in Nat /\ \A x \in 1 .. Len(s) : s[x] \in S  BY LenProperties
<1>2. l \in Seq(S) /\ Len(l) = p - 1 /\ \A x \in 1 .. p - 1 : l[x] = s[x]
  BY <1>1, SubSeqProperties
<1>3. /\ r \in Seq(S) /\ Len(r) = Len(s) - p
      /\ \A x \in 1 .. Len(s) - p : r[x] = s[(p + 1) + x - 1]
  BY <1>1, SubSeqProperties
<1>4. RemoveAt(s, p) = w  BY DEF RemoveAt
<1> HIDE DEF l, r
<1>5. \A x \in 1 .. Len(s) - 1 : w[x] = IF x <= p - 1 THEN l[x] ELSE r[x - (p - 1)]
  BY <1>1, <1>2, <1>3, ConcatProperties
<1> HIDE DEF w
<1>6. ASSUME NEW x \in 1 .. p - 1  PROVE w[x] = s[x]
  <2>1. x \in 1 .. Len(s) - 1 /\ x <= p - 1  BY <1>1
  <2> QED  BY <1>2, <1>5, <2>1
<1>7. ASSUME NEW x \in p + 1 .. Len(s)  PROVE w[x - 1] = s[x]
  <2> DEFINE y == (x - 1) - (p - 1)
  <2>1. x - 1 \in 1 .. Len(s) - 1 /\ ~(x - 1 <= p - 1) /\ y \in 1 .. Len(s) - p
        /\ (p + 1) + y - 1 = x
    BY <1>1
  <2>2. w[x - 1] = r[y]  BY <1>5, <2>1
  <2>3. r[y] = s[(p + 1) + y - 1]  BY <1>3, <2>1
  <2> QED  BY <2>1, <2>2, <2>3
<1> QED  BY <1>4, <1>6, <1>7

\* The mixed vectors below v are counted by v's position.
LEMMA PositionCounts ==
  ASSUME NEW c, NEW v \in Vec
  PROVE  /\ IsFiniteSet({u \in Mixed(c.flag) : u < v})
         /\ Cardinality({u \in Mixed(c.flag) : u < v}) \in Nat
         /\ Position(c, v) = 1 + Cardinality({u \in Mixed(c.flag) : u < v})
         /\ Position(c, v) \in Nat
<1> DEFINE U == {u \in Mixed(c.flag) : u < v}
<1>1. IsFiniteSet(U)  BY MixedFinite, FS_Subset
<1>2. Cardinality(U) \in Nat  BY <1>1, FS_CardinalityType
<1>3. Position(c, v) = 1 + Cardinality(U)  BY DEF Position
<1> HIDE DEF U
<1>4. Position(c, v) \in Nat  BY <1>2, <1>3
<1> QED  BY <1>1, <1>2, <1>3, <1>4 DEF U

\* The words are in the order of their vectors.
LEMMA PositionAscends ==
  ASSUME NEW c, NEW u \in Vec, NEW v \in Vec, u < v
  PROVE  /\ Position(c, u) <= Position(c, v)
         /\ u \in Mixed(c.flag) => Position(c, u) < Position(c, v)
<1> DEFINE U == {w \in Mixed(c.flag) : w < u}
           V == {w \in Mixed(c.flag) : w < v}
<1>1. /\ IsFiniteSet(U) /\ Cardinality(U) \in Nat /\ Position(c, u) = 1 + Cardinality(U)
      /\ IsFiniteSet(V) /\ Cardinality(V) \in Nat /\ Position(c, v) = 1 + Cardinality(V)
  BY PositionCounts
<1>2. U \subseteq V /\ Mixed(c.flag) \subseteq Vec  BY MixedFinite DEF Vec
<1>3. Cardinality(U) <= Cardinality(V)  BY <1>1, <1>2, FS_Subset
<1>4. ASSUME u \in Mixed(c.flag)  PROVE Cardinality(U) < Cardinality(V)
  <2>1. u \in V /\ u \notin U  BY <1>4 DEF Vec
  <2>2. Cardinality(U) # Cardinality(V)  BY <1>1, <1>2, <2>1, FS_Subset
  <2> QED  BY <1>1, <1>3, <2>2
<1> HIDE DEF U, V
<1> QED  BY <1>1, <1>3, <1>4

\* A vector that becomes mixed moves the words of the ones above it.
LEMMA PositionWithMixed ==
  ASSUME NEW c, NEW d, NEW v \in Vec, v \notin Mixed(c.flag),
         Mixed(d.flag) = Mixed(c.flag) \cup {v}, NEW u \in Vec
  PROVE  Position(d, u) = IF v < u THEN Position(c, u) + 1 ELSE Position(c, u)
<1> DEFINE U == {w \in Mixed(c.flag) : w < u}
           W == {w \in Mixed(d.flag) : w < u}
<1>1. /\ IsFiniteSet(U) /\ Cardinality(U) \in Nat /\ Position(c, u) = 1 + Cardinality(U)
      /\ Position(d, u) = 1 + Cardinality(W)
  BY PositionCounts
<1>2. CASE v < u
  <2>1. W = U \cup {v} /\ v \notin U  BY <1>2
  <2>2. Cardinality(W) = Cardinality(U) + 1  BY <1>1, <2>1, FS_AddElement
  <2> QED  BY <1>1, <1>2, <2>2
<1>3. CASE ~(v < u)
  <2>1. W = U  BY <1>3
  <2> QED  BY <1>1, <1>3, <2>1
<1> QED  BY <1>2, <1>3

\* A mixed vector has a word of its own.
LEMMA PositionApart ==
  ASSUME NEW c, SparseOK(c), NEW u \in Mixed(c.flag), NEW v \in Mixed(c.flag), u # v
  PROVE  /\ Position(c, u) \in 1 .. Len(c.data)
         /\ Position(c, u) # Position(c, v)
<1>1. u \in Vec /\ v \in Vec /\ c.flag[u] = "mixed"  BY DEF Mixed
<1>2. Position(c, u) \in 1 .. Len(c.data)
  BY <1>1, SparseFields, PositionBounds
<1>3. u < v \/ v < u  BY <1>1 DEF Vec
<1>4. Position(c, u) \in Nat /\ Position(c, v) \in Nat  BY <1>1, PositionCounts
<1> QED  BY <1>1, <1>2, <1>3, <1>4, PositionAscends

\* d is c but for vector v, which holds the bits w.
SameButFor(d, c, v, w) ==
  /\ SparseOK(d) /\ d.start = c.start
  /\ VectorBits(d, v) = w
  /\ \A u \in Vec \ {v} : VectorBits(d, u) = VectorBits(c, u)
  /\ ProperWords(c) => ProperWords(d)

\* A full or an empty vector becomes mixed: its word is slid in.
LEMMA VectorBecomesMixed ==
  ASSUME NEW c, SparseOK(c), NEW v \in Vec, c.flag[v] # "mixed",
         NEW w \in SUBSET Bit, w \notin {{}, Bit}
  PROVE  SameButFor(SetFlag(c, v, "mixed", InsertAt(c.data, Position(c, v), w)), c, v, w)
<1> DEFINE p == Position(c, v)
           data == InsertAt(c.data, p, w)
           flag == [c.flag EXCEPT ![v] = "mixed"]
           d == SetFlag(c, v, "mixed", data)
<1>1. /\ c \in SparseChunks /\ c.flag \in [Vec -> Flag] /\ c.data \in Seq(SUBSET Bit)
      /\ Len(c.data) \in Nat /\ Len(c.data) = Cardinality(Mixed(c.flag))
  BY SparseFields
<1>2. p \in 1 .. Len(c.data) + 1  BY <1>1, PositionBounds
<1> HIDE DEF p
<1>3. data \in Seq(SUBSET Bit) /\ Len(data) = Len(c.data) + 1
  BY <1>1, <1>2, InsertAtProperties
<1>4. /\ data[p] = w
      /\ \A x \in 1 .. p - 1 : data[x] = c.data[x]
      /\ \A x \in p .. Len(c.data) : data[x + 1] = c.data[x]
  <2> DEFINE S == SUBSET Bit
             words == c.data
  <2>1. words \in Seq(S) /\ p \in 1 .. Len(words) + 1 /\ w \in S  BY <1>1, <1>2
  <2> HIDE DEF S, words
  <2>2. /\ InsertAt(words, p, w)[p] = w
        /\ \A x \in 1 .. p - 1 : InsertAt(words, p, w)[x] = words[x]
        /\ \A x \in p .. Len(words) : InsertAt(words, p, w)[x + 1] = words[x]
    BY ONLY <2>1, InsertAtElements
  <2> QED  BY <2>2 DEF words
<1> HIDE DEF data
<1>5. Mixed(flag) = Mixed(c.flag) \cup {v} /\ v \notin Mixed(c.flag)
  BY <1>1 DEF Mixed
<1>6. InStep(flag, data)  BY <1>1, <1>3, MixedGrows DEF InStep
<1>7. d.flag = flag /\ d.data = data /\ d.start = c.start
  BY DEF SetFlag, SparseChunk
<1>8. SparseOK(d)
  <2>1. "mixed" \in Flag  BY DEF Flag
  <2> HIDE DEF flag
  <2> QED  BY <1>3, <1>6, <2>1, SetFlagOK DEF flag
<1> HIDE DEF d
<1>9. \A u \in Vec : Position(d, u) = IF v < u THEN Position(c, u) + 1 ELSE Position(c, u)
  BY <1>5, <1>7, PositionWithMixed
<1>10. VectorBits(d, v) = w
  <2>1. d.flag[v] = "mixed"  BY <1>1, <1>7
  <2>2. Position(d, v) = p  BY <1>9 DEF p, Vec
  <2> QED  BY <1>4, <1>7, <2>1, <2>2 DEF VectorBits
<1>11. ASSUME NEW u \in Vec \ {v}  PROVE VectorBits(d, u) = VectorBits(c, u)
  <2>1. d.flag[u] = c.flag[u]  BY <1>1, <1>7
  <2>2. ASSUME c.flag[u] = "mixed"  PROVE d.data[Position(d, u)] = c.data[Position(c, u)]
    <3>1. u \in Mixed(c.flag)  BY <2>2 DEF Mixed
    <3>2. Position(c, u) \in 1 .. Len(c.data)  BY <1>1, <2>2, PositionBounds
    <3>3. CASE u < v
      <4>1. Position(c, u) < p  BY <3>1, <3>3, PositionAscends DEF p
      <4>2. Position(c, u) \in 1 .. p - 1  BY <1>1, <1>2, <3>2, <4>1
      <4>3. Position(d, u) = Position(c, u)  BY <1>9, <3>3 DEF Vec
      <4> QED  BY <1>4, <1>7, <4>2, <4>3
    <3>4. CASE v < u
      <4>1. p <= Position(c, u)  BY <3>4, PositionAscends DEF p
      <4>2. Position(c, u) \in p .. Len(c.data)  BY <1>1, <1>2, <3>2, <4>1
      <4>3. Position(d, u) = Position(c, u) + 1  BY <1>9, <3>4
      <4> QED  BY <1>4, <1>7, <4>2, <4>3
    <3> QED  BY <3>3, <3>4 DEF Vec
  <2> QED  BY <2>1, <2>2 DEF VectorBits
<1>12. ASSUME ProperWords(c), NEW x \in 1 .. Len(d.data)  PROVE d.data[x] \notin {{}, Bit}
  <2>1. x \in 1 .. Len(c.data) + 1  BY <1>3, <1>7
  <2>2. CASE x < p
    <3>1. x \in 1 .. p - 1 /\ x \in 1 .. Len(c.data)  BY <1>1, <1>2, <2>1, <2>2
    <3> QED  BY <1>4, <1>7, <1>12, <3>1 DEF ProperWords
  <2>3. CASE x = p
    BY <1>4, <1>7, <2>3
  <2>4. CASE x > p
    <3>1. x - 1 \in p .. Len(c.data) /\ x - 1 \in 1 .. Len(c.data) /\ (x - 1) + 1 = x
      BY <1>1, <1>2, <2>1, <2>4
    <3>2. data[x] = c.data[x - 1]  BY <1>4, <3>1
    <3> QED  BY <1>7, <1>12, <3>1, <3>2 DEF ProperWords
  <2> QED  BY <1>2, <2>1, <2>2, <2>3, <2>4
<1> QED  BY <1>7, <1>8, <1>10, <1>11, <1>12 DEF SameButFor, ProperWords, d, data, p

\* A mixed vector becomes full or empty: its word is slid out.
LEMMA VectorBecomesPlain ==
  ASSUME NEW c, SparseOK(c), NEW v \in Vec, c.flag[v] = "mixed",
         NEW to \in {"zeros", "ones"}
  PROVE  SameButFor(SetFlag(c, v, to, RemoveAt(c.data, Position(c, v))), c, v,
                    IF to = "ones" THEN Bit ELSE {})
<1> DEFINE p == Position(c, v)
           data == RemoveAt(c.data, p)
           flag == [c.flag EXCEPT ![v] = to]
           d == SetFlag(c, v, to, data)
<1>1. /\ c \in SparseChunks /\ c.flag \in [Vec -> Flag] /\ c.data \in Seq(SUBSET Bit)
      /\ Len(c.data) \in Nat /\ Len(c.data) = Cardinality(Mixed(c.flag))
  BY SparseFields
<1>2. p \in 1 .. Len(c.data)  BY <1>1, PositionBounds
<1> HIDE DEF p
<1>3. data \in Seq(SUBSET Bit) /\ Len(data) = Len(c.data) - 1
  BY <1>1, <1>2, RemoveAtProperties
<1>4. /\ \A x \in 1 .. p - 1 : data[x] = c.data[x]
      /\ \A x \in p + 1 .. Len(c.data) : data[x - 1] = c.data[x]
  BY <1>1, <1>2, RemoveAtElements
<1> HIDE DEF data
<1>5. Mixed(c.flag) = Mixed(flag) \cup {v} /\ v \notin Mixed(flag)
  BY <1>1 DEF Mixed
<1>6. InStep(flag, data)  BY <1>1, <1>3, MixedShrinks DEF InStep
<1>7. d.flag = flag /\ d.data = data /\ d.start = c.start
  BY DEF SetFlag, SparseChunk
<1>8. SparseOK(d)
  <2>1. to \in Flag  BY DEF Flag
  <2> HIDE DEF flag
  <2> QED  BY <1>3, <1>6, <2>1, SetFlagOK DEF flag
<1> HIDE DEF d
<1>9. \A u \in Vec : Position(c, u) = IF v < u THEN Position(d, u) + 1 ELSE Position(d, u)
  BY <1>5, <1>7, PositionWithMixed
<1>10. VectorBits(d, v) = IF to = "ones" THEN Bit ELSE {}
  <2>1. d.flag[v] = to  BY <1>1, <1>7
  <2> QED  BY <2>1 DEF VectorBits
<1>11. ASSUME NEW u \in Vec \ {v}  PROVE VectorBits(d, u) = VectorBits(c, u)
  <2>1. d.flag[u] = c.flag[u]  BY <1>1, <1>7
  <2>2. ASSUME c.flag[u] = "mixed"  PROVE d.data[Position(d, u)] = c.data[Position(c, u)]
    <3>1. u \in Mixed(c.flag) /\ v \in Mixed(c.flag)  BY <2>2 DEF Mixed
    <3>2. Position(c, u) \in 1 .. Len(c.data)  BY <1>1, <2>2, PositionBounds
    <3>a. Position(d, u) \in Nat  BY PositionCounts
    <3>3. CASE u < v
      <4>1. Position(c, u) < p  BY <3>1, <3>3, PositionAscends DEF p
      <4>2. Position(c, u) \in 1 .. p - 1  BY <1>1, <1>2, <3>2, <4>1
      <4>3. Position(d, u) = Position(c, u)  BY <1>9, <3>3 DEF Vec
      <4> QED  BY <1>4, <1>7, <4>2, <4>3
    <3>4. CASE v < u
      <4>1. p < Position(c, u)  BY <3>1, <3>4, PositionAscends DEF p
      <4>2. Position(c, u) \in p + 1 .. Len(c.data)  BY <1>1, <1>2, <3>2, <4>1
      <4>3. Position(d, u) = Position(c, u) - 1  BY <1>9, <3>4, <3>a
      <4> QED  BY <1>4, <1>7, <4>2, <4>3
    <3> QED  BY <3>3, <3>4 DEF Vec
  <2> QED  BY <2>1, <2>2 DEF VectorBits
<1>12. ASSUME ProperWords(c), NEW x \in 1 .. Len(d.data)  PROVE d.data[x] \notin {{}, Bit}
  <2>1. x \in 1 .. Len(c.data) - 1  BY <1>3, <1>7
  <2>2. CASE x < p
    <3>1. x \in 1 .. p - 1 /\ x \in 1 .. Len(c.data)  BY <1>1, <1>2, <2>1, <2>2
    <3> QED  BY <1>4, <1>7, <1>12, <3>1 DEF ProperWords
  <2>3. CASE x >= p
    <3>1. x + 1 \in p + 1 .. Len(c.data) /\ x + 1 \in 1 .. Len(c.data) /\ (x + 1) - 1 = x
      BY <1>1, <1>2, <2>1, <2>3
    <3>2. data[x] = c.data[x + 1]  BY <1>4, <3>1
    <3> QED  BY <1>7, <1>12, <3>1, <3>2 DEF ProperWords
  <2> QED  BY <1>2, <2>1, <2>2, <2>3
<1> QED  BY <1>7, <1>8, <1>10, <1>11, <1>12 DEF SameButFor, ProperWords, d, data, p

\* The word of a mixed vector is written over.
LEMMA WordChanges ==
  ASSUME NEW c, SparseOK(c), NEW v \in Vec, c.flag[v] = "mixed",
         NEW w \in SUBSET Bit, w \notin {{}, Bit}
  PROVE  SameButFor([c EXCEPT !.data = [c.data EXCEPT ![Position(c, v)] = w]], c, v, w)
<1> DEFINE p == Position(c, v)
           data == [c.data EXCEPT ![p] = w]
           d == [c EXCEPT !.data = data]
<1>1. /\ c \in SparseChunks /\ c.flag \in [Vec -> Flag] /\ c.data \in Seq(SUBSET Bit)
      /\ Len(c.data) \in Nat /\ Len(c.data) = Cardinality(Mixed(c.flag))
      /\ c = [kind |-> "sparse", start |-> c.start, flag |-> c.flag, data |-> c.data]
  BY SparseFields
<1>2. p \in 1 .. Len(c.data)  BY <1>1, PositionBounds
<1>3. /\ data \in Seq(SUBSET Bit) /\ Len(data) = Len(c.data)
      /\ \A x \in 1 .. Len(c.data) : data[x] = IF x = p THEN w ELSE c.data[x]
  BY <1>1, <1>2, ExceptSeq
<1> HIDE DEF data
<1>4. d = [kind |-> "sparse", start |-> c.start, flag |-> c.flag, data |-> data]
  <2> DEFINE e == [kind |-> "sparse", start |-> c.start, flag |-> c.flag, data |-> c.data]
  <2>1. c = e  BY <1>1
  <2>2. [e EXCEPT !.data = data] =
          [kind |-> "sparse", start |-> c.start, flag |-> c.flag, data |-> data]
    OBVIOUS
  <2> HIDE DEF e
  <2> QED  BY <2>1, <2>2
<1> HIDE DEF d
<1>5. SparseOK(d) /\ d.start = c.start /\ d.flag = c.flag /\ d.data = data
  BY <1>1, <1>3, <1>4 DEF SparseOK, SparseChunks, InStep
<1>6. \A u \in Vec : Position(d, u) = Position(c, u)  BY <1>5 DEF Position
<1>7. VectorBits(d, v) = w  BY <1>2, <1>3, <1>5, <1>6 DEF VectorBits
<1>8. ASSUME NEW u \in Vec \ {v}  PROVE VectorBits(d, u) = VectorBits(c, u)
  <2>1. ASSUME c.flag[u] = "mixed"  PROVE data[Position(c, u)] = c.data[Position(c, u)]
    <3>1. u \in Mixed(c.flag) /\ v \in Mixed(c.flag)  BY <2>1 DEF Mixed
    <3>2. Position(c, u) \in 1 .. Len(c.data) /\ Position(c, u) # p
      BY <3>1, PositionApart
    <3> QED  BY <1>3, <3>2
  <2> QED  BY <1>5, <1>6, <2>1 DEF VectorBits
<1>9. ASSUME ProperWords(c)  PROVE ProperWords(d)
  BY <1>3, <1>5, <1>9 DEF ProperWords
<1> QED  BY <1>5, <1>7, <1>8, <1>9 DEF SameButFor, d, data

----------------------------------------------------------------------------
(* One bit.                                                                *)

\* An index of the window is its vector and its place there.
LEMMA BitPlace ==
  /\ \A i, k \in 0 .. ChunkCap - 1 :
       i \div BitsPerVector = k \div BitsPerVector /\ i % BitsPerVector = k % BitsPerVector
         => i = k
  /\ \A v \in Vec, b \in Bit :
       /\ v * BitsPerVector + b \in 0 .. ChunkCap - 1
       /\ (v * BitsPerVector + b) \div BitsPerVector = v
       /\ (v * BitsPerVector + b) % BitsPerVector = b
<1>1. ASSUME NEW i \in 0 .. ChunkCap - 1
      PROVE  i = (i \div BitsPerVector) * BitsPerVector + (i % BitsPerVector)
  BY ChunkCapPositive, WordSplit
<1>2. ASSUME NEW i \in 0 .. ChunkCap - 1, NEW k \in 0 .. ChunkCap - 1,
             i \div BitsPerVector = k \div BitsPerVector, i % BitsPerVector = k % BitsPerVector
      PROVE  i = k
  BY <1>1, <1>2, Zenon
<1>3. ASSUME NEW v \in Vec, NEW b \in Bit
      PROVE  /\ v * BitsPerVector + b \in 0 .. ChunkCap - 1
             /\ (v * BitsPerVector + b) \div BitsPerVector = v
             /\ (v * BitsPerVector + b) % BitsPerVector = b
  <2> DEFINE n == v * BitsPerVector + b
             w == n \div BitsPerVector
             r == n % BitsPerVector
  <2>1. v \in Nat /\ b \in Nat /\ b < BitsPerVector /\ v + 1 <= FlagsPerIndex
    BY ChunkConstants DEF Vec, Bit
  <2>2. PICK d \in Nat : FlagsPerIndex = v + 1 + d
    <3>1. FlagsPerIndex - (v + 1) \in Nat  BY <2>1, ChunkConstants
    <3> QED  BY <2>1, <3>1, ChunkConstants
  <2>3. d * BitsPerVector \in Nat /\ v * BitsPerVector \in Nat  BY <2>1, ChunkConstants
  <2>4. ChunkCap = v * BitsPerVector + BitsPerVector + d * BitsPerVector
    BY <2>1, <2>2, ChunkConstants DEF ChunkCap
  <2>5. n \in 0 .. ChunkCap - 1  BY <2>1, <2>3, <2>4, ChunkConstants
  <2>6. n \in Nat  BY <2>1, <2>3
  <2> HIDE DEF n
  <2>7. w \in Nat /\ r \in Nat /\ r < BitsPerVector /\ n = w * BitsPerVector + r
    BY <2>6, WordSplit, ChunkConstants DEF Bit
  <2> HIDE DEF w, r
  <2>8. v * BitsPerVector + b = w * BitsPerVector + r  BY <2>7 DEF n
  <2>9. ~(w > v)
    <3>1. ASSUME w > v  PROVE FALSE
      <4>1. PICK e \in Nat : w = v + 1 + e
        <5>1. w - (v + 1) \in Nat  BY <2>1, <2>7, <3>1
        <5> QED  BY <2>1, <2>7, <5>1
      <4>2. e * BitsPerVector \in Nat  BY ChunkConstants
      <4>3. w * BitsPerVector = v * BitsPerVector + BitsPerVector + e * BitsPerVector
        BY <2>1, <4>1, ChunkConstants
      <4> QED  BY <2>1, <2>3, <2>7, <2>8, <4>2, <4>3, ChunkConstants
    <3> QED  BY <3>1
  <2>10. ~(w < v)
    <3>1. ASSUME w < v  PROVE FALSE
      <4>1. PICK e \in Nat : v = w + 1 + e
        <5>1. v - (w + 1) \in Nat  BY <2>1, <2>7, <3>1
        <5> QED  BY <2>1, <2>7, <5>1
      <4>2. e * BitsPerVector \in Nat /\ w * BitsPerVector \in Nat
        BY <2>7, ChunkConstants
      <4>3. v * BitsPerVector = w * BitsPerVector + BitsPerVector + e * BitsPerVector
        BY <2>7, <4>1, ChunkConstants
      <4> QED  BY <2>1, <2>7, <2>8, <4>2, <4>3, ChunkConstants
    <3> QED  BY <3>1
  <2>11. w = v  BY <2>1, <2>7, <2>9, <2>10
  <2>12. r = b  BY <2>1, <2>3, <2>7, <2>8, <2>11
  <2> QED  BY <2>5, <2>11, <2>12 DEF n, w, r
<1> QED  BY <1>2, <1>3

\* A lookup reads one bit of one vector.
LEMMA IsSetVector ==
  ASSUME NEW c, SparseOK(c), NEW k \in 0 .. ChunkCap - 1
  PROVE  IsSet(c, k) <=> k % BitsPerVector \in VectorBits(c, k \div BitsPerVector)
<1> DEFINE v == k \div BitsPerVector
           b == k % BitsPerVector
<1>1. v \in Vec /\ b \in Bit  BY BitOfIndex
<1>2. ~IsRLE(c) /\ c.flag \in [Vec -> Flag]  BY SparseFields
<1>3. k < ChunkCap  BY ChunkCapPositive
<1>4. IsSet(c, k) <=> \/ c.flag[v] = "ones"
                      \/ c.flag[v] = "mixed" /\ b \in c.data[Position(c, v)]
  BY <1>2, <1>3 DEF IsSet
<1> HIDE DEF v, b
<1>5. b \in VectorBits(c, v) <=> \/ c.flag[v] = "ones"
                                 \/ c.flag[v] = "mixed" /\ b \in c.data[Position(c, v)]
  BY <1>1 DEF VectorBits
<1> QED  BY <1>4, <1>5 DEF v, b

\* d is c with the bits of vector v replaced by w: what that does to each index.
LEMMA SameButForIsSet ==
  ASSUME NEW c, SparseOK(c), NEW d, NEW v \in Vec, NEW w, SameButFor(d, c, v, w),
         NEW k \in 0 .. ChunkCap - 1
  PROVE  IsSet(d, k) <=> IF k \div BitsPerVector = v THEN k % BitsPerVector \in w
                         ELSE IsSet(c, k)
<1>1. k \div BitsPerVector \in Vec  BY BitOfIndex
<1>2. SparseOK(d)  BY DEF SameButFor
<1>3. IsSet(d, k) <=> k % BitsPerVector \in VectorBits(d, k \div BitsPerVector)
  BY <1>2, IsSetVector
<1>4. IsSet(c, k) <=> k % BitsPerVector \in VectorBits(c, k \div BitsPerVector)
  BY IsSetVector
<1> QED  BY <1>1, <1>3, <1>4 DEF SameButFor

\* One bit is neither no bit nor all of them, and neither are all but one.
LEMMA OneOfSeveral ==
  ASSUME NEW b \in Bit
  PROVE  {b} \notin {{}, Bit} /\ Bit \ {b} \notin {{}, Bit}
<1>1. 0 \in Bit /\ 1 \in Bit /\ 0 # 1  BY ChunkConstants DEF Bit
<1> QED  BY <1>1

\* __sm_chunk_set_bit sets its bit and no other, and writes no word that a flag
\* could stand for.
LEMMA SetBitSets ==
  ASSUME NEW c, SparseOK(c), NEW i \in 0 .. ChunkCap - 1
  PROVE  /\ \A k \in 0 .. ChunkCap - 1 : IsSet(SetBit(c, i), k) <=> k = i \/ IsSet(c, k)
         /\ ProperWords(c) => ProperWords(SetBit(c, i))
<1> DEFINE v == i \div BitsPerVector
           b == i % BitsPerVector
           p == Position(c, v)
<1>1. v \in Vec /\ b \in Bit  BY BitOfIndex
<1>2. c.flag[v] \in {"zeros", "ones", "mixed"}  BY <1>1, SparseFields DEF Flag
<1>3. \A k \in 0 .. ChunkCap - 1 : k = i <=> k \div BitsPerVector = v /\ k % BitsPerVector = b
  BY BitPlace
<1>4. \A k \in 0 .. ChunkCap - 1 :
        IsSet(c, k) <=> k % BitsPerVector \in VectorBits(c, k \div BitsPerVector)
  BY IsSetVector
<1>5. ASSUME SameButFor(SetBit(c, i), c, v, VectorBits(c, v) \cup {b})
      PROVE  /\ \A k \in 0 .. ChunkCap - 1 : IsSet(SetBit(c, i), k) <=> k = i \/ IsSet(c, k)
             /\ ProperWords(c) => ProperWords(SetBit(c, i))
  <2> HIDE DEF v, b
  <2>1. ASSUME NEW k \in 0 .. ChunkCap - 1
        PROVE  IsSet(SetBit(c, i), k) <=> k = i \/ IsSet(c, k)
    <3>1. IsSet(SetBit(c, i), k) <=>
            IF k \div BitsPerVector = v THEN k % BitsPerVector \in VectorBits(c, v) \cup {b}
            ELSE IsSet(c, k)
      BY <1>1, <1>5, SameButForIsSet
    <3> QED  BY <1>3, <1>4, <3>1
  <2> QED  BY <1>5, <2>1 DEF SameButFor
<1>6. CASE c.flag[v] = "ones"
  <2>1. SetBit(c, i) = c  BY <1>6 DEF SetBit
  <2>2. VectorBits(c, v) = Bit  BY <1>6 DEF VectorBits
  <2> HIDE DEF v, b, p
  <2>3. SameButFor(c, c, v, VectorBits(c, v) \cup {b})
    BY <1>1, <2>2 DEF SameButFor
  <2> QED  BY <1>5, <2>1, <2>3
<1>7. CASE c.flag[v] = "zeros"
  <2>1. SetBit(c, i) = SetFlag(c, v, "mixed", InsertAt(c.data, p, {b}))
    BY <1>7 DEF SetBit
  <2>2. VectorBits(c, v) \cup {b} = {b}  BY <1>7 DEF VectorBits
  <2> HIDE DEF v, b
  <2>3. {b} \in SUBSET Bit /\ {b} \notin {{}, Bit}  BY <1>1, OneOfSeveral
  <2>4. SameButFor(SetFlag(c, v, "mixed", InsertAt(c.data, p, {b})), c, v, {b})
    BY <1>1, <1>7, <2>3, VectorBecomesMixed
  <2> QED  BY <1>5, <2>1, <2>2, <2>4
<1>8. CASE c.flag[v] = "mixed"
  <2>1. VectorBits(c, v) = c.data[p]  BY <1>8 DEF VectorBits
  <2>2. p \in 1 .. Len(c.data) /\ c.data[p] \in SUBSET Bit
    BY <1>1, <1>8, SparseFields, PositionBounds, LenProperties
  <2>3. SetBit(c, i) = IF c.data[p] \cup {b} = Bit
                       THEN SetFlag(c, v, "ones", RemoveAt(c.data, p))
                       ELSE [c EXCEPT !.data[p] = @ \cup {b}]
    BY <1>8 DEF SetBit
  <2>4. [c EXCEPT !.data[p] = @ \cup {b}] =
          [c EXCEPT !.data = [c.data EXCEPT ![p] = c.data[p] \cup {b}]]
    OBVIOUS
  <2> HIDE DEF v, b
  <2>5. CASE c.data[p] \cup {b} = Bit
    <3>1. "ones" \in {"zeros", "ones"}  OBVIOUS
    <3>2. SameButFor(SetFlag(c, v, "ones", RemoveAt(c.data, p)), c, v,
                     IF "ones" = "ones" THEN Bit ELSE {})
      BY <1>1, <1>8, <3>1, VectorBecomesPlain
    <3> QED  BY <1>5, <2>1, <2>3, <2>5, <3>2
  <2>6. CASE c.data[p] \cup {b} # Bit
    <3> DEFINE w == c.data[p] \cup {b}
    <3>1. w \in SUBSET Bit /\ w \notin {{}, Bit}  BY <1>1, <2>2, <2>6
    <3>2. SetBit(c, i) = [c EXCEPT !.data = [c.data EXCEPT ![p] = w]]
      BY <2>3, <2>4, <2>6
    <3>3. VectorBits(c, v) \cup {b} = w  BY <2>1
    <3> HIDE DEF w
    <3>4. SameButFor([c EXCEPT !.data = [c.data EXCEPT ![p] = w]], c, v, w)
      BY <1>1, <1>8, <3>1, WordChanges
    <3> QED  BY <1>5, <3>2, <3>3, <3>4
  <2> QED  BY <2>5, <2>6
<1> QED  BY <1>2, <1>6, <1>7, <1>8

\* And __sm_chunk_clr_bit clears its bit and no other.
LEMMA ClrBitClears ==
  ASSUME NEW c, SparseOK(c), NEW i \in 0 .. ChunkCap - 1
  PROVE  /\ \A k \in 0 .. ChunkCap - 1 : IsSet(ClrBit(c, i), k) <=> k # i /\ IsSet(c, k)
         /\ ProperWords(c) => ProperWords(ClrBit(c, i))
<1> DEFINE v == i \div BitsPerVector
           b == i % BitsPerVector
           p == Position(c, v)
<1>1. v \in Vec /\ b \in Bit  BY BitOfIndex
<1>2. c.flag[v] \in {"zeros", "ones", "mixed"}  BY <1>1, SparseFields DEF Flag
<1>3. \A k \in 0 .. ChunkCap - 1 : k = i <=> k \div BitsPerVector = v /\ k % BitsPerVector = b
  BY BitPlace
<1>4. \A k \in 0 .. ChunkCap - 1 :
        IsSet(c, k) <=> k % BitsPerVector \in VectorBits(c, k \div BitsPerVector)
  BY IsSetVector
<1>5. ASSUME SameButFor(ClrBit(c, i), c, v, VectorBits(c, v) \ {b})
      PROVE  /\ \A k \in 0 .. ChunkCap - 1 : IsSet(ClrBit(c, i), k) <=> k # i /\ IsSet(c, k)
             /\ ProperWords(c) => ProperWords(ClrBit(c, i))
  <2> HIDE DEF v, b
  <2>1. ASSUME NEW k \in 0 .. ChunkCap - 1
        PROVE  IsSet(ClrBit(c, i), k) <=> k # i /\ IsSet(c, k)
    <3>1. IsSet(ClrBit(c, i), k) <=>
            IF k \div BitsPerVector = v THEN k % BitsPerVector \in VectorBits(c, v) \ {b}
            ELSE IsSet(c, k)
      BY <1>1, <1>5, SameButForIsSet
    <3> QED  BY <1>3, <1>4, <3>1
  <2> QED  BY <1>5, <2>1 DEF SameButFor
<1>6. CASE c.flag[v] = "zeros"
  <2>1. ClrBit(c, i) = c  BY <1>6 DEF ClrBit
  <2>2. VectorBits(c, v) = {}  BY <1>6 DEF VectorBits
  <2> HIDE DEF v, b, p
  <2>3. SameButFor(c, c, v, VectorBits(c, v) \ {b})
    BY <1>1, <2>2 DEF SameButFor
  <2> QED  BY <1>5, <2>1, <2>3
<1>7. CASE c.flag[v] = "ones"
  <2>1. ClrBit(c, i) = SetFlag(c, v, "mixed", InsertAt(c.data, p, Bit \ {b}))
    BY <1>7 DEF ClrBit
  <2>2. VectorBits(c, v) = Bit  BY <1>7 DEF VectorBits
  <2> HIDE DEF v, b
  <2> DEFINE w == Bit \ {b}
  <2>3. w \in SUBSET Bit /\ w \notin {{}, Bit}  BY <1>1, OneOfSeveral
  <2> HIDE DEF w
  <2>4. SameButFor(SetFlag(c, v, "mixed", InsertAt(c.data, p, w)), c, v, w)
    BY <1>1, <1>7, <2>3, VectorBecomesMixed
  <2> QED  BY <1>5, <2>1, <2>2, <2>4 DEF w
<1>8. CASE c.flag[v] = "mixed"
  <2>1. VectorBits(c, v) = c.data[p]  BY <1>8 DEF VectorBits
  <2>2. p \in 1 .. Len(c.data) /\ c.data[p] \in SUBSET Bit
    BY <1>1, <1>8, SparseFields, PositionBounds, LenProperties
  <2>3. ClrBit(c, i) = IF c.data[p] \ {b} = {}
                       THEN SetFlag(c, v, "zeros", RemoveAt(c.data, p))
                       ELSE [c EXCEPT !.data[p] = @ \ {b}]
    BY <1>8 DEF ClrBit
  <2>4. [c EXCEPT !.data[p] = @ \ {b}] =
          [c EXCEPT !.data = [c.data EXCEPT ![p] = c.data[p] \ {b}]]
    OBVIOUS
  <2> HIDE DEF v, b
  <2>5. CASE c.data[p] \ {b} = {}
    <3>1. "zeros" \in {"zeros", "ones"} /\ "zeros" # "ones"  OBVIOUS
    <3>2. SameButFor(SetFlag(c, v, "zeros", RemoveAt(c.data, p)), c, v,
                     IF "zeros" = "ones" THEN Bit ELSE {})
      BY <1>1, <1>8, <3>1, VectorBecomesPlain
    <3> QED  BY <1>5, <2>1, <2>3, <2>5, <3>1, <3>2
  <2>6. CASE c.data[p] \ {b} # {}
    <3> DEFINE w == c.data[p] \ {b}
    <3>1. w \in SUBSET Bit /\ w \notin {{}, Bit}  BY <1>1, <2>2, <2>6
    <3>2. ClrBit(c, i) = [c EXCEPT !.data = [c.data EXCEPT ![p] = w]]
      BY <2>3, <2>4, <2>6
    <3>3. VectorBits(c, v) \ {b} = w  BY <2>1
    <3> HIDE DEF w
    <3>4. SameButFor([c EXCEPT !.data = [c.data EXCEPT ![p] = w]], c, v, w)
      BY <1>1, <1>8, <3>1, WordChanges
    <3> QED  BY <1>5, <3>2, <3>3, <3>4
  <2> QED  BY <2>5, <2>6
<1> QED  BY <1>2, <1>6, <1>7, <1>8

----------------------------------------------------------------------------
(* Several bits at once.                                                   *)

\* A vector ends before the next one begins.
LEMMA WordGap ==
  ASSUME NEW v \in Nat, NEW w \in Nat, v < w
  PROVE  /\ v * BitsPerVector \in Nat /\ w * BitsPerVector \in Nat
         /\ v * BitsPerVector + BitsPerVector <= w * BitsPerVector
<1>1. PICK e \in Nat : w = v + 1 + e
  <2>1. w - (v + 1) \in Nat  OBVIOUS
  <2> QED  BY <2>1
<1>2. e * BitsPerVector \in Nat /\ v * BitsPerVector \in Nat  BY ChunkConstants
<1>3. w * BitsPerVector = v * BitsPerVector + BitsPerVector + e * BitsPerVector
  BY <1>1, ChunkConstants
<1> QED  BY <1>2, <1>3, ChunkConstants

\* The order of indices is the order of their vectors, then of their places.
LEMMA PlaceBelow ==
  ASSUME NEW v \in Nat, NEW f \in Nat, NEW b \in Bit, NEW r \in Nat, r <= BitsPerVector
  PROVE  v * BitsPerVector + b < f * BitsPerVector + r <=> v < f \/ (v = f /\ b < r)
<1>1. b \in Nat /\ b < BitsPerVector  BY ChunkConstants DEF Bit
<1>2. v * BitsPerVector \in Nat /\ f * BitsPerVector \in Nat  BY ChunkConstants
<1>3. CASE v < f
  <2>1. v * BitsPerVector + BitsPerVector <= f * BitsPerVector  BY <1>3, WordGap
  <2> QED  BY <1>1, <1>2, <1>3, <2>1, ChunkConstants
<1>4. CASE v = f
  BY <1>1, <1>2, <1>4
<1>5. CASE v > f
  <2>1. f * BitsPerVector + BitsPerVector <= v * BitsPerVector  BY <1>5, WordGap
  <2> QED  BY <1>1, <1>2, <1>5, <2>1, ChunkConstants
<1> QED  BY <1>3, <1>4, <1>5

\* A chunk whose vectors are full up to one that is partly full holds a prefix
\* of its window.
LEMMA PrefixOfWindow ==
  ASSUME NEW c, SparseOK(c), NEW f \in Nat, NEW r \in Nat, r <= BitsPerVector,
         \A v \in Vec : VectorBits(c, v) = IF v < f THEN Bit
                                           ELSE IF v = f THEN 0 .. r - 1 ELSE {},
         NEW k \in 0 .. ChunkCap - 1
  PROVE  IsSet(c, k) <=> k < f * BitsPerVector + r
<1> DEFINE v == k \div BitsPerVector
           b == k % BitsPerVector
<1>1. v \in Vec /\ b \in Bit  BY BitOfIndex
<1>2. IsSet(c, k) <=> b \in VectorBits(c, v)  BY IsSetVector
<1>3. k = v * BitsPerVector + b  BY ChunkCapPositive, WordSplit
<1> HIDE DEF v, b
<1>4. v \in Nat  BY <1>1, ChunkConstants DEF Vec
<1>5. k < f * BitsPerVector + r <=> v < f \/ (v = f /\ b < r)
  BY <1>1, <1>3, <1>4, PlaceBelow
<1>6. b \in Nat /\ (b \in 0 .. r - 1 <=> b < r)  BY <1>1 DEF Bit
<1> QED  BY <1>1, <1>2, <1>4, <1>5, <1>6

\* A chunk of proper words is empty exactly when it holds no index.
LEMMA EmptyHoldsNothing ==
  ASSUME NEW c, SparseOK(c), ProperWords(c)
  PROVE  IsEmptyChunk(c) <=> \A k \in 0 .. ChunkCap - 1 : ~IsSet(c, k)
<1>1. c.flag \in [Vec -> Flag] /\ c.data \in Seq(SUBSET Bit)
      /\ Len(c.data) = Cardinality(Mixed(c.flag)) /\ c \in SparseChunks
  BY SparseFields
<1>2. ASSUME IsEmptyChunk(c), NEW k \in 0 .. ChunkCap - 1  PROVE ~IsSet(c, k)
  <2>1. k \div BitsPerVector \in Vec  BY BitOfIndex
  <2>2. VectorBits(c, k \div BitsPerVector) = {}
    BY <1>2, <2>1 DEF IsEmptyChunk, VectorBits
  <2> QED  BY <2>2, IsSetVector
<1>3. ASSUME \A k \in 0 .. ChunkCap - 1 : ~IsSet(c, k), NEW v \in Vec
      PROVE  c.flag[v] \in {"zeros", "none"}
  <2>1. ASSUME NEW b \in VectorBits(c, v), b \in Bit  PROVE FALSE
    <3> DEFINE k == v * BitsPerVector + b
    <3>1. /\ k \in 0 .. ChunkCap - 1 /\ k \div BitsPerVector = v
          /\ k % BitsPerVector = b
      BY <2>1, BitPlace
    <3> HIDE DEF k
    <3>2. IsSet(c, k)  BY <2>1, <3>1, IsSetVector
    <3> QED  BY <1>3, <3>1, <3>2
  <2>2. CASE c.flag[v] = "ones"
    <3>1. 0 \in Bit /\ VectorBits(c, v) = Bit  BY <2>2, ChunkConstants DEF VectorBits, Bit
    <3> QED  BY <2>1, <3>1
  <2>3. CASE c.flag[v] = "mixed"
    <3>1. Position(c, v) \in 1 .. Len(c.data)  BY <1>1, <2>3, PositionBounds
    <3>2. c.data[Position(c, v)] \in SUBSET Bit /\ c.data[Position(c, v)] # {}
      BY <1>1, <3>1, LenProperties DEF ProperWords
    <3>3. VectorBits(c, v) = c.data[Position(c, v)]  BY <2>3 DEF VectorBits
    <3> QED  BY <2>1, <3>2, <3>3
  <2> QED  BY <1>1, <2>2, <2>3 DEF Flag
<1> QED  BY <1>2, <1>3 DEF IsEmptyChunk

\* A chunk of proper words that holds its whole window needs no payload.
LEMMA FullNeedsNoPayload ==
  ASSUME NEW c, SparseOK(c), ProperWords(c), \A k \in 0 .. ChunkCap - 1 : IsSet(c, k)
  PROVE  Mixed(c.flag) = {} /\ Size(c) = 1
<1>1. c.flag \in [Vec -> Flag] /\ c.data \in Seq(SUBSET Bit)
      /\ Len(c.data) = Cardinality(Mixed(c.flag)) /\ c \in SparseChunks /\ ~IsRLE(c)
  BY SparseFields
<1>2. ASSUME NEW v \in Mixed(c.flag)  PROVE FALSE
  <2>1. v \in Vec /\ c.flag[v] = "mixed"  BY DEF Mixed
  <2>2. Position(c, v) \in 1 .. Len(c.data)  BY <1>1, <2>1, PositionBounds
  <2>3. c.data[Position(c, v)] \in SUBSET Bit /\ c.data[Position(c, v)] # Bit
    BY <1>1, <2>2, LenProperties DEF ProperWords
  <2>4. VectorBits(c, v) = c.data[Position(c, v)]  BY <2>1 DEF VectorBits
  <2>5. ASSUME NEW b \in Bit  PROVE b \in VectorBits(c, v)
    <3> DEFINE k == v * BitsPerVector + b
    <3>1. /\ k \in 0 .. ChunkCap - 1 /\ k \div BitsPerVector = v
          /\ k % BitsPerVector = b
      BY <2>1, BitPlace
    <3> HIDE DEF k
    <3> QED  BY <3>1, IsSetVector
  <2> QED  BY <2>3, <2>4, <2>5
<1>3. Mixed(c.flag) = {}  BY <1>2
<1> QED  BY <1>1, <1>3, FS_EmptySet DEF Size

\* The chunk all of ones holds its window, and the one all of zeros nothing.
LEMMA PlainChunksBits ==
  ASSUME NEW start \in Nat, Boundary(start)
  PROVE  /\ ProperWords(OnesChunk(start)) /\ ProperWords(ZerosChunk(start))
         /\ \A k \in 0 .. ChunkCap - 1 :
              IsSet(OnesChunk(start), k) /\ ~IsSet(ZerosChunk(start), k)
<1>1. SparseOK(OnesChunk(start)) /\ SparseOK(ZerosChunk(start))  BY PlainChunksOK
<1>2. /\ OnesChunk(start).data = << >> /\ ZerosChunk(start).data = << >>
      /\ OnesChunk(start).flag = [v \in Vec |-> "ones"]
      /\ ZerosChunk(start).flag = [v \in Vec |-> "zeros"]
  BY DEF OnesChunk, ZerosChunk, SparseChunk
<1>3. Len(<< >>) = 0  BY EmptySeq
<1>4. ASSUME NEW k \in 0 .. ChunkCap - 1
      PROVE  IsSet(OnesChunk(start), k) /\ ~IsSet(ZerosChunk(start), k)
  <2>1. k \div BitsPerVector \in Vec /\ k % BitsPerVector \in Bit  BY BitOfIndex
  <2>2. /\ VectorBits(OnesChunk(start), k \div BitsPerVector) = Bit
        /\ VectorBits(ZerosChunk(start), k \div BitsPerVector) = {}
    BY <1>2, <2>1 DEF VectorBits
  <2> QED  BY <1>1, <2>1, <2>2, IsSetVector
<1> QED  BY <1>2, <1>3, <1>4 DEF ProperWords

\* A chunk that coalescing takes for a full one is one.
LEMMA AllOnesBits ==
  ASSUME NEW c, SparseOK(c), AllOnes(c)
  PROVE  Size(c) = 1 /\ \A k \in 0 .. ChunkCap - 1 : IsSet(c, k)
<1>1. \A v \in Vec : c.flag[v] = "ones"  BY DEF AllOnes
<1>2. Mixed(c.flag) = {} /\ ~IsRLE(c)  BY <1>1, SparseFields DEF Mixed
<1>3. Size(c) = 1  BY <1>2, FS_EmptySet DEF Size
<1>4. ASSUME NEW k \in 0 .. ChunkCap - 1  PROVE IsSet(c, k)
  <2>1. k \div BitsPerVector \in Vec /\ k % BitsPerVector \in Bit  BY BitOfIndex
  <2>2. VectorBits(c, k \div BitsPerVector) = Bit  BY <1>1, <2>1 DEF VectorBits
  <2> QED  BY <2>1, <2>2, IsSetVector
<1> QED  BY <1>3, <1>4

\* The remainder of a run that becomes sparse holds its first n indices.
LEMMA PrefixChunkBits ==
  ASSUME NEW start \in Nat, Boundary(start), NEW n \in 1 .. ChunkCap
  PROVE  /\ ProperWords(PrefixChunk(start, n))
         /\ \A k \in 0 .. ChunkCap - 1 : IsSet(PrefixChunk(start, n), k) <=> k < n
<1> DEFINE full == n \div BitsPerVector
           rest == n % BitsPerVector
           c == PrefixChunk(start, n)
<1>1. SparseOK(c)  BY PrefixChunkOK
<1>2. full \in Nat /\ rest \in Bit /\ n = full * BitsPerVector + rest
  BY WordSplit, ChunkCapPositive
<1>3. /\ c.flag = [v \in Vec |-> IF v < full THEN "ones"
                                 ELSE IF v = full /\ rest > 0 THEN "mixed" ELSE "zeros"]
      /\ c.data = IF rest > 0 THEN << 0 .. rest - 1 >> ELSE << >>
  BY DEF PrefixChunk, SparseChunk
<1> HIDE DEF full, rest, c
<1>4. rest \in Nat /\ rest < BitsPerVector  BY <1>2, ChunkConstants DEF Bit
<1>5. ASSUME NEW v \in Vec
      PROVE  VectorBits(c, v) = IF v < full THEN Bit
                                ELSE IF v = full THEN 0 .. rest - 1 ELSE {}
  <2>1. CASE v < full
    <3>1. c.flag[v] = "ones"  BY <1>3, <2>1
    <3> QED  BY <2>1, <3>1 DEF VectorBits
  <2>2. CASE v = full /\ rest > 0
    <3>1. c.flag[v] = "mixed" /\ c.data = << 0 .. rest - 1 >>  BY <1>2, <1>3, <2>2
    <3>2. {u \in Mixed(c.flag) : u < v} = {}  BY <1>3, <2>2 DEF Mixed
    <3>3. Position(c, v) = 1  BY <3>2, FS_EmptySet DEF Position
    <3>4. c.data[Position(c, v)] = 0 .. rest - 1  BY <3>1, <3>3
    <3>5. ~(v < full)  BY <1>2, <2>2
    <3> QED  BY <2>2, <3>1, <3>4, <3>5 DEF VectorBits
  <2>3. CASE ~(v < full) /\ ~(v = full /\ rest > 0)
    <3>1. c.flag[v] = "zeros"  BY <1>3, <2>3
    <3>2. v = full => 0 .. rest - 1 = {}  BY <1>4, <2>3
    <3> QED  BY <2>3, <3>1, <3>2 DEF VectorBits
  <2> QED  BY <2>1, <2>2, <2>3
<1>6. ASSUME NEW k \in 0 .. ChunkCap - 1  PROVE IsSet(c, k) <=> k < n
  <2>1. full \in Nat /\ rest \in Nat /\ rest <= BitsPerVector
    BY <1>2, <1>4, ChunkConstants
  <2>2. IsSet(c, k) <=> k < full * BitsPerVector + rest
    BY ONLY <1>1, <1>5, <2>1, k \in 0 .. ChunkCap - 1, PrefixOfWindow
  <2> QED  BY <1>2, <2>2
<1>7. ASSUME NEW p \in 1 .. Len(c.data)  PROVE c.data[p] \notin {{}, Bit}
  <2>1. Len(<< >>) = 0  BY EmptySeq
  <2>2. rest > 0 /\ c.data = << 0 .. rest - 1 >>  BY <1>3, <1>7, <2>1
  <2>3. c.data[p] = 0 .. rest - 1  BY <1>7, <2>2
  <2>4. 0 \in 0 .. rest - 1 /\ rest \notin 0 .. rest - 1  BY <1>4, <2>2
  <2> QED  BY <1>2, <2>3, <2>4
<1> QED  BY <1>6, <1>7 DEF ProperWords, c

\* The run that a chunk reports is exactly what it holds.
LEMMA RunIsPrefix ==
  ASSUME NEW c, SparseOK(c), RunLength(c) > 0, NEW k \in 0 .. ChunkCap - 1
  PROVE  IsSet(c, k) <=> k < RunLength(c)
<1> DEFINE lead == LeadingOnes(c.flag)
           tail == IF lead \in Vec /\ c.flag[lead] = "mixed" THEN c.data[1] ELSE {}
           r == Cardinality(tail)
<1>1. c.flag \in [Vec -> Flag] /\ c.data \in Seq(SUBSET Bit) /\ ~IsRLE(c)
      /\ Len(c.data) = Cardinality(Mixed(c.flag)) /\ c \in SparseChunks
  BY SparseFields
<1>2. /\ lead \in 0 .. FlagsPerIndex
      /\ \A v \in 0 .. lead - 1 : c.flag[v] = "ones"
      /\ lead < FlagsPerIndex => c.flag[lead] # "ones"
  BY <1>1, LeadingOnesBounds
<1>3. /\ \A v \in Vec : v > lead => c.flag[v] \in {"zeros", "none"}
      /\ tail = 0 .. Cardinality(tail) - 1
      /\ RunLength(c) = lead * BitsPerVector + r
  <2>1. RunLength(c) =
          IF /\ lead > 0
             /\ \A v \in Vec : v > lead => c.flag[v] \in {"zeros", "none"}
             /\ tail = 0 .. Cardinality(tail) - 1
          THEN lead * BitsPerVector + r ELSE 0
    BY <1>1 DEF RunLength, SparseRun
  <2> HIDE DEF lead, tail, r
  <2> QED  BY <2>1
<1> HIDE DEF lead
<1>4. lead \in Vec /\ c.flag[lead] = "mixed" =>
        VectorBits(c, lead) = c.data[1] /\ c.data[1] \in SUBSET Bit
  <2> SUFFICES ASSUME lead \in Vec, c.flag[lead] = "mixed"
               PROVE  VectorBits(c, lead) = c.data[1] /\ c.data[1] \in SUBSET Bit
    OBVIOUS
  <2>1. {u \in Mixed(c.flag) : u < lead} = {}
    <3>1. ASSUME NEW u \in Mixed(c.flag), u < lead  PROVE FALSE
      <4>1. u \in 0 .. lead - 1 /\ c.flag[u] = "mixed"
        BY <1>2, <3>1 DEF Mixed, Vec
      <4> QED  BY <1>2, <4>1
    <3> QED  BY <3>1
  <2>2. Position(c, lead) = 1  BY <2>1, FS_EmptySet DEF Position
  <2>3. 1 \in 1 .. Len(c.data)  BY <1>1, <2>2, PositionBounds
  <2>4. c.data[1] \in SUBSET Bit  BY <1>1, <2>3, LenProperties
  <2> QED  BY <2>2, <2>4 DEF VectorBits
<1>5. tail \in SUBSET Bit  BY <1>4
<1>6. lead \in Vec => VectorBits(c, lead) = tail
  <2> SUFFICES ASSUME lead \in Vec  PROVE VectorBits(c, lead) = tail
    OBVIOUS
  <2>1. c.flag[lead] # "ones"  BY <1>2, ChunkConstants DEF Vec
  <2> QED  BY <1>4, <2>1 DEF VectorBits
<1> HIDE DEF tail
<1>7. r \in Nat /\ r <= BitsPerVector /\ tail = 0 .. r - 1
  <2>1. IsFiniteSet(Bit) /\ Cardinality(Bit) = BitsPerVector
    BY FS_Interval, ChunkConstants DEF Bit
  <2>2. IsFiniteSet(tail) /\ r <= BitsPerVector  BY <1>5, <2>1, FS_Subset
  <2> QED  BY <1>3, <2>2, FS_CardinalityType
<1> HIDE DEF r
<1>8. ASSUME NEW v \in Vec
      PROVE  VectorBits(c, v) = IF v < lead THEN Bit
                                ELSE IF v = lead THEN 0 .. r - 1 ELSE {}
  <2>1. CASE v < lead
    <3>1. v \in 0 .. lead - 1  BY <1>2, <2>1 DEF Vec
    <3> QED  BY <1>2, <2>1, <3>1 DEF VectorBits
  <2>2. CASE v = lead
    BY <1>2, <1>6, <1>7, <2>2
  <2>3. CASE v > lead
    <3>1. c.flag[v] \in {"zeros", "none"} /\ ~(v < lead) /\ v # lead
      BY <1>2, <1>3, <2>3 DEF Vec
    <3> QED  BY <3>1 DEF VectorBits
  <2> QED  BY <1>2, <2>1, <2>2, <2>3 DEF Vec
<1>9. lead \in Nat  BY <1>2
<1>10. IsSet(c, k) <=> k < lead * BitsPerVector + r
  BY ONLY <1>7, <1>8, <1>9, SparseOK(c), k \in 0 .. ChunkCap - 1, PrefixOfWindow
<1> QED  BY <1>3, <1>10

\* The pivot of a separation keeps its indices below n and no others.  c is all
\* ones, but for at most the mixed vector u, which begins before n, and it holds
\* the index before n.
LEMMA MaskTailBits ==
  ASSUME NEW c, SparseOK(c), ProperWords(c), NEW n \in Nat, n >= 1, NEW u \in Vec,
         \A v \in Vec : c.flag[v] \in {"ones", "mixed"},
         Mixed(c.flag) \subseteq {u},
         Mixed(c.flag) # {} => u * BitsPerVector < n,
         n <= ChunkCap => IsSet(c, n - 1)
  PROVE  /\ ProperWords(MaskTail(c, n))
         /\ \A k \in 0 .. ChunkCap - 1 : IsSet(MaskTail(c, n), k) <=> IsSet(c, k) /\ k < n
<1> DEFINE tail == n \div BitsPerVector
           m == n % BitsPerVector
           mask == 0 .. m - 1
           d == MaskTail(c, n)
<1>1. CASE n >= ChunkCap
  <2>1. MaskTail(c, n) = c  BY <1>1 DEF MaskTail
  <2>2. \A k \in 0 .. ChunkCap - 1 : k < n  BY <1>1, ChunkCapPositive
  <2> QED  BY <2>1, <2>2
<1>2. CASE n < ChunkCap
  <2>1. SparseOK(d) /\ d.start = c.start  BY MaskTailOK
  <2>2. /\ d.flag = [v \in Vec |-> IF v < tail THEN c.flag[v]
                                   ELSE IF v = tail /\ mask # {} THEN "mixed"
                                   ELSE "zeros"]
        /\ d.data = IF mask = {} THEN c.data
                    ELSE IF c.flag[tail] = "mixed"
                         THEN [c.data EXCEPT ![1] = @ \cap mask]
                         ELSE Append(c.data, mask)
    BY <1>2, ChunkCapPositive DEF MaskTail, SparseChunk
  <2>3. /\ tail \in Vec /\ tail \in Nat /\ m \in Bit /\ m \in Nat /\ m < BitsPerVector
        /\ n = tail * BitsPerVector + m
    BY <1>2, WordSplit, BitOfIndex, ChunkCapPositive, ChunkConstants DEF Bit
  <2> HIDE DEF tail, m, d
  <2>4. c.flag \in [Vec -> Flag] /\ c.data \in Seq(SUBSET Bit) /\ Len(c.data) \in Nat
        /\ Len(c.data) = Cardinality(Mixed(c.flag)) /\ c \in SparseChunks
    BY SparseFields
  <2>5. Mixed(c.flag) # {} => u < tail \/ (u = tail /\ 0 < m)
    <3>1. 0 \in Bit /\ u \in Nat  BY ChunkConstants DEF Bit, Vec
    <3>2. u * BitsPerVector + 0 < tail * BitsPerVector + m <=> u < tail \/ (u = tail /\ 0 < m)
      BY <2>3, <3>1, PlaceBelow, ChunkConstants
    <3>3. u * BitsPerVector \in Nat  BY <3>1, ChunkConstants
    <3> QED  BY <2>3, <3>2, <3>3
  <2>6. m = 0 <=> mask = {}
    <3>1. m > 0 => 0 \in mask  BY <2>3
    <3> QED  BY <2>3, <3>1
  <2>7. mask \in SUBSET Bit /\ mask # Bit
    <3>1. m \notin mask  BY <2>3
    <3> QED  BY <2>3, <3>1, ChunkConstants DEF Bit
  <2>8. m > 0 => m - 1 \in VectorBits(c, tail) /\ m - 1 \in mask
    <3> SUFFICES ASSUME m > 0  PROVE m - 1 \in VectorBits(c, tail) /\ m - 1 \in mask
      OBVIOUS
    <3>1. m - 1 \in Bit  BY <2>3, ChunkConstants DEF Bit
    <3> DEFINE b == m - 1
               k == tail * BitsPerVector + b
    <3>2. /\ k \in 0 .. ChunkCap - 1 /\ k \div BitsPerVector = tail
          /\ k % BitsPerVector = b
      BY <2>3, <3>1, BitPlace
    <3>3. k = n - 1
      <4>1. tail * BitsPerVector \in Nat  BY <2>3, ChunkConstants
      <4> QED  BY <2>3, <4>1
    <3> HIDE DEF k, b
    <3>4. IsSet(c, k)  BY <1>2, <3>3, ChunkCapPositive
    <3>5. b \in VectorBits(c, tail)  BY <3>2, <3>4, IsSetVector
    <3> QED  BY <2>3, <3>5 DEF b
  <2> DEFINE w == VectorBits(c, tail) \cap mask
             Masked == /\ \A v \in Vec : VectorBits(d, v) =
                              IF v < tail THEN VectorBits(c, v)
                              ELSE IF v = tail THEN w ELSE {}
                       /\ \A p \in 1 .. Len(d.data) :
                            (\E q \in 1 .. Len(c.data) : d.data[p] = c.data[q])
                              \/ (m > 0 /\ d.data[p] = w)
  <2>9. ASSUME m = 0  PROVE Masked
    <3>1. d.data = c.data /\ w = {}  BY <2>2, <2>6, <2>9
    <3>2. Mixed(d.flag) = Mixed(c.flag)
      BY <2>2, <2>3, <2>5, <2>6, <2>9 DEF Mixed, Vec
    <3>3. \A v \in Vec : Position(d, v) = Position(c, v)  BY <3>2 DEF Position
    <3>4. ASSUME NEW v \in Vec
          PROVE  VectorBits(d, v) = IF v < tail THEN VectorBits(c, v)
                                    ELSE IF v = tail THEN w ELSE {}
      <4>1. d.flag[v] = IF v < tail THEN c.flag[v] ELSE "zeros"
        BY <2>2, <2>6, <2>9
      <4> HIDE DEF w
      <4> QED  BY <3>1, <3>3, <4>1 DEF VectorBits
    <3>5. Masked  BY <3>1, <3>4
    <3> QED  BY <3>5
  <2>10. ASSUME m > 0, c.flag[tail] = "mixed"  PROVE Masked
    <3>0. mask # {}  BY <2>3, <2>6, <2>10
    <3> HIDE DEF mask, w
    <3>1. d.data = [c.data EXCEPT ![1] = @ \cap mask]  BY <2>2, <2>3, <2>6, <2>10
    <3>2. u = tail /\ Mixed(c.flag) = {tail}  BY <2>3, <2>10 DEF Mixed
    <3>3. Mixed(d.flag) = {tail}
      BY <2>2, <2>3, <2>10, <3>0, <3>2 DEF Mixed, Vec
    <3>4. Len(c.data) = 1  BY <2>4, <3>2, FS_Singleton
    <3>5. Position(c, tail) = 1 /\ Position(d, tail) = 1
      <4>1. {x \in {tail} : x < tail} = {}  BY <2>3
      <4> QED  BY <3>2, <3>3, <4>1, FS_EmptySet DEF Position
    <3>6. Len(d.data) = 1 /\ d.data[1] = c.data[1] \cap mask
      <4> DEFINE S == SUBSET Bit
                 words == c.data
                 e == words[1] \cap mask
      <4>1. words \in Seq(S) /\ Len(words) = 1  BY <2>4, <3>4
      <4>2. e \in S  BY <2>7
      <4> HIDE DEF S, words, e
      <4>3. /\ Len([words EXCEPT ![1] = e]) = Len(words)
            /\ [words EXCEPT ![1] = e][1] = e
        <5>1. 1 \in 1 .. Len(words)  BY <4>1
        <5> QED  BY <4>1, <4>2, <5>1, ExceptSeq
      <4> QED  BY <3>1, <4>1, <4>3 DEF words, e
    <3>7. VectorBits(c, tail) = c.data[1]  BY <2>10, <3>5 DEF VectorBits
    <3>8. ASSUME NEW v \in Vec
          PROVE  VectorBits(d, v) = IF v < tail THEN VectorBits(c, v)
                                    ELSE IF v = tail THEN w ELSE {}
      <4>1. d.flag[v] = IF v < tail THEN c.flag[v]
                        ELSE IF v = tail THEN "mixed" ELSE "zeros"
        BY <2>2, <2>3, <2>10, <3>0
      <4>2. CASE v < tail
        <5>1. v \notin Mixed(c.flag) /\ d.flag[v] = c.flag[v]
          BY <2>3, <3>2, <4>1, <4>2
        <5>2. c.flag[v] # "mixed"  BY <5>1 DEF Mixed
        <5> QED  BY <4>2, <5>1, <5>2 DEF VectorBits
      <4>3. CASE v = tail
        <5>1. d.flag[v] = "mixed" /\ ~(v < tail)  BY <2>3, <4>1, <4>3
        <5> QED  BY <3>5, <3>6, <3>7, <4>3, <5>1 DEF VectorBits, w
      <4>4. CASE ~(v < tail) /\ v # tail
        <5>1. d.flag[v] = "zeros"  BY <4>1, <4>4
        <5> QED  BY <4>4, <5>1 DEF VectorBits
      <4> QED  BY <4>2, <4>3, <4>4
    <3>9. Masked  BY <2>10, <3>6, <3>7, <3>8 DEF w
    <3> QED  BY <3>9
  <2>11. ASSUME m > 0, c.flag[tail] # "mixed"  PROVE Masked
    <3>0. mask # {}  BY <2>3, <2>6, <2>11
    <3> HIDE DEF mask, w
    <3>1. d.data = Append(c.data, mask)  BY <2>2, <2>3, <2>6, <2>11
    <3>2. Mixed(d.flag) = Mixed(c.flag) \cup {tail} /\ tail \notin Mixed(c.flag)
      BY <2>2, <2>3, <2>5, <2>6, <2>11 DEF Mixed, Vec
    <3>3. \A x \in Vec : Position(d, x) = IF tail < x THEN Position(c, x) + 1
                                            ELSE Position(c, x)
      BY <2>3, <3>2, PositionWithMixed
    <3>4. Position(d, tail) = Len(c.data) + 1
      <4>1. {x \in Mixed(c.flag) : x < tail} = Mixed(c.flag)
        <5>1. \A x \in Mixed(c.flag) : x < tail
          BY <2>3, <2>5, <2>11, <3>2
        <5> QED  BY <5>1
      <4>2. Position(c, tail) = 1 + Len(c.data)  BY <2>4, <4>1 DEF Position
      <4> QED  BY <2>3, <2>4, <3>3, <4>2
    <3>5. /\ Len(d.data) = Len(c.data) + 1
          /\ \A p \in 1 .. Len(c.data) : d.data[p] = c.data[p]
          /\ d.data[Len(c.data) + 1] = mask
      <4> DEFINE S == SUBSET Bit
                 words == c.data
      <4>1. words \in Seq(S) /\ mask \in S  BY <2>4, <2>7
      <4> HIDE DEF S, words, mask
      <4>2. /\ Len(Append(words, mask)) = Len(words) + 1
            /\ \A p \in 1 .. Len(words) : Append(words, mask)[p] = words[p]
            /\ Append(words, mask)[Len(words) + 1] = mask
        BY <4>1, AppendProperties
      <4> QED  BY <3>1, <4>2 DEF words
    <3>6. VectorBits(c, tail) = Bit /\ w = mask
      <4>1. c.flag[tail] = "ones"  BY <2>3, <2>11
      <4>2. VectorBits(c, tail) = Bit  BY <4>1 DEF VectorBits
      <4> QED  BY <2>7, <4>2 DEF w
    <3>7. ASSUME NEW v \in Vec
          PROVE  VectorBits(d, v) = IF v < tail THEN VectorBits(c, v)
                                    ELSE IF v = tail THEN w ELSE {}
      <4>1. d.flag[v] = IF v < tail THEN c.flag[v]
                        ELSE IF v = tail THEN "mixed" ELSE "zeros"
        BY <2>2, <2>3, <2>11, <3>0
      <4>2. CASE v < tail
        <5>1. c.flag[v] = "mixed" => d.data[Position(d, v)] = c.data[Position(c, v)]
          <6> SUFFICES ASSUME c.flag[v] = "mixed"
                       PROVE  d.data[Position(d, v)] = c.data[Position(c, v)]
            OBVIOUS
          <6>1. Position(c, v) \in 1 .. Len(c.data)  BY <2>4, PositionBounds
          <6>2. Position(d, v) = Position(c, v)  BY <2>3, <3>3, <4>2 DEF Vec
          <6> QED  BY <3>5, <6>1, <6>2
        <5> QED  BY <4>1, <4>2, <5>1 DEF VectorBits
      <4>3. CASE v = tail
        <5>1. d.flag[v] = "mixed" /\ ~(v < tail)  BY <2>3, <4>1, <4>3
        <5> QED  BY <3>4, <3>5, <3>6, <4>3, <5>1 DEF VectorBits
      <4>4. CASE ~(v < tail) /\ v # tail
        <5>1. d.flag[v] = "zeros"  BY <4>1, <4>4
        <5> QED  BY <4>4, <5>1 DEF VectorBits
      <4> QED  BY <4>2, <4>3, <4>4
    <3>8. ASSUME NEW p \in 1 .. Len(d.data)
          PROVE  (\E q \in 1 .. Len(c.data) : d.data[p] = c.data[q])
                   \/ (m > 0 /\ d.data[p] = w)
      <4>1. p \in 1 .. Len(c.data) \/ p = Len(c.data) + 1  BY <2>4, <3>5
      <4> QED  BY <2>11, <3>5, <3>6, <4>1
    <3>9. Masked  BY <3>7, <3>8
    <3> QED  BY <3>9
  <2>12. Masked  BY <2>3, <2>9, <2>10, <2>11
  <2>13. ASSUME NEW k \in 0 .. ChunkCap - 1  PROVE IsSet(d, k) <=> IsSet(c, k) /\ k < n
    <3> DEFINE v == k \div BitsPerVector
               b == k % BitsPerVector
    <3>1. v \in Vec /\ b \in Bit  BY BitOfIndex
    <3>2. k = v * BitsPerVector + b  BY ChunkCapPositive, WordSplit
    <3>3. /\ IsSet(d, k) <=> b \in VectorBits(d, v)
          /\ IsSet(c, k) <=> b \in VectorBits(c, v)
      BY <2>1, IsSetVector
    <3> HIDE DEF v, b
    <3>4. v \in Nat /\ b \in Nat  BY <3>1, ChunkConstants DEF Vec, Bit
    <3>5. k < n <=> v < tail \/ (v = tail /\ b < m)
      <4>1. m <= BitsPerVector  BY <2>3, ChunkConstants
      <4> QED  BY <2>3, <3>1, <3>2, <3>4, <4>1, PlaceBelow
    <3>6. b \in mask <=> b < m  BY <2>3, <3>4
    <3>7. VectorBits(d, v) = IF v < tail THEN VectorBits(c, v)
                             ELSE IF v = tail THEN w ELSE {}
      BY <2>12, <3>1
    <3>8. v < tail => v # tail  BY <2>3, <3>4
    <3> HIDE DEF mask
    <3> QED  BY <3>3, <3>5, <3>6, <3>7, <3>8
  <2>14. ASSUME NEW p \in 1 .. Len(d.data)  PROVE d.data[p] \notin {{}, Bit}
    <3>1. (\E q \in 1 .. Len(c.data) : d.data[p] = c.data[q]) \/ (m > 0 /\ d.data[p] = w)
      BY <2>12, <2>14
    <3>2. m > 0 => w \notin {{}, Bit}  BY <2>7, <2>8
    <3> HIDE DEF w
    <3> QED  BY <3>1, <3>2 DEF ProperWords
  <2> QED  BY <2>13, <2>14 DEF ProperWords, d
<1> QED  BY <1>1, <1>2, ChunkCapPositive

----------------------------------------------------------------------------
(* How many words a change costs.                                          *)

\* Setting or clearing one bit changes the flag of its vector only.
LEMMA OneFlagChanges ==
  ASSUME NEW c, SparseOK(c), NEW i \in 0 .. ChunkCap - 1,
         NEW d \in {SetBit(c, i), ClrBit(c, i)}, NEW u \in Vec,
         u # i \div BitsPerVector
  PROVE  d.flag[u] = c.flag[u]
<1> DEFINE v == i \div BitsPerVector
           b == i % BitsPerVector
           p == Position(c, v)
<1>1. v \in Vec  BY BitOfIndex
<1>2. c.flag \in [Vec -> Flag]  BY SparseFields
<1>3. c.flag[v] \in {"zeros", "ones", "mixed"}  BY <1>1, <1>2 DEF Flag
<1>4. ASSUME NEW to, NEW data  PROVE SetFlag(c, v, to, data).flag[u] = c.flag[u]
  <2>1. SetFlag(c, v, to, data).flag = [c.flag EXCEPT ![v] = to]
    BY DEF SetFlag, SparseChunk
  <2> HIDE DEF v
  <2>2. u # v  BY DEF v
  <2> QED  BY <1>2, <2>1, <2>2
<1>5. ASSUME NEW w  PROVE [c EXCEPT !.data[p] = w].flag[u] = c.flag[u]
  <2> DEFINE data == [c.data EXCEPT ![p] = w]
  <2>1. c = [kind |-> "sparse", start |-> c.start, flag |-> c.flag, data |-> c.data]
    BY SparseFields
  <2>2. [c EXCEPT !.data[p] = w] = [c EXCEPT !.data = data]  OBVIOUS
  <2> HIDE DEF data
  <2>3. [c EXCEPT !.data = data].flag = c.flag  BY <2>1
  <2> QED  BY <2>2, <2>3
<1>6. SetBit(c, i).flag[u] = c.flag[u]
  <2>1. SetBit(c, i) =
          CASE c.flag[v] = "ones"  -> c
            [] c.flag[v] = "zeros" -> SetFlag(c, v, "mixed", InsertAt(c.data, p, {b}))
            [] c.flag[v] = "mixed" ->
                 IF c.data[p] \cup {b} = Bit
                 THEN SetFlag(c, v, "ones", RemoveAt(c.data, p))
                 ELSE [c EXCEPT !.data[p] = c.data[p] \cup {b}]
            [] c.flag[v] = "none"  -> c
    BY DEF SetBit
  <2> HIDE DEF v, b, p
  <2> QED  BY <1>3, <1>4, <1>5, <2>1
<1>7. ClrBit(c, i).flag[u] = c.flag[u]
  <2>1. ClrBit(c, i) =
          CASE c.flag[v] \in {"zeros", "none"} -> c
            [] c.flag[v] = "ones" ->
                 SetFlag(c, v, "mixed", InsertAt(c.data, p, Bit \ {b}))
            [] c.flag[v] = "mixed" ->
                 IF c.data[p] \ {b} = {}
                 THEN SetFlag(c, v, "zeros", RemoveAt(c.data, p))
                 ELSE [c EXCEPT !.data[p] = c.data[p] \ {b}]
    BY DEF ClrBit
  <2> HIDE DEF v, b, p
  <2> QED  BY <1>3, <1>4, <1>5, <2>1
<1> QED  BY <1>6, <1>7

\* So it costs at most a word, and a word is what the entry check leaves room for.
LEMMA OneWordMore ==
  ASSUME NEW c, SparseOK(c), NEW i \in 0 .. ChunkCap - 1,
         NEW d \in {SetBit(c, i), ClrBit(c, i)}
  PROVE  Len(d.data) \in Nat /\ Len(d.data) <= Len(c.data) + 1
<1> DEFINE v == i \div BitsPerVector
<1>1. SparseOK(d)  BY SetBitOK, ClrBitOK
<1>2. /\ Len(d.data) \in Nat /\ Len(d.data) = Cardinality(Mixed(d.flag))
      /\ Len(c.data) \in Nat /\ Len(c.data) = Cardinality(Mixed(c.flag))
  BY <1>1, SparseFields
<1>3. Mixed(d.flag) \subseteq Mixed(c.flag) \cup {v}
  <2>1. ASSUME NEW u \in Mixed(d.flag), u # v  PROVE u \in Mixed(c.flag)
    <3>1. u \in Vec /\ d.flag[u] = "mixed"  BY DEF Mixed
    <3>2. d.flag[u] = c.flag[u]  BY <2>1, <3>1, OneFlagChanges
    <3> QED  BY <3>1, <3>2 DEF Mixed
  <2> QED  BY <2>1
<1> HIDE DEF v
<1> DEFINE M == Mixed(c.flag) \cup {v}
<1>4. IsFiniteSet(M) /\ Cardinality(M) <= Cardinality(Mixed(c.flag)) + 1
      /\ Cardinality(M) \in Nat
  <2>1. IsFiniteSet(Mixed(c.flag)) /\ Cardinality(Mixed(c.flag)) \in Nat  BY MixedFinite
  <2>2. /\ IsFiniteSet(M)
        /\ Cardinality(M) = IF v \in Mixed(c.flag) THEN Cardinality(Mixed(c.flag))
                            ELSE Cardinality(Mixed(c.flag)) + 1
    BY <2>1, FS_AddElement
  <2> QED  BY <2>1, <2>2
<1>5. Cardinality(Mixed(d.flag)) <= Cardinality(M)  BY <1>3, <1>4, FS_Subset
<1> QED  BY <1>2, <1>4, <1>5

\* A new chunk with one bit has one payload word.
LEMMA OneBitOneWord ==
  ASSUME NEW start \in Nat, Boundary(start), NEW i \in 0 .. ChunkCap - 1
  PROVE  Len(SetBit(ZerosChunk(start), i).data) = 1
<1> DEFINE v == i \div BitsPerVector
           z == ZerosChunk(start)
           c == SetBit(z, i)
<1>1. v \in Vec  BY BitOfIndex
<1>2. z.flag = [u \in Vec |-> "zeros"]  BY DEF ZerosChunk, SparseChunk
<1>3. SparseOK(z)  BY PlainChunksOK
<1>4. SparseOK(c)  BY <1>3, SetBitOK
<1> HIDE DEF v, z
<1>5. z.flag[v] = "zeros"  BY <1>1, <1>2
<1>6. c.flag = [z.flag EXCEPT ![v] = "mixed"]
  BY <1>5 DEF SetBit, SetFlag, SparseChunk, v
<1>7. Mixed(c.flag) = {v}  BY <1>1, <1>2, <1>6 DEF Mixed
<1> HIDE DEF c
<1>8. Len(c.data) = 1  BY <1>4, <1>7, SparseFields, FS_Singleton
<1> QED  BY <1>8 DEF c, z

\* A chunk that clearing its last bit empties had one payload word.
LEMMA LastBitOneWord ==
  ASSUME NEW c, SparseOK(c), NEW i \in 0 .. ChunkCap - 1, IsSet(c, i),
         IsEmptyChunk(ClrBit(c, i))
  PROVE  Len(c.data) = 1
<1> DEFINE v == i \div BitsPerVector
           b == i % BitsPerVector
           d == ClrBit(c, i)
<1>1. v \in Vec /\ b \in Bit  BY BitOfIndex
<1>2. c.flag \in [Vec -> Flag] /\ Len(c.data) = Cardinality(Mixed(c.flag))
  BY SparseFields
<1>3. b \in VectorBits(c, v)  BY IsSetVector
<1>4. c.flag[v] # "ones"
  <2> SUFFICES ASSUME c.flag[v] = "ones"  PROVE FALSE
    OBVIOUS
  <2>1. d = SetFlag(c, v, "mixed", InsertAt(c.data, Position(c, v), Bit \ {b}))
    BY DEF ClrBit
  <2>2. d.flag = [c.flag EXCEPT ![v] = "mixed"]  BY <2>1 DEF SetFlag, SparseChunk
  <2> HIDE DEF v, d
  <2>3. d.flag[v] = "mixed"  BY <1>1, <1>2, <2>2
  <2>4. d.flag[v] \in {"zeros", "none"}  BY <1>1 DEF IsEmptyChunk, d
  <2> QED  BY <2>3, <2>4
<1>5. \A u \in Vec \ {v} : c.flag[u] # "mixed"
  <2>1. ASSUME NEW u \in Vec, u # v  PROVE c.flag[u] # "mixed"
    <3>1. d.flag[u] = c.flag[u]  BY <2>1, OneFlagChanges
    <3>2. d.flag[u] \in {"zeros", "none"}  BY DEF IsEmptyChunk
    <3> QED  BY <3>1, <3>2
  <2> QED  BY <2>1
<1> HIDE DEF v, b
<1>6. c.flag[v] = "mixed"  BY <1>1, <1>3, <1>4 DEF VectorBits
<1>7. Mixed(c.flag) = {v}  BY <1>1, <1>5, <1>6 DEF Mixed
<1> QED  BY <1>2, <1>7, FS_Singleton

\* The chunk a separation masks has no empty vector.
LEMMA OnesOrMixed ==
  ASSUME NEW start \in Nat, Boundary(start), NEW i \in 0 .. ChunkCap - 1,
         NEW v \in Vec
  PROVE  /\ OnesChunk(start).flag[v] = "ones"
         /\ ClrBit(OnesChunk(start), i).flag[v] \in {"ones", "mixed"}
<1> DEFINE c == OnesChunk(start)
           w == i \div BitsPerVector
<1>1. w \in Vec  BY BitOfIndex
<1>2. c.flag = [u \in Vec |-> "ones"]  BY DEF OnesChunk, SparseChunk
<1>3. SparseOK(c)  BY PlainChunksOK
<1> HIDE DEF c
<1>4. c.flag[w] = "ones" /\ c.flag[v] = "ones"  BY <1>1, <1>2
<1>5. ClrBit(c, i).flag = [c.flag EXCEPT ![w] = "mixed"]
  BY <1>4 DEF ClrBit, SetFlag, SparseChunk
<1> HIDE DEF w
<1>6. ClrBit(c, i).flag[v] \in {"ones", "mixed"}  BY <1>2, <1>4, <1>5
<1> QED  BY <1>4, <1>6 DEF c

----------------------------------------------------------------------------
(* Streams of chunks.                                                      *)

EndOf(c) == c.start + Capacity(c)

\* The chunks of s are well formed, in order, apart, and between lo and hi.
StreamOK(s, lo, hi) ==
  /\ s \in Seq(Chunks)
  /\ \A j \in 1 .. Len(s) : ChunkOK(s[j]) /\ lo <= s[j].start /\ EndOf(s[j]) <= hi
  /\ \A j, k \in 1 .. Len(s) : j < k => EndOf(s[j]) <= s[k].start

\* A well-formed chunk's start, end and run, in numbers.
LEMMA ChunkExtent ==
  ASSUME NEW c, ChunkOK(c)
  PROVE  /\ c \in Chunks
         /\ c.start \in Nat /\ Boundary(c.start)
         /\ EndOf(c) \in Nat /\ Boundary(EndOf(c))
         /\ c.start + ChunkCap <= EndOf(c)
         /\ RunLength(c) \in Nat /\ c.start + RunLength(c) <= EndOf(c)
<1>1. c \in Chunks /\ Boundary(c.start)  BY DEF ChunkOK
<1>2. c.start \in Nat  BY <1>1 DEF Chunks, SparseChunks, RLEChunks
<1>3. /\ Capacity(c) \in Nat /\ Boundary(Capacity(c)) /\ Capacity(c) >= ChunkCap
      /\ RunLength(c) \in 0 .. Capacity(c)
  BY RunLengthBounds
<1>4. Boundary(EndOf(c))  BY <1>1, <1>3, BoundarySum DEF EndOf
<1> QED  BY <1>1, <1>2, <1>3, <1>4, ChunkCapPositive DEF EndOf

\* No chunks are in order between any bounds.
LEMMA EmptyStream == ASSUME NEW lo, NEW hi  PROVE StreamOK(<< >>, lo, hi)
<1>1. << >> \in Seq(Chunks) /\ Len(<< >>) = 0  BY EmptySeq
<1> QED  BY <1>1 DEF StreamOK

\* One chunk is in order between bounds around it.
LEMMA OneChunkStream ==
  ASSUME NEW c, ChunkOK(c), NEW lo \in Int, NEW hi \in Int,
         lo <= c.start, EndOf(c) <= hi
  PROVE  StreamOK(<< c >>, lo, hi)
<1>1. c \in Chunks  BY DEF ChunkOK
<1>2. << c >> \in Seq(Chunks) /\ Len(<< c >>) = 1 /\ << c >>[1] = c  BY <1>1
<1> QED  BY <1>2 DEF StreamOK

\* Bounds may be relaxed.
LEMMA WiderStream ==
  ASSUME NEW s, NEW lo \in Int, NEW hi \in Int, StreamOK(s, lo, hi),
         NEW lo2 \in Int, NEW hi2 \in Int, lo2 <= lo, hi <= hi2
  PROVE  StreamOK(s, lo2, hi2)
<1>1. \A j \in 1 .. Len(s) : s[j].start \in Nat /\ EndOf(s[j]) \in Nat
  BY ChunkExtent DEF StreamOK
<1> QED  BY <1>1 DEF StreamOK

\* Two streams that meet at a bound make one stream.
LEMMA ConcatStream ==
  ASSUME NEW s, NEW t, NEW lo \in Int, NEW mid \in Int, NEW hi \in Int,
         lo <= mid, mid <= hi, StreamOK(s, lo, mid), StreamOK(t, mid, hi)
  PROVE  StreamOK(s \o t, lo, hi)
<1> DEFINE r == s \o t
<1>1. /\ s \in Seq(Chunks) /\ t \in Seq(Chunks)
      /\ Len(s) \in Nat /\ Len(t) \in Nat
  BY LenProperties DEF StreamOK
<1>2. /\ r \in Seq(Chunks) /\ Len(r) = Len(s) + Len(t)
      /\ \A j \in 1 .. Len(s) + Len(t) :
           r[j] = IF j <= Len(s) THEN s[j] ELSE t[j - Len(s)]
  BY <1>1, ConcatProperties
<1> HIDE DEF r
<1>3. /\ \A j \in 1 .. Len(s) : s[j].start \in Nat /\ EndOf(s[j]) \in Nat
      /\ \A j \in 1 .. Len(t) : t[j].start \in Nat /\ EndOf(t[j]) \in Nat
  BY ChunkExtent DEF StreamOK
<1>4. ASSUME NEW j \in 1 .. Len(r)
      PROVE  ChunkOK(r[j]) /\ lo <= r[j].start /\ EndOf(r[j]) <= hi
  <2>1. CASE j <= Len(s)  BY <1>1, <1>2, <1>3, <2>1 DEF StreamOK
  <2>2. CASE j > Len(s)
    <3>1. j - Len(s) \in 1 .. Len(t) /\ r[j] = t[j - Len(s)]  BY <1>1, <1>2, <2>2
    <3> QED  BY <1>3, <3>1 DEF StreamOK
  <2> QED  BY <1>1, <2>1, <2>2
<1>5. ASSUME NEW j \in 1 .. Len(r), NEW k \in 1 .. Len(r), j < k
      PROVE  EndOf(r[j]) <= r[k].start
  <2>1. CASE k <= Len(s)
    <3>1. r[j] = s[j] /\ r[k] = s[k]  BY <1>1, <1>2, <1>5, <2>1
    <3> QED  BY <1>1, <1>5, <2>1, <3>1 DEF StreamOK
  <2>2. CASE j <= Len(s) /\ k > Len(s)
    <3>1. /\ k - Len(s) \in 1 .. Len(t) /\ r[k] = t[k - Len(s)]
          /\ j \in 1 .. Len(s) /\ r[j] = s[j]
      BY <1>1, <1>2, <2>2
    <3>2. EndOf(s[j]) <= mid /\ mid <= t[k - Len(s)].start  BY <3>1 DEF StreamOK
    <3>3. EndOf(s[j]) \in Nat /\ t[k - Len(s)].start \in Nat  BY <1>3, <3>1
    <3>4. EndOf(s[j]) <= t[k - Len(s)].start  BY ONLY <3>2, <3>3, mid \in Int
    <3> QED  BY <3>1, <3>4
  <2>3. CASE j > Len(s)
    <3>1. /\ k - Len(s) \in 1 .. Len(t) /\ r[k] = t[k - Len(s)]
          /\ j - Len(s) \in 1 .. Len(t) /\ r[j] = t[j - Len(s)]
          /\ j - Len(s) < k - Len(s)
      BY <1>1, <1>2, <1>5, <2>3
    <3> QED  BY <3>1 DEF StreamOK
  <2> QED  BY <1>1, <1>2, <2>1, <2>2, <2>3
<1> QED  BY <1>2, <1>4, <1>5 DEF StreamOK, r

\* The chunks from place m to place n, which lie between a and b.
LEMMA SubStream ==
  ASSUME NEW s, NEW lo \in Int, NEW hi \in Int, StreamOK(s, lo, hi),
         NEW m \in 1 .. Len(s) + 1, NEW n \in 0 .. Len(s),
         NEW a \in Int, NEW b \in Int,
         \A j \in m .. n : a <= s[j].start /\ EndOf(s[j]) <= b
  PROVE  StreamOK(SubSeq(s, m, n), a, b)
<1> DEFINE r == SubSeq(s, m, n)
<1>1. s \in Seq(Chunks) /\ Len(s) \in Nat /\ \A j \in 1 .. Len(s) : s[j] \in Chunks
  BY LenProperties DEF StreamOK
<1>2. m \in Int /\ n \in Int /\ \A j \in m .. n : j \in 1 .. Len(s)  BY <1>1
<1>3. /\ r \in Seq(Chunks)
      /\ Len(r) = IF m <= n THEN n - m + 1 ELSE 0
      /\ \A j \in 1 .. n - m + 1 : r[j] = s[m + j - 1]
  <2>1. \A j \in m .. n : s[j] \in Chunks  BY <1>1, <1>2
  <2> QED  BY <1>2, <2>1, SubSeqProperties
<1> HIDE DEF r
<1>4. ASSUME NEW j \in 1 .. Len(r)
      PROVE  m + j - 1 \in m .. n /\ m + j - 1 \in 1 .. Len(s) /\ r[j] = s[m + j - 1]
  <2>1. j \in 1 .. n - m + 1  BY <1>2, <1>3
  <2>2. m + j - 1 \in m .. n
    BY ONLY <2>1, <1>2
  <2> QED  BY <1>2, <1>3, <2>1, <2>2
<1>5. \A j, k \in 1 .. Len(r) : j < k => m + j - 1 < m + k - 1  BY <1>2, <1>3
<1> QED  BY <1>3, <1>4, <1>5 DEF StreamOK, r

\* Where the chunks of a spliced stream come from.
LEMMA SplicePlaces ==
  ASSUME NEW S, NEW s \in Seq(S), NEW t \in Seq(S),
         NEW j \in 1 .. Len(s) + 1, NEW n \in Nat, j + n <= Len(s) + 1
  PROVE  /\ Splice(s, j, n, t) \in Seq(S)
         /\ Len(Splice(s, j, n, t)) = Len(s) - n + Len(t)
         /\ \A x \in 1 .. j - 1 : Splice(s, j, n, t)[x] = s[x]
         /\ \A x \in 1 .. Len(t) : Splice(s, j, n, t)[j - 1 + x] = t[x]
         /\ \A x \in j + n .. Len(s) :
              Splice(s, j, n, t)[x - n + Len(t)] = s[x]
<1> DEFINE l == SubSeq(s, 1, j - 1)
           r == SubSeq(s, j + n, Len(s))
           lt == l \o t
<1>1. /\ Len(s) \in Nat /\ Len(t) \in Nat
      /\ \A x \in 1 .. Len(s) : s[x] \in S
  BY LenProperties
<1>2. l \in Seq(S) /\ Len(l) = j - 1 /\ \A x \in 1 .. j - 1 : l[x] = s[x]
  BY <1>1, SubSeqProperties
<1>3. /\ r \in Seq(S) /\ Len(r) = Len(s) - (j + n) + 1
      /\ \A x \in 1 .. Len(s) - (j + n) + 1 : r[x] = s[(j + n) + x - 1]
  BY <1>1, SubSeqProperties
<1> HIDE DEF l, r
<1>4. /\ lt \in Seq(S) /\ Len(lt) = Len(l) + Len(t)
      /\ \A x \in 1 .. Len(l) + Len(t) :
           lt[x] = IF x <= Len(l) THEN l[x] ELSE t[x - Len(l)]
  BY <1>2, ConcatProperties
<1> HIDE DEF lt
<1> DEFINE w == lt \o r
<1>5. /\ w \in Seq(S) /\ Len(w) = Len(lt) + Len(r)
      /\ \A x \in 1 .. Len(lt) + Len(r) :
           w[x] = IF x <= Len(lt) THEN lt[x] ELSE r[x - Len(lt)]
  <2>1. lt \in Seq(S) /\ r \in Seq(S)  BY <1>3, <1>4
  <2> QED  BY ONLY <2>1, ConcatProperties
<1> HIDE DEF w
<1>6. Len(w) = Len(s) - n + Len(t) /\ Len(lt) = j - 1 + Len(t)
  BY <1>1, <1>2, <1>3, <1>4, <1>5
<1>7. ASSUME NEW x \in 1 .. j - 1  PROVE w[x] = s[x]
  <2>0. x \in 1 .. Len(lt) + Len(r) /\ x <= Len(lt)  BY <1>1, <1>3, <1>6
  <2>1. w[x] = lt[x]  BY <1>5, <2>0
  <2>2. x \in 1 .. Len(l) + Len(t) /\ x <= Len(l)  BY <1>1, <1>2
  <2>3. lt[x] = l[x]  BY <1>4, <2>2
  <2> QED  BY <1>2, <2>1, <2>3
<1>8. ASSUME NEW x \in 1 .. Len(t)  PROVE w[j - 1 + x] = t[x]
  <2>0. j - 1 + x \in 1 .. Len(lt) + Len(r) /\ j - 1 + x <= Len(lt)
    BY <1>1, <1>3, <1>6
  <2>1. w[j - 1 + x] = lt[j - 1 + x]  BY <1>5, <2>0
  <2>2. j - 1 + x \in 1 .. Len(l) + Len(t) /\ ~(j - 1 + x <= Len(l))
    BY <1>1, <1>2
  <2>3. lt[j - 1 + x] = t[(j - 1 + x) - Len(l)]  BY <1>4, <2>2
  <2>4. (j - 1 + x) - Len(l) = x  BY <1>1, <1>2
  <2> QED  BY <2>1, <2>3, <2>4
<1>9. ASSUME NEW x \in j + n .. Len(s)  PROVE w[x - n + Len(t)] = s[x]
  <2> DEFINE z == x - n + Len(t)
             y == z - Len(lt)
  <2>1. y = x - (j + n) + 1 /\ y \in 1 .. Len(s) - (j + n) + 1
    BY <1>1, <1>6
  <2>2. z \in 1 .. Len(lt) + Len(r) /\ ~(z <= Len(lt))
    BY <1>1, <1>3, <1>6
  <2>3. (j + n) + y - 1 = x
    <3> HIDE DEF y, z
    <3> QED  BY ONLY <2>1, j \in Nat, n \in Nat, x \in Int
  <2> HIDE DEF z
  <2>4. w[z] = r[y]  BY <1>5, <2>2
  <2> HIDE DEF y
  <2>5. w[z] = s[x]  BY <1>3, <2>1, <2>3, <2>4
  <2> QED  BY <2>5 DEF z
<1>10. Splice(s, j, n, t) = w  BY DEF Splice, w, lt, l, r
<1> QED  BY <1>5, <1>6, <1>7, <1>8, <1>9, <1>10

\* t takes the place of n chunks and stays clear of the ones on both sides.
LEMMA SpliceStream ==
  ASSUME NEW s, NEW t, NEW lo \in Int, NEW hi \in Int, NEW a \in Int, NEW b \in Int,
         lo <= a, a <= b, b <= hi,
         StreamOK(s, lo, hi), StreamOK(t, a, b),
         NEW j \in 1 .. Len(s) + 1, NEW n \in Nat, j + n <= Len(s) + 1,
         \A p \in 1 .. j - 1 : EndOf(s[p]) <= a,
         \A p \in j + n .. Len(s) : b <= s[p].start
  PROVE  StreamOK(Splice(s, j, n, t), lo, hi)
<1>1. Len(s) \in Nat  BY LenProperties DEF StreamOK
<1>2. StreamOK(SubSeq(s, 1, j - 1), lo, a)
  <2>1. \A p \in 1 .. j - 1 : lo <= s[p].start /\ EndOf(s[p]) <= a  BY <1>1 DEF StreamOK
  <2>2. 1 \in 1 .. Len(s) + 1 /\ j - 1 \in 0 .. Len(s)  BY <1>1
  <2> QED  BY <2>1, <2>2, SubStream
<1>3. StreamOK(SubSeq(s, j + n, Len(s)), b, hi)
  <2>1. \A p \in j + n .. Len(s) : b <= s[p].start /\ EndOf(s[p]) <= hi
    BY <1>1 DEF StreamOK
  <2>2. j + n \in 1 .. Len(s) + 1 /\ Len(s) \in 0 .. Len(s)  BY <1>1
  <2> QED  BY <2>1, <2>2, SubStream
<1>4. StreamOK(SubSeq(s, 1, j - 1) \o t, lo, b)  BY <1>2, ConcatStream
<1>5. StreamOK((SubSeq(s, 1, j - 1) \o t) \o SubSeq(s, j + n, Len(s)), lo, hi)
  <2>1. lo <= b  OBVIOUS
  <2> QED  BY <1>3, <1>4, <2>1, ConcatStream
<1> QED  BY <1>5 DEF Splice

\* No vector of a sparse chunk lies past what the chunk answers for.
LEMMA DataIsInCapacity ==
  ASSUME NEW c, ChunkOK(c), ~IsRLE(c)
  PROVE  DataInCapacity(c)
<1>1. Capacity(c) = BitsPerVector * FlagsPerIndex  BY SparseCapacity DEF ChunkCap
<1>2. BitsPerVector \in Nat /\ FlagsPerIndex \in Nat  BY ChunkConstants
<1>3. ASSUME NEW v \in Vec  PROVE (v + 1) * BitsPerVector <= BitsPerVector * FlagsPerIndex
  <2> DEFINE d == FlagsPerIndex - (v + 1)
             b == BitsPerVector
  <2>1. v \in Nat /\ d \in Nat /\ b \in Nat /\ FlagsPerIndex = (v + 1) + d
    BY <1>2 DEF Vec
  <2> HIDE DEF d, b
  <2>2. b * FlagsPerIndex = (v + 1) * b + d * b  BY ONLY <2>1
  <2>3. d * b \in Nat /\ (v + 1) * b \in Nat  BY ONLY <2>1
  <2>4. (v + 1) * b <= b * FlagsPerIndex  BY ONLY <2>2, <2>3
  <2> QED  BY <2>4 DEF b
<1> QED  BY <1>1, <1>3 DEF DataInCapacity, DataVectors

\* What sm_validate asks of the chunks.
LEMMA StreamIsWellFormed ==
  ASSUME NEW s, NEW lo, NEW hi, StreamOK(s, lo, hi)
  PROVE  WellFormed(s)
<1>1. DOMAIN s = 1 .. Len(s) /\ Len(s) \in Nat  BY LenProperties DEF StreamOK
<1>2. ASSUME NEW j \in 1 .. Len(s)
      PROVE  /\ s[j].start % ChunkCap = 0
             /\ IsRLE(s[j]) => s[j].len <= s[j].cap
             /\ ~IsRLE(s[j]) => DataInCapacity(s[j])
             /\ s[j].start \in Nat /\ EndOf(s[j]) \in Nat /\ s[j].start < EndOf(s[j])
  <2>1. ChunkOK(s[j])  BY DEF StreamOK
  <2>2. /\ IsRLE(s[j]) => s[j].len \in 1 .. s[j].cap
        /\ ~IsRLE(s[j]) => DataInCapacity(s[j])
    BY <2>1, DataIsInCapacity DEF ChunkOK
  <2>3. s[j].start % ChunkCap = 0  BY <2>1 DEF ChunkOK, Boundary
  <2> QED  BY <2>1, <2>2, <2>3, ChunkExtent, ChunkCapPositive
<1>3. ASSUME NEW j \in 1 .. Len(s) - 1
      PROVE  s[j].start < s[j + 1].start /\ EndOf(s[j]) <= s[j + 1].start
  <2>1. j \in 1 .. Len(s) /\ j + 1 \in 1 .. Len(s) /\ j < j + 1  BY <1>1
  <2>2. EndOf(s[j]) <= s[j + 1].start  BY <2>1 DEF StreamOK
  <2> QED  BY <1>2, <2>1, <2>2
<1> QED  BY <1>1, <1>2, <1>3 DEF WellFormed, Ordered, EndOf

----------------------------------------------------------------------------
(* Lookup.                                                                 *)

\* __sm_get_chunk_offset stops at the first chunk that ends after i, or at the last.
LEMMA LocateProperties ==
  ASSUME NEW s, NEW lo, NEW hi, StreamOK(s, lo, hi), s # << >>, NEW i \in Int
  PROVE  /\ Locate(s, i) \in 1 .. Len(s)
         /\ \A k \in 1 .. Locate(s, i) - 1 : EndOf(s[k]) <= i
         /\ Locate(s, i) < Len(s) => i < EndOf(s[Locate(s, i)])
<1> DEFINE good(j) == /\ \A k \in 1 .. j - 1 : i >= s[k].start + Capacity(s[k])
                      /\ j < Len(s) => i < s[j].start + Capacity(s[j])
           stops == {j \in 1 .. Len(s) : j < Len(s) => i < EndOf(s[j])}
<1>1. DOMAIN s = 1 .. Len(s) /\ Len(s) \in Nat \ {0}
  BY LenProperties, EmptySeq DEF StreamOK
<1>2. \A j \in 1 .. Len(s) : EndOf(s[j]) \in Nat  BY ChunkExtent DEF StreamOK
<1>3. Len(s) \in stops /\ stops \in SUBSET Nat  BY <1>1
<1>4. PICK j \in stops : \A k \in stops : j <= k  BY <1>3, LeastElement
<1>5. j \in 1 .. Len(s) /\ good(j)
  <2>1. ASSUME NEW k \in 1 .. j - 1  PROVE i >= EndOf(s[k])
    <3>1. k \in 1 .. Len(s) /\ k \notin stops  BY <1>1, <1>4
    <3> QED  BY <1>2, <3>1
  <2> QED  BY <1>1, <1>4, <2>1 DEF EndOf
<1>6. Locate(s, i) = CHOOSE x \in 1 .. Len(s) : good(x)  BY <1>1 DEF Locate
<1> HIDE DEF good
<1>7. Locate(s, i) \in 1 .. Len(s) /\ good(Locate(s, i))  BY <1>5, <1>6
<1>8. ASSUME NEW k \in 1 .. Locate(s, i) - 1  PROVE EndOf(s[k]) <= i
  <2>1. k \in 1 .. Len(s)  BY <1>1, <1>7
  <2> QED  BY <1>2, <1>7, <2>1 DEF good, EndOf
<1> QED  BY <1>7, <1>8 DEF good, EndOf

----------------------------------------------------------------------------
(* Coalescing.  L is a boundary that no chunk reaches past, low enough for  *)
(* every run below it to fit the descriptor's fields.                       *)

Limit(L) == L \in Nat /\ Boundary(L) /\ L <= RLEMax

MapOK(m, L) ==
  /\ m \in [chunks : Seq(Chunks), used : Int, cap : Nat]
  /\ StreamOK(m.chunks, 0, L)

\* A size in words is a number.
LEMMA SizeIsNat == ASSUME NEW c  PROVE Size(c) \in Nat
  BY MixedFinite DEF Size

\* An update of two fields at once, taken one by one.
LEMMA TwoFields ==
  ASSUME NEW m \in [chunks : Seq(Chunks), used : Int, cap : Nat], NEW s, NEW d
  PROVE  [m EXCEPT !.chunks = s, !.used = m.used + d] =
           [chunks |-> s, used |-> m.used + d, cap |-> m.cap]
<1> DEFINE m1 == [m EXCEPT !.chunks = s]
<1>1. m1 = [chunks |-> s, used |-> m.used, cap |-> m.cap]  OBVIOUS
<1> HIDE DEF m1
<1>2. [m1 EXCEPT !.used = m.used + d] =
        [chunks |-> s, used |-> m.used + d, cap |-> m.cap]
  BY <1>1
<1>3. [m1 EXCEPT !.used = m.used + d] =
        [m EXCEPT !.chunks = s, !.used = m.used + d]
  BY Zenon DEF m1
<1> QED  BY <1>2, <1>3

\* A replacement whose stream is in order leaves a map in order.
LEMMA ReplaceOK ==
  ASSUME NEW L \in Nat, NEW m, MapOK(m, L),
         NEW j, NEW n, NEW t, NEW words \in Int,
         StreamOK(Splice(m.chunks, j, n, t), 0, L)
  PROVE  /\ MapOK(Replace(m, j, n, t, words), L)
         /\ Replace(m, j, n, t, words).chunks = Splice(m.chunks, j, n, t)
         /\ Replace(m, j, n, t, words).cap = m.cap
<1>1. m \in [chunks : Seq(Chunks), used : Int, cap : Nat]  BY DEF MapOK
<1>2. Replace(m, j, n, t, words) =
        [chunks |-> Splice(m.chunks, j, n, t), used |-> m.used + words, cap |-> m.cap]
  BY <1>1, TwoFields DEF Replace
<1>3. Splice(m.chunks, j, n, t) \in Seq(Chunks)  BY DEF StreamOK
<1> QED  BY <1>1, <1>2, <1>3 DEF MapOK

\* r is m with t in the place of n chunks from place j on.
ReplacedAt(r, m, j, n, t, L) ==
  /\ MapOK(r, L) /\ r.cap = m.cap
  /\ Len(r.chunks) = Len(m.chunks) - n + Len(t)
  /\ \A x \in 1 .. j - 1 : r.chunks[x] = m.chunks[x]
  /\ \A x \in 1 .. Len(t) : r.chunks[j - 1 + x] = t[x]
  /\ \A x \in j + n .. Len(m.chunks) : r.chunks[x - n + Len(t)] = m.chunks[x]

\* n chunks of a map give way to t, which stays between a and b.
LEMMA ReplaceStream ==
  ASSUME NEW L, Limit(L), NEW m, MapOK(m, L),
         NEW t, NEW a \in Int, NEW b \in Int,
         0 <= a, a <= b, b <= L, StreamOK(t, a, b),
         NEW j \in 1 .. Len(m.chunks) + 1, NEW n \in Nat, j + n <= Len(m.chunks) + 1,
         \A p \in 1 .. j - 1 : EndOf(m.chunks[p]) <= a,
         \A p \in j + n .. Len(m.chunks) : b <= m.chunks[p].start,
         NEW words \in Int
  PROVE  ReplacedAt(Replace(m, j, n, t, words), m, j, n, t, L)
<1> DEFINE s == m.chunks
           r == Splice(s, j, n, t)
<1>1. L \in Nat /\ L \in Int /\ 0 \in Int /\ StreamOK(s, 0, L)
  BY DEF Limit, MapOK
<1>2. s \in Seq(Chunks) /\ t \in Seq(Chunks)  BY <1>1 DEF StreamOK
<1>3. /\ \A p \in 1 .. j - 1 : EndOf(s[p]) <= a
      /\ \A p \in j + n .. Len(s) : b <= s[p].start
      /\ j \in 1 .. Len(s) + 1 /\ j + n <= Len(s) + 1
  OBVIOUS
<1> HIDE DEF s
<1>4. StreamOK(r, 0, L)
  BY <1>1, <1>3, SpliceStream
<1>5. /\ Len(r) = Len(s) - n + Len(t)
      /\ \A x \in 1 .. j - 1 : r[x] = s[x]
      /\ \A x \in 1 .. Len(t) : r[j - 1 + x] = t[x]
      /\ \A x \in j + n .. Len(s) : r[x - n + Len(t)] = s[x]
  BY <1>2, <1>3, SplicePlaces
<1>6. /\ MapOK(Replace(m, j, n, t, words), L)
      /\ Replace(m, j, n, t, words).chunks = r
      /\ Replace(m, j, n, t, words).cap = m.cap
  <2>1. /\ L \in Nat /\ MapOK(m, L) /\ words \in Int
        /\ StreamOK(Splice(m.chunks, j, n, t), 0, L)
    BY <1>1, <1>4 DEF s
  <2>2. /\ MapOK(Replace(m, j, n, t, words), L)
        /\ Replace(m, j, n, t, words).chunks = Splice(m.chunks, j, n, t)
        /\ Replace(m, j, n, t, words).cap = m.cap
    BY ONLY <2>1, ReplaceOK
  <2> QED  BY <2>2 DEF s
<1> HIDE DEF r
<1> QED  BY <1>5, <1>6 DEF s, ReplacedAt

\* A run that ends by hi, with no chunk before hi after it, gets the capacity
\* up to the end of its last window.
LEMMA RunCapacityIs ==
  ASSUME NEW L, Limit(L), NEW s, StreamOK(s, 0, L),
         NEW start \in Nat, Boundary(start), NEW len \in Nat, len >= 1,
         NEW hi \in Nat, Boundary(hi), hi <= L, start + len <= hi,
         NEW j \in Nat, j >= 1, j < Len(s) => hi <= s[j + 1].start
  PROVE  /\ ChunkOK(RLEChunk(start, len, RunCapacity(s, j, start, len)))
         /\ IsRLE(RLEChunk(start, len, RunCapacity(s, j, start, len)))
         /\ RLEChunk(start, len, RunCapacity(s, j, start, len)).start = start
         /\ RunLength(RLEChunk(start, len, RunCapacity(s, j, start, len))) = len
         /\ EndOf(RLEChunk(start, len, RunCapacity(s, j, start, len))) <= hi
         /\ len <= RunCapacity(s, j, start, len)
<1> DEFINE window == RoundUp(start + len) - start
           cap == RunCapacity(s, j, start, len)
<1>1. L \in Nat /\ L <= RLEMax /\ RLEMax \in Nat  BY ChunkConstants DEF Limit
<1>2. RoundUp(start + len) \in Nat /\ start + len <= RoundUp(start + len)
      /\ RoundUp(start + len) <= hi /\ Boundary(RoundUp(start + len))
  BY RoundUpBounds, RoundUpLeast
<1>3. window \in Nat /\ Boundary(window) /\ len <= window /\ start + window <= hi
  BY <1>2, BoundarySum
<1> HIDE DEF window
<1>4. j < Len(s) => s[j + 1].start \in Nat
  <2>1. ASSUME j < Len(s)  PROVE j + 1 \in 1 .. Len(s)
    BY <2>1, LenProperties DEF StreamOK
  <2> QED  BY <2>1, ChunkExtent DEF StreamOK
<1>5. cap = Lesser(Greater(IF j < Len(s) THEN Lesser(window, s[j + 1].start - start)
                           ELSE window, len), RLEMax)
  BY DEF RunCapacity, window
<1>6. cap = window  BY <1>1, <1>3, <1>4, <1>5 DEF Lesser, Greater
<1> HIDE DEF cap
<1>7. /\ ChunkOK(RLEChunk(start, len, cap))
      /\ RLEChunk(start, len, cap) =
              [kind |-> "rle", start |-> start, len |-> len, cap |-> cap]
  BY <1>1, <1>3, <1>6, RLEChunkOK
<1>8. /\ IsRLE(RLEChunk(start, len, cap))
      /\ RunLength(RLEChunk(start, len, cap)) = len
      /\ EndOf(RLEChunk(start, len, cap)) = start + cap
  BY <1>7 DEF IsRLE, RunLength, EndOf, Capacity
<1> QED  BY <1>3, <1>6, <1>7, <1>8 DEF cap

\* A subsequence depends on no element but those it takes.
LEMMA SameSubSeq ==
  ASSUME NEW S, NEW s \in Seq(S), NEW t \in Seq(S), NEW m \in Int, NEW n \in Int,
         \A x \in m .. n : s[x] \in S /\ s[x] = t[x]
  PROVE  SubSeq(s, m, n) = SubSeq(t, m, n)
<1> DEFINE u == SubSeq(s, m, n)
           w == SubSeq(t, m, n)
<1>1. /\ u \in Seq(S) /\ Len(u) = IF m <= n THEN n - m + 1 ELSE 0
      /\ \A x \in 1 .. n - m + 1 : u[x] = s[m + x - 1]
  BY SubSeqProperties
<1>2. /\ w \in Seq(S) /\ Len(w) = IF m <= n THEN n - m + 1 ELSE 0
      /\ \A x \in 1 .. n - m + 1 : w[x] = t[m + x - 1]
  <2>1. \A x \in m .. n : t[x] \in S  OBVIOUS
  <2> QED  BY <2>1, SubSeqProperties
<1> HIDE DEF u, w
<1>3. Len(u) = Len(w) /\ \A x \in 1 .. Len(u) : u[x] = w[x]  BY <1>1, <1>2
<1>4. u = w  BY <1>1, <1>2, <1>3, SeqEqual
<1> QED  BY <1>4 DEF u, w

\* Writing place j - 1 and removing place j is a splice.
LEMMA RemoveNext ==
  ASSUME NEW S, NEW s \in Seq(S), NEW e \in S, NEW j \in 2 .. Len(s)
  PROVE  RemoveAt([s EXCEPT ![j - 1] = e], j) = Splice(s, j - 1, 2, << e >>)
<1> DEFINE t == [s EXCEPT ![j - 1] = e]
<1>1. Len(s) \in Nat /\ \A x \in 1 .. Len(s) : s[x] \in S  BY LenProperties
<1>2. /\ t \in Seq(S) /\ Len(t) = Len(s)
      /\ \A x \in 1 .. Len(s) : t[x] = IF x = j - 1 THEN e ELSE s[x]
  <2>1. j - 1 \in 1 .. Len(s)  BY <1>1
  <2> QED  BY <2>1, ExceptSeq
<1> HIDE DEF t
<1>3. SubSeq(t, 1, j - 1) = SubSeq(t, 1, (j - 1) - 1) \o << e >>
  <2>1. 1 \in 1 .. Len(t) /\ j - 1 \in 1 .. Len(t) /\ t[j - 1] = e  BY <1>1, <1>2
  <2> QED  BY <1>2, <2>1, SubSeqRecursiveSecond
<1>4. SubSeq(t, 1, (j - 1) - 1) = SubSeq(s, 1, (j - 1) - 1)
  <2>1. \A x \in 1 .. (j - 1) - 1 : t[x] \in S /\ t[x] = s[x]  BY <1>1, <1>2
  <2> QED  BY <1>1, <1>2, <2>1, SameSubSeq
<1>5. SubSeq(t, j + 1, Len(t)) = SubSeq(s, (j - 1) + 2, Len(s))
  <2>1. j + 1 = (j - 1) + 2 /\ j + 1 \in Int  BY <1>1
  <2>2. \A x \in j + 1 .. Len(s) : t[x] \in S /\ t[x] = s[x]  BY <1>1, <1>2
  <2>3. SubSeq(t, j + 1, Len(s)) = SubSeq(s, j + 1, Len(s))
    BY <1>1, <1>2, <2>1, <2>2, SameSubSeq
  <2> QED  BY <1>2, <2>1, <2>3
<1> QED  BY <1>3, <1>4, <1>5 DEF RemoveAt, Splice, t

\* A chunk's start, as the code that coalesces knows it, may be that of a chunk
\* just removed: it is not past the chunk's and not before the end of the one
\* on the left.
StartOK(s, j, start) ==
  /\ start \in Nat
  /\ start <= s[j].start
  /\ \A p \in 1 .. j - 1 : EndOf(s[p]) <= start

\* The chunk on the left is the one before.
LEMMA LeftNeighbour ==
  ASSUME NEW L, Limit(L), NEW s, StreamOK(s, 0, L), NEW j \in 1 .. Len(s),
         NEW start, StartOK(s, j, start), j > 1, Locate(s, start - 1) < j
  PROVE  Locate(s, start - 1) = j - 1
<1> DEFINE k == Locate(s, start - 1)
<1>1. Len(s) \in Nat /\ s # << >>
  BY LenProperties, EmptySeq DEF StreamOK
<1>2. start - 1 \in Int  BY DEF StartOK
<1>3. /\ k \in 1 .. Len(s)
      /\ k < Len(s) => start - 1 < EndOf(s[k])
  BY <1>1, <1>2, LocateProperties DEF Limit
<1> HIDE DEF k
<1>4. k < j  BY DEF k
<1>5. ASSUME k < j - 1  PROVE FALSE
  <2>1. j - 1 \in 1 .. Len(s) /\ j - 1 \in 1 .. j - 1 /\ k < Len(s)
    BY <1>1, <1>3, <1>5
  <2>2. EndOf(s[k]) <= s[j - 1].start  BY <1>3, <1>5, <2>1 DEF StreamOK
  <2>3. /\ s[j - 1].start \in Nat /\ EndOf(s[j - 1]) \in Nat
        /\ s[j - 1].start + ChunkCap <= EndOf(s[j - 1])
    BY <2>1, ChunkExtent DEF StreamOK
  <2>4. EndOf(s[j - 1]) <= start  BY <2>1 DEF StartOK
  <2>5. EndOf(s[k]) \in Nat  BY <1>3, ChunkExtent DEF StreamOK
  <2>6. start \in Nat  BY DEF StartOK
  <2> QED  BY <1>3, <2>1, <2>2, <2>3, <2>4, <2>5, <2>6, ChunkCapPositive
<1>6. k = j - 1  BY <1>1, <1>3, <1>4, <1>5
<1> QED  BY <1>6 DEF k

\* Two runs that meet make one, no longer than the two chunks reach.
LEMMA JoinedExtent ==
  ASSUME NEW lo \in Nat, NEW mid \in Nat, NEW run \in Nat, NEW whole \in Nat,
         NEW hi \in Nat, lo <= mid, run > 0, run <= whole, mid + whole <= hi
  PROVE  /\ mid + run - lo \in Nat /\ mid + run - lo >= 1
         /\ lo + (mid + run - lo) <= hi /\ lo <= hi
OBVIOUS

\* c is a run of len from lo, within hi.
IsJoined(c, lo, len, hi) ==
  ChunkOK(c) /\ IsRLE(c) /\ c.start = lo /\ RunLength(c) = len /\ EndOf(c) <= hi

\* The runs that the joins on both sides write.
LeftJoined(m, j, start) ==
  LET s == m.chunks
      lo == s[j - 1].start
      len == start + RunLength(s[j]) - lo
  IN RLEChunk(lo, len, RunCapacity(s, j, lo, len))
RightJoined(m, j, start, i, isSet) ==
  LET s == m.chunks
      len == s[j + 1].start + RightRun(m, j, i, isSet) - start
  IN RLEChunk(s[j].start, len, RunCapacity(s, j + 1, start, len))

\* The left half of __sm_coalesce_chunk meets a run that fills the chunk before
\* j, and writes one run in the place of the two, within the end of chunk j.
JoinsLeft(m, j, start) ==
  LET s == m.chunks
      a == s[j - 1]
  IN /\ Locate(s, start - 1) = j - 1 /\ j - 1 \in 1 .. Len(s)
     /\ RunLength(a) > 0 /\ a.start + RunLength(a) = start /\ EndOf(a) <= start
     /\ IsJoined(LeftJoined(m, j, start), a.start,
                 start + RunLength(s[j]) - a.start, EndOf(s[j]))
     /\ JoinLeft(m, j, start) =
          Replace(m, j - 1, 2, << LeftJoined(m, j, start) >>, 0 - (1 + Size(s[j])))

\* The right half does so with chunk j + 1; it may count only part of its run.
JoinsRight(m, j, start, i, isSet) ==
  LET s == m.chunks
      a == s[j + 1]
      run == RightRun(m, j, i, isSet)
  IN /\ j + 1 \in 1 .. Len(s) /\ start = s[j].start
     /\ start + RunLength(s[j]) = a.start /\ run \in 1 .. RunLength(a)
     /\ IsJoined(RightJoined(m, j, start, i, isSet), start, a.start + run - start,
                 EndOf(a))
     /\ JoinRight(m, j, start, i, isSet) =
          Replace(m, j, 2, << RightJoined(m, j, start, i, isSet) >>,
                  0 - (Size(s[j]) + Size(a)))

\* The left half does that.
LEMMA JoinLeftIs ==
  ASSUME NEW L, Limit(L), NEW m, MapOK(m, L), NEW j \in 1 .. Len(m.chunks),
         NEW start, StartOK(m.chunks, j, start),
         RunLength(m.chunks[j]) > 0, CanJoinLeft(m, j, start)
  PROVE  JoinsLeft(m, j, start)
<1> DEFINE s == m.chunks
           a == s[j - 1]
           len == start + RunLength(s[j]) - a.start
           joined == RLEChunk(a.start, len, RunCapacity(s, j, a.start, len))
           t == << joined >>
           r == Splice(s, j - 1, 2, t)
           d == 0 - (1 + Size(s[j]))
<1>1. /\ m \in [chunks : Seq(Chunks), used : Int, cap : Nat]
      /\ StreamOK(s, 0, L) /\ s \in Seq(Chunks) /\ Len(s) \in Nat
      /\ L \in Nat /\ j > 1
  BY LenProperties DEF MapOK, StreamOK, Limit, CanJoinLeft
<1>2. Locate(s, start - 1) = j - 1
  BY <1>1, LeftNeighbour DEF CanJoinLeft
<1>3. j - 1 \in 1 .. Len(s) /\ j \in 1 .. Len(s) /\ j - 1 \in 1 .. j - 1  BY <1>1
<1>4. /\ RunLength(a) > 0 /\ a.start + RunLength(a) = start
  BY <1>1, <1>2 DEF CanJoinLeft
<1>5. /\ ChunkOK(a) /\ ChunkOK(s[j]) /\ EndOf(s[j]) <= L
      /\ EndOf(a) <= start /\ start <= s[j].start /\ start \in Nat
  BY <1>1, <1>3 DEF StreamOK, StartOK
<1>6. /\ a.start \in Nat /\ Boundary(a.start) /\ RunLength(a) \in Nat
      /\ s[j].start \in Nat /\ RunLength(s[j]) \in Nat
      /\ EndOf(s[j]) \in Nat /\ Boundary(EndOf(s[j]))
      /\ s[j].start + RunLength(s[j]) <= EndOf(s[j])
  BY <1>5, ChunkExtent
<1>7. len \in Nat /\ len >= 1 /\ a.start + len <= EndOf(s[j])
  <2> DEFINE run == RunLength(s[j])
             hi == EndOf(s[j])
             lo == a.start
  <2>1. lo \in Nat /\ start \in Nat /\ run \in Nat /\ hi \in Nat  BY <1>5, <1>6
  <2>2. run > 0  OBVIOUS
  <2>3. start + run <= hi
    <3> DEFINE own == s[j].start
    <3>1. own \in Nat /\ start <= own /\ own + run <= hi  BY <1>5, <1>6
    <3> HIDE DEF own, run, hi, lo
    <3> QED  BY ONLY <2>1, <3>1
  <2>4. lo <= start
    <3> DEFINE left == RunLength(a)
    <3>1. left \in Nat /\ lo + left = start  BY <1>4, <1>6
    <3> HIDE DEF left, run, hi, lo
    <3> QED  BY ONLY <2>1, <3>1
  <2> HIDE DEF run, hi, lo
  <2>5. /\ start + run - lo \in Nat /\ start + run - lo >= 1
        /\ lo + (start + run - lo) <= hi
    BY ONLY <2>1, <2>2, <2>3, <2>4, JoinedExtent
  <2> QED  BY <2>5 DEF run, hi, lo
<1>8. j < Len(s) => EndOf(s[j]) <= s[j + 1].start
  <2>1. ASSUME j < Len(s)  PROVE j + 1 \in 1 .. Len(s) /\ j < j + 1
    BY <1>1, <2>1
  <2> QED  BY <1>1, <1>3, <2>1 DEF StreamOK
<1> HIDE DEF len
<1>9. /\ ChunkOK(joined) /\ IsRLE(joined) /\ joined.start = a.start
      /\ RunLength(joined) = len /\ EndOf(joined) <= EndOf(s[j])
  <2> HIDE DEF a, s
  <2> DEFINE hi == EndOf(s[j])
             lo == a.start
  <2>1. j \in Nat /\ j >= 1 /\ s \in Seq(Chunks) /\ lo \in Nat /\ Boundary(lo)
    BY <1>1, <1>3, <1>6
  <2>2. /\ hi \in Nat /\ Boundary(hi) /\ hi <= L /\ lo + len <= hi
        /\ (j < Len(s) => hi <= s[j + 1].start) /\ len \in Nat /\ len >= 1
    BY <1>5, <1>6, <1>7, <1>8
  <2> HIDE DEF hi, lo
  <2>3. /\ ChunkOK(RLEChunk(lo, len, RunCapacity(s, j, lo, len)))
        /\ IsRLE(RLEChunk(lo, len, RunCapacity(s, j, lo, len)))
        /\ RLEChunk(lo, len, RunCapacity(s, j, lo, len)).start = lo
        /\ RunLength(RLEChunk(lo, len, RunCapacity(s, j, lo, len))) = len
        /\ EndOf(RLEChunk(lo, len, RunCapacity(s, j, lo, len))) <= hi
    BY <1>1, <2>1, <2>2, RunCapacityIs
  <2> QED  BY <2>3 DEF hi, lo
<1>10. JoinLeft(m, j, start) = [m EXCEPT !.chunks = r, !.used = m.used + d]
  <2>1. joined \in Chunks  BY <1>9 DEF ChunkOK
  <2>2. RemoveAt([s EXCEPT ![j - 1] = joined], j) = r
    BY <1>1, <2>1, RemoveNext
  <2>3. m.used - (1 + Size(s[j])) = m.used + d  BY <1>1, SizeIsNat
  <2> QED  BY <1>2, <2>2, <2>3 DEF JoinLeft, len
<1>11. JoinLeft(m, j, start) = Replace(m, j - 1, 2, t, d)
  <2> HIDE DEF d, t
  <2> QED  BY <1>10 DEF Replace
<1>12. joined = LeftJoined(m, j, start)  BY DEF LeftJoined, len
<1> HIDE DEF joined, d
<1> QED  BY <1>2, <1>3, <1>4, <1>5, <1>9, <1>11, <1>12 DEF JoinsLeft, IsJoined, len, t, d

\* The chunks stay in order, and those after j move up one place.
LEMMA JoinLeftOK ==
  ASSUME NEW L, Limit(L), NEW m, MapOK(m, L), NEW j \in 1 .. Len(m.chunks),
         NEW start, StartOK(m.chunks, j, start),
         RunLength(m.chunks[j]) > 0, CanJoinLeft(m, j, start)
  PROVE  /\ MapOK(JoinLeft(m, j, start), L)
         /\ JoinLeft(m, j, start).cap = m.cap
         /\ Locate(m.chunks, start - 1) = j - 1
         /\ Len(JoinLeft(m, j, start).chunks) = Len(m.chunks) - 1
         /\ j - 1 \in 1 .. Len(JoinLeft(m, j, start).chunks)
         /\ JoinLeft(m, j, start).chunks[j - 1].start = m.chunks[j - 1].start
         /\ j < Len(m.chunks) =>
              JoinLeft(m, j, start).chunks[j] = m.chunks[j + 1]
<1> DEFINE s == m.chunks
           place == j - 1
           n == 2
           d == 0 - (1 + Size(s[j]))
           joined == LeftJoined(m, j, start)
<1>a. JoinsLeft(m, j, start)  BY JoinLeftIs
<1>1. /\ Locate(s, start - 1) = place /\ place \in 1 .. Len(s)
      /\ EndOf(s[place]) <= start
      /\ JoinLeft(m, j, start) = Replace(m, place, n, << joined >>, d)
  BY <1>a DEF JoinsLeft
<1>b. /\ ChunkOK(joined) /\ joined.start = s[place].start
      /\ EndOf(joined) <= EndOf(s[j])
  BY <1>a DEF JoinsLeft, IsJoined
<1> HIDE DEF d, joined
<1>2. JoinLeft(m, j, start) = Replace(m, place, n, << joined >>, d)  BY <1>1
<1> DEFINE t == << joined >>
           lo == s[place].start
           hi == EndOf(s[j])
<1>3. StreamOK(s, 0, L) /\ Len(s) \in Nat /\ L \in Nat
  BY LenProperties DEF MapOK, StreamOK, Limit
<1>4. /\ place + n = j + 1 /\ place \in 1 .. Len(s) + 1 /\ place + n <= Len(s) + 1
      /\ place < j
  BY <1>1, <1>3
<1>5. lo \in Nat /\ hi \in Nat /\ hi <= L /\ lo <= hi
  <2>1. ChunkOK(s[place]) /\ ChunkOK(s[j]) /\ EndOf(s[j]) <= L
        /\ EndOf(s[place]) <= s[j].start
    BY <1>1, <1>3, <1>4 DEF StreamOK
  <2>2. /\ lo \in Nat /\ hi \in Nat /\ EndOf(s[place]) \in Nat /\ s[j].start \in Nat
        /\ lo + ChunkCap <= EndOf(s[place]) /\ s[j].start + ChunkCap <= hi
    BY <2>1, ChunkExtent
  <2> HIDE DEF lo, hi, s
  <2> QED  BY <2>1, <2>2, ChunkCapPositive DEF hi
<1>6. StreamOK(t, lo, hi)  BY <1>b, <1>5, OneChunkStream
<1>7. /\ \A p \in 1 .. place - 1 : EndOf(s[p]) <= lo
      /\ \A p \in place + n .. Len(s) : hi <= s[p].start
  BY <1>1, <1>3 DEF StreamOK
<1>8. d \in Int  BY SizeIsNat DEF d
<1>9. Len(t) = 1 /\ t[1] = joined  OBVIOUS
<1> HIDE DEF place, n, t, lo, hi
<1>10. ReplacedAt(Replace(m, place, n, t, d), m, place, n, t, L)
  <2>1. /\ 0 <= lo /\ lo <= hi /\ hi <= L /\ lo \in Int /\ hi \in Int
        /\ StreamOK(t, lo, hi) /\ n \in Nat /\ d \in Int
        /\ place \in 1 .. Len(m.chunks) + 1 /\ place + n <= Len(m.chunks) + 1
        /\ \A p \in 1 .. place - 1 : EndOf(m.chunks[p]) <= lo
        /\ \A p \in place + n .. Len(m.chunks) : hi <= m.chunks[p].start
    BY <1>4, <1>5, <1>6, <1>7, <1>8 DEF n
  <2> QED  BY ONLY <2>1, ReplaceStream, Limit(L), MapOK(m, L)
<1> DEFINE q == JoinLeft(m, j, start)
<1>11. /\ MapOK(q, L) /\ q.cap = m.cap
       /\ Len(q.chunks) = Len(s) - n + Len(t)
       /\ \A x \in 1 .. Len(t) : q.chunks[place - 1 + x] = t[x]
       /\ \A x \in place + n .. Len(s) : q.chunks[x - n + Len(t)] = s[x]
  BY <1>2, <1>10 DEF ReplacedAt, t
<1> HIDE DEF q
<1>12. Len(q.chunks) = Len(s) - 1 /\ place \in 1 .. Len(q.chunks)
  BY <1>1, <1>3, <1>4, <1>9, <1>11 DEF n
<1>13. q.chunks[place].start = s[place].start
  <2>1. q.chunks[place - 1 + 1] = t[1]  BY <1>9, <1>11
  <2>2. place - 1 + 1 = place  BY <1>4
  <2> QED  BY <1>b, <1>9, <2>1, <2>2
<1>14. j < Len(s) => q.chunks[j] = s[j + 1]
  <2>1. ASSUME j < Len(s)
        PROVE  j + 1 \in place + n .. Len(s) /\ (j + 1) - n + Len(t) = j
    BY <1>3, <1>4, <1>9, <2>1 DEF n
  <2> QED  BY <1>11, <2>1
<1> QED  BY <1>1, <1>11, <1>12, <1>13, <1>14 DEF q, place

\* A chunk's own start is a start the code may take it to have.
LEMMA OwnStart ==
  ASSUME NEW L, NEW s, StreamOK(s, 0, L), NEW j \in 1 .. Len(s)
  PROVE  StartOK(s, j, s[j].start)
<1>1. Len(s) \in Nat  BY LenProperties DEF StreamOK
<1>2. \A p \in 1 .. j - 1 : EndOf(s[p]) <= s[j].start  BY <1>1 DEF StreamOK
<1>3. s[j].start \in Nat  BY ChunkExtent DEF StreamOK
<1> QED  BY <1>2, <1>3 DEF StartOK

\* And so does the right half.
LEMMA JoinRightIs ==
  ASSUME NEW L, Limit(L), NEW m, MapOK(m, L), NEW j \in 1 .. Len(m.chunks),
         NEW start, StartOK(m.chunks, j, start), NEW i \in Nat, NEW isSet,
         CanJoinRight(m, j, start, i, isSet)
  PROVE  JoinsRight(m, j, start, i, isSet)
<1> DEFINE s == m.chunks
           c == s[j]
           a == s[j + 1]
           run == RightRun(m, j, i, isSet)
           len == a.start + run - start
           joined == RLEChunk(c.start, len, RunCapacity(s, j + 1, start, len))
           words == 0 - (Size(c) + Size(a))
<1>1. StreamOK(s, 0, L) /\ L \in Nat /\ Len(s) \in Nat /\ j < Len(s)
  BY LenProperties DEF MapOK, StreamOK, Limit, CanJoinRight
<1>2. j \in 1 .. Len(s) /\ j + 1 \in 1 .. Len(s) /\ j < j + 1  BY <1>1
<1>3. /\ ChunkOK(c) /\ ChunkOK(a) /\ EndOf(a) <= L /\ EndOf(c) <= a.start
      /\ start \in Nat /\ start <= c.start
      /\ \A p \in 1 .. j - 1 : EndOf(s[p]) <= start
      /\ \A p \in j + 2 .. Len(s) : EndOf(a) <= s[p].start
  BY <1>1, <1>2 DEF StreamOK, StartOK
<1>4. /\ run > 0 /\ start + RunLength(c) = a.start
  BY DEF CanJoinRight
<1>5. run = IF isSet /\ i >= a.start THEN Lesser(RunLength(a), i - a.start + 1)
            ELSE RunLength(a)
  BY DEF RightRun
<1> HIDE DEF run
<1>6. /\ c.start \in Nat /\ Boundary(c.start) /\ RunLength(c) \in Nat
      /\ c.start + RunLength(c) <= EndOf(c) /\ EndOf(c) \in Nat
      /\ a.start \in Nat /\ RunLength(a) \in Nat
      /\ EndOf(a) \in Nat /\ Boundary(EndOf(a)) /\ a.start + RunLength(a) <= EndOf(a)
  BY <1>3, ChunkExtent
<1>7. start = c.start
  <2> HIDE DEF s, c, a
  <2> QED  BY <1>3, <1>4, <1>6
<1>8. run \in Nat /\ run <= RunLength(a)
  <2> HIDE DEF s, c, a
  <2> QED  BY <1>4, <1>5, <1>6 DEF Lesser
<1>9. len \in Nat /\ len >= 1 /\ start + len <= EndOf(a) /\ start <= EndOf(a)
  <2> HIDE DEF s, c, a
  <2>1. a.start >= start  BY <1>3, <1>4, <1>6
  <2>2. start \in Nat /\ run > 0  BY <1>3, <1>4
  <2>3. /\ a.start \in Nat /\ RunLength(a) \in Nat /\ EndOf(a) \in Nat
        /\ a.start + RunLength(a) <= EndOf(a)
    BY <1>6
  <2> QED  BY ONLY <2>1, <2>2, <2>3, <1>8, JoinedExtent
<1>10. j + 1 < Len(s) => EndOf(a) <= s[(j + 1) + 1].start
  <2>1. ASSUME j + 1 < Len(s)  PROVE (j + 1) + 1 \in j + 2 .. Len(s)
    BY <1>1, <2>1
  <2> QED  BY <1>3, <2>1
<1> HIDE DEF len
<1>11. /\ ChunkOK(joined) /\ IsRLE(joined) /\ joined.start = start
       /\ RunLength(joined) = len /\ EndOf(joined) <= EndOf(a)
  <2> DEFINE place == j + 1
             hi == EndOf(a)
  <2>1. /\ place \in Nat /\ place >= 1 /\ (place < Len(s) => hi <= s[place + 1].start)
        /\ Boundary(start) /\ hi \in Nat /\ Boundary(hi) /\ hi <= L
        /\ start + len <= hi
    BY <1>2, <1>3, <1>6, <1>7, <1>9, <1>10
  <2> HIDE DEF place, hi, s, c, a
  <2>2. /\ ChunkOK(RLEChunk(start, len, RunCapacity(s, place, start, len)))
        /\ IsRLE(RLEChunk(start, len, RunCapacity(s, place, start, len)))
        /\ RLEChunk(start, len, RunCapacity(s, place, start, len)).start = start
        /\ RunLength(RLEChunk(start, len, RunCapacity(s, place, start, len))) = len
        /\ EndOf(RLEChunk(start, len, RunCapacity(s, place, start, len))) <= hi
    BY <1>1, <1>3, <1>9, <2>1, RunCapacityIs, SMTT(30)
  <2> QED  BY <1>7, <2>2 DEF place, hi
<1> HIDE DEF joined
<1>12. JoinRight(m, j, start, i, isSet) = Replace(m, j, 2, << joined >>, words)
  BY SizeIsNat DEF JoinRight, joined, len, run
<1>13. start = c.start /\ j + 1 \in 1 .. Len(s)  BY <1>2, <1>7
<1>14. run \in 1 .. RunLength(a)  BY <1>4, <1>6, <1>8
<1>15. joined = RightJoined(m, j, start, i, isSet)  BY DEF RightJoined, joined, len, run
<1> QED  BY <1>4, <1>11, <1>12, <1>13, <1>14, <1>15 DEF JoinsRight, IsJoined, len, run, words

\* And the chunks stay in order.
LEMMA JoinRightOK ==
  ASSUME NEW L, Limit(L), NEW m, MapOK(m, L), NEW j \in 1 .. Len(m.chunks),
         NEW start, StartOK(m.chunks, j, start), NEW i \in Nat, NEW isSet,
         CanJoinRight(m, j, start, i, isSet)
  PROVE  /\ MapOK(JoinRight(m, j, start, i, isSet), L)
         /\ JoinRight(m, j, start, i, isSet).cap = m.cap
<1> DEFINE s == m.chunks
           n == 2
           hi == EndOf(s[j + 1])
           words == 0 - (Size(s[j]) + Size(s[j + 1]))
           joined == RightJoined(m, j, start, i, isSet)
<1>c. JoinsRight(m, j, start, i, isSet)  BY JoinRightIs
<1>1. /\ j + 1 \in 1 .. Len(s) /\ start = s[j].start
      /\ start + RunLength(s[j]) = s[j + 1].start
  BY <1>c DEF JoinsRight
<1>2. JoinRight(m, j, start, i, isSet) = Replace(m, j, n, << joined >>, words)
  BY <1>c DEF JoinsRight
<1>b. ChunkOK(joined) /\ joined.start = start /\ EndOf(joined) <= hi
  BY <1>c DEF JoinsRight, IsJoined
<1>a. words \in Int  BY SizeIsNat
<1> HIDE DEF words, joined
<1> DEFINE t == << joined >>
<1>3. StreamOK(s, 0, L) /\ Len(s) \in Nat /\ L \in Nat
  BY LenProperties DEF MapOK, StreamOK, Limit
<1>4. start \in Nat /\ hi \in Nat /\ hi <= L /\ start <= hi
  <2>1. ChunkOK(joined) /\ hi <= L /\ ChunkOK(s[j + 1])
    BY <1>1, <1>b, <1>3 DEF StreamOK
  <2>2. /\ joined.start \in Nat /\ EndOf(joined) \in Nat /\ hi \in Nat
        /\ joined.start + ChunkCap <= EndOf(joined)
    BY <2>1, ChunkExtent
  <2> HIDE DEF hi
  <2> QED  BY <1>b, <2>1, <2>2, ChunkCapPositive
<1>5. StreamOK(t, start, hi)  BY <1>b, <1>4, OneChunkStream
<1>6. /\ \A p \in 1 .. j - 1 : EndOf(s[p]) <= start
      /\ \A p \in j + n .. Len(s) : hi <= s[p].start
  BY <1>1, <1>3 DEF StreamOK
<1>7. /\ 0 <= start /\ start <= hi /\ hi <= L /\ start \in Int /\ hi \in Int
      /\ StreamOK(t, start, hi) /\ n \in Nat /\ words \in Int
      /\ j \in 1 .. Len(m.chunks) + 1 /\ j + n <= Len(m.chunks) + 1
      /\ \A p \in 1 .. j - 1 : EndOf(m.chunks[p]) <= start
      /\ \A p \in j + n .. Len(m.chunks) : hi <= m.chunks[p].start
  BY <1>a, <1>1, <1>3, <1>4, <1>5, <1>6
<1> HIDE DEF n, t, hi
<1>8. ReplacedAt(Replace(m, j, n, t, words), m, j, n, t, L)
  BY ONLY <1>7, ReplaceStream, Limit(L), MapOK(m, L)
<1> QED  BY <1>2, <1>8 DEF ReplacedAt, t

\* __sm_coalesce_chunk leaves a well-formed map well formed, also when it is
\* told the start of a chunk that has just been removed.
LEMMA CoalesceOK ==
  ASSUME NEW L, Limit(L), NEW m, MapOK(m, L), NEW j \in 1 .. Len(m.chunks),
         NEW start, NEW i \in Nat, NEW isSet,
         RunLength(m.chunks[j]) = 0 \/ StartOK(m.chunks, j, start)
  PROVE  /\ MapOK(Coalesce(m, j, start, i, isSet), L)
         /\ Coalesce(m, j, start, i, isSet).cap = m.cap
<1> DEFINE c == m.chunks[j]
           left == CanJoinLeft(m, j, start)
           p == JoinedLeft(m, j, start)
           m1 == p.map
           j1 == p.at
           start1 == p.start
           k == Locate(m.chunks, start - 1)
<1>1. StreamOK(m.chunks, 0, L) /\ ChunkOK(c) /\ RunLength(c) \in Nat
  BY ChunkExtent DEF MapOK, StreamOK
<1>2. Coalesce(m, j, start, i, isSet) =
        IF RunLength(c) = 0 \/ (IsRLE(c) /\ c.len > c.cap) THEN m
        ELSE IF CanJoinRight(m1, j1, start1, i, isSet)
             THEN JoinRight(m1, j1, start1, i, isSet) ELSE m1
  BY DEF Coalesce, JoinedRight
<1>a. /\ m1 = IF left THEN JoinLeft(m, j, start) ELSE m
      /\ j1 = IF left THEN k ELSE j
      /\ start1 = IF left THEN m.chunks[k].start ELSE start
  BY DEF JoinedLeft, AtChunk
<1> HIDE DEF p
<1>3. ASSUME RunLength(c) # 0
      PROVE  /\ MapOK(m1, L) /\ m1.cap = m.cap
             /\ j1 \in 1 .. Len(m1.chunks) /\ StartOK(m1.chunks, j1, start1)
  <2>1. StartOK(m.chunks, j, start)  BY <1>3
  <2>2. CASE left
    <3>1. /\ MapOK(m1, L) /\ m1.cap = m.cap
          /\ j1 = j - 1 /\ j1 \in 1 .. Len(m1.chunks)
          /\ m1.chunks[j1].start = start1
      <4>1. RunLength(m.chunks[j]) > 0  BY <1>1, <1>3
      <4>2. m1 = JoinLeft(m, j, start) /\ j1 = k /\ start1 = m.chunks[k].start
        BY <1>a, <2>2
      <4> QED  BY <2>1, <2>2, <4>1, <4>2, JoinLeftOK
    <3> HIDE DEF m1, j1, start1
    <3>2. StreamOK(m1.chunks, 0, L)  BY <3>1 DEF MapOK
    <3>3. StartOK(m1.chunks, j1, m1.chunks[j1].start)  BY <3>1, <3>2, OwnStart
    <3> QED  BY <3>1, <3>3
  <2>3. CASE ~left
    BY <1>a, <2>1, <2>3
  <2> QED  BY <2>2, <2>3
<1> HIDE DEF left, m1, j1, start1
<1>4. ASSUME RunLength(c) # 0, CanJoinRight(m1, j1, start1, i, isSet)
      PROVE  /\ MapOK(JoinRight(m1, j1, start1, i, isSet), L)
             /\ JoinRight(m1, j1, start1, i, isSet).cap = m.cap
  <2>1. /\ MapOK(m1, L) /\ m1.cap = m.cap
        /\ j1 \in 1 .. Len(m1.chunks) /\ StartOK(m1.chunks, j1, start1)
    BY <1>3, <1>4
  <2> QED  BY <1>4, <2>1, JoinRightOK
<1>5. CASE RunLength(c) = 0
  <2>1. Coalesce(m, j, start, i, isSet) = m  BY <1>2, <1>5
  <2> QED  BY <2>1
<1>6. CASE RunLength(c) # 0
  BY <1>2, <1>3, <1>4, <1>6
<1> QED  BY <1>5, <1>6

\* A join on the right leaves one chunk less.
LEMMA JoinRightShrinks ==
  ASSUME NEW L, Limit(L), NEW m, MapOK(m, L), NEW j \in 1 .. Len(m.chunks),
         NEW start, StartOK(m.chunks, j, start), NEW i \in Nat, NEW isSet,
         CanJoinRight(m, j, start, i, isSet)
  PROVE  Len(JoinRight(m, j, start, i, isSet).chunks) = Len(m.chunks) - 1
<1> DEFINE s == m.chunks
           n == 2
           joined == RightJoined(m, j, start, i, isSet)
           t == << joined >>
           words == 0 - (Size(s[j]) + Size(s[j + 1]))
           r == JoinRight(m, j, start, i, isSet)
<1>1. /\ j + 1 \in 1 .. Len(s) /\ ChunkOK(joined) /\ r = Replace(m, j, n, t, words)
  BY JoinRightIs DEF JoinsRight, IsJoined
<1>2. s \in Seq(Chunks) /\ Len(s) \in Nat /\ j \in 1 .. Len(s)
  BY LenProperties DEF MapOK, StreamOK
<1>3. t \in Seq(Chunks) /\ Len(t) = 1  BY <1>1 DEF ChunkOK
<1>4. m \in [chunks : Seq(Chunks), used : Int, cap : Nat]  BY DEF MapOK
<1>5. words \in Int  BY SizeIsNat
<1>6. n \in Nat /\ n = 2  OBVIOUS
<1> HIDE DEF n, t, words, joined, r
<1>7. r.chunks = Splice(s, j, n, t)
  <2> DEFINE q == Splice(s, j, n, t)
  <2>1. r = [m EXCEPT !.chunks = q, !.used = m.used + words]  BY <1>1 DEF Replace
  <2> HIDE DEF q
  <2> QED  BY <1>4, <2>1 DEF q
<1> HIDE DEF s
<1>8. j \in 1 .. Len(s) + 1 /\ j + n <= Len(s) + 1  BY <1>1, <1>2, <1>6
<1>9. Len(Splice(s, j, n, t)) = Len(s) - n + Len(t)
  <2>1. /\ s \in Seq(Chunks) /\ t \in Seq(Chunks) /\ n \in Nat
        /\ j \in 1 .. Len(s) + 1 /\ j + n <= Len(s) + 1
    BY <1>2, <1>3, <1>6, <1>8
  <2>2. /\ Splice(s, j, n, t) \in Seq(Chunks)
        /\ Len(Splice(s, j, n, t)) = Len(s) - n + Len(t)
        /\ \A x \in 1 .. j - 1 : Splice(s, j, n, t)[x] = s[x]
        /\ \A x \in 1 .. Len(t) : Splice(s, j, n, t)[j - 1 + x] = t[x]
        /\ \A x \in j + n .. Len(s) : Splice(s, j, n, t)[x - n + Len(t)] = s[x]
    BY ONLY <2>1, SplicePlaces
  <2> QED  BY <2>2
<1> QED  BY <1>2, <1>3, <1>6, <1>7, <1>9 DEF r, s

\* __sm_coalesce_chunk never leaves more chunks than there were.
LEMMA CoalesceShrinks ==
  ASSUME NEW L, Limit(L), NEW m, MapOK(m, L), NEW j \in 1 .. Len(m.chunks),
         NEW start, StartOK(m.chunks, j, start), NEW i \in Nat, NEW isSet
  PROVE  Len(Coalesce(m, j, start, i, isSet).chunks) <= Len(m.chunks)
<1> DEFINE c == m.chunks[j]
           left == CanJoinLeft(m, j, start)
           p == JoinedLeft(m, j, start)
           m1 == p.map
           j1 == p.at
           start1 == p.start
           k == Locate(m.chunks, start - 1)
<1>1. StreamOK(m.chunks, 0, L) /\ ChunkOK(c) /\ RunLength(c) \in Nat
  BY ChunkExtent DEF MapOK, StreamOK
<1>2. Coalesce(m, j, start, i, isSet) =
        IF RunLength(c) = 0 \/ (IsRLE(c) /\ c.len > c.cap) THEN m
        ELSE IF CanJoinRight(m1, j1, start1, i, isSet)
             THEN JoinRight(m1, j1, start1, i, isSet) ELSE m1
  BY DEF Coalesce, JoinedRight
<1>a. /\ m1 = IF left THEN JoinLeft(m, j, start) ELSE m
      /\ j1 = IF left THEN k ELSE j
      /\ start1 = IF left THEN m.chunks[k].start ELSE start
  BY DEF JoinedLeft, AtChunk
<1>b. Len(m.chunks) \in Nat  BY LenProperties DEF MapOK, StreamOK
<1> HIDE DEF p
<1>3. ASSUME RunLength(c) # 0
      PROVE  /\ MapOK(m1, L) /\ Len(m1.chunks) \in Nat /\ Len(m1.chunks) <= Len(m.chunks)
             /\ j1 \in 1 .. Len(m1.chunks) /\ StartOK(m1.chunks, j1, start1)
  <2>1. CASE left
    <3>1. /\ MapOK(m1, L) /\ Len(m1.chunks) = Len(m.chunks) - 1
          /\ j1 = j - 1 /\ j1 \in 1 .. Len(m1.chunks)
          /\ m1.chunks[j1].start = start1
      <4>1. RunLength(m.chunks[j]) > 0  BY <1>1, <1>3
      <4>2. m1 = JoinLeft(m, j, start) /\ j1 = k /\ start1 = m.chunks[k].start
        BY <1>a, <2>1
      <4> QED  BY <2>1, <4>1, <4>2, JoinLeftOK
    <3> HIDE DEF m1, j1, start1
    <3>2. StreamOK(m1.chunks, 0, L)  BY <3>1 DEF MapOK
    <3>3. StartOK(m1.chunks, j1, m1.chunks[j1].start)  BY <3>1, <3>2, OwnStart
    <3>4. Len(m1.chunks) \in Nat  BY <3>2, LenProperties DEF StreamOK
    <3> QED  BY <1>b, <3>1, <3>3, <3>4
  <2>2. CASE ~left
    BY <1>a, <1>b, <2>2
  <2> QED  BY <2>1, <2>2
<1> HIDE DEF left, m1, j1, start1
<1>4. ASSUME RunLength(c) # 0, CanJoinRight(m1, j1, start1, i, isSet)
      PROVE  Len(JoinRight(m1, j1, start1, i, isSet).chunks) = Len(m1.chunks) - 1
  <2>1. MapOK(m1, L) /\ j1 \in 1 .. Len(m1.chunks) /\ StartOK(m1.chunks, j1, start1)
    BY <1>3, <1>4
  <2> QED  BY <1>4, <2>1, JoinRightShrinks
<1>5. CASE RunLength(c) = 0
  BY <1>2, <1>5, <1>b
<1>6. CASE RunLength(c) # 0
  <2>1. Len(m1.chunks) \in Nat /\ Len(m1.chunks) <= Len(m.chunks)  BY <1>3, <1>6
  <2> QED  BY <1>2, <1>4, <1>6, <1>b, <2>1
<1> QED  BY <1>5, <1>6

----------------------------------------------------------------------------
(* The indices a stream holds, and its words.                              *)

\* The indices that are set in a chunk, and in a stream.
BitsOf(c) == {x \in Nat : c.start <= x /\ x < EndOf(c) /\ IsSet(c, x - c.start)}
Bits(s) == UNION {BitsOf(s[j]) : j \in 1 .. Len(s)}

\* What CanonicalChunks of ChunkMap asks of one chunk.
Canonical(c) == ChunkOK(c) /\ BitsOf(c) # {} /\ (~IsRLE(c) => ProperWords(c))

\* t is a stream of canonical chunks with these indices, of so many words.
Encodes(t, bits, words) ==
  /\ t \in Seq(Chunks) /\ \A j \in 1 .. Len(t) : Canonical(t[j])
  /\ Bits(t) = bits /\ StreamWords(t) = words

\* The same when the chunks of E may be without indices, as sm_split leaves one.
InShape(E, c) ==
  ChunkOK(c) /\ (BitsOf(c) = {} => c \in E) /\ (~IsRLE(c) => ProperWords(c))
Codes(E, t, bits, words) ==
  /\ t \in Seq(Chunks) /\ \A j \in 1 .. Len(t) : InShape(E, t[j])
  /\ Bits(t) = bits /\ StreamWords(t) = words

----------------------------------------------------------------------------
(* One chunk.                                                              *)

\* A sparse chunk holds what is set in its window.
LEMMA HeldSparse ==
  ASSUME NEW c, SparseOK(c)
  PROVE  /\ ChunkOK(c) /\ ~IsRLE(c) /\ c.start \in Nat /\ EndOf(c) = c.start + ChunkCap
         /\ \A x \in Nat : x \in BitsOf(c) <=>
              x - c.start \in 0 .. ChunkCap - 1 /\ IsSet(c, x - c.start)
<1>1. ChunkOK(c) /\ ~IsRLE(c)  BY SparseIsOK
<1>2. c.start \in Nat /\ EndOf(c) = c.start + ChunkCap
  BY <1>1, ChunkExtent, SparseCapacity DEF EndOf
<1>3. ASSUME NEW x \in Nat
      PROVE  c.start <= x /\ x < EndOf(c) <=> x - c.start \in 0 .. ChunkCap - 1
  BY <1>2, ChunkCapPositive
<1> QED  BY <1>1, <1>2, <1>3 DEF BitsOf

\* When a chunk has a run, the run is what it holds.
LEMMA HeldRun ==
  ASSUME NEW c, ChunkOK(c), RunLength(c) > 0
  PROVE  BitsOf(c) = c.start .. c.start + RunLength(c) - 1
<1>1. /\ c.start \in Nat /\ EndOf(c) \in Nat /\ RunLength(c) \in Nat
      /\ c.start + RunLength(c) <= EndOf(c)
  BY ChunkExtent
<1>2. CASE IsRLE(c)
  <2>1. \A k \in Int : IsSet(c, k) <=> k < RunLength(c)
    BY <1>2, RunLengthBounds DEF IsSet
  <2> QED  BY <1>1, <2>1 DEF BitsOf
<1>3. CASE ~IsRLE(c)
  <2>1. SparseOK(c)  BY <1>3, SparseIsOK
  <2>2. \A k \in 0 .. ChunkCap - 1 : IsSet(c, k) <=> k < RunLength(c)
    BY <2>1, RunIsPrefix
  <2>3. EndOf(c) = c.start + ChunkCap  BY <2>1, HeldSparse
  <2>4. ASSUME NEW x \in Nat
        PROVE  x \in BitsOf(c) <=> x \in c.start .. c.start + RunLength(c) - 1
    <3>1. x \in BitsOf(c) <=> x - c.start \in 0 .. ChunkCap - 1 /\ IsSet(c, x - c.start)
      BY <2>1, HeldSparse
    <3>2. x \in BitsOf(c) <=> x - c.start \in 0 .. ChunkCap - 1 /\ x - c.start < RunLength(c)
      BY <2>2, <3>1
    <3> QED  BY <1>1, <2>3, <3>2, ChunkCapPositive
  <2> QED  BY <1>1, <2>4 DEF BitsOf
<1> QED  BY <1>2, <1>3

\* An RLE chunk holds its run and is canonical.
LEMMA RunIsCanonical ==
  ASSUME NEW c, ChunkOK(c), IsRLE(c)
  PROVE  /\ Canonical(c) /\ Size(c) = 1 /\ c.len \in Nat /\ c.len >= 1
         /\ BitsOf(c) = c.start .. c.start + c.len - 1
<1>1. RunLength(c) = c.len /\ c.start \in Nat  BY RunLengthBounds, ChunkExtent
<1>2. c.len \in Nat /\ c.len >= 1
  BY SparseKind DEF ChunkOK, Chunks, RLEChunks
<1>3. BitsOf(c) = c.start .. c.start + c.len - 1  BY <1>1, <1>2, HeldRun
<1>4. c.start \in BitsOf(c)  BY <1>1, <1>2, <1>3
<1> QED  BY <1>2, <1>3, <1>4 DEF Canonical, Size

\* And so it is in place anywhere.
LEMMA RunInShape ==
  ASSUME NEW E, NEW c, ChunkOK(c), IsRLE(c)
  PROVE  /\ InShape(E, c) /\ Size(c) = 1 /\ c.len \in Nat /\ c.len >= 1
         /\ BitsOf(c) = c.start .. c.start + c.len - 1
  BY RunIsCanonical DEF Canonical, InShape

\* A sparse chunk of proper words that holds an index is canonical.
LEMMA SparseIsCanonical ==
  ASSUME NEW c, SparseOK(c), ProperWords(c), NEW k \in 0 .. ChunkCap - 1, IsSet(c, k)
  PROVE  Canonical(c)
<1>1. c.start \in Nat /\ ChunkOK(c)  BY HeldSparse
<1>2. c.start + k \in Nat /\ (c.start + k) - c.start = k  BY <1>1, ChunkCapPositive
<1>3. c.start + k \in BitsOf(c)  BY <1>2, HeldSparse
<1> QED  BY <1>1, <1>3 DEF Canonical

\* A canonical chunk of proper words is not empty.
LEMMA CanonicalNotEmpty ==
  ASSUME NEW c, Canonical(c), ~IsRLE(c)
  PROVE  SparseOK(c) /\ ProperWords(c) /\ ~IsEmptyChunk(c)
<1>1. SparseOK(c) /\ ProperWords(c)  BY SparseIsOK DEF Canonical
<1>2. PICK x \in BitsOf(c) : TRUE  BY DEF Canonical
<1>3. x \in Nat  BY <1>2 DEF BitsOf
<1>4. x - c.start \in 0 .. ChunkCap - 1 /\ IsSet(c, x - c.start)
  BY <1>1, <1>2, <1>3, HeldSparse
<1> QED  BY <1>1, <1>4, EmptyHoldsNothing

\* A sparse chunk's words, by its payload.
LEMMA SparseSize ==
  ASSUME NEW c, SparseOK(c)
  PROVE  Size(c) = 1 + Len(c.data) /\ Len(c.data) \in Nat
  BY SparseFields DEF Size

\* A chunk that is full to its capacity needs no payload.
LEMMA FullRunSize ==
  ASSUME NEW E, NEW c, InShape(E, c), RunLength(c) = Capacity(c)
  PROVE  Size(c) = 1
<1>1. CASE IsRLE(c)  BY <1>1 DEF Size
<1>2. CASE ~IsRLE(c)
  <2>1. SparseOK(c) /\ ProperWords(c)  BY <1>2, SparseIsOK DEF InShape
  <2>2. RunLength(c) = ChunkCap  BY <1>2, RunLengthBounds DEF InShape
  <2>3. \A k \in 0 .. ChunkCap - 1 : k < RunLength(c)  BY <2>2, ChunkCapPositive
  <2>4. \A k \in 0 .. ChunkCap - 1 : IsSet(c, k)
    BY <2>1, <2>2, <2>3, RunIsPrefix, ChunkCapPositive
  <2> QED  BY <2>1, <2>4, FullNeedsNoPayload
<1> QED  BY <1>1, <1>2

----------------------------------------------------------------------------
(* The words of a stream.                                                  *)

\* A stream's mixed vectors can be counted.
LEMMA MixedVectorsFinite ==
  ASSUME NEW t \in Seq(Chunks)
  PROVE  /\ IsFiniteSet(MixedVectors(t)) /\ Cardinality(MixedVectors(t)) \in Nat
         /\ StreamWords(t) = 2 * Len(t) + Cardinality(MixedVectors(t))
         /\ Len(t) \in Nat /\ DOMAIN t = 1 .. Len(t)
<1>1. DOMAIN t = 1 .. Len(t) /\ Len(t) \in Nat  BY LenProperties
<1>2. IsFiniteSet(DOMAIN t) /\ IsFiniteSet(Vec)
  BY <1>1, FS_Interval, ChunkConstants DEF Vec
<1>3. IsFiniteSet((DOMAIN t) \X Vec)  BY <1>2, FS_Product
<1>4. MixedVectors(t) \subseteq (DOMAIN t) \X Vec  BY DEF MixedVectors
<1>5. IsFiniteSet(MixedVectors(t))  BY <1>3, <1>4, FS_Subset
<1>6. Cardinality(MixedVectors(t)) \in Nat  BY <1>5, FS_CardinalityType
<1> QED  BY <1>1, <1>5, <1>6 DEF StreamWords

\* The words of two streams, one after the other.
LEMMA WordsConcat ==
  ASSUME NEW s \in Seq(Chunks), NEW t \in Seq(Chunks)
  PROVE  StreamWords(s \o t) = StreamWords(s) + StreamWords(t)
<1> DEFINE r == s \o t
           n == Len(s)
           A == MixedVectors(s)
           B == MixedVectors(t)
           C == {jv \in MixedVectors(r) : jv[1] > n}
           f == [jv \in B |-> << n + jv[1], jv[2] >>]
           mixed(c, v) == ~IsRLE(c) /\ c.flag[v] = "mixed"
<1>1. /\ n \in Nat /\ DOMAIN s = 1 .. n /\ IsFiniteSet(A) /\ Cardinality(A) \in Nat
      /\ StreamWords(s) = 2 * n + Cardinality(A)
  BY MixedVectorsFinite
<1>2. /\ Len(t) \in Nat /\ DOMAIN t = 1 .. Len(t) /\ IsFiniteSet(B) /\ Cardinality(B) \in Nat
      /\ StreamWords(t) = 2 * Len(t) + Cardinality(B)
  BY MixedVectorsFinite
<1>3. /\ r \in Seq(Chunks) /\ Len(r) = n + Len(t)
      /\ \A j \in 1 .. n + Len(t) : r[j] = IF j <= n THEN s[j] ELSE t[j - n]
  BY ConcatProperties
<1>4. /\ DOMAIN r = 1 .. n + Len(t) /\ IsFiniteSet(MixedVectors(r))
      /\ StreamWords(r) = 2 * (n + Len(t)) + Cardinality(MixedVectors(r))
  BY <1>3, MixedVectorsFinite
<1> HIDE DEF r, n
<1>5. /\ \A j, v : << j, v >> \in A <=> j \in 1 .. n /\ v \in Vec /\ mixed(s[j], v)
      /\ \A j, v : << j, v >> \in B <=> j \in 1 .. Len(t) /\ v \in Vec /\ mixed(t[j], v)
      /\ \A j, v : << j, v >> \in C <=> /\ j \in 1 .. n + Len(t) /\ v \in Vec
                                       /\ mixed(r[j], v) /\ j > n
      /\ \A j, v : << j, v >> \in MixedVectors(r) <=>
                     j \in 1 .. n + Len(t) /\ v \in Vec /\ mixed(r[j], v)
  BY <1>1, <1>2, <1>4 DEF MixedVectors
<1>p. /\ \A x \in A : \E j, v : x = << j, v >>
      /\ \A x \in B : \E j, v : x = << j, v >>
      /\ \A x \in C : \E j, v : x = << j, v >>
      /\ \A x \in MixedVectors(r) : \E j, v : x = << j, v >>
  BY DEF MixedVectors
<1>6. MixedVectors(r) = A \cup C /\ A \cap C = {}
  <2> HIDE DEF mixed, A, C
  <2>1. ASSUME NEW j, NEW v
        PROVE  /\ << j, v >> \in MixedVectors(r) <=> << j, v >> \in A \/ << j, v >> \in C
               /\ ~(<< j, v >> \in A /\ << j, v >> \in C)
    <3>1. j \in 1 .. n => j \in 1 .. n + Len(t) /\ r[j] = s[j] /\ ~(j > n)
      BY <1>1, <1>2, <1>3
    <3>2. j \in 1 .. n + Len(t) => j \in 1 .. n \/ j > n  BY <1>1, <1>2
    <3> QED  BY <1>5, <3>1, <3>2
  <2> QED  BY <1>p, <2>1
<1>7. f \in [B -> C]
  <2>1. ASSUME NEW x \in B  PROVE f[x] \in C
    <3>1. PICK j, v : x = << j, v >>  BY <1>p
    <3>2. j \in 1 .. Len(t) /\ v \in Vec /\ mixed(t[j], v)  BY <1>5, <3>1
    <3>3. n + j \in 1 .. n + Len(t) /\ n + j > n /\ ~(n + j <= n) /\ (n + j) - n = j
      BY <1>1, <1>2, <3>2
    <3>4. r[n + j] = t[j]  BY <1>3, <3>3
    <3>5. << n + j, v >> \in C  BY <1>5, <3>2, <3>3, <3>4
    <3> HIDE DEF B, C
    <3>6. f[x] = << n + j, v >>  BY <3>1
    <3> QED  BY <3>5, <3>6
  <2> HIDE DEF B, C
  <2> QED  BY <2>1
<1>8. \A x, y \in B : f[x] = f[y] => x = y
  <2>1. ASSUME NEW x \in B, NEW y \in B, f[x] = f[y]  PROVE x = y
    <3>1. PICK j, v : x = << j, v >>  BY <1>p
    <3>2. PICK k, w : y = << k, w >>  BY <1>p
    <3>3. j \in 1 .. Len(t) /\ k \in 1 .. Len(t)  BY <1>5, <3>1, <3>2
    <3> HIDE DEF B
    <3>4. f[x] = << n + j, v >> /\ f[y] = << n + k, w >>  BY <3>1, <3>2
    <3>5. n + j = n + k /\ v = w  BY <2>1, <3>4
    <3>6. j = k  BY <1>1, <1>2, <3>3, <3>5
    <3> QED  BY <3>1, <3>2, <3>5, <3>6
  <2> QED  BY <2>1
<1>9. \A y \in C : \E x \in B : f[x] = y
  <2>1. ASSUME NEW y \in C  PROVE \E x \in B : f[x] = y
    <3>1. PICK j, v : y = << j, v >>  BY <1>p
    <3>2. j \in 1 .. n + Len(t) /\ v \in Vec /\ mixed(r[j], v) /\ j > n  BY <1>5, <3>1
    <3>3. j - n \in 1 .. Len(t) /\ ~(j <= n) /\ n + (j - n) = j
      BY <1>1, <1>2, <3>2
    <3>4. r[j] = t[j - n]  BY <1>3, <3>2, <3>3
    <3>5. << j - n, v >> \in B  BY <1>5, <3>2, <3>3, <3>4
    <3> DEFINE k == j - n
               x == << k, v >>
    <3>6. n + k = j /\ x \in B  BY <3>3, <3>5
    <3> HIDE DEF B, k
    <3>7. f[x] = << n + k, v >>  BY <3>6
    <3>8. f[x] = y  BY <3>1, <3>6, <3>7
    <3> QED  BY <3>6, <3>8
  <2> QED  BY <2>1
<1> HIDE DEF f, A, B, C
<1>10. f \in Bijection(B, C)  BY <1>7, <1>8, <1>9, Fun_IsBij
<1>11. IsFiniteSet(C) /\ Cardinality(C) = Cardinality(B)
  <2>1. ExistsBijection(B, C)  BY <1>10 DEF ExistsBijection
  <2> QED  BY <1>2, <2>1, FS_Bijection
<1>12. Cardinality(A \cup C) = Cardinality(A) + Cardinality(C)
  <2>1. Cardinality(A \cup C) = Cardinality(A) + Cardinality(C) - Cardinality(A \cap C)
    BY <1>1, <1>11, FS_Union
  <2>2. Cardinality(A \cap C) = 0  BY <1>6, FS_EmptySet
  <2> QED  BY <1>1, <1>2, <1>11, <2>1, <2>2
<1>13. Cardinality(MixedVectors(r)) = Cardinality(A) + Cardinality(B)
  BY <1>6, <1>11, <1>12
<1>14. StreamWords(r) = StreamWords(s) + StreamWords(t)
  BY <1>1, <1>2, <1>4, <1>13
<1> QED  BY <1>14 DEF r

\* The words of one chunk: its start and the chunk.
LEMMA WordsOne ==
  ASSUME NEW c \in Chunks
  PROVE  StreamWords(<< c >>) = 1 + Size(c)
<1> DEFINE t == << c >>
           M == Mixed(c.flag)
<1>1. t \in Seq(Chunks) /\ Len(t) = 1 /\ t[1] = c /\ DOMAIN t = {1}
  <2>1. << c >> \in Seq(Chunks) /\ Len(<< c >>) = 1 /\ << c >>[1] = c  OBVIOUS
  <2>a. t \in Seq(Chunks) /\ Len(t) = 1 /\ t[1] = c  BY <2>1
  <2> HIDE DEF t
  <2>2. DOMAIN t = 1 .. 1  BY <2>a, LenProperties
  <2> QED  BY <2>a, <2>2
<1> HIDE DEF t
<1>2. StreamWords(t) = 2 + Cardinality(MixedVectors(t))
  <2>1. StreamWords(t) = 2 * Len(t) + Cardinality(MixedVectors(t))
    BY <1>1, MixedVectorsFinite
  <2> QED  BY <1>1, <2>1
<1>3. MixedVectors(t) = {jv \in {1} \X Vec : ~IsRLE(t[jv[1]]) /\ t[jv[1]].flag[jv[2]] = "mixed"}
  BY <1>1 DEF MixedVectors
<1>4. CASE IsRLE(c)
  <2>1. MixedVectors(t) = {}  BY <1>1, <1>3, <1>4
  <2> QED  BY <1>2, <1>4, <2>1, FS_EmptySet DEF Size, t
<1>5. CASE ~IsRLE(c)
  <2>1. MixedVectors(t) = {1} \X M  BY <1>1, <1>3, <1>5 DEF Mixed
  <2>2. IsFiniteSet(M) /\ Cardinality(M) \in Nat  BY MixedFinite
  <2>3. IsFiniteSet({1}) /\ Cardinality({1}) = 1  BY FS_Singleton
  <2>4. Cardinality({1} \X M) = Cardinality({1}) * Cardinality(M)
    BY <2>2, <2>3, FS_Product
  <2>5. Cardinality({1} \X M) = Cardinality(M)  BY <2>2, <2>3, <2>4
  <2>6. Size(c) = 1 + Cardinality(M)  BY <1>5 DEF Size
  <2>7. Cardinality(MixedVectors(t)) = Cardinality(M)  BY <2>1, <2>5
  <2> HIDE DEF M
  <2>8. StreamWords(t) = 1 + Size(c)  BY <1>2, <2>2, <2>6, <2>7
  <2> QED  BY <2>8 DEF t
<1> QED  BY <1>4, <1>5

\* No chunks take no words.
LEMMA WordsNone == StreamWords(<< >>) = 0
<1> DEFINE t == << >>
<1>1. t \in Seq(Chunks) /\ Len(t) = 0  BY EmptySeq
<1> HIDE DEF t
<1>a. DOMAIN t = 1 .. Len(t)  BY <1>1, LenProperties
<1>2. MixedVectors(t) = {}  BY <1>1, <1>a DEF MixedVectors
<1>3. StreamWords(t) = 0  BY <1>1, <1>2, FS_EmptySet DEF StreamWords
<1> QED  BY <1>3 DEF t

----------------------------------------------------------------------------
(* Streams, summed up.                                                     *)

\* No chunks hold nothing.
LEMMA CodesNone ==
  ASSUME NEW E
  PROVE  Codes(E, << >>, {}, 0)
<1> DEFINE t == << >>
<1>1. t \in Seq(Chunks) /\ Len(t) = 0  BY EmptySeq
<1>2. StreamWords(t) = 0  BY WordsNone
<1> HIDE DEF t
<1>3. Bits(t) = {} /\ \A j \in 1 .. Len(t) : InShape(E, t[j])  BY <1>1 DEF Bits
<1>4. Codes(E, t, {}, 0)  BY <1>1, <1>2, <1>3 DEF Codes
<1> QED  BY <1>4 DEF t

\* One chunk holds what is set in it.
LEMMA CodesOne ==
  ASSUME NEW E, NEW c, InShape(E, c)
  PROVE  Codes(E, << c >>, BitsOf(c), 1 + Size(c))
<1> DEFINE t == << c >>
<1>1. c \in Chunks  BY DEF InShape, ChunkOK
<1>2. << c >> \in Seq(Chunks) /\ Len(<< c >>) = 1 /\ << c >>[1] = c  BY <1>1
<1>3. StreamWords(t) = 1 + Size(c)  BY <1>1, WordsOne
<1>4. t \in Seq(Chunks) /\ Len(t) = 1 /\ t[1] = c  BY <1>2
<1> HIDE DEF t
<1>5. Bits(t) = BitsOf(c)  BY <1>4 DEF Bits
<1>6. \A j \in 1 .. Len(t) : InShape(E, t[j])  BY <1>4
<1>7. Codes(E, t, BitsOf(c), 1 + Size(c))  BY <1>3, <1>4, <1>5, <1>6 DEF Codes
<1> QED  BY <1>7 DEF t

\* Two streams hold together what they hold apart.
LEMMA CodesConcat ==
  ASSUME NEW E, NEW s, NEW t, NEW a, NEW b, NEW v, NEW w,
         Codes(E, s, a, v), Codes(E, t, b, w)
  PROVE  Codes(E, s \o t, a \cup b, v + w)
<1> DEFINE r == s \o t
<1>1. s \in Seq(Chunks) /\ t \in Seq(Chunks) /\ Len(s) \in Nat /\ Len(t) \in Nat
  BY LenProperties DEF Codes
<1>2. /\ r \in Seq(Chunks) /\ Len(r) = Len(s) + Len(t)
      /\ \A j \in 1 .. Len(s) + Len(t) : r[j] = IF j <= Len(s) THEN s[j] ELSE t[j - Len(s)]
  BY <1>1, ConcatProperties
<1>3. StreamWords(r) = v + w  BY <1>1, WordsConcat DEF Codes
<1> HIDE DEF r
<1>4. /\ \A j \in 1 .. Len(s) : j \in 1 .. Len(r) /\ r[j] = s[j]
      /\ \A j \in 1 .. Len(t) : Len(s) + j \in 1 .. Len(r) /\ r[Len(s) + j] = t[j]
  <2>1. ASSUME NEW j \in 1 .. Len(s)  PROVE j \in 1 .. Len(r) /\ r[j] = s[j]
    BY <1>1, <1>2
  <2>2. ASSUME NEW j \in 1 .. Len(t)
        PROVE  Len(s) + j \in 1 .. Len(r) /\ r[Len(s) + j] = t[j]
    <3>1. /\ Len(s) + j \in 1 .. Len(s) + Len(t) /\ ~(Len(s) + j <= Len(s))
          /\ (Len(s) + j) - Len(s) = j
      BY <1>1
    <3> QED  BY <1>2, <3>1
  <2> QED  BY <2>1, <2>2
<1>5. \A j \in 1 .. Len(r) : j \in 1 .. Len(s) \/ \E k \in 1 .. Len(t) : j = Len(s) + k
  <2>1. ASSUME NEW j \in 1 .. Len(r), j \notin 1 .. Len(s)
        PROVE  j - Len(s) \in 1 .. Len(t) /\ j = Len(s) + (j - Len(s))
    BY <1>1, <1>2, <2>1
  <2> QED  BY <2>1
<1>6. \A j \in 1 .. Len(r) : InShape(E, r[j])  BY <1>4, <1>5 DEF Codes
<1>7. Bits(r) = Bits(s) \cup Bits(t)
  <2>1. ASSUME NEW x \in Bits(r)  PROVE x \in Bits(s) \cup Bits(t)
    <3>1. PICK j \in 1 .. Len(r) : x \in BitsOf(r[j])  BY DEF Bits
    <3> QED  BY <1>4, <1>5, <3>1 DEF Bits
  <2>2. ASSUME NEW x \in Bits(s) \cup Bits(t)  PROVE x \in Bits(r)
    BY <1>4 DEF Bits
  <2> QED  BY <2>1, <2>2
<1>8. Codes(E, r, a \cup b, v + w)  BY <1>2, <1>3, <1>6, <1>7 DEF Codes
<1> QED  BY <1>8 DEF r

\* The chunks of a stream hold different indices.
LEMMA HeldApart ==
  ASSUME NEW s, NEW lo, NEW hi, StreamOK(s, lo, hi), NEW j \in 1 .. Len(s),
         NEW k \in 1 .. Len(s), NEW x, x \in BitsOf(s[j]), x \in BitsOf(s[k])
  PROVE  j = k
<1>1. Len(s) \in Nat  BY LenProperties DEF StreamOK
<1>2. ASSUME NEW p \in 1 .. Len(s), NEW q \in 1 .. Len(s), p < q,
             x \in BitsOf(s[p]), x \in BitsOf(s[q])
      PROVE  FALSE
  <2>1. EndOf(s[p]) <= s[q].start  BY <1>2 DEF StreamOK
  <2>2. EndOf(s[p]) \in Nat /\ s[q].start \in Nat  BY ChunkExtent DEF StreamOK
  <2> QED  BY <1>2, <2>1, <2>2 DEF BitsOf
<1>3. j < k \/ k < j \/ j = k  BY <1>1
<1> QED  BY <1>2, <1>3

\* The indices of a part of a stream.
LEMMA BitsOfPart ==
  ASSUME NEW s \in Seq(Chunks), NEW m \in 1 .. Len(s) + 1, NEW n \in m - 1 .. Len(s),
         NEW x
  PROVE  x \in Bits(SubSeq(s, m, n)) <=> \E p \in m .. n : x \in BitsOf(s[p])
<1> DEFINE r == SubSeq(s, m, n)
<1>1. Len(s) \in Nat /\ \A j \in 1 .. Len(s) : s[j] \in Chunks  BY LenProperties
<1>2. m \in Int /\ n \in Int /\ \A j \in m .. n : s[j] \in Chunks  BY <1>1
<1>3. /\ Len(r) = IF m <= n THEN n - m + 1 ELSE 0
      /\ \A j \in 1 .. n - m + 1 : r[j] = s[m + j - 1]
  BY <1>2, SubSeqProperties
<1>4. Len(r) = n - m + 1  BY <1>1, <1>3
<1> HIDE DEF r
<1>5. ASSUME x \in Bits(r)  PROVE \E p \in m .. n : x \in BitsOf(s[p])
  <2>1. PICK j \in 1 .. Len(r) : x \in BitsOf(r[j])  BY <1>5 DEF Bits
  <2>2. m + j - 1 \in m .. n /\ r[j] = s[m + j - 1]
    <3>1. j \in 1 .. n - m + 1  BY <1>4, <2>1
    <3>2. m + j - 1 \in m .. n  BY <1>2, <3>1
    <3> QED  BY <1>3, <3>1, <3>2
  <2> QED  BY <2>1, <2>2
<1>6. ASSUME NEW p \in m .. n, x \in BitsOf(s[p])  PROVE x \in Bits(r)
  <2> DEFINE j == p - m + 1
  <2>1. j \in 1 .. n - m + 1 /\ m + j - 1 = p  BY <1>2
  <2> HIDE DEF j
  <2>2. j \in 1 .. Len(r) /\ r[j] = s[p]  BY <1>3, <1>4, <2>1
  <2> QED  BY <1>6, <2>2 DEF Bits
<1> QED  BY <1>5, <1>6 DEF r

\* A part of a stream of canonical chunks is one.
LEMMA CodesPart ==
  ASSUME NEW E, NEW s \in Seq(Chunks), \A j \in 1 .. Len(s) : InShape(E, s[j]),
         NEW m \in 1 .. Len(s) + 1, NEW n \in m - 1 .. Len(s)
  PROVE  Codes(E, SubSeq(s, m, n), Bits(SubSeq(s, m, n)), StreamWords(SubSeq(s, m, n)))
<1> DEFINE r == SubSeq(s, m, n)
<1>1. Len(s) \in Nat /\ \A j \in 1 .. Len(s) : s[j] \in Chunks  BY LenProperties
<1>2. m \in Int /\ n \in Int /\ \A j \in m .. n : s[j] \in Chunks  BY <1>1
<1>3. /\ r \in Seq(Chunks)
      /\ Len(r) = IF m <= n THEN n - m + 1 ELSE 0
      /\ \A j \in 1 .. n - m + 1 : r[j] = s[m + j - 1]
  BY <1>2, SubSeqProperties
<1>4. Len(r) = n - m + 1  BY <1>1, <1>3
<1> HIDE DEF r
<1>5. ASSUME NEW j \in 1 .. Len(r)  PROVE InShape(E, r[j])
  <2>1. j \in 1 .. n - m + 1  BY <1>4
  <2>2. m + j - 1 \in 1 .. Len(s)  BY <1>1, <1>2, <2>1
  <2> QED  BY <1>3, <2>1, <2>2
<1> QED  BY <1>3, <1>5 DEF r, Codes

----------------------------------------------------------------------------
(* Maps.                                                                   *)

\* m is in order, its chunks are canonical, its used words are those of its
\* stream, and it holds these indices.
Keeps(m, bits, L) == MapOK(m, L) /\ Encodes(m.chunks, bits, m.used - HeaderWords)

\* The same when the chunks of E may be without indices.
Bears(E, m, bits, L) == MapOK(m, L) /\ Codes(E, m.chunks, bits, m.used - HeaderWords)

\* sm_contains answers for what the stream holds.
LEMMA HasBitHolds ==
  ASSUME NEW s, NEW hi, StreamOK(s, 0, hi), NEW x \in Nat
  PROVE  HasBit(s, x) <=> x \in Bits(s)
<1>1. s \in Seq(Chunks) /\ Len(s) \in Nat  BY LenProperties DEF StreamOK
<1>2. CASE s = << >>
  <2>1. Len(s) = 0  BY <1>2, EmptySeq
  <2> QED  BY <1>2, <2>1 DEF HasBit, Bits
<1>3. CASE s # << >>
  <2> DEFINE j == Locate(s, x)
             c == s[j]
  <2>1. /\ j \in 1 .. Len(s)
        /\ \A k \in 1 .. j - 1 : EndOf(s[k]) <= x
        /\ j < Len(s) => x < EndOf(s[j])
    BY <1>3, LocateProperties
  <2>2. HasBit(s, x) <=> c.start <= x /\ x - c.start < Capacity(c) /\ IsSet(c, x - c.start)
    BY <1>3 DEF HasBit
  <2> HIDE DEF j
  <2>3. /\ c.start \in Nat /\ Capacity(c) \in Nat /\ EndOf(c) = c.start + Capacity(c)
    <3>1. ChunkOK(c)  BY <2>1 DEF StreamOK
    <3> HIDE DEF c
    <3> QED  BY <3>1, ChunkExtent, RunLengthBounds DEF EndOf
  <2>4. HasBit(s, x) <=> x \in BitsOf(c)
    <3> HIDE DEF c
    <3>1. x - c.start < Capacity(c) <=> x < EndOf(c)  BY <2>3
    <3> QED  BY <2>2, <3>1 DEF BitsOf
  <2>5. ASSUME NEW p \in 1 .. Len(s), x \in BitsOf(s[p])  PROVE p = j
    <3>1. s[p].start \in Nat /\ EndOf(s[p]) \in Nat /\ s[p].start <= x /\ x < EndOf(s[p])
      BY <2>5, ChunkExtent DEF StreamOK, BitsOf
    <3>2. ~(p \in 1 .. j - 1)  BY <2>1, <3>1
    <3>3. ASSUME p > j  PROVE FALSE
      <4>1. EndOf(c) <= s[p].start /\ x < EndOf(c)  BY <1>1, <2>1, <3>3 DEF StreamOK
      <4>2. EndOf(c) \in Nat  BY <2>3
      <4> HIDE DEF c
      <4> QED  BY <3>1, <4>1, <4>2
    <3> QED  BY <1>1, <2>1, <3>2, <3>3
  <2> QED  BY <2>1, <2>4, <2>5 DEF Bits
<1> QED  BY <1>2, <1>3

\* n chunks of m, which hold Y in v words, give way to t, which holds B in w.
Replaces(E, m, X, j, n, Y, v, t, B, w, words, L) ==
  /\ Limit(L) /\ Bears(E, m, X, L)
  /\ j \in 1 .. Len(m.chunks) + 1 /\ n \in Nat /\ j + n <= Len(m.chunks) + 1
  /\ v \in Int /\ Codes(E, SubSeq(m.chunks, j, j + n - 1), Y, v)
  /\ w \in Int /\ Codes(E, t, B, w)
  /\ words = w - v /\ MapOK(Replace(m, j, n, t, words), L)

\* What the n chunks hold gives way to what t holds.
LEMMA ReplaceBears ==
  ASSUME NEW E, NEW m, NEW X, NEW j, NEW n, NEW Y, NEW v, NEW t, NEW B, NEW w,
         NEW words, NEW L,
         Replaces(E, m, X, j, n, Y, v, t, B, w, words, L)
  PROVE  /\ Bears(E, Replace(m, j, n, t, words), (X \ Y) \cup B, L)
         /\ Replace(m, j, n, t, words).used = m.used + words
<1>0. /\ Limit(L) /\ Bears(E, m, X, L)
      /\ j \in 1 .. Len(m.chunks) + 1 /\ n \in Nat /\ j + n <= Len(m.chunks) + 1
      /\ v \in Int /\ Codes(E, SubSeq(m.chunks, j, j + n - 1), Y, v)
      /\ w \in Int /\ Codes(E, t, B, w)
      /\ words = w - v /\ MapOK(Replace(m, j, n, t, words), L)
  BY DEF Replaces
<1> USE <1>0
<1> DEFINE s == m.chunks
           l == SubSeq(s, 1, j - 1)
           mid == SubSeq(s, j, j + n - 1)
           r == SubSeq(s, j + n, Len(s))
           P == Bits(l)
           Q == Bits(r)
           q == Replace(m, j, n, t, words)
<1>1. /\ s \in Seq(Chunks) /\ Len(s) \in Nat /\ \A p \in 1 .. Len(s) : InShape(E, s[p])
      /\ StreamOK(s, 0, L) /\ Bits(s) = X /\ StreamWords(s) = m.used - 1
      /\ m \in [chunks : Seq(Chunks), used : Int, cap : Nat]
  BY LenProperties DEF Bears, Codes, MapOK, HeaderWords
<1>2. /\ 1 \in 1 .. Len(s) + 1 /\ j - 1 \in 0 .. Len(s)
      /\ j + n - 1 \in j - 1 .. Len(s)
      /\ j + n \in 1 .. Len(s) + 1 /\ Len(s) \in (j + n) - 1 .. Len(s)
      /\ j \in 1 .. Len(s) + 1 /\ j \in Nat
  BY <1>1
<1>3. /\ Codes(E, l, P, StreamWords(l)) /\ Codes(E, r, Q, StreamWords(r))
      /\ Codes(E, mid, Y, v) /\ Codes(E, t, B, w)
  <2>1. Codes(E, l, P, StreamWords(l))
    <3>1. j - 1 \in 1 - 1 .. Len(s)  BY <1>2
    <3> QED  BY <1>1, <1>2, <3>1, CodesPart
  <2>2. Codes(E, r, Q, StreamWords(r))  BY <1>1, <1>2, CodesPart
  <2> QED  BY <2>1, <2>2
<1>4. s = (l \o mid) \o r
  <2>1. SubSeq(s, 1, j + n - 1) = l \o mid
    <3> DEFINE a == j - 1
               b == j + n - 1
    <3>1. 1 \in 1 .. Len(s) + 1 /\ a \in 1 - 1 .. Len(s) /\ b \in a .. Len(s) /\ a + 1 = j
      BY <1>2
    <3> HIDE DEF a, b
    <3>2. SubSeq(s, 1, a) \o SubSeq(s, a + 1, b) = SubSeq(s, 1, b)
      BY <1>1, <3>1, ConcatAdjacentSubSeq
    <3> QED  BY <3>1, <3>2 DEF a, b
  <2>2. SubSeq(s, 1, j + n - 1) \o r = SubSeq(s, 1, Len(s))
    <3> DEFINE b == j + n - 1
    <3>1. 1 \in 1 .. Len(s) + 1 /\ b \in 1 - 1 .. Len(s) /\ Len(s) \in b .. Len(s)
          /\ b + 1 = j + n
      BY <1>1, <1>2
    <3> HIDE DEF b
    <3>2. SubSeq(s, 1, b) \o SubSeq(s, b + 1, Len(s)) = SubSeq(s, 1, Len(s))
      BY <1>1, <3>1, ConcatAdjacentSubSeq
    <3> QED  BY <3>1, <3>2 DEF b
  <2>3. SubSeq(s, 1, Len(s)) = s  BY <1>1, SubSeqFull
  <2> QED  BY <2>1, <2>2, <2>3
<1>5. Splice(s, j, n, t) = (l \o t) \o r  BY DEF Splice
<1>6. /\ \A x : x \in P <=> \E p \in 1 .. j - 1 : x \in BitsOf(s[p])
      /\ \A x : x \in Y <=> \E p \in j .. j + n - 1 : x \in BitsOf(s[p])
      /\ \A x : x \in Q <=> \E p \in j + n .. Len(s) : x \in BitsOf(s[p])
  <2>1. ASSUME NEW x  PROVE x \in P <=> \E p \in 1 .. j - 1 : x \in BitsOf(s[p])
    <3>1. j - 1 \in 1 - 1 .. Len(s)  BY <1>2
    <3> QED  BY <1>1, <1>2, <3>1, BitsOfPart
  <2>2. ASSUME NEW x  PROVE x \in Y <=> \E p \in j .. j + n - 1 : x \in BitsOf(s[p])
    <3>1. Y = Bits(mid)  BY <1>3 DEF Codes
    <3> QED  BY <1>1, <1>2, <3>1, BitsOfPart
  <2>3. ASSUME NEW x  PROVE x \in Q <=> \E p \in j + n .. Len(s) : x \in BitsOf(s[p])
    BY <1>1, <1>2, BitsOfPart
  <2> QED  BY <2>1, <2>2, <2>3
<1>7. P \cap Y = {} /\ Q \cap Y = {}
  <2>1. ASSUME NEW x, x \in P \cup Q, x \in Y  PROVE FALSE
    <3>1. PICK p \in (1 .. j - 1) \cup (j + n .. Len(s)) : x \in BitsOf(s[p])
      BY <1>6, <2>1
    <3>2. PICK k \in j .. j + n - 1 : x \in BitsOf(s[k])  BY <1>6, <2>1
    <3>3. p \in 1 .. Len(s) /\ k \in 1 .. Len(s) /\ p # k  BY <1>1, <1>2
    <3> QED  BY <1>1, <3>1, <3>2, <3>3, HeldApart
  <2> QED  BY <2>1
<1>8. StreamWords(l) \in Nat /\ StreamWords(r) \in Nat
  <2> HIDE DEF l, r
  <2>1. l \in Seq(Chunks) /\ r \in Seq(Chunks)  BY <1>3 DEF Codes
  <2> QED  BY <2>1, MixedVectorsFinite
<1> DEFINE lw == StreamWords(l)
           rw == StreamWords(r)
<1>9. q = [chunks |-> Splice(s, j, n, t), used |-> m.used + words, cap |-> m.cap]
  <2>1. m \in [chunks : Seq(Chunks), used : Int, cap : Nat]  BY <1>1
  <2> DEFINE u == Splice(s, j, n, t)
  <2>2. q = [m EXCEPT !.chunks = u, !.used = m.used + words]  BY DEF Replace
  <2> HIDE DEF u, q
  <2> QED  BY ONLY <2>1, <2>2, TwoFields DEF u
<1> HIDE DEF l, mid, r, P, Q, q, s
<1>10. Codes(E, s, (P \cup Y) \cup Q, (lw + v) + rw)
  <2>1. Codes(E, l \o mid, P \cup Y, lw + v)  BY <1>3, CodesConcat
  <2>2. Codes(E, (l \o mid) \o r, (P \cup Y) \cup Q, (lw + v) + rw)
    BY <1>3, <2>1, CodesConcat
  <2> QED  BY <1>4, <2>2
<1>11. Codes(E, (l \o t) \o r, (P \cup B) \cup Q, (lw + w) + rw)
  <2>1. Codes(E, l \o t, P \cup B, lw + w)  BY <1>3, CodesConcat
  <2> QED  BY <1>3, <2>1, CodesConcat
<1>12. X = (P \cup Y) \cup Q /\ m.used - 1 = (lw + v) + rw  BY <1>1, <1>10 DEF Codes
<1>13. (X \ Y) \cup B = (P \cup B) \cup Q  BY <1>7, <1>12
<1>14. q.chunks = (l \o t) \o r /\ q.used = m.used + words  BY <1>5, <1>9
<1>15. q.used - HeaderWords = (lw + w) + rw
  <2> HIDE DEF lw, rw
  <2>1. lw \in Nat /\ rw \in Nat  BY <1>8 DEF lw, rw
  <2>2. m.used \in Int  BY <1>1
  <2>3. m.used - 1 = (lw + v) + rw  BY <1>12
  <2>4. q.used = m.used + words  BY <1>14
  <2>5. m.used + words = (lw + w) + rw + 1
    BY ONLY <1>0, <2>1, <2>2, <2>3
  <2> QED  BY <2>1, <2>4, <2>5 DEF HeaderWords
<1>16. MapOK(q, L)  BY DEF q
<1> QED  BY <1>11, <1>13, <1>14, <1>15, <1>16 DEF Bears, q

\* A part of no chunk, of one and of two.
LEMMA SmallParts ==
  ASSUME NEW E, NEW s \in Seq(Chunks), \A p \in 1 .. Len(s) : InShape(E, s[p]), NEW j \in Nat
  PROVE  /\ Codes(E, SubSeq(s, j, j + 0 - 1), {}, 0)
         /\ j \in 1 .. Len(s) =>
              Codes(E, SubSeq(s, j, j + 1 - 1), BitsOf(s[j]), 1 + Size(s[j]))
         /\ j \in 1 .. Len(s) - 1 =>
              Codes(E, SubSeq(s, j, j + 2 - 1), BitsOf(s[j]) \cup BitsOf(s[j + 1]),
                    2 + Size(s[j]) + Size(s[j + 1]))
<1>1. Len(s) \in Nat /\ \A p \in 1 .. Len(s) : s[p] \in Chunks  BY LenProperties
<1>2. ASSUME NEW p \in 1 .. Len(s)
      PROVE  /\ SubSeq(s, p, p) = << s[p] >>
             /\ Codes(E, << s[p] >>, BitsOf(s[p]), 1 + Size(s[p]))
  <2>1. Codes(E, << s[p] >>, BitsOf(s[p]), 1 + Size(s[p]))  BY CodesOne
  <2>2. SubSeq(s, p, p) = << s[p] >>
    <3> DEFINE u == SubSeq(s, p, p)
               w == << s[p] >>
    <3>1. /\ u \in Seq(Chunks) /\ Len(u) = IF p <= p THEN p - p + 1 ELSE 0
          /\ \A x \in 1 .. p - p + 1 : u[x] = s[p + x - 1]
      <4>1. p \in Int /\ \A x \in p .. p : s[x] \in Chunks  BY <1>1
      <4> QED  BY <4>1, SubSeqProperties
    <3>2. Len(u) = 1 /\ u[1] = s[p]  BY <1>1, <3>1
    <3>3. w \in Seq(Chunks) /\ Len(w) = 1 /\ w[1] = s[p]  BY <1>1
    <3> HIDE DEF u, w
    <3>4. u = w  BY <3>1, <3>2, <3>3, SeqEqual
    <3> QED  BY <3>4 DEF u, w
  <2> QED  BY <2>1, <2>2
<1>3. Codes(E, SubSeq(s, j, j + 0 - 1), {}, 0)
  <2>1. SubSeq(s, j, j + 0 - 1) = << >>
    <3> DEFINE b == j + 0 - 1
               u == SubSeq(s, j, b)
    <3>1. b \in Int /\ j > b  OBVIOUS
    <3> HIDE DEF b
    <3>2. u \in Seq(Chunks) /\ Len(u) = IF j <= b THEN b - j + 1 ELSE 0
      <4>1. \A x \in j .. b : s[x] \in Chunks  BY <3>1
      <4> QED  BY <3>1, <4>1, SubSeqProperties
    <3>3. Len(u) = 0  BY <3>1, <3>2
    <3> HIDE DEF u
    <3>4. u = << >>  BY <3>2, <3>3, EmptySeq
    <3> QED  BY <3>4 DEF u, b
  <2> QED  BY <2>1, CodesNone
<1>4. ASSUME j \in 1 .. Len(s)
      PROVE  Codes(E, SubSeq(s, j, j + 1 - 1), BitsOf(s[j]), 1 + Size(s[j]))
  <2>1. j + 1 - 1 = j  OBVIOUS
  <2> QED  BY <1>2, <1>4, <2>1
<1>5. ASSUME j \in 1 .. Len(s) - 1
      PROVE  Codes(E, SubSeq(s, j, j + 2 - 1), BitsOf(s[j]) \cup BitsOf(s[j + 1]),
                   2 + Size(s[j]) + Size(s[j + 1]))
  <2> DEFINE k == j + 1
             va == 1 + Size(s[j])
             vb == 1 + Size(s[k])
  <2>1. /\ j + 2 - 1 = k /\ j \in 1 .. Len(s) /\ k \in 1 .. Len(s)
        /\ j \in 1 .. Len(s) + 1 /\ j \in j - 1 .. Len(s) /\ k \in j .. Len(s)
    BY <1>1, <1>5
  <2>2. SubSeq(s, j, j) \o SubSeq(s, j + 1, k) = SubSeq(s, j, k)
    <3> HIDE DEF k
    <3> QED  BY <2>1, ConcatAdjacentSubSeq
  <2>3. Codes(E, << s[j] >>, BitsOf(s[j]), va) /\ Codes(E, << s[k] >>, BitsOf(s[k]), vb)
    BY <1>2, <2>1
  <2>4. Codes(E, << s[j] >> \o << s[k] >>, BitsOf(s[j]) \cup BitsOf(s[k]), va + vb)
    <3> HIDE DEF k, va, vb
    <3> QED  BY <2>3, CodesConcat
  <2>5. SubSeq(s, j, k) = << s[j] >> \o << s[k] >>  BY <1>2, <2>1, <2>2
  <2>6. va + vb = 2 + Size(s[j]) + Size(s[j + 1])  BY SizeIsNat
  <2> HIDE DEF va, vb
  <2> QED  BY <2>1, <2>4, <2>5, <2>6
<1> QED  BY <1>3, <1>4, <1>5

\* t, which holds B in w words, is written before chunk j, in its place, or in
\* the place of it and the next.
InsertsIn(E, m, X, j, t, B, w, L) ==
  /\ Limit(L) /\ Bears(E, m, X, L) /\ j \in 1 .. Len(m.chunks) + 1
  /\ w \in Int /\ Codes(E, t, B, w) /\ MapOK(Replace(m, j, 0, t, w), L)
RewritesIn(E, m, X, j, t, B, w, words, L) ==
  /\ Limit(L) /\ Bears(E, m, X, L) /\ j \in 1 .. Len(m.chunks)
  /\ w \in Int /\ Codes(E, t, B, w) /\ words = w - (1 + Size(m.chunks[j]))
  /\ MapOK(Replace(m, j, 1, t, words), L)
RewritesTwo(E, m, X, j, t, B, w, words, L) ==
  /\ Limit(L) /\ Bears(E, m, X, L) /\ j \in 1 .. Len(m.chunks) - 1
  /\ w \in Int /\ Codes(E, t, B, w)
  /\ words = w - (2 + Size(m.chunks[j]) + Size(m.chunks[j + 1]))
  /\ MapOK(Replace(m, j, 2, t, words), L)

\* Chunks written between two others add what they hold.
LEMMA InsertBears ==
  ASSUME NEW E, NEW m, NEW X, NEW j, NEW t, NEW B, NEW w, NEW L,
         InsertsIn(E, m, X, j, t, B, w, L)
  PROVE  /\ Bears(E, Replace(m, j, 0, t, w), X \cup B, L)
         /\ Replace(m, j, 0, t, w).used = m.used + w
<1>0. /\ Limit(L) /\ Bears(E, m, X, L) /\ w \in Int /\ Codes(E, t, B, w)
      /\ j \in 1 .. Len(m.chunks) + 1
      /\ MapOK(Replace(m, j, 0, t, w), L)
  BY DEF InsertsIn
<1> USE <1>0
<1> DEFINE Y == {}
           v == 0
           n == 0
<1>1. m.chunks \in Seq(Chunks) /\ \A p \in 1 .. Len(m.chunks) : InShape(E, m.chunks[p])
  BY DEF Bears, Codes
<1>2. j \in Nat /\ Len(m.chunks) \in Nat  BY <1>1, LenProperties
<1>3. Codes(E, SubSeq(m.chunks, j, j + n - 1), Y, v)  BY <1>1, <1>2, SmallParts
<1>4. /\ n \in Nat /\ v \in Int /\ w = w - v /\ j + n <= Len(m.chunks) + 1
      /\ j \in 1 .. Len(m.chunks) + 1
  BY <1>2, SizeIsNat
<1>5. MapOK(Replace(m, j, n, t, w), L)  OBVIOUS
<1>e. Replaces(E, m, X, j, n, Y, v, t, B, w, w, L)
  BY <1>2, <1>3, <1>4, <1>5 DEF Replaces
<1> HIDE DEF Y, v, n
<1>6. /\ Bears(E, Replace(m, j, n, t, w), (X \ Y) \cup B, L)
      /\ Replace(m, j, n, t, w).used = m.used + w
  BY ONLY <1>e, ReplaceBears
<1>7. (X \ Y) \cup B = X \cup B  BY DEF Y
<1> QED  BY <1>6, <1>7 DEF n

\* A chunk that is written anew holds what it is given.
LEMMA RewriteBears ==
  ASSUME NEW E, NEW m, NEW X, NEW j, NEW t, NEW B, NEW w, NEW words, NEW L,
         RewritesIn(E, m, X, j, t, B, w, words, L)
  PROVE  /\ Bears(E, Replace(m, j, 1, t, words), (X \ BitsOf(m.chunks[j])) \cup B, L)
         /\ Replace(m, j, 1, t, words).used = m.used + words
<1>0. /\ Limit(L) /\ Bears(E, m, X, L) /\ w \in Int /\ Codes(E, t, B, w)
      /\ j \in 1 .. Len(m.chunks) /\ words = w - (1 + Size(m.chunks[j]))
      /\ MapOK(Replace(m, j, 1, t, words), L)
  BY DEF RewritesIn
<1> USE <1>0
<1> DEFINE Y == BitsOf(m.chunks[j])
           v == 1 + Size(m.chunks[j])
           n == 1
<1>1. m.chunks \in Seq(Chunks) /\ \A p \in 1 .. Len(m.chunks) : InShape(E, m.chunks[p])
  BY DEF Bears, Codes
<1>2. j \in Nat /\ Len(m.chunks) \in Nat  BY <1>1, LenProperties
<1>3. Codes(E, SubSeq(m.chunks, j, j + n - 1), Y, v)  BY <1>1, <1>2, SmallParts
<1>4. /\ n \in Nat /\ v \in Int /\ words = w - v /\ j + n <= Len(m.chunks) + 1
      /\ j \in 1 .. Len(m.chunks) + 1
  BY <1>2, SizeIsNat
<1>5. MapOK(Replace(m, j, n, t, words), L)  OBVIOUS
<1>e. Replaces(E, m, X, j, n, Y, v, t, B, w, words, L)
  BY <1>2, <1>3, <1>4, <1>5 DEF Replaces
<1> HIDE DEF Y, v, n
<1>6. /\ Bears(E, Replace(m, j, n, t, words), (X \ Y) \cup B, L)
      /\ Replace(m, j, n, t, words).used = m.used + words
  BY ONLY <1>e, ReplaceBears
<1> QED  BY <1>6 DEF n, Y

\* And so do two.
LEMMA RewriteTwoBears ==
  ASSUME NEW E, NEW m, NEW X, NEW j, NEW t, NEW B, NEW w, NEW words, NEW L,
         RewritesTwo(E, m, X, j, t, B, w, words, L)
  PROVE  /\ Bears(E, Replace(m, j, 2, t, words), 
                  (X \ (BitsOf(m.chunks[j]) \cup BitsOf(m.chunks[j + 1]))) \cup B, L)
         /\ Replace(m, j, 2, t, words).used = m.used + words
<1>0. /\ Limit(L) /\ Bears(E, m, X, L) /\ w \in Int /\ Codes(E, t, B, w)
      /\ j \in 1 .. Len(m.chunks) - 1
      /\ words = w - (2 + Size(m.chunks[j]) + Size(m.chunks[j + 1]))
      /\ MapOK(Replace(m, j, 2, t, words), L)
  BY DEF RewritesTwo
<1> USE <1>0
<1> DEFINE Y == BitsOf(m.chunks[j]) \cup BitsOf(m.chunks[j + 1])
           v == 2 + Size(m.chunks[j]) + Size(m.chunks[j + 1])
           n == 2
<1>1. m.chunks \in Seq(Chunks) /\ \A p \in 1 .. Len(m.chunks) : InShape(E, m.chunks[p])
  BY DEF Bears, Codes
<1>2. j \in Nat /\ Len(m.chunks) \in Nat  BY <1>1, LenProperties
<1>3. Codes(E, SubSeq(m.chunks, j, j + n - 1), Y, v)  BY <1>1, <1>2, SmallParts
<1>4. /\ n \in Nat /\ v \in Int /\ words = w - v /\ j + n <= Len(m.chunks) + 1
      /\ j \in 1 .. Len(m.chunks) + 1
  BY <1>2, SizeIsNat, SMTT(30)
<1>5. MapOK(Replace(m, j, n, t, words), L)  OBVIOUS
<1>e. Replaces(E, m, X, j, n, Y, v, t, B, w, words, L)
  BY <1>2, <1>3, <1>4, <1>5 DEF Replaces
<1> HIDE DEF Y, v, n
<1>6. /\ Bears(E, Replace(m, j, n, t, words), (X \ Y) \cup B, L)
      /\ Replace(m, j, n, t, words).used = m.used + words
  BY ONLY <1>e, ReplaceBears
<1> QED  BY <1>6 DEF n, Y

----------------------------------------------------------------------------
(* Coalescing.                                                             *)

\* q is still sound, in no more words than m; it holds X if it is to be exact.
StillKeeps(q, m, X, exact, L) ==
  (\E Y : Keeps(q, Y, L)) /\ q.used <= m.used /\ (exact => Keeps(q, X, L))
StillBears(E, q, m, X, exact, L) ==
  (\E Y : Bears(E, q, Y, L)) /\ q.used <= m.used /\ (exact => Bears(E, q, X, L))

\* A part of what a map holds is what each of its chunks holds.
LEMMA HeldIsBorne ==
  ASSUME NEW E, NEW m, NEW X, NEW L, Bears(E, m, X, L), NEW j \in 1 .. Len(m.chunks)
  PROVE  /\ BitsOf(m.chunks[j]) \subseteq X /\ InShape(E, m.chunks[j])
         /\ ChunkOK(m.chunks[j]) /\ MapOK(m, L) /\ m.used \in Int
         /\ Len(m.chunks) \in Nat /\ j \in Nat
<1>1. m.chunks \in Seq(Chunks) /\ m.used \in Int  BY DEF Bears, MapOK
<1>2. Len(m.chunks) \in Nat  BY <1>1, LenProperties
<1> QED  BY <1>1, <1>2 DEF Bears, Codes, Bits, InShape

\* The join on the left loses no word it should count.  It adds nothing to the
\* set when the start is the chunk's own.
LEMMA JoinLeftBears ==
  ASSUME NEW E, NEW L, Limit(L), NEW m, NEW X, Bears(E, m, X, L),
         NEW j \in 1 .. Len(m.chunks),
         NEW start, StartOK(m.chunks, j, start),
         RunLength(m.chunks[j]) > 0, CanJoinLeft(m, j, start)
  PROVE  StillBears(E, JoinLeft(m, j, start), m, X, start = m.chunks[j].start, L)
<1> DEFINE s == m.chunks
           k == j - 1
           a == s[k]
           c == s[j]
           run == RunLength(c)
           joined == LeftJoined(m, j, start)
           t == << joined >>
           w == 2
           n == 2
           words == 0 - (1 + Size(c))
           q == JoinLeft(m, j, start)
           B == BitsOf(joined)
<1>1. MapOK(m, L)  BY HeldIsBorne
<1>2. JoinsLeft(m, j, start)  BY <1>1, JoinLeftIs
<1>3. MapOK(q, L)  BY <1>1, JoinLeftOK
<1>4. /\ k \in 1 .. Len(s) /\ RunLength(a) > 0 /\ a.start + RunLength(a) = start
      /\ EndOf(a) <= start /\ q = Replace(m, k, n, t, words)
  BY <1>2 DEF JoinsLeft
<1>5. /\ ChunkOK(joined) /\ IsRLE(joined) /\ joined.start = a.start
      /\ RunLength(joined) = start + run - a.start
  BY <1>2 DEF JoinsLeft, IsJoined
<1>6. /\ InShape(E, a) /\ InShape(E, c) /\ ChunkOK(a) /\ ChunkOK(c)
      /\ BitsOf(a) \subseteq X /\ BitsOf(c) \subseteq X
      /\ j \in Nat /\ Len(s) \in Nat /\ m.used \in Int
  BY <1>4, HeldIsBorne
<1>7. k \in 1 .. Len(s) - 1 /\ k + 1 = j  BY <1>4, <1>6
<1> HIDE DEF k, joined, q
<1>8. Size(a) = 1
  <2> HIDE DEF s, a
  <2>1. /\ a.start \in Nat /\ RunLength(a) \in 0 .. Capacity(a) /\ Capacity(a) \in Nat
        /\ EndOf(a) = a.start + Capacity(a)
    BY <1>6, ChunkExtent, RunLengthBounds DEF EndOf
  <2>2. RunLength(a) = Capacity(a)  BY <1>4, <2>1
  <2> QED  BY <1>6, <2>2, FullRunSize
<1>9. /\ a.start \in Nat /\ run \in Nat /\ start \in Nat
      /\ BitsOf(a) = a.start .. start - 1 /\ BitsOf(c) = c.start .. c.start + run - 1
  <2>1. /\ a.start \in Nat /\ RunLength(a) \in Nat /\ c.start \in Nat /\ run \in Nat
    BY <1>6, ChunkExtent
  <2>2. /\ BitsOf(a) = a.start .. a.start + RunLength(a) - 1
        /\ BitsOf(c) = c.start .. c.start + run - 1
    BY <1>4, <1>6, HeldRun
  <2>3. start \in Nat  BY DEF StartOK
  <2> QED  BY <1>4, <2>1, <2>2, <2>3, SMTT(30)
<1>10. /\ InShape(E, joined) /\ Size(joined) = 1
       /\ B = a.start .. start + run - 1
  <2>1. /\ InShape(E, joined) /\ Size(joined) = 1 /\ joined.len \in Nat
        /\ BitsOf(joined) = joined.start .. joined.start + joined.len - 1
    BY <1>5, RunInShape
  <2>2. joined.len = start + run - a.start  BY <1>5 DEF RunLength
  <2>3. a.start + joined.len - 1 = start + run - 1  BY <1>9, <2>1, <2>2
  <2> QED  BY <1>5, <2>1, <2>3
<1>11. Codes(E, t, B, w)
  <2>1. Codes(E, << joined >>, BitsOf(joined), 1 + Size(joined))  BY <1>10, CodesOne
  <2>2. 1 + Size(joined) = w  BY <1>10
  <2> HIDE DEF w
  <2> QED  BY <2>1, <2>2
<1>12. words = w - (2 + Size(m.chunks[k]) + Size(m.chunks[k + 1])) /\ w \in Int
  <2>1. Size(c) \in Nat  BY SizeIsNat
  <2>2. words = w - (2 + Size(a) + Size(c))  BY <1>8, <2>1
  <2> QED  BY <1>7, <2>2
<1>a. words \in Int /\ words <= 0  BY SizeIsNat
<1> DEFINE Y == (X \ (BitsOf(m.chunks[k]) \cup BitsOf(m.chunks[k + 1]))) \cup B
<1> HIDE DEF t, w, words, B
<1>13. MapOK(Replace(m, k, 2, t, words), L)  BY <1>3, <1>4
<1>e. RewritesTwo(E, m, X, k, t, B, w, words, L)
  BY <1>7, <1>11, <1>12, <1>13 DEF RewritesTwo
<1>14. /\ Bears(E, Replace(m, k, 2, t, words), Y, L)
       /\ Replace(m, k, 2, t, words).used = m.used + words
  BY ONLY <1>e, RewriteTwoBears DEF Y
<1>15. start = c.start => Y = X
  <2>1. ASSUME start = c.start  PROVE B = BitsOf(a) \cup BitsOf(c)
    <3>1. a.start <= start /\ start <= start + run
      <4> HIDE DEF a, run, c, s
      <4>1. RunLength(a) \in Nat  BY <1>6, ChunkExtent
      <4> QED  BY <1>4, <1>9, <4>1
    <3>2. \A x \in Int : x \in a.start .. start + run - 1 <=>
                         x \in a.start .. start - 1 \/ x \in start .. start + run - 1
      <4> HIDE DEF a, run, c, s
      <4> QED  BY <1>9, <3>1
    <3> HIDE DEF a, run, c, s
    <3> QED  BY <1>9, <1>10, <2>1, <3>2
  <2>2. Y = (X \ (BitsOf(a) \cup BitsOf(c))) \cup B  BY <1>7 DEF Y
  <2> HIDE DEF a, c, Y
  <2> QED  BY <1>6, <2>1, <2>2
<1>16. q.used = m.used + words /\ Bears(E, q, Y, L)  BY <1>4, <1>14
<1>17. q.used <= m.used  BY <1>6, <1>a, <1>16
<1> HIDE DEF Y
<1> QED  BY <1>15, <1>16, <1>17 DEF StillBears, q

\* The join on the right loses no word either.  It loses no index when it counts
\* the whole of the run it takes in.
LEMMA JoinRightBears ==
  ASSUME NEW E, NEW L, Limit(L), NEW m, NEW X, Bears(E, m, X, L),
         NEW j \in 1 .. Len(m.chunks),
         NEW start, StartOK(m.chunks, j, start), RunLength(m.chunks[j]) > 0,
         NEW i \in Nat, NEW isSet, CanJoinRight(m, j, start, i, isSet)
  PROVE  StillBears(E, JoinRight(m, j, start, i, isSet), m, X,
                    RightRun(m, j, i, isSet) = RunLength(m.chunks[j + 1]), L)
<1> DEFINE s == m.chunks
           a == s[j + 1]
           c == s[j]
           run == RightRun(m, j, i, isSet)
           joined == RightJoined(m, j, start, i, isSet)
           t == << joined >>
           w == 2
           n == 2
           words == 0 - (Size(c) + Size(a))
           q == JoinRight(m, j, start, i, isSet)
           B == BitsOf(joined)
<1>1. MapOK(m, L)  BY HeldIsBorne
<1>2. JoinsRight(m, j, start, i, isSet)  BY <1>1, JoinRightIs
<1>3. MapOK(q, L)  BY <1>1, JoinRightOK
<1>4. /\ j + 1 \in 1 .. Len(s) /\ start = c.start /\ start + RunLength(c) = a.start
      /\ run \in 1 .. RunLength(a) /\ q = Replace(m, j, n, t, words)
  BY <1>2 DEF JoinsRight
<1>5. /\ ChunkOK(joined) /\ IsRLE(joined) /\ joined.start = start
      /\ RunLength(joined) = a.start + run - start
  BY <1>2 DEF JoinsRight, IsJoined
<1>6. /\ InShape(E, a) /\ InShape(E, c) /\ ChunkOK(a) /\ ChunkOK(c)
      /\ BitsOf(a) \subseteq X /\ BitsOf(c) \subseteq X
      /\ j \in Nat /\ Len(s) \in Nat /\ m.used \in Int
  BY <1>4, HeldIsBorne
<1>7. j \in 1 .. Len(s) - 1  BY <1>4, <1>6
<1> HIDE DEF joined, q, run
<1>9. /\ a.start \in Nat /\ run \in Nat /\ start \in Nat /\ RunLength(a) \in Nat
      /\ RunLength(c) \in Nat
      /\ BitsOf(a) = a.start .. a.start + RunLength(a) - 1
      /\ BitsOf(c) = start .. a.start - 1
  <2>1. /\ a.start \in Nat /\ RunLength(a) \in Nat /\ c.start \in Nat
        /\ RunLength(c) \in Nat
    BY <1>6, ChunkExtent
  <2>2. RunLength(a) > 0 /\ run \in Nat
    <3> HIDE DEF a
    <3> QED  BY <1>4, <2>1
  <2>3. /\ BitsOf(a) = a.start .. a.start + RunLength(a) - 1
        /\ BitsOf(c) = c.start .. c.start + RunLength(c) - 1
    BY <1>6, <2>2, HeldRun
  <2>4. c.start + RunLength(c) - 1 = a.start - 1  BY <1>4, <2>1, SMTT(30)
  <2> QED  BY <1>4, <2>1, <2>2, <2>3, <2>4
<1>10. /\ InShape(E, joined) /\ Size(joined) = 1
       /\ B = start .. a.start + run - 1
  <2>1. /\ InShape(E, joined) /\ Size(joined) = 1 /\ joined.len \in Nat
        /\ BitsOf(joined) = joined.start .. joined.start + joined.len - 1
    BY <1>5, RunInShape
  <2>2. joined.len = a.start + run - start  BY <1>5 DEF RunLength
  <2>a. joined.len \in Nat /\ a.start \in Nat /\ run \in Nat /\ start \in Nat
    BY <1>9, <2>1
  <2> HIDE DEF a, c, s
  <2>3. start + joined.len - 1 = a.start + run - 1  BY ONLY <2>a, <2>2
  <2> QED  BY <1>5, <2>1, <2>3
<1>11. Codes(E, t, B, w)
  <2>1. Codes(E, << joined >>, BitsOf(joined), 1 + Size(joined))  BY <1>10, CodesOne
  <2>2. 1 + Size(joined) = w  BY <1>10
  <2> HIDE DEF w
  <2> QED  BY <2>1, <2>2
<1>12. words = w - (2 + Size(m.chunks[j]) + Size(m.chunks[j + 1])) /\ w \in Int
  <2>1. Size(c) \in Nat /\ Size(a) \in Nat  BY SizeIsNat
  <2> QED  BY <2>1
<1>a. words \in Int /\ words <= 0  BY SizeIsNat
<1> DEFINE Y == (X \ (BitsOf(m.chunks[j]) \cup BitsOf(m.chunks[j + 1]))) \cup B
<1> HIDE DEF t, w, words, B
<1>13. MapOK(Replace(m, j, 2, t, words), L)  BY <1>3, <1>4
<1>e. RewritesTwo(E, m, X, j, t, B, w, words, L)
  BY <1>7, <1>11, <1>12, <1>13 DEF RewritesTwo
<1>14. /\ Bears(E, Replace(m, j, 2, t, words), Y, L)
       /\ Replace(m, j, 2, t, words).used = m.used + words
  <2> DEFINE k == j
  <2>1. RewritesTwo(E, m, X, k, t, B, w, words, L)  BY <1>e
  <2> HIDE DEF s, a, c, n, Y, k
  <2>2. /\ Bears(E, Replace(m, k, 2, t, words),
                 (X \ (BitsOf(m.chunks[k]) \cup BitsOf(m.chunks[k + 1]))) \cup B, L)
        /\ Replace(m, k, 2, t, words).used = m.used + words
    BY ONLY <2>1, RewriteTwoBears
  <2> QED  BY <2>2 DEF Y, k
<1>15. run = RunLength(a) => Y = X
  <2>1. ASSUME run = RunLength(a)  PROVE B = BitsOf(a) \cup BitsOf(c)
    <3>1. start <= a.start /\ a.start <= a.start + run
      <4> HIDE DEF a, c, s
      <4> QED  BY <1>4, <1>9, SMTT(30)
    <3>2. \A x \in Int : x \in start .. a.start + run - 1 <=>
                         x \in start .. a.start - 1 \/ x \in a.start .. a.start + run - 1
      <4> HIDE DEF a, c, s
      <4> QED  BY <1>9, <3>1, SMTT(30)
    <3> HIDE DEF a, c, s
    <3> QED  BY <1>9, <1>10, <2>1, <3>2
  <2>2. Y = (X \ (BitsOf(a) \cup BitsOf(c))) \cup B  BY DEF Y
  <2> HIDE DEF a, c, Y
  <2> QED  BY <1>6, <2>1, <2>2
<1>16. q.used = m.used + words /\ Bears(E, q, Y, L)  BY <1>4, <1>14
<1>17. q.used <= m.used  BY <1>6, <1>a, <1>16
<1> HIDE DEF Y
<1> QED  BY <1>15, <1>16, <1>17 DEF StillBears, q, run

\* Chunk j of m, which holds X, is coalesced with its neighbours.
CoalescesIn(E, m, X, j, start, i, L) ==
  /\ Limit(L) /\ Bears(E, m, X, L) /\ j \in 1 .. Len(m.chunks) /\ i \in Nat
  /\ RunLength(m.chunks[j]) = 0 \/ StartOK(m.chunks, j, start)

\* When the join on the left adds no index, and the one on the right loses none.
LeftExact(m, j, start) ==
  start = m.chunks[j].start \/ ~CanJoinLeft(m, j, start)
RightExact(m, j, i, isSet) ==
  isSet /\ j < Len(m.chunks) =>
    i < m.chunks[j + 1].start \/ RunLength(m.chunks[j + 1]) = 0
CoalesceExact(m, j, start, i, isSet) ==
  \/ RunLength(m.chunks[j]) = 0
  \/ LeftExact(m, j, start) /\ RightExact(m, j, i, isSet)

\* A map that is left as it is.
LEMMA UntouchedBears ==
  ASSUME NEW E, NEW m, NEW X, NEW L, Bears(E, m, X, L), NEW exact
  PROVE  StillBears(E, m, m, X, exact, L)
<1>1. m.used \in Int  BY DEF Bears, MapOK
<1> QED  BY <1>1 DEF StillBears

\* The right half of __sm_coalesce_chunk.
LEMMA RightHalfBears ==
  ASSUME NEW E, NEW m, NEW X, NEW j, NEW start, NEW i, NEW isSet, NEW L,
         CoalescesIn(E, m, X, j, start, i, L), StartOK(m.chunks, j, start)
  PROVE  StillBears(E, IF CanJoinRight(m, j, start, i, isSet)
                    THEN JoinRight(m, j, start, i, isSet) ELSE m,
                    m, X, RightExact(m, j, i, isSet), L)
<1>0. Limit(L) /\ Bears(E, m, X, L) /\ j \in 1 .. Len(m.chunks) /\ i \in Nat
  BY DEF CoalescesIn
<1> USE <1>0
<1>1. CASE CanJoinRight(m, j, start, i, isSet)
  <2> DEFINE a == m.chunks[j + 1]
             c == m.chunks[j]
             run == RightRun(m, j, i, isSet)
  <2>1. MapOK(m, L)  BY HeldIsBorne
  <2>2. JoinsRight(m, j, start, i, isSet)  BY <1>1, <2>1, JoinRightIs
  <2>3. /\ j + 1 \in 1 .. Len(m.chunks) /\ start = c.start
        /\ start + RunLength(c) = a.start /\ run \in 1 .. RunLength(a)
    BY <2>2 DEF JoinsRight
  <2>4. ChunkOK(c) /\ ChunkOK(a) /\ j \in Nat /\ Len(m.chunks) \in Nat
    BY <2>3, HeldIsBorne
  <2>5. RunLength(c) > 0
    <3>1. EndOf(c) <= a.start
      <4>1. j < j + 1  BY <2>4
      <4> QED  BY <2>1, <2>3, <4>1 DEF MapOK, StreamOK
    <3>2. c.start \in Nat /\ a.start \in Nat /\ RunLength(c) \in Nat /\ EndOf(c) \in Nat
          /\ c.start + ChunkCap <= EndOf(c)
      BY <2>4, ChunkExtent
    <3> HIDE DEF a, c, run
    <3> QED  BY <2>3, <3>1, <3>2, ChunkCapPositive
  <2>6. StillBears(E, JoinRight(m, j, start, i, isSet), m, X, run = RunLength(a), L)
    BY <1>1, <2>5, JoinRightBears
  <2>7. ASSUME RightExact(m, j, i, isSet)  PROVE run = RunLength(a)
    <3>1. a.start \in Nat /\ RunLength(a) \in Nat /\ j < Len(m.chunks)
      BY <2>3, <2>4, ChunkExtent
    <3>2. RunLength(a) # 0
      <4> HIDE DEF a, run
      <4> QED  BY <2>3, <3>1
    <3>3. ~(isSet /\ i >= a.start)
      <4>1. isSet => i < a.start  BY <2>7, <3>1, <3>2 DEF RightExact
      <4> HIDE DEF a
      <4> QED  BY <3>1, <4>1
    <3>4. run = IF isSet /\ i >= a.start THEN Lesser(RunLength(a), i - a.start + 1)
                ELSE RunLength(a)
      BY DEF RightRun
    <3> HIDE DEF a, run
    <3> QED  BY <3>3, <3>4
  <2>8. StillBears(E, JoinRight(m, j, start, i, isSet), m, X, RightExact(m, j, i, isSet), L)
    <3> HIDE DEF a, run
    <3> QED  BY <2>6, <2>7 DEF StillBears
  <2> QED  BY <1>1, <2>8
<1>2. CASE ~CanJoinRight(m, j, start, i, isSet)
  BY <1>2, UntouchedBears
<1> QED  BY <1>1, <1>2

\* __sm_coalesce_chunk keeps the words counted and the chunks canonical; when it
\* is told the chunk's own start, and the chunk after lies past i, it keeps every
\* index and adds none.
LEMMA CoalesceBears ==
  ASSUME NEW E, NEW m, NEW X, NEW j, NEW start, NEW i, NEW isSet, NEW L,
         CoalescesIn(E, m, X, j, start, i, L)
  PROVE  StillBears(E, Coalesce(m, j, start, i, isSet), m, X,
                    CoalesceExact(m, j, start, i, isSet), L)
<1> DEFINE c == m.chunks[j]
           left == CanJoinLeft(m, j, start)
           p == JoinedLeft(m, j, start)
           m1 == p.map
           j1 == p.at
           start1 == p.start
           k == Locate(m.chunks, start - 1)
           q == Coalesce(m, j, start, i, isSet)
           exact == CoalesceExact(m, j, start, i, isSet)
           right == IF CanJoinRight(m1, j1, start1, i, isSet)
                    THEN JoinRight(m1, j1, start1, i, isSet) ELSE m1
<1>0. /\ Limit(L) /\ Bears(E, m, X, L) /\ j \in 1 .. Len(m.chunks) /\ i \in Nat
      /\ RunLength(c) = 0 \/ StartOK(m.chunks, j, start)
  BY DEF CoalescesIn
<1>1. /\ MapOK(m, L) /\ ChunkOK(c) /\ RunLength(c) \in Nat /\ m.used \in Int
      /\ Len(m.chunks) \in Nat /\ j \in Nat
  BY <1>0, HeldIsBorne, ChunkExtent
<1>2. q = IF RunLength(c) = 0 \/ (IsRLE(c) /\ c.len > c.cap) THEN m ELSE right
  BY DEF Coalesce, JoinedRight
<1>3. ~(IsRLE(c) /\ c.len > c.cap)
  <2>1. ASSUME IsRLE(c)  PROVE ~(c.len > c.cap)
    <3>1. c.len \in Nat /\ c.cap \in Nat /\ c.len <= c.cap
      <4> HIDE DEF c
      <4> QED  BY <1>1, <2>1, SparseKind, ChunkConstants DEF ChunkOK, Chunks, RLEChunks
    <3> HIDE DEF c
    <3> QED  BY <3>1
  <2> QED  BY <2>1
<1>a. /\ m1 = IF left THEN JoinLeft(m, j, start) ELSE m
      /\ j1 = IF left THEN k ELSE j
      /\ start1 = IF left THEN m.chunks[k].start ELSE start
  BY DEF JoinedLeft, AtChunk
<1> HIDE DEF p, q, right, left
<1>4. CASE RunLength(c) = 0
  <2>1. q = m  BY <1>2, <1>4
  <2> HIDE DEF exact
  <2> QED  BY <1>0, <2>1, UntouchedBears DEF q, exact
<1>5. CASE RunLength(c) # 0 /\ ~left
  <2>1. m1 = m /\ j1 = j /\ start1 = start /\ q = right  BY <1>2, <1>3, <1>5, <1>a
  <2>2. StartOK(m.chunks, j, start)  BY <1>0, <1>5
  <2>3. StillBears(E, right, m, X, RightExact(m, j, i, isSet), L)
    <3> HIDE DEF m1, j1, start1
    <3>1. right = IF CanJoinRight(m, j, start, i, isSet)
                  THEN JoinRight(m, j, start, i, isSet) ELSE m
      BY <2>1 DEF right
    <3> QED  BY <2>2, <3>1, RightHalfBears
  <2>4. exact => RightExact(m, j, i, isSet)  BY <1>5 DEF CoalesceExact
  <2> HIDE DEF exact
  <2>5. StillBears(E, q, m, X, exact, L)  BY <2>1, <2>3, <2>4 DEF StillBears
  <2> QED  BY <2>5 DEF q, exact
<1>6. CASE RunLength(c) # 0 /\ left
  <2>1. m1 = JoinLeft(m, j, start) /\ j1 = k /\ start1 = m.chunks[k].start /\ q = right
    BY <1>2, <1>3, <1>6, <1>a
  <2>2. StartOK(m.chunks, j, start) /\ RunLength(m.chunks[j]) > 0  BY <1>0, <1>1, <1>6
  <2>3. StillBears(E, m1, m, X, start = m.chunks[j].start, L)
    BY <1>0, <1>6, <2>1, <2>2, JoinLeftBears DEF left
  <2>4. /\ MapOK(m1, L) /\ Len(m1.chunks) = Len(m.chunks) - 1
        /\ j1 = j - 1 /\ j1 \in 1 .. Len(m1.chunks)
        /\ m1.chunks[j1].start = start1
        /\ j < Len(m.chunks) => m1.chunks[j] = m.chunks[j + 1]
    BY <1>0, <1>1, <1>6, <2>1, <2>2, JoinLeftOK DEF left
  <2> HIDE DEF m1, j1, start1, k
  <2>5. StartOK(m1.chunks, j1, start1)
    <3>1. StreamOK(m1.chunks, 0, L)  BY <2>4 DEF MapOK
    <3> QED  BY <2>4, <3>1, OwnStart
  <2>6. ASSUME NEW Y, Bears(E, m1, Y, L)
        PROVE  StillBears(E, right, m1, Y, RightExact(m1, j1, i, isSet), L)
    <3>1. CoalescesIn(E, m1, Y, j1, start1, i, L)
      BY <1>0, <2>4, <2>5, <2>6 DEF CoalescesIn
    <3> QED  BY <2>5, <3>1, RightHalfBears DEF right
  <2>7. exact => start = m.chunks[j].start /\ RightExact(m1, j1, i, isSet)
    <3>1. ASSUME exact  PROVE start = m.chunks[j].start /\ RightExact(m, j, i, isSet)
      BY <1>6, <3>1 DEF CoalesceExact, LeftExact, left
    <3>2. j1 + 1 = j /\ (j1 < Len(m1.chunks) <=> j < Len(m.chunks))  BY <1>1, <2>4
    <3>3. RightExact(m, j, i, isSet) => RightExact(m1, j1, i, isSet)
      BY <2>4, <3>2 DEF RightExact
    <3> QED  BY <3>1, <3>3
  <2>8. PICK Y : Bears(E, m1, Y, L)  BY <2>3 DEF StillBears
  <2>9. right.used \in Int /\ m1.used \in Int /\ right.used <= m1.used /\ m1.used <= m.used
        /\ \E Z : Bears(E, right, Z, L)
    <3>1. right.used <= m1.used /\ \E Z : Bears(E, right, Z, L)
      BY <2>6, <2>8 DEF StillBears
    <3>2. m1.used <= m.used  BY <2>3 DEF StillBears
    <3>3. right.used \in Int /\ m1.used \in Int  BY <2>4, <3>1 DEF Bears, MapOK
    <3> QED  BY <3>1, <3>2, <3>3
  <2> HIDE DEF exact
  <2>10. exact => Bears(E, right, X, L)
    <3>1. ASSUME exact  PROVE Bears(E, right, X, L)
      <4>1. Bears(E, m1, X, L)  BY <2>3, <2>7, <3>1 DEF StillBears
      <4>2. StillBears(E, right, m1, X, RightExact(m1, j1, i, isSet), L)  BY <2>6, <4>1
      <4> QED  BY <2>7, <3>1, <4>2 DEF StillBears
    <3> QED  BY <3>1
  <2>11. q.used <= m.used  BY <1>1, <2>1, <2>9
  <2>12. StillBears(E, q, m, X, exact, L)  BY <2>1, <2>9, <2>10, <2>11 DEF StillBears
  <2> QED  BY <2>12 DEF q, exact
<1> QED  BY <1>4, <1>5, <1>6

----------------------------------------------------------------------------
----------------------------------------------------------------------------
(* Canonical chunks: no chunk is without indices.                          *)

\* The two ways to say it are the same.
LEMMA NoneWithout ==
  /\ \A c : InShape({}, c) <=> Canonical(c)
  /\ \A t, bits, words : Codes({}, t, bits, words) <=> Encodes(t, bits, words)
  /\ \A m, bits, L : Bears({}, m, bits, L) <=> Keeps(m, bits, L)
  /\ \A q, m, X, exact, L : StillBears({}, q, m, X, exact, L) <=> StillKeeps(q, m, X, exact, L)
<1>1. \A c : InShape({}, c) <=> Canonical(c)  BY DEF InShape, Canonical
<1>2. \A t, bits, words : Codes({}, t, bits, words) <=> Encodes(t, bits, words)
  BY <1>1 DEF Codes, Encodes
<1>3. \A m, bits, L : Bears({}, m, bits, L) <=> Keeps(m, bits, L)
  BY <1>2 DEF Bears, Keeps
<1>4. \A q, m, X, exact, L :
        StillBears({}, q, m, X, exact, L) <=> StillKeeps(q, m, X, exact, L)
  BY <1>3 DEF StillBears, StillKeeps
<1> QED  BY <1>1, <1>2, <1>3, <1>4

\* No chunks hold nothing.
LEMMA HoldsNone == Encodes(<< >>, {}, 0)
  BY CodesNone, NoneWithout

\* One chunk holds what is set in it.
LEMMA HoldsOne ==
  ASSUME NEW c, Canonical(c)
  PROVE  Encodes(<< c >>, BitsOf(c), 1 + Size(c))
  BY CodesOne, NoneWithout

\* Two streams hold together what they hold apart.
LEMMA HoldsConcat ==
  ASSUME NEW s, NEW t, NEW a, NEW b, NEW v, NEW w, Encodes(s, a, v), Encodes(t, b, w)
  PROVE  Encodes(s \o t, a \cup b, v + w)
<1>1. Codes({}, s, a, v) /\ Codes({}, t, b, w)  BY NoneWithout
<1>2. Codes({}, s \o t, a \cup b, v + w)  BY <1>1, CodesConcat
<1> QED  BY <1>2, NoneWithout

\* t, which holds B in w words, is written before chunk j, or in its place.
Inserts(m, X, j, t, B, w, L) ==
  /\ Limit(L) /\ Keeps(m, X, L) /\ j \in 1 .. Len(m.chunks) + 1
  /\ w \in Int /\ Encodes(t, B, w) /\ MapOK(Replace(m, j, 0, t, w), L)
Rewrites(m, X, j, t, B, w, words, L) ==
  /\ Limit(L) /\ Keeps(m, X, L) /\ j \in 1 .. Len(m.chunks)
  /\ w \in Int /\ Encodes(t, B, w) /\ words = w - (1 + Size(m.chunks[j]))
  /\ MapOK(Replace(m, j, 1, t, words), L)

\* Chunks written between two others add what they hold.
LEMMA InsertKeeps ==
  ASSUME NEW m, NEW X, NEW j, NEW t, NEW B, NEW w, NEW L,
         Inserts(m, X, j, t, B, w, L)
  PROVE  /\ Keeps(Replace(m, j, 0, t, w), X \cup B, L)
         /\ Replace(m, j, 0, t, w).used = m.used + w
<1>1. InsertsIn({}, m, X, j, t, B, w, L)  BY NoneWithout DEF Inserts, InsertsIn
<1>2. /\ Bears({}, Replace(m, j, 0, t, w), X \cup B, L)
      /\ Replace(m, j, 0, t, w).used = m.used + w
  BY <1>1, InsertBears
<1> QED  BY <1>2, NoneWithout

\* A chunk that is written anew holds what it is given.
LEMMA RewriteKeeps ==
  ASSUME NEW m, NEW X, NEW j, NEW t, NEW B, NEW w, NEW words, NEW L,
         Rewrites(m, X, j, t, B, w, words, L)
  PROVE  /\ Keeps(Replace(m, j, 1, t, words), (X \ BitsOf(m.chunks[j])) \cup B, L)
         /\ Replace(m, j, 1, t, words).used = m.used + words
<1>1. RewritesIn({}, m, X, j, t, B, w, words, L)  BY NoneWithout DEF Rewrites, RewritesIn
<1>2. /\ Bears({}, Replace(m, j, 1, t, words), (X \ BitsOf(m.chunks[j])) \cup B, L)
      /\ Replace(m, j, 1, t, words).used = m.used + words
  BY <1>1, RewriteBears
<1> QED  BY <1>2, NoneWithout

\* A part of what a map holds is what each of its chunks holds.
LEMMA HeldIsKept ==
  ASSUME NEW m, NEW X, NEW L, Keeps(m, X, L), NEW j \in 1 .. Len(m.chunks)
  PROVE  /\ BitsOf(m.chunks[j]) \subseteq X /\ Canonical(m.chunks[j])
         /\ ChunkOK(m.chunks[j]) /\ MapOK(m, L) /\ m.used \in Int
         /\ Len(m.chunks) \in Nat /\ j \in Nat
<1>1. Bears({}, m, X, L)  BY NoneWithout
<1>2. /\ BitsOf(m.chunks[j]) \subseteq X /\ InShape({}, m.chunks[j])
      /\ ChunkOK(m.chunks[j]) /\ MapOK(m, L) /\ m.used \in Int
      /\ Len(m.chunks) \in Nat /\ j \in Nat
  BY <1>1, HeldIsBorne
<1> QED  BY <1>2, NoneWithout

\* __sm_coalesce_chunk keeps a map of canonical chunks one.
Coalesces(m, X, j, start, i, L) ==
  /\ Limit(L) /\ Keeps(m, X, L) /\ j \in 1 .. Len(m.chunks) /\ i \in Nat
  /\ RunLength(m.chunks[j]) = 0 \/ StartOK(m.chunks, j, start)

\* It does, whatever start it is told, and the set stays where the joins are exact.
LEMMA CoalesceKeeps ==
  ASSUME NEW m, NEW X, NEW j, NEW start, NEW i, NEW isSet, NEW L,
         Coalesces(m, X, j, start, i, L)
  PROVE  StillKeeps(Coalesce(m, j, start, i, isSet), m, X,
                    CoalesceExact(m, j, start, i, isSet), L)
<1>1. CoalescesIn({}, m, X, j, start, i, L)  BY NoneWithout DEF Coalesces, CoalescesIn
<1>2. StillBears({}, Coalesce(m, j, start, i, isSet), m, X,
                 CoalesceExact(m, j, start, i, isSet), L)
  BY <1>1, CoalesceBears
<1> QED  BY <1>2, NoneWithout

(* Where the indices of a stream lie, and how many there are.              *)

\* An index a chunk holds lies between its start and its end.
LEMMA HeldWithin ==
  ASSUME NEW s, NEW hi, StreamOK(s, 0, hi), NEW p \in 1 .. Len(s), NEW x \in BitsOf(s[p])
  PROVE  /\ x \in Nat /\ s[p].start \in Nat /\ EndOf(s[p]) \in Nat
         /\ s[p].start <= x /\ x < EndOf(s[p])
<1>1. ChunkOK(s[p])  BY DEF StreamOK
<1>2. s[p].start \in Nat /\ EndOf(s[p]) \in Nat  BY <1>1, ChunkExtent
<1> QED  BY <1>2 DEF BitsOf

\* And so it does not lie before an earlier chunk, or after a later one.
LEMMA HeldAscends ==
  ASSUME NEW s, NEW hi, StreamOK(s, 0, hi), NEW j \in 1 .. Len(s), NEW p \in 1 .. Len(s),
         j < p
  PROVE  /\ \A x \in BitsOf(s[p]) : EndOf(s[j]) <= x /\ s[j].start <= x
         /\ \A x \in BitsOf(s[j]) : x < s[p].start
<1>1. EndOf(s[j]) <= s[p].start  BY DEF StreamOK
<1>2. ChunkOK(s[j]) /\ ChunkOK(s[p])  BY DEF StreamOK
<1>3. s[j].start \in Nat /\ EndOf(s[j]) \in Nat /\ s[j].start <= EndOf(s[j])
  BY <1>2, ChunkExtent, ChunkCapPositive
<1>4. s[p].start \in Nat  BY <1>2, ChunkExtent
<1>5. ASSUME NEW x \in BitsOf(s[p])  PROVE EndOf(s[j]) <= x /\ s[j].start <= x
  <2>1. x \in Nat /\ s[p].start <= x  BY HeldWithin
  <2> QED  BY <1>1, <1>3, <1>4, <2>1
<1>6. ASSUME NEW x \in BitsOf(s[j])  PROVE x < s[p].start
  <2>1. x \in Nat /\ x < EndOf(s[j])  BY HeldWithin
  <2> QED  BY <1>1, <1>3, <1>4, <2>1
<1> QED  BY <1>5, <1>6

\* Two parts are counted one by one.
LEMMA CountParts ==
  ASSUME NEW S, NEW T, NEW U, IsFiniteSet(S), S = T \cup U, T \cap U = {}
  PROVE  /\ IsFiniteSet(T) /\ IsFiniteSet(U)
         /\ Cardinality(S) \in Nat /\ Cardinality(T) \in Nat /\ Cardinality(U) \in Nat
         /\ Cardinality(S) = Cardinality(T) + Cardinality(U)
<1>1. IsFiniteSet(T) /\ IsFiniteSet(U)
  <2>1. IsFiniteSet(S) /\ T \in SUBSET S /\ U \in SUBSET S  OBVIOUS
  <2> QED  BY ONLY <2>1, FS_Subset
<1>2. Cardinality(S) \in Nat /\ Cardinality(T) \in Nat /\ Cardinality(U) \in Nat
  BY <1>1, FS_CardinalityType
<1>3. Cardinality(T \cup U) = Cardinality(T) + Cardinality(U) - Cardinality(T \cap U)
  BY <1>1, FS_Union
<1>4. Cardinality(T \cap U) = 0  BY FS_EmptySet
<1>5. Cardinality(S) = Cardinality(T) + Cardinality(U) - 0  BY <1>3, <1>4
<1> QED  BY <1>1, <1>2, <1>5

\* A part is finite, and not more than the whole.
LEMMA CountPart ==
  ASSUME NEW S, NEW T, IsFiniteSet(S), T \subseteq S
  PROVE  /\ IsFiniteSet(T) /\ Cardinality(T) \in Nat /\ Cardinality(S) \in Nat
         /\ Cardinality(T) <= Cardinality(S)
<1>1. T \in SUBSET S  OBVIOUS
<1>2. IsFiniteSet(T) /\ Cardinality(T) <= Cardinality(S)  BY <1>1, FS_Subset
<1> QED  BY <1>2, FS_CardinalityType

----------------------------------------------------------------------------
(* Numbers below a bound, and how many of them are below each.             *)

Low(S, top) == top \in Nat /\ S \in SUBSET (0 .. top - 1)
LowerPart(S, i) == {k \in S : k < i}

\* All of them are below the bound, and none below 0.
LEMMA LowerAtTheEnds ==
  ASSUME NEW S, NEW top, Low(S, top)
  PROVE  /\ top \in Nat /\ \A i \in S : i \in Nat /\ i < top
         /\ LowerPart(S, top) = S /\ LowerPart(S, 0) = {}
<1>1. top \in Nat /\ \A i \in S : i \in 0 .. top - 1  BY DEF Low
<1>2. \A i \in S : i \in Nat /\ i < top /\ ~(i < 0)
  <2>1. \A i \in 0 .. top - 1 : i \in Nat /\ i < top /\ ~(i < 0)  BY <1>1
  <2> QED  BY <1>1, <2>1
<1> QED  BY <1>1, <1>2 DEF LowerPart

\* Numbers below a bound, and those of them below an index, are finitely many.
LEMMA LowerIsFinite ==
  ASSUME NEW S, NEW top, Low(S, top), NEW i
  PROVE  /\ IsFiniteSet(S) /\ Cardinality(S) \in Nat
         /\ IsFiniteSet(LowerPart(S, i)) /\ Cardinality(LowerPart(S, i)) \in Nat
         /\ Cardinality(LowerPart(S, i)) <= Cardinality(S)
<1>1. IsFiniteSet(0 .. top - 1) /\ S \subseteq 0 .. top - 1  BY FS_Interval DEF Low
<1>2. IsFiniteSet(S) /\ Cardinality(S) \in Nat  BY <1>1, CountPart
<1>3. LowerPart(S, i) \subseteq S  BY DEF LowerPart
<1> QED  BY <1>2, <1>3, CountPart

\* More of them are below a later index, when the earlier one is among them.
LEMMA LowerGrows ==
  ASSUME NEW S, NEW top, Low(S, top), NEW i \in S, NEW j \in Nat, i < j
  PROVE  Cardinality(LowerPart(S, i)) < Cardinality(LowerPart(S, j))
<1> DEFINE P == LowerPart(S, i)
           Q == LowerPart(S, j)
           R == Q \ {i}
<1>1. /\ IsFiniteSet(P) /\ Cardinality(P) \in Nat
      /\ IsFiniteSet(Q) /\ Cardinality(Q) \in Nat
  BY LowerIsFinite
<1>2. i \in Nat /\ \A k \in S : k \in Nat  BY DEF Low
<1>3. i \in Q /\ P \subseteq R
  <2>1. i \in Q  BY DEF LowerPart
  <2>2. ASSUME NEW k \in P  PROVE k \in R
    <3>1. k \in S /\ k < i /\ k \in Nat  BY <1>2 DEF LowerPart
    <3>2. k < j /\ k # i  BY <1>2, <3>1
    <3> QED  BY <3>1, <3>2 DEF LowerPart
  <2> QED  BY <2>1, <2>2
<1>4. IsFiniteSet(R) /\ Cardinality(R) = Cardinality(Q) - 1  BY <1>1, <1>3, FS_RemoveElement
<1> HIDE DEF P, Q, R
<1>5. Cardinality(P) <= Cardinality(R)  BY <1>3, <1>4, CountPart
<1>6. Cardinality(P) < Cardinality(Q)  BY <1>1, <1>4, <1>5
<1> QED  BY <1>6 DEF P, Q

\* For each n less than their number one of them has n below it.
LEMMA HasSoManyBelow ==
  ASSUME NEW S, NEW top, Low(S, top), NEW n \in Nat, n < Cardinality(S)
  PROVE  \E i \in S : i \in Nat /\ Cardinality(LowerPart(S, i)) = n
<1> DEFINE count(y) == Cardinality(LowerPart(S, y))
           Y == {y \in Nat : count(y) > n}
<1>1. \A y : count(y) \in Nat  BY LowerIsFinite
<1>2. top \in Y
  <2>1. top \in Nat /\ LowerPart(S, top) = S  BY LowerAtTheEnds
  <2>2. count(top) = Cardinality(S)  BY <2>1
  <2>3. Cardinality(S) \in Nat  BY LowerIsFinite
  <2> QED  BY <2>1, <2>2, <2>3
<1>3. PICK y \in Y : \A z \in Y : y <= z  BY <1>2, LeastElement
<1>4. y # 0
  <2>1. LowerPart(S, 0) = {}  BY LowerAtTheEnds
  <2>2. count(0) = 0  BY <2>1, FS_EmptySet
  <2> QED  BY <1>3, <2>2
<1> DEFINE i == y - 1
<1>5. i \in Nat /\ y = i + 1 /\ y \in Nat /\ count(y) > n /\ ~(y <= i)  BY <1>3, <1>4
<1>6. ~(count(i) > n)  BY <1>3, <1>5
<1> HIDE DEF i
<1>7. i \in S
  <2> SUFFICES ASSUME i \notin S  PROVE FALSE  OBVIOUS
  <2>1. \A k \in S : k \in Nat /\ k # i  BY DEF Low
  <2>2. \A k \in S : k < y <=> k < i  BY <1>5, <2>1
  <2>3. LowerPart(S, y) = LowerPart(S, i)  BY <2>2 DEF LowerPart
  <2>4. count(y) = count(i)  BY <2>3
  <2> QED  BY <1>5, <1>6, <2>4
<1>8. count(y) = count(i) + 1
  <2> DEFINE P == LowerPart(S, i)
  <2>1. \A k \in S : k \in Nat  BY DEF Low
  <2>2. \A k \in S : k < y <=> k < i \/ k = i  BY <1>5, <2>1
  <2>3. LowerPart(S, y) = P \cup {i} /\ i \notin P
    <3>1. \A k : k \in LowerPart(S, y) <=> k \in P \cup {i}  BY <1>7, <2>2 DEF LowerPart
    <3>2. ~(i < i)  BY <1>5
    <3> QED  BY <3>1, <3>2 DEF LowerPart
  <2>4. IsFiniteSet(P)  BY LowerIsFinite
  <2> HIDE DEF P
  <2>5. Cardinality(P \cup {i}) = Cardinality(P) + 1  BY <2>3, <2>4, FS_AddElement
  <2> QED  BY <2>3, <2>5 DEF P
<1>9. count(i) = n
  <2>1. count(i) \in Nat /\ count(y) \in Nat  BY <1>1
  <2> HIDE DEF count
  <2> QED  BY <1>5, <1>6, <1>8, <2>1
<1> QED  BY <1>5, <1>7, <1>9
=============================================================================
