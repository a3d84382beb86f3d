---------------------------- MODULE CallTheorems ----------------------------
(***************************************************************************)
(* What __sm_map_set and __sm_map_unset do to a map: its chunks stay well  *)
(* formed, in order and canonical, its words counted, and the one index    *)
(* changes that the call is for.                                           *)
(***************************************************************************)
EXTENDS StreamTheorems

----------------------------------------------------------------------------
(* The chunks stay in order.                                               *)

----------------------------------------------------------------------------
(* Separation.                                                             *)

\* What is left of the run before the pivot fills the windows up to the pivot's.
LEMMA LeftRemainderOK ==
  ASSUME NEW lo \in Nat, Boundary(lo), NEW a \in Nat, Boundary(a), lo < a,
         a <= RLEMax, NEW n \in Nat, n >= 1, n <= a - lo
  PROVE  /\ StreamOK(<< LeftRemainder(lo, n, a) >>, lo, a)
         /\ LeftRemainder(lo, n, a).start = lo
<1> DEFINE c == LeftRemainder(lo, n, a)
<1>1. Boundary(a - lo) /\ lo + ChunkCap <= a  BY BoundarySum, BoundaryGap
<1>2. CASE n > ChunkCap
  <2>1. a - lo \in Nat /\ a - lo <= RLEMax /\ n \in 1 .. a - lo
    BY ChunkConstants
  <2>2. /\ ChunkOK(c)
        /\ c = [kind |-> "rle", start |-> lo, len |-> n, cap |-> a - lo]
    BY <1>1, <1>2, <2>1, RLEChunkOK DEF LeftRemainder
  <2> HIDE DEF c
  <2>3. c.start = lo /\ EndOf(c) = a  BY <2>2 DEF EndOf, Capacity, IsRLE
  <2> QED  BY <2>2, <2>3, OneChunkStream DEF c
<1>3. CASE n <= ChunkCap
  <2>1. SparseOK(c) /\ c.start = lo
    BY <1>3, PrefixChunkOK, ChunkCapPositive DEF LeftRemainder
  <2> HIDE DEF c
  <2>2. ChunkOK(c) /\ EndOf(c) = lo + ChunkCap
    BY <2>1, SparseIsOK, SparseCapacity DEF EndOf
  <2>3. StreamOK(<< c >>, lo, a)  BY <1>1, <2>1, <2>2, OneChunkStream
  <2> QED  BY <2>1, <2>3 DEF c
<1> QED  BY <1>2, <1>3, ChunkCapPositive

\* What is left of it after the pivot stays within the run's capacity.
LEMMA RightRemainderOK ==
  ASSUME NEW lo \in Nat, Boundary(lo), NEW capEnd \in Nat, Boundary(capEnd),
         lo < capEnd, capEnd <= RLEMax, NEW n \in Nat, n >= 1, n <= capEnd - lo
  PROVE  StreamOK(<< RightRemainder(lo, n, capEnd) >>, lo, capEnd)
<1>1. Lesser(capEnd - lo, RLEMax) = capEnd - lo  BY ChunkConstants DEF Lesser
<1>2. RightRemainder(lo, n, capEnd) = LeftRemainder(lo, n, capEnd)
  BY <1>1 DEF RightRemainder, LeftRemainder
<1> QED  BY <1>2, LeftRemainderOK

\* The chunk that takes over i's window.
PivotChunk(t, i, isSet) ==
  LET a == AlignedOffset(i)
      end == t.start + t.len
      ones == IF isSet THEN OnesChunk(a) ELSE ClrBit(OnesChunk(a), i - a)
      masked == MaskTail(ones, end - a)
  IN IF a >= end THEN SetBit(ZerosChunk(a), i - a)
     ELSE IF a + ChunkCap < end THEN ones
     ELSE IF isSet /\ i > end THEN SetBit(masked, i - a)
     ELSE masked

\* The pivot is a well-formed sparse chunk in i's window, whether i is cleared or set.
LEMMA PivotOK ==
  ASSUME NEW t, ChunkOK(t), IsRLE(t), NEW i \in Nat, NEW isSet \in BOOLEAN,
         isSet \/ i < t.start + t.len
  PROVE  SparseOK(PivotChunk(t, i, isSet)) /\ PivotChunk(t, i, isSet).start = AlignedOffset(i)
<1> DEFINE a == AlignedOffset(i)
           end == t.start + t.len
           ones == IF isSet THEN OnesChunk(a) ELSE ClrBit(OnesChunk(a), i - a)
           masked == MaskTail(ones, end - a)
<1>1. a \in Nat /\ Boundary(a) /\ a <= i /\ i < a + ChunkCap  BY AlignedOffsetBounds
<1>2. end \in Nat
  BY SparseKind DEF ChunkOK, Chunks, RLEChunks
<1>3. i < end \/ isSet  OBVIOUS
<1>4. PivotChunk(t, i, isSet) =
        IF a >= end THEN SetBit(ZerosChunk(a), i - a)
        ELSE IF a + ChunkCap < end THEN ones
        ELSE IF isSet /\ i > end THEN SetBit(masked, i - a)
        ELSE masked
  BY DEF PivotChunk
<1> HIDE DEF a, end
<1>5. i - a \in 0 .. ChunkCap - 1  BY <1>1, ChunkCapPositive
<1>6. /\ SparseOK(OnesChunk(a)) /\ OnesChunk(a).start = a
      /\ SparseOK(ZerosChunk(a)) /\ ZerosChunk(a).start = a
  BY <1>1, PlainChunksOK
<1>7. SparseOK(ones) /\ ones.start = a  BY <1>5, <1>6, ClrBitOK
<1>8. ASSUME a < end  PROVE SparseOK(masked) /\ masked.start = a
  <2> DEFINE u == (i - a) \div BitsPerVector
  <2>1. u \in Vec /\ u * BitsPerVector <= i - a
    <3> DEFINE n == i - a
               rest == n % BitsPerVector
    <3>1. n \in Nat /\ u \in Vec  BY <1>5, BitOfIndex
    <3>2. rest \in Nat /\ n = u * BitsPerVector + rest
      BY <3>1, WordSplit DEF Bit
    <3>3. u * BitsPerVector \in Nat  BY <3>1, ChunkConstants DEF Vec
    <3> HIDE DEF u, rest, n
    <3>4. u * BitsPerVector <= n
      <4> DEFINE whole == u * BitsPerVector
      <4>1. whole \in Nat /\ n = whole + rest  BY <3>2, <3>3
      <4> HIDE DEF whole
      <4>2. whole <= n  BY ONLY <3>2, <4>1
      <4> QED  BY <4>2 DEF whole
    <3> QED  BY <3>1, <3>4 DEF n
  <2>2. Mixed(ones.flag) \subseteq {u} /\ (isSet => Mixed(ones.flag) = {})
    BY <1>5, OneBitCleared
  <2> HIDE DEF u
  <2>3. Mixed(ones.flag) # {} => u * BitsPerVector < end - a
    <3>1. u * BitsPerVector \in Int  BY <2>1, ChunkConstants DEF Vec
    <3> QED  BY <1>1, <1>2, <1>3, <2>1, <2>2, <3>1
  <2>4. end - a \in Nat  BY <1>1, <1>2, <1>8
  <2> HIDE DEF ones
  <2>5. SparseOK(masked) /\ masked.start = ones.start
    BY <1>7, <2>1, <2>2, <2>3, <2>4, MaskTailOK
  <2> QED  BY <1>7, <2>5
<1> HIDE DEF masked, ones
<1>9. CASE a >= end
  <2>1. SparseOK(SetBit(ZerosChunk(a), i - a)) /\ SetBit(ZerosChunk(a), i - a).start = a
    BY <1>5, <1>6, SetBitOK
  <2> QED  BY <1>4, <1>9, <2>1 DEF a
<1>10. CASE ~(a >= end) /\ a + ChunkCap < end
  BY <1>4, <1>7, <1>10 DEF a
<1>11. CASE ~(a >= end) /\ ~(a + ChunkCap < end)
  <2>1. SparseOK(masked) /\ masked.start = a  BY <1>1, <1>2, <1>8, <1>11
  <2>2. SparseOK(SetBit(masked, i - a)) /\ SetBit(masked, i - a).start = a
    BY <1>5, <2>1, SetBitOK
  <2> QED  BY <1>4, <1>11, <2>1, <2>2 DEF a
<1> QED  BY <1>4, <1>9, <1>10, <1>11 DEF a

\* The parts fill the span of the chunk they replace, and no more.
LEMMA SeparatedOK ==
  ASSUME NEW t, ChunkOK(t), IsRLE(t), EndOf(t) <= RLEMax,
         NEW i \in Nat, t.start <= i, i < EndOf(t), NEW isSet \in BOOLEAN,
         isSet \/ i < t.start + t.len
  PROVE  /\ StreamOK(Separated(t, i, isSet), t.start, EndOf(t))
         /\ Len(Separated(t, i, isSet)) >= 1
         /\ Separated(t, i, isSet)[1].start = t.start
<1> DEFINE a == AlignedOffset(i)
           end == t.start + t.len
           next == a + ChunkCap
           pivot == PivotChunk(t, i, isSet)
           left == IF a = t.start \/ t.len = 0 THEN << >>
                   ELSE << LeftRemainder(t.start, Lesser(a, end) - t.start, a) >>
           right == IF next < end
                    THEN << RightRemainder(next, end - next, t.start + t.cap) >>
                    ELSE << >>
           lp == left \o << pivot >>
<1>1. Separated(t, i, isSet) = lp \o right  BY DEF Separated, PivotChunk
<1>2. a \in Nat /\ Boundary(a) /\ a <= i /\ i < a + ChunkCap  BY AlignedOffsetBounds
<1>3. /\ t.len \in Nat /\ t.len >= 1 /\ t.len <= t.cap /\ t.cap \in Nat
      /\ EndOf(t) = t.start + t.cap
  BY SparseKind DEF ChunkOK, Chunks, RLEChunks, EndOf, Capacity
<1>4. /\ t.start \in Nat /\ Boundary(t.start) /\ EndOf(t) \in Nat /\ Boundary(EndOf(t))
  BY ChunkExtent
<1>5. SparseOK(pivot) /\ pivot.start = a  BY PivotOK
<1> HIDE DEF a, pivot
<1>6. t.start <= a
  <2>1. ~(a < t.start)
    BY <1>2, <1>4, BoundaryGap, ChunkCapPositive
  <2> QED  BY <1>2, <1>4, <2>1
<1>7. next \in Nat /\ Boundary(next) /\ next <= EndOf(t)
  <2>1. a < EndOf(t)  BY <1>2, <1>4
  <2>2. a + ChunkCap <= EndOf(t)  BY <1>2, <1>4, <2>1, BoundaryGap
  <2>3. Boundary(a + ChunkCap)  BY <1>2, BoundarySum, BoundaryZero
  <2> QED  BY <1>2, <2>2, <2>3, ChunkCapPositive
<1>8. /\ StreamOK(left, t.start, a)
      /\ left = << >> => a = t.start
      /\ left # << >> => Len(left) = 1 /\ left[1].start = t.start
  <2>1. CASE a = t.start
    <3>1. left = << >>  BY <2>1
    <3> QED  BY <2>1, <3>1, EmptyStream
  <2>2. CASE a # t.start
    <3> DEFINE n == Lesser(a, end) - t.start
               c == LeftRemainder(t.start, n, a)
    <3>1. left = << c >>  BY <1>3, <2>2
    <3>2. n \in Nat /\ n >= 1 /\ n <= a - t.start /\ t.start < a
      BY <1>2, <1>3, <1>4, <1>6, <2>2 DEF Lesser
    <3>3. a <= RLEMax  BY <1>2, <1>4, <1>7, ChunkConstants, ChunkCapPositive
    <3> HIDE DEF n
    <3>4. StreamOK(<< c >>, t.start, a) /\ c.start = t.start
      BY <1>2, <1>4, <3>2, <3>3, LeftRemainderOK
    <3> HIDE DEF c
    <3> QED  BY <3>1, <3>4
  <2> QED  BY <2>1, <2>2
<1>9. StreamOK(right, next, EndOf(t))
  <2>1. CASE next < end
    <3> DEFINE n == end - next
    <3>1. n \in Nat /\ n >= 1 /\ n <= EndOf(t) - next /\ next < EndOf(t)
      BY <1>3, <1>4, <1>7, <2>1
    <3>2. right = << RightRemainder(next, n, EndOf(t)) >>  BY <1>3, <2>1
    <3> HIDE DEF n, next
    <3>3. StreamOK(<< RightRemainder(next, n, EndOf(t)) >>, next, EndOf(t))
      BY <1>4, <1>7, <3>1, RightRemainderOK
    <3> QED  BY <3>2, <3>3
  <2>2. CASE ~(next < end)
    <3>1. right = << >>  BY <2>2
    <3> QED  BY <3>1, EmptyStream
  <2> QED  BY <2>1, <2>2
<1>10. StreamOK(<< pivot >>, a, next)
  <2>1. ChunkOK(pivot) /\ EndOf(pivot) = next
    BY <1>5, SparseIsOK, SparseCapacity DEF EndOf
  <2> QED  BY <1>2, <1>5, <1>7, <2>1, OneChunkStream
<1>11. a <= next /\ t.start <= next  BY <1>2, <1>4, <1>6, <1>7, ChunkCapPositive
<1> HIDE DEF left, right, next
<1>12. StreamOK(lp, t.start, next)
  BY <1>2, <1>4, <1>6, <1>7, <1>8, <1>10, <1>11, ConcatStream
<1>13. Len(lp) >= 1 /\ Len(lp) \in Nat /\ lp[1].start = t.start
  <2>1. left \in Seq(Chunks) /\ << pivot >> \in Seq(Chunks)  BY <1>8, <1>10 DEF StreamOK
  <2>2. /\ Len(lp) = Len(left) + 1
        /\ \A x \in 1 .. Len(left) + 1 :
             lp[x] = IF x <= Len(left) THEN left[x] ELSE << pivot >>[x - Len(left)]
    BY <2>1, ConcatProperties
  <2>3. Len(left) \in Nat  BY <2>1, LenProperties
  <2> HIDE DEF lp
  <2>4. CASE left = << >>
    <3>1. Len(left) = 0 /\ lp[1] = << pivot >>[1]  BY <2>2, <2>4
    <3> QED  BY <1>5, <1>8, <2>2, <2>4, <3>1
  <2>5. CASE left # << >>
    BY <1>8, <2>2, <2>3, <2>5
  <2> QED  BY <2>4, <2>5
<1> HIDE DEF lp
<1>14. StreamOK(lp \o right, t.start, EndOf(t))
  BY <1>4, <1>7, <1>9, <1>11, <1>12, ConcatStream
<1>15. Len(lp \o right) >= 1 /\ (lp \o right)[1] = lp[1]
  <2>1. lp \in Seq(Chunks) /\ right \in Seq(Chunks)  BY <1>9, <1>12 DEF StreamOK
  <2>2. Len(right) \in Nat  BY <2>1, LenProperties
  <2>3. /\ Len(lp \o right) = Len(lp) + Len(right)
        /\ \A x \in 1 .. Len(lp) + Len(right) :
             (lp \o right)[x] = IF x <= Len(lp) THEN lp[x] ELSE right[x - Len(lp)]
    BY <2>1, ConcatProperties
  <2> QED  BY <1>13, <2>2, <2>3
<1> QED  BY <1>1, <1>13, <1>14, <1>15

----------------------------------------------------------------------------
(* The steps of __sm_map_set and __sm_map_unset.                           *)

\* Chunk j gives way to t, which begins no earlier and stays clear of the chunk
\* after.  The old start is still one the code may coalesce with.
LEMMA ReplaceOne ==
  ASSUME NEW L, Limit(L), NEW m, MapOK(m, L), NEW j \in 1 .. Len(m.chunks),
         NEW t, NEW b \in Int, StreamOK(t, m.chunks[j].start, b),
         m.chunks[j].start <= b, b <= L,
         j < Len(m.chunks) => b <= m.chunks[j + 1].start,
         NEW words \in Int
  PROVE  /\ MapOK(Replace(m, j, 1, t, words), L)
         /\ Replace(m, j, 1, t, words).cap = m.cap
         /\ j \in 1 .. Len(Replace(m, j, 1, t, words).chunks) =>
              StartOK(Replace(m, j, 1, t, words).chunks, j, m.chunks[j].start)
         /\ Len(t) >= 1 => j \in 1 .. Len(Replace(m, j, 1, t, words).chunks)
<1> DEFINE s == m.chunks
           n == 1
           a == s[j].start
           r == Replace(m, j, n, t, words)
<1>1. /\ StreamOK(s, 0, L) /\ Len(s) \in Nat /\ L \in Nat
      /\ Len(t) \in Nat /\ t \in Seq(Chunks)
  BY LenProperties DEF MapOK, StreamOK, Limit
<1>2. a \in Nat /\ \A p \in 1 .. j - 1 : EndOf(s[p]) <= a
  BY <1>1, OwnStart DEF StartOK
<1>3. ASSUME NEW p \in j + n .. Len(s)  PROVE b <= s[p].start
  <2>1. j + 1 \in 1 .. Len(s) /\ p \in 1 .. Len(s) /\ j < Len(s)  BY <1>1, <1>3
  <2>2. /\ s[j + 1].start \in Nat /\ s[p].start \in Nat /\ EndOf(s[j + 1]) \in Nat
        /\ s[j + 1].start + ChunkCap <= EndOf(s[j + 1])
    BY <1>1, <2>1, ChunkExtent DEF StreamOK
  <2>a. p = j + 1 \/ j + 1 < p  BY <1>1
  <2>b. j + 1 < p => EndOf(s[j + 1]) <= s[p].start  BY <1>1, <2>1 DEF StreamOK
  <2>3. p = j + 1 \/ EndOf(s[j + 1]) <= s[p].start  BY <2>a, <2>b
  <2> QED  BY <2>1, <2>2, <2>3, ChunkCapPositive
<1>4. /\ MapOK(r, L) /\ r.cap = m.cap
      /\ Len(r.chunks) = Len(s) - n + Len(t)
      /\ \A x \in 1 .. j - 1 : r.chunks[x] = s[x]
      /\ \A x \in 1 .. Len(t) : r.chunks[j - 1 + x] = t[x]
      /\ \A x \in j + n .. Len(s) : r.chunks[x - n + Len(t)] = s[x]
  <2>1. /\ 0 <= a /\ a <= b /\ b <= L /\ a \in Int /\ b \in Int
        /\ StreamOK(t, a, b) /\ n \in Nat
        /\ j \in 1 .. Len(m.chunks) + 1 /\ j + n <= Len(m.chunks) + 1
        /\ \A p \in 1 .. j - 1 : EndOf(m.chunks[p]) <= a
        /\ \A p \in j + n .. Len(m.chunks) : b <= m.chunks[p].start
    BY <1>1, <1>2, <1>3
  <2>2. Limit(L) /\ MapOK(m, L) /\ words \in Int  OBVIOUS
  <2> HIDE DEF n, a
  <2>3. ReplacedAt(Replace(m, j, n, t, words), m, j, n, t, L)
    BY ONLY <2>1, <2>2, ReplaceStream
  <2> QED  BY <2>3 DEF ReplacedAt, r, s
<1> HIDE DEF r
<1>5. ASSUME j \in 1 .. Len(r.chunks)  PROVE StartOK(r.chunks, j, a)
  <2>1. \A p \in 1 .. j - 1 : EndOf(r.chunks[p]) <= a  BY <1>2, <1>4
  <2>2. a <= r.chunks[j].start
    <3>1. CASE Len(t) >= 1
      <4>1. 1 \in 1 .. Len(t)  BY <1>1, <3>1
      <4>2. r.chunks[j - 1 + 1] = t[1]  BY ONLY <1>4, <4>1
      <4>3. a <= t[1].start  BY <4>1 DEF StreamOK
      <4> QED  BY <1>1, <4>2, <4>3
    <3>2. CASE Len(t) = 0
      <4>1. j + n \in j + n .. Len(s) /\ (j + n) - n + Len(t) = j
        BY <1>1, <1>4, <1>5, <3>2
      <4>2. r.chunks[j] = s[j + 1]  BY <1>4, <4>1
      <4>3. b <= s[j + 1].start /\ s[j + 1].start \in Nat
        <5>1. j < Len(s) /\ j + 1 \in 1 .. Len(s)  BY <1>1, <4>1
        <5> QED  BY <1>1, <5>1, ChunkExtent DEF StreamOK
      <4> QED  BY <1>2, <4>2, <4>3
    <3> QED  BY <1>1, <3>1, <3>2
  <2> QED  BY <1>2, <2>1, <2>2 DEF StartOK
<1>6. Len(t) >= 1 => j \in 1 .. Len(r.chunks)  BY <1>1, <1>4
<1> QED  BY <1>4, <1>5, <1>6 DEF r

\* r is m with t in the place of chunk j, and stays in order when it is
\* coalesced there.
Rewritten(r, m, j, t, i, isSet, L) ==
  /\ MapOK(r, L) /\ r.cap = m.cap
  /\ Len(t) >= 1 => j \in 1 .. Len(r.chunks)
  /\ j \in 1 .. Len(r.chunks) =>
       /\ MapOK(Coalesce(r, j, m.chunks[j].start, i, isSet), L)
       /\ Coalesce(r, j, m.chunks[j].start, i, isSet).cap = m.cap

\* Chunk j is written anew within its own span, and coalesced.
LEMMA RewriteOK ==
  ASSUME NEW L, Limit(L), NEW m, MapOK(m, L), NEW j \in 1 .. Len(m.chunks),
         NEW t, StreamOK(t, m.chunks[j].start, EndOf(m.chunks[j])), NEW words \in Int,
         NEW i \in Nat, NEW isSet
  PROVE  Rewritten(Replace(m, j, 1, t, words), m, j, t, i, isSet, L)
<1> DEFINE s == m.chunks
           b == EndOf(s[j])
           r == Replace(m, j, 1, t, words)
<1>1. StreamOK(s, 0, L) /\ Len(s) \in Nat  BY LenProperties DEF MapOK, StreamOK
<1>2. b \in Int /\ s[j].start <= b /\ b <= L /\ (j < Len(s) => b <= s[j + 1].start)
  <2>1. ChunkOK(s[j]) /\ b <= L  BY <1>1 DEF StreamOK
  <2>2. j < Len(s) => b <= s[j + 1].start
    <3>1. ASSUME j < Len(s)  PROVE j + 1 \in 1 .. Len(s) /\ j < j + 1  BY <1>1, <3>1
    <3> QED  BY <1>1, <3>1 DEF StreamOK
  <2> QED  BY <2>1, <2>2, ChunkExtent, ChunkCapPositive
<1> HIDE DEF b
<1>3. StreamOK(t, s[j].start, b)  BY DEF b
<1>4. /\ MapOK(r, L) /\ r.cap = m.cap
      /\ j \in 1 .. Len(r.chunks) => StartOK(r.chunks, j, s[j].start)
      /\ Len(t) >= 1 => j \in 1 .. Len(r.chunks)
  BY <1>2, <1>3, ReplaceOne
<1> HIDE DEF r
<1>5. ASSUME j \in 1 .. Len(r.chunks)
      PROVE  /\ MapOK(Coalesce(r, j, s[j].start, i, isSet), L)
             /\ Coalesce(r, j, s[j].start, i, isSet).cap = m.cap
  BY <1>4, <1>5, CoalesceOK
<1> QED  BY <1>4, <1>5 DEF r, Rewritten

\* The words of a stream are a number.
LEMMA StreamWordsIsNat ==
  ASSUME NEW t \in Seq(Chunks)
  PROVE  StreamWords(t) \in Nat
<1>1. DOMAIN t = 1 .. Len(t) /\ Len(t) \in Nat  BY LenProperties
<1>2. IsFiniteSet(DOMAIN t) /\ IsFiniteSet(Vec)
  BY <1>1, FS_Interval, ChunkConstants DEF Vec
<1>3. IsFiniteSet((DOMAIN t) \X Vec)  BY <1>2, FS_Product
<1>4. MixedVectors(t) \subseteq (DOMAIN t) \X Vec  BY DEF MixedVectors
<1>5. IsFiniteSet(MixedVectors(t))  BY <1>3, <1>4, FS_Subset
<1>6. Cardinality(MixedVectors(t)) \in Nat  BY <1>5, FS_CardinalityType
<1> QED  BY <1>1, <1>6 DEF StreamWords

\* What every call does for the map, whether it succeeds or is refused.
CallOK(r, m, L) == MapOK(r.map, L) /\ r.map.cap = m.cap

\* A call that changes nothing.
LEMMA RefusedOK ==
  ASSUME NEW L, NEW m, MapOK(m, L)
  PROVE  CallOK(Failed(m), m, L) /\ CallOK(Done(m), m, L)
  BY DEF CallOK, Failed, Done

\* A call that ends with a map in order.
LEMMA DoneOK ==
  ASSUME NEW L, NEW m, NEW r, MapOK(r, L), r.cap = m.cap
  PROVE  CallOK(Done(r), m, L)
  BY DEF CallOK, Done

\* A chunk inserted for i fits between the chunks that end by i and begin after it.
LEMMA InsertNewOK ==
  ASSUME NEW L, Limit(L), NEW m, MapOK(m, L), NEW i \in Nat, i < L,
         NEW j \in 1 .. Len(m.chunks) + 1, NEW start,
         \A p \in 1 .. j - 1 : EndOf(m.chunks[p]) <= i,
         \A p \in j .. Len(m.chunks) : i < m.chunks[p].start
  PROVE  CallOK(InsertNew(m, j, i, start), m, L)
<1> DEFINE s == m.chunks
           a == AlignedOffset(i)
           b == a + ChunkCap
           fresh == SetBit(ZerosChunk(a), i - a)
           t == << fresh >>
           n == 0
           words == 3
           r == Replace(m, j, n, t, words)
<1>1. StreamOK(s, 0, L) /\ Len(s) \in Nat /\ L \in Nat /\ Boundary(L)
  BY LenProperties DEF MapOK, StreamOK, Limit
<1>2. a \in Nat /\ Boundary(a) /\ a <= i /\ i < b  BY AlignedOffsetBounds
<1>3. b \in Nat /\ Boundary(b)  BY <1>2, BoundarySum, BoundaryZero, ChunkCapPositive
<1>4. i - a \in 0 .. ChunkCap - 1  BY <1>2, ChunkCapPositive
<1> HIDE DEF a
<1>5. RunLength(fresh) = 0  BY <1>4, OneBitNoRun
<1>6. SparseOK(fresh) /\ fresh.start = a
  BY <1>2, <1>4, PlainChunksOK, SetBitOK
<1> HIDE DEF fresh
<1>7. StreamOK(t, a, b)
  <2>1. ChunkOK(fresh) /\ EndOf(fresh) = b
    BY <1>6, SparseIsOK, SparseCapacity DEF EndOf
  <2> QED  BY <1>2, <1>3, <1>6, <2>1, OneChunkStream
\* A boundary after i is at least the end of i's window.
<1>8. ASSUME NEW x, Boundary(x), i < x  PROVE b <= x
  <2>1. a < x  BY <1>2, <1>8 DEF Boundary
  <2> QED  BY <1>2, <1>8, <2>1, BoundaryGap
<1>9. ASSUME NEW x, Boundary(x), x <= i  PROVE x <= a
  <2>1. x \in Int  BY <1>9 DEF Boundary
  <2>2. ASSUME a < x  PROVE FALSE
    <3>1. a + ChunkCap <= x  BY <1>2, <1>9, <2>2, BoundaryGap
    <3> QED  BY <1>2, <1>9, <2>1, <3>1, ChunkCapPositive
  <2> QED  BY <1>2, <2>1, <2>2
<1> HIDE DEF b
<1>10. b <= L  BY <1>1, <1>8
<1>11. ASSUME NEW p \in 1 .. j - 1  PROVE EndOf(s[p]) <= a
  <2>1. p \in 1 .. Len(s)  BY <1>1
  <2>2. Boundary(EndOf(s[p]))  BY <1>1, <2>1, ChunkExtent DEF StreamOK
  <2> QED  BY <1>9, <2>2
<1>12. ASSUME NEW p \in j .. Len(s)  PROVE b <= s[p].start
  <2>1. p \in 1 .. Len(s)  BY <1>1
  <2>2. Boundary(s[p].start)  BY <1>1, <2>1, ChunkExtent DEF StreamOK
  <2> QED  BY <1>8, <2>2
<1>13. ReplacedAt(r, m, j, n, t, L)
  <2>1. /\ 0 <= a /\ a <= b /\ b <= L /\ a \in Int /\ b \in Int
        /\ StreamOK(t, a, b) /\ n \in Nat /\ words \in Int
        /\ j \in 1 .. Len(m.chunks) + 1 /\ j + n <= Len(m.chunks) + 1
        /\ \A p \in 1 .. j - 1 : EndOf(m.chunks[p]) <= a
        /\ \A p \in j + n .. Len(m.chunks) : b <= m.chunks[p].start
    BY <1>1, <1>2, <1>3, <1>7, <1>10, <1>11, <1>12
  <2>2. Limit(L) /\ MapOK(m, L)  OBVIOUS
  <2> HIDE DEF n, words, t
  <2>3. ReplacedAt(Replace(m, j, n, t, words), m, j, n, t, L)
    BY ONLY <2>1, <2>2, ReplaceStream
  <2> QED  BY <2>3
<1>14. /\ MapOK(r, L) /\ r.cap = m.cap
       /\ j \in 1 .. Len(r.chunks) /\ r.chunks[j] = fresh
  <2>1. /\ Len(r.chunks) = Len(s) - n + Len(t)
        /\ \A x \in 1 .. Len(t) : r.chunks[j - 1 + x] = t[x]
    BY <1>13 DEF ReplacedAt
  <2>2. Len(t) = 1 /\ t[1] = fresh /\ 1 \in 1 .. Len(t)  OBVIOUS
  <2> HIDE DEF r, t
  <2>3. r.chunks[j - 1 + 1] = fresh  BY ONLY <2>1, <2>2
  <2> QED  BY <1>1, <1>13, <2>1, <2>2, <2>3 DEF ReplacedAt
<1> HIDE DEF r
<1>15. Coalesce(r, j, start, i, TRUE) = r
  <2>1. RunLength(r.chunks[j]) = 0  BY <1>5, <1>14
  <2> QED  BY ONLY <2>1 DEF Coalesce
<1>16. InsertNew(m, j, i, start) \in {Failed(m), Done(Coalesce(r, j, start, i, TRUE))}
  BY DEF InsertNew, r, fresh, a
<1>17. CallOK(Done(r), m, L) /\ CallOK(Failed(m), m, L)
  BY <1>14, DoneOK, RefusedOK
<1> HIDE DEF r
<1> QED  BY <1>15, <1>16, <1>17

\* Chunk j becomes, or goes on as, a run that stays clear of the chunk after.
LEMMA SetRunOK ==
  ASSUME NEW L, Limit(L), NEW m, MapOK(m, L), NEW j \in 1 .. Len(m.chunks),
         NEW len, NEW cap, NEW i \in Nat, NEW b \in Int, b <= L,
         ChunkOK(RLEChunk(m.chunks[j].start, len, cap)),
         EndOf(RLEChunk(m.chunks[j].start, len, cap)) <= b,
         j < Len(m.chunks) => b <= m.chunks[j + 1].start
  PROVE  CallOK(SetRun(m, j, len, cap, i), m, L)
<1> DEFINE s == m.chunks
           run == RLEChunk(s[j].start, len, cap)
           t == << run >>
           words == 0
           r == Replace(m, j, 1, t, words)
           q == Coalesce(r, j, s[j].start, i, TRUE)
<1>1. ChunkOK(s[j]) /\ s[j].start \in Nat
  BY ChunkExtent DEF MapOK, StreamOK
<1>2. ChunkOK(run) /\ run.start = s[j].start /\ EndOf(run) <= b  BY DEF RLEChunk
<1>3. SetRun(m, j, len, cap, i) = Done(q)  BY DEF SetRun
<1> HIDE DEF run
<1>4. StreamOK(t, s[j].start, b) /\ Len(t) >= 1 /\ s[j].start <= b
  <2>1. StreamOK(t, s[j].start, b)  BY <1>1, <1>2, OneChunkStream
  <2>2. run.start + ChunkCap <= EndOf(run) /\ EndOf(run) \in Nat
    BY <1>2, ChunkExtent
  <2> QED  BY <1>1, <1>2, <2>1, <2>2, ChunkCapPositive
<1>5. words \in Int  OBVIOUS
<1> HIDE DEF words, t
<1>6. /\ MapOK(r, L) /\ r.cap = m.cap
      /\ j \in 1 .. Len(r.chunks) /\ StartOK(r.chunks, j, s[j].start)
  BY <1>4, <1>5, ReplaceOne
<1> HIDE DEF r
<1>7. MapOK(q, L) /\ q.cap = m.cap
  <2> DEFINE start == s[j].start
             isSet == TRUE
  <2>1. /\ Limit(L) /\ MapOK(r, L) /\ j \in 1 .. Len(r.chunks) /\ i \in Nat
        /\ (RunLength(r.chunks[j]) = 0 \/ StartOK(r.chunks, j, start))
    BY <1>6
  <2> HIDE DEF start, isSet
  <2>2. /\ MapOK(Coalesce(r, j, start, i, isSet), L)
        /\ Coalesce(r, j, start, i, isSet).cap = r.cap
    BY ONLY <2>1, CoalesceOK
  <2> QED  BY <1>6, <2>2 DEF start, isSet
<1> HIDE DEF q
<1> QED  BY <1>3, <1>7, DoneOK

\* A separation, when it fits, leaves the parts in the run's place.
LEMMA SeparateOK ==
  ASSUME NEW L, Limit(L), NEW m, MapOK(m, L), NEW j \in 1 .. Len(m.chunks),
         IsRLE(m.chunks[j]), NEW i \in Nat, m.chunks[j].start <= i,
         i < EndOf(m.chunks[j]), NEW isSet \in BOOLEAN,
         isSet \/ i < m.chunks[j].start + m.chunks[j].len
  PROVE  /\ CallOK(Separate(m, j, i, isSet), m, L)
         /\ Separate(m, j, i, isSet).ok =>
              LET r == Coalesce(Separate(m, j, i, isSet).map, j,
                                m.chunks[j].start, i, isSet)
              IN MapOK(r, L) /\ r.cap = m.cap
<1> DEFINE c == m.chunks[j]
           t == Separated(c, i, isSet)
           words == StreamWords(t) - 2
           r == Replace(m, j, 1, t, words)
           q == Coalesce(r, j, c.start, i, isSet)
<1>1. ChunkOK(c) /\ EndOf(c) <= L  BY DEF MapOK, StreamOK
<1>2. EndOf(c) <= RLEMax
  BY <1>1, ChunkExtent, ChunkConstants DEF Limit
<1>3. StreamOK(t, c.start, EndOf(c)) /\ Len(t) >= 1
  <2> HIDE DEF c
  <2>1. IsRLE(c) /\ c.start <= i /\ i < EndOf(c) /\ (isSet \/ i < c.start + c.len)
    BY DEF c
  <2> QED  BY <1>1, <1>2, <2>1, SeparatedOK
<1>4. Separate(m, j, i, isSet) = IF HasRoom(m, words) THEN Done(r) ELSE Failed(m)
  BY DEF Separate, SeparateInto
<1> HIDE DEF t
<1>5. words \in Int
  <2>1. StreamWords(t) \in Nat  BY <1>3, StreamWordsIsNat DEF StreamOK
  <2> QED  BY <2>1
<1> HIDE DEF words
<1>6. /\ MapOK(r, L) /\ r.cap = m.cap
      /\ MapOK(q, L) /\ q.cap = m.cap
  <2>1. /\ Limit(L) /\ MapOK(m, L) /\ j \in 1 .. Len(m.chunks) /\ words \in Int
        /\ StreamOK(t, m.chunks[j].start, EndOf(m.chunks[j])) /\ Len(t) >= 1
        /\ i \in Nat
    BY <1>3, <1>5
  <2>2. Rewritten(Replace(m, j, 1, t, words), m, j, t, i, isSet, L)
    BY ONLY <2>1, RewriteOK
  <2> QED  BY <2>1, <2>2 DEF Rewritten
<1> HIDE DEF r
<1>7. Separate(m, j, i, isSet).ok => Separate(m, j, i, isSet).map = r
  BY <1>4 DEF Done, Failed
<1>8. CallOK(Separate(m, j, i, isSet), m, L)
  BY <1>4, <1>6, DoneOK, RefusedOK
<1> QED  BY <1>6, <1>7, <1>8

\* A set past a run and within its capacity separates the run and keeps order.
LEMMA SetPastRunOK ==
  ASSUME NEW L, Limit(L), NEW m, MapOK(m, L), NEW j \in 1 .. Len(m.chunks),
         IsRLE(m.chunks[j]), NEW i \in Nat, m.chunks[j].start <= i,
         i < EndOf(m.chunks[j])
  PROVE  CallOK(SetPastRun(m, j, i), m, L)
<1> DEFINE sep == Separate(m, j, i, TRUE)
           q == Coalesce(sep.map, j, m.chunks[j].start, i, TRUE)
<1>1. SetPastRun(m, j, i) = IF sep.ok THEN Done(q) ELSE Failed(m)
  BY DEF SetPastRun
<1>2. sep.ok => MapOK(q, L) /\ q.cap = m.cap  BY SeparateOK
<1> HIDE DEF q, sep
<1> QED  BY <1>1, <1>2, DoneOK, RefusedOK

\* A set in a sparse chunk's window keeps order.
LEMMA SetInPlaceOK ==
  ASSUME NEW L, Limit(L), NEW m, MapOK(m, L), NEW j \in 1 .. Len(m.chunks),
         ~IsRLE(m.chunks[j]), NEW i \in Nat, m.chunks[j].start <= i,
         i < EndOf(m.chunks[j])
  PROVE  CallOK(SetInPlace(m, j, i), m, L)
<1> DEFINE c == m.chunks[j]
           d == SetBit(c, i - c.start)
           t == << d >>
           words == Len(d.data) - Len(c.data)
           r == Replace(m, j, 1, t, words)
           q == Coalesce(r, j, c.start, i, TRUE)
<1>1. ChunkOK(c)  BY DEF MapOK, StreamOK
<1>2. c.start \in Nat /\ EndOf(c) \in Nat  BY <1>1, ChunkExtent
<1>3. SparseOK(c) /\ EndOf(c) = c.start + ChunkCap
  <2>1. ~IsRLE(c)  OBVIOUS
  <2> HIDE DEF c
  <2> QED  BY <1>1, <2>1, SparseIsOK, SparseCapacity DEF EndOf
<1>4. i - c.start \in 0 .. ChunkCap - 1  BY <1>2, <1>3, ChunkCapPositive
<1>5. SetInPlace(m, j, i) = Done(q)  BY DEF SetInPlace
<1>6. SparseOK(d) /\ d.start = c.start
  <2> HIDE DEF c
  <2> QED  BY <1>3, <1>4, SetBitOK
<1> HIDE DEF d
<1>7. StreamOK(t, c.start, EndOf(c)) /\ Len(t) >= 1
  <2>1. ChunkOK(d) /\ EndOf(d) = EndOf(c)
    BY <1>3, <1>6, SparseIsOK, SparseCapacity DEF EndOf
  <2>2. StreamOK(t, c.start, EndOf(c))
    <3> HIDE DEF c
    <3> QED  BY <1>2, <1>6, <2>1, OneChunkStream
  <2> QED  BY <2>2
<1>8. words \in Int
  <2>1. Len(d.data) \in Nat /\ Len(c.data) \in Nat
    BY <1>3, <1>6, SparseKind, LenProperties
  <2> QED  BY <2>1
<1> HIDE DEF words, t
<1>9. MapOK(q, L) /\ q.cap = m.cap
  <2> DEFINE isSet == TRUE
  <2>1. /\ Limit(L) /\ MapOK(m, L) /\ j \in 1 .. Len(m.chunks) /\ words \in Int
        /\ StreamOK(t, m.chunks[j].start, EndOf(m.chunks[j])) /\ Len(t) >= 1
        /\ i \in Nat
    BY <1>7, <1>8
  <2> HIDE DEF isSet
  <2>2. Rewritten(Replace(m, j, 1, t, words), m, j, t, i, isSet, L)
    BY ONLY <2>1, RewriteOK
  <2> QED  BY <2>1, <2>2 DEF Rewritten, isSet
<1> HIDE DEF q
<1> QED  BY <1>5, <1>9, DoneOK

\* The last chunk becomes a run up to i.
LEMMA LongerRunOK ==
  ASSUME NEW L, Limit(L), NEW m, MapOK(m, L), NEW j \in 1 .. Len(m.chunks),
         j = Len(m.chunks), NEW i \in Nat, i < L, m.chunks[j].start <= i,
         NEW len, len = i - m.chunks[j].start + 1
  PROVE  CallOK(SetRun(m, j, len,
                       RunCapacity(m.chunks, j, m.chunks[j].start, len), i), m, L)
<1> DEFINE s == m.chunks
           start == s[j].start
           cap == RunCapacity(s, j, start, len)
           hi == AlignedOffset(i) + ChunkCap
<1>1. StreamOK(s, 0, L) /\ Len(s) \in Nat /\ L \in Nat /\ Boundary(L)
  BY LenProperties DEF MapOK, StreamOK, Limit
<1>2. start \in Nat /\ Boundary(start)  BY <1>1, ChunkExtent DEF StreamOK
<1>3. /\ AlignedOffset(i) \in Nat /\ Boundary(AlignedOffset(i))
      /\ AlignedOffset(i) <= i /\ i < hi
  BY AlignedOffsetBounds
<1>4. hi \in Nat /\ Boundary(hi)  BY <1>3, BoundarySum, BoundaryZero, ChunkCapPositive
<1>5. hi <= L  BY <1>1, <1>3, BoundaryGap
<1> HIDE DEF hi
<1>6. len \in Nat /\ len >= 1 /\ start + len <= hi
  BY <1>2, <1>3, <1>4
<1>7. ChunkOK(RLEChunk(start, len, cap)) /\ EndOf(RLEChunk(start, len, cap)) <= hi
  <2>1. /\ j \in Nat /\ j >= 1 /\ (j < Len(s) => hi <= s[j + 1].start)
        /\ Limit(L) /\ StreamOK(s, 0, L)
    BY <1>1
  <2>2. start \in Nat /\ Boundary(start)  BY <1>2
  <2> HIDE DEF s, start, cap
  <2>3. /\ ChunkOK(RLEChunk(start, len, RunCapacity(s, j, start, len)))
        /\ EndOf(RLEChunk(start, len, RunCapacity(s, j, start, len))) <= hi
    BY ONLY <1>4, <1>5, <1>6, <2>1, <2>2, RunCapacityIs
  <2> QED  BY <2>3 DEF cap
<1> HIDE DEF cap
<1>8. CallOK(SetRun(m, j, len, cap, i), m, L)
  <2>1. /\ Limit(L) /\ MapOK(m, L) /\ j \in 1 .. Len(m.chunks) /\ i \in Nat
        /\ hi \in Int /\ hi <= L
        /\ ChunkOK(RLEChunk(m.chunks[j].start, len, cap))
        /\ EndOf(RLEChunk(m.chunks[j].start, len, cap)) <= hi
        /\ (j < Len(m.chunks) => hi <= m.chunks[j + 1].start)
    BY <1>1, <1>4, <1>5, <1>7
  <2> QED  BY ONLY <2>1, SetRunOK
<1> QED  BY <1>8 DEF cap

\* __sm_map_set, whichever way it goes, keeps a map in order.
LEMMA MapSetOK ==
  ASSUME NEW L, Limit(L), NEW m, MapOK(m, L), NEW i \in Nat, i < L
  PROVE  CallOK(MapSet(m, i), m, L)
<1> DEFINE s == m.chunks
           j == Locate(s, i)
           c == s[j]
           at == i - c.start
<1>1. /\ StreamOK(s, 0, L) /\ s \in Seq(Chunks) /\ Len(s) \in Nat
      /\ L \in Nat /\ Boundary(L)
  BY LenProperties DEF MapOK, StreamOK, Limit
<1>2. CASE ~HasRoom(m, 2)
  BY <1>2, RefusedOK DEF MapSet
<1>3. CASE HasRoom(m, 2) /\ s = << >>
  <2> DEFINE place == 1
             start == AlignedOffset(i)
  <2>1. Len(s) = 0  BY <1>3
  <2>2. /\ place \in 1 .. Len(m.chunks) + 1
        /\ \A p \in 1 .. place - 1 : EndOf(m.chunks[p]) <= i
        /\ \A p \in place .. Len(m.chunks) : i < m.chunks[p].start
    BY <2>1
  <2>3. MapSet(m, i) = InsertNew(m, place, i, start)  BY <1>3 DEF MapSet
  <2> HIDE DEF place, start
  <2>4. CallOK(InsertNew(m, place, i, start), m, L)
    BY ONLY <2>2, InsertNewOK, Limit(L), MapOK(m, L), i \in Nat, i < L
  <2> QED  BY <2>3, <2>4
<1>4. CASE HasRoom(m, 2) /\ s # << >>
  <2>1. /\ j \in 1 .. Len(s)
        /\ \A p \in 1 .. j - 1 : EndOf(s[p]) <= i
        /\ j < Len(s) => i < EndOf(s[j])
    BY <1>1, <1>4, LocateProperties
  <2>2. MapSet(m, i) =
          IF i < c.start THEN InsertNew(m, j, i, c.start)
          ELSE IF AllOnes(c) /\ at = ChunkCap
               THEN SetRun(m, j, at + 1, RunCapacity(s, j, c.start, at + 1), i)
          ELSE IF IsRLE(c) /\ at <= c.cap /\ at < c.len
               THEN Done(Coalesce(m, j, c.start, i, TRUE))
          ELSE IF IsRLE(c) /\ at <= c.cap /\ at = c.len
               THEN SetRun(m, j, at + 1,
                           IF c.len = c.cap THEN RunCapacity(s, j, c.start, at + 1)
                           ELSE c.cap, i)
          ELSE IF IsRLE(c) /\ at < c.cap THEN SetPastRun(m, j, i)
          ELSE IF at >= Capacity(c) THEN InsertNew(m, j + 1, i, AlignedOffset(i))
          ELSE SetInPlace(m, j, i)
    <3>1. ChunkOK(c)  BY <1>1, <2>1, ChunkExtent DEF StreamOK
    <3>2. WithWholeWindow(m, j, i) = m
      <4>1. ~IsRLE(c) => Capacity(c) = ChunkCap  BY <3>1, SparseCapacity
      <4> QED  BY <4>1, ChunkCapPositive DEF WithWholeWindow
    <3>3. MapSet(m, i) = IF i < c.start THEN InsertNew(m, j, i, c.start)
                         ELSE SetFrom(WithWholeWindow(m, j, i), j, i)
      BY <1>4 DEF MapSet
    <3> QED  BY <3>2, <3>3 DEF SetFrom
  <2> HIDE DEF j
  <2>3. /\ ChunkOK(c) /\ c.start \in Nat /\ Boundary(c.start) /\ EndOf(c) \in Nat
        /\ EndOf(c) <= L
    BY <1>1, <2>1, ChunkExtent DEF StreamOK
  <2>4. /\ IsRLE(c) => /\ EndOf(c) = c.start + c.cap /\ c.cap \in Nat
                       /\ c.len \in 1 .. c.cap /\ Boundary(c.cap)
        /\ ~IsRLE(c) => EndOf(c) = c.start + ChunkCap
        /\ EndOf(c) = c.start + Capacity(c)
    <3> HIDE DEF c
    <3> QED  BY <2>3, SparseKind, SparseCapacity
             DEF ChunkOK, Chunks, RLEChunks, EndOf, Capacity
  <2>5. \A p \in j + 1 .. Len(s) : EndOf(c) <= s[p].start /\ s[p].start \in Nat
    <3>1. \A p \in j + 1 .. Len(s) : p \in 1 .. Len(s) /\ j < p  BY <1>1, <2>1
    <3>2. \A p \in 1 .. Len(s) : s[p].start \in Nat
      BY <1>1, ChunkExtent DEF StreamOK
    <3> QED  BY <1>1, <2>1, <3>1, <3>2 DEF StreamOK
  <2>6. CASE i < c.start
    <3> DEFINE start == c.start
    <3>1. ASSUME NEW p \in j .. Len(s)  PROVE i < s[p].start
      <4>1. p = j \/ p \in j + 1 .. Len(s)  BY <1>1, <2>1
      <4>2. c.start <= EndOf(c)
        BY <2>3, ChunkExtent, ChunkCapPositive
      <4> QED  BY <2>3, <2>5, <2>6, <4>1, <4>2
    <3>2. j \in 1 .. Len(m.chunks) + 1  BY <1>1, <2>1
    <3>3. /\ \A p \in 1 .. j - 1 : EndOf(m.chunks[p]) <= i
          /\ \A p \in j .. Len(m.chunks) : i < m.chunks[p].start
      BY <2>1, <3>1
    <3> HIDE DEF start
    <3>4. CallOK(InsertNew(m, j, i, start), m, L)
      BY ONLY <3>2, <3>3, InsertNewOK, Limit(L), MapOK(m, L), i \in Nat, i < L
    <3> QED  BY <2>2, <2>6, <3>4 DEF start
  <2> DEFINE len == at + 1
             longer == SetRun(m, j, len, RunCapacity(s, j, c.start, len), i)
  <2>7. ASSUME ~(i < c.start), EndOf(c) <= i
        PROVE  CallOK(longer, m, L)
    <3>1. j = Len(m.chunks)
      <4>1. ~(i < EndOf(c))  BY <2>3, <2>7
      <4> QED  BY <1>1, <2>1, <4>1
    <3>2. m.chunks[j].start <= i /\ len = i - m.chunks[j].start + 1
      BY <2>3, <2>7
    <3>3. j \in 1 .. Len(m.chunks)  BY <2>1
    <3> HIDE DEF len
    <3>4. CallOK(SetRun(m, j, len, RunCapacity(m.chunks, j, m.chunks[j].start, len), i), m, L)
      BY ONLY <3>1, <3>2, <3>3, LongerRunOK, Limit(L), MapOK(m, L), i \in Nat, i < L
    <3> QED  BY <3>4
  <2>8. CASE ~(i < c.start) /\ AllOnes(c) /\ at = ChunkCap
    <3>1. EndOf(c) <= i  BY <2>3, <2>4, <2>8, ChunkCapPositive DEF AllOnes
    <3>2. MapSet(m, i) = longer  BY <2>2, <2>8
    <3> HIDE DEF longer
    <3> QED  BY <2>7, <2>8, <3>1, <3>2
  <2>9. CASE /\ ~(i < c.start) /\ ~(AllOnes(c) /\ at = ChunkCap)
             /\ IsRLE(c) /\ at <= c.cap /\ at < c.len
    <3> DEFINE start == c.start
               isSet == TRUE
    <3>1. StartOK(m.chunks, j, start)  BY <1>1, <2>1, OwnStart
    <3>2. MapSet(m, i) = Done(Coalesce(m, j, start, i, isSet))  BY <2>2, <2>9
    <3>3. j \in 1 .. Len(m.chunks)  BY <2>1
    <3> HIDE DEF start, isSet
    <3>4. /\ MapOK(Coalesce(m, j, start, i, isSet), L)
          /\ Coalesce(m, j, start, i, isSet).cap = m.cap
      BY ONLY <3>1, <3>3, CoalesceOK, Limit(L), MapOK(m, L), i \in Nat
    <3> QED  BY <3>2, <3>4, DoneOK
  <2>10. CASE /\ ~(i < c.start) /\ ~(AllOnes(c) /\ at = ChunkCap)
              /\ IsRLE(c) /\ at <= c.cap /\ at = c.len
    <3>1. CASE c.len = c.cap
      <4>1. EndOf(c) <= i  BY <2>3, <2>4, <2>10, <3>1
      <4>2. MapSet(m, i) = longer
        <5>1. ~(at < c.len)  BY <2>4, <2>10
        <5> HIDE DEF c, s, at
        <5> QED  BY <2>2, <2>10, <3>1, <5>1
      <4> HIDE DEF longer
      <4> QED  BY <2>7, <2>10, <4>1, <4>2
    <3>2. CASE c.len # c.cap
      <4> DEFINE b == EndOf(c)
                 cap == c.cap
      <4>1. MapSet(m, i) = SetRun(m, j, len, cap, i)
        <5>1. ~(at < c.len)  BY <2>4, <2>10
        <5> HIDE DEF c, s, at
        <5> QED  BY <2>2, <2>10, <3>2, <5>1
      <4>2. len \in 1 .. cap /\ cap \in Nat /\ Boundary(cap) /\ cap <= RLEMax
        <5>1. len \in 1 .. cap  BY <2>3, <2>4, <2>10, <3>2
        <5>2. cap <= RLEMax
          <6> HIDE DEF c
          <6> QED  BY <2>3, <2>10, SparseKind, ChunkConstants
                DEF ChunkOK, Chunks, RLEChunks
        <5> QED  BY <2>4, <2>10, <5>1, <5>2
      <4> HIDE DEF len
      <4>3. /\ ChunkOK(RLEChunk(c.start, len, cap))
            /\ RLEChunk(c.start, len, cap) =
                 [kind |-> "rle", start |-> c.start, len |-> len, cap |-> cap]
        <5> HIDE DEF c, cap
        <5> QED  BY <2>3, <4>2, RLEChunkOK
      <4>4. EndOf(RLEChunk(c.start, len, cap)) <= b
        <5>1. EndOf(RLEChunk(c.start, len, cap)) = c.start + cap
          BY <4>3 DEF EndOf, Capacity, IsRLE
        <5> QED  BY <2>3, <2>4, <2>10, <5>1
      <4>5. /\ b \in Int /\ b <= L /\ (j < Len(m.chunks) => b <= m.chunks[j + 1].start)
        BY <1>1, <2>1, <2>3, <2>5, SMTT(30)
      <4> HIDE DEF b, cap
      <4>6. CallOK(SetRun(m, j, len, cap, i), m, L)
        BY <2>1, <4>3, <4>4, <4>5, SetRunOK
      <4> QED  BY <4>1, <4>6
    <3> QED  BY <3>1, <3>2
  <2>11. CASE /\ ~(i < c.start) /\ ~(AllOnes(c) /\ at = ChunkCap) /\ IsRLE(c)
              /\ ~(at <= c.cap /\ at < c.len) /\ ~(at <= c.cap /\ at = c.len)
              /\ at < c.cap
    <3>1. MapSet(m, i) = SetPastRun(m, j, i)
      <4> HIDE DEF c, s, at
      <4> QED  BY <2>2, <2>11
    <3>2. m.chunks[j].start <= i /\ i < EndOf(m.chunks[j]) /\ IsRLE(m.chunks[j])
      BY <2>3, <2>4, <2>11
    <3>3. CallOK(SetPastRun(m, j, i), m, L)
      BY ONLY <2>1, <3>2, SetPastRunOK, Limit(L), MapOK(m, L), i \in Nat
    <3> QED  BY <3>1, <3>3
  <2>12. CASE /\ ~(i < c.start) /\ ~(AllOnes(c) /\ at = ChunkCap)
              /\ ~(IsRLE(c) /\ at <= c.cap /\ at < c.len)
              /\ ~(IsRLE(c) /\ at <= c.cap /\ at = c.len)
              /\ ~(IsRLE(c) /\ at < c.cap) /\ at >= Capacity(c)
    <3> DEFINE place == j + 1
               start == AlignedOffset(i)
    <3>1. EndOf(c) <= i
      <4>1. CASE IsRLE(c)  BY <2>3, <2>4, <2>12, <4>1 DEF Capacity
      <4>2. CASE ~IsRLE(c)
        BY <2>3, <2>4, <2>12, <4>2, ChunkCapPositive, SparseCapacity
      <4> QED  BY <4>1, <4>2
    <3>2. j = Len(s)
      <4>1. ~(i < EndOf(c))  BY <2>3, <3>1
      <4> QED  BY <1>1, <2>1, <4>1
    <3>3. /\ place \in 1 .. Len(m.chunks) + 1
          /\ \A p \in 1 .. place - 1 : EndOf(m.chunks[p]) <= i
          /\ \A p \in place .. Len(m.chunks) : i < m.chunks[p].start
      BY <1>1, <2>1, <3>1, <3>2
    <3>4. MapSet(m, i) = InsertNew(m, place, i, start)
      <4> HIDE DEF c, s, at
      <4> QED  BY <2>2, <2>12
    <3> HIDE DEF place, start
    <3>5. CallOK(InsertNew(m, place, i, start), m, L)
      BY ONLY <3>3, InsertNewOK, Limit(L), MapOK(m, L), i \in Nat, i < L
    <3> QED  BY <3>4, <3>5
  <2>13. CASE /\ ~(i < c.start) /\ ~(AllOnes(c) /\ at = ChunkCap)
              /\ ~(IsRLE(c) /\ at <= c.cap /\ at < c.len)
              /\ ~(IsRLE(c) /\ at <= c.cap /\ at = c.len)
              /\ ~(IsRLE(c) /\ at < c.cap) /\ ~(at >= Capacity(c))
    <3>1. ~IsRLE(c)
      <4>1. ASSUME IsRLE(c)  PROVE FALSE
        <5>1. Capacity(c) = c.cap  BY <4>1 DEF Capacity
        <5> QED  BY <2>3, <2>4, <2>13, <4>1, <5>1
      <4> QED  BY <4>1
    <3>2. MapSet(m, i) = SetInPlace(m, j, i)
      <4> HIDE DEF c, s, at
      <4> QED  BY <2>2, <2>13
    <3>3. m.chunks[j].start <= i /\ i < EndOf(m.chunks[j]) /\ ~IsRLE(m.chunks[j])
      <4>1. Capacity(c) = ChunkCap /\ EndOf(c) = c.start + ChunkCap
        BY <2>3, <2>4, <3>1, SparseCapacity
      <4> QED  BY <2>3, <2>13, <3>1, <4>1, ChunkCapPositive
    <3>4. CallOK(SetInPlace(m, j, i), m, L)
      BY ONLY <2>1, <3>3, SetInPlaceOK, Limit(L), MapOK(m, L), i \in Nat
    <3> QED  BY <3>2, <3>4
  <2> HIDE DEF c, at, longer
  <2> QED  BY <2>6, <2>8, <2>9, <2>10, <2>11, <2>12, <2>13
<1> QED  BY <1>2, <1>3, <1>4

\* Clearing a run's last index keeps order, also when the chunk goes or turns sparse.
LEMMA DropLastOK ==
  ASSUME NEW L, Limit(L), NEW m, MapOK(m, L), NEW j \in 1 .. Len(m.chunks),
         IsRLE(m.chunks[j]), NEW i \in Nat
  PROVE  MapOK(DropLast(m, j, i), L) /\ DropLast(m, j, i).cap = m.cap
<1> DEFINE c == m.chunks[j]
           shorter == IF c.len - 1 = ChunkCap THEN OnesChunk(c.start)
                      ELSE RLEChunk(c.start, c.len - 1, c.cap)
<1>1. ChunkOK(c)  BY DEF MapOK, StreamOK
<1>2. /\ c.start \in Nat /\ Boundary(c.start) /\ EndOf(c) \in Nat
      /\ c.start + ChunkCap <= EndOf(c)
  BY <1>1, ChunkExtent
<1>3. /\ EndOf(c) = c.start + c.cap /\ c.cap \in Nat /\ c.cap <= RLEMax
      /\ c.len \in 1 .. c.cap /\ Boundary(c.cap)
  <2>1. IsRLE(c)  OBVIOUS
  <2> HIDE DEF c
  <2> QED  BY <1>1, <2>1, SparseKind, ChunkConstants
        DEF ChunkOK, Chunks, RLEChunks, EndOf, Capacity
<1>4. CASE c.len = 1
  <2> DEFINE t == << >>
             words == -2
  <2>1. DropLast(m, j, i) = Replace(m, j, 1, t, words)  BY <1>4 DEF DropLast
  <2>2. /\ StreamOK(t, m.chunks[j].start, EndOf(m.chunks[j])) /\ words \in Int
        /\ Limit(L) /\ MapOK(m, L) /\ j \in 1 .. Len(m.chunks) /\ i \in Nat
    BY EmptyStream
  <2> DEFINE isSet == FALSE
  <2> HIDE DEF t, words, isSet
  <2>3. Rewritten(Replace(m, j, 1, t, words), m, j, t, i, isSet, L)
    BY ONLY <2>2, RewriteOK
  <2> QED  BY <2>1, <2>3 DEF Rewritten
<1>5. CASE c.len # 1
  <2> DEFINE t == << shorter >>
             words == 0
             isSet == FALSE
  <2>1. DropLast(m, j, i) =
          Coalesce(Replace(m, j, 1, t, words), j, m.chunks[j].start, i, isSet)
    BY <1>5 DEF DropLast
  <2>2. ChunkOK(shorter) /\ shorter.start = c.start /\ EndOf(shorter) <= EndOf(c)
    <3>1. CASE c.len - 1 = ChunkCap
      <4> HIDE DEF c
      <4>1. SparseOK(OnesChunk(c.start)) /\ OnesChunk(c.start).start = c.start
        BY <1>2, PlainChunksOK
      <4>2. ChunkOK(OnesChunk(c.start)) /\ ~IsRLE(OnesChunk(c.start))
        BY <4>1, SparseIsOK
      <4>3. EndOf(OnesChunk(c.start)) = c.start + ChunkCap
        BY <4>1, <4>2, SparseCapacity DEF EndOf
      <4> QED  BY <1>2, <3>1, <4>1, <4>2, <4>3
    <3>2. CASE c.len - 1 # ChunkCap
      <4> DEFINE len == c.len - 1
                 cap == c.cap
      <4>1. len \in 1 .. cap  BY <1>3, <1>5
      <4>2. shorter = RLEChunk(c.start, len, cap)  BY <3>2
      <4>a. cap \in Nat /\ Boundary(cap) /\ cap <= RLEMax  BY <1>3
      <4>b. EndOf(c) = c.start + cap  BY <1>3
      <4> HIDE DEF c, len, cap, shorter
      <4>3. /\ ChunkOK(RLEChunk(c.start, len, cap))
            /\ RLEChunk(c.start, len, cap) =
                 [kind |-> "rle", start |-> c.start, len |-> len, cap |-> cap]
        BY <1>2, <4>a, <4>1, RLEChunkOK
      <4>4. EndOf(RLEChunk(c.start, len, cap)) = c.start + cap
        BY <4>3 DEF EndOf, Capacity, IsRLE
      <4> QED  BY <1>2, <4>b, <4>2, <4>3, <4>4
    <3> QED  BY <3>1, <3>2
  <2> HIDE DEF shorter
  <2>3. StreamOK(t, m.chunks[j].start, EndOf(m.chunks[j])) /\ Len(t) >= 1
    <3> HIDE DEF c
    <3>1. StreamOK(t, c.start, EndOf(c))  BY <1>2, <2>2, OneChunkStream
    <3> QED  BY <3>1 DEF c
  <2>4. /\ words \in Int
        /\ Limit(L) /\ MapOK(m, L) /\ j \in 1 .. Len(m.chunks) /\ i \in Nat
    OBVIOUS
  <2> HIDE DEF t, words, isSet
  <2>5. Rewritten(Replace(m, j, 1, t, words), m, j, t, i, isSet, L)
    BY ONLY <2>3, <2>4, RewriteOK
  <2> QED  BY <2>1, <2>3, <2>5 DEF Rewritten
<1> QED  BY <1>4, <1>5

\* Clearing in a sparse chunk's window keeps order, also when the chunk goes and
\* the code coalesces at its place with the start it had.
LEMMA ClearInPlaceOK ==
  ASSUME NEW L, Limit(L), NEW m, MapOK(m, L), NEW j \in 1 .. Len(m.chunks),
         ~IsRLE(m.chunks[j]), NEW i \in Nat, m.chunks[j].start <= i,
         i < EndOf(m.chunks[j])
  PROVE  MapOK(ClearInPlace(m, j, i), L) /\ ClearInPlace(m, j, i).cap = m.cap
<1> DEFINE c == m.chunks[j]
           d == ClrBit(c, i - c.start)
           gone == IsSet(c, i - c.start) /\ IsEmptyChunk(d)
           t == IF gone THEN << >> ELSE << d >>
           words == IF gone THEN -3 ELSE Len(d.data) - Len(c.data)
           isSet == FALSE
           r == Replace(m, j, 1, t, words)
<1>1. ChunkOK(c)  BY DEF MapOK, StreamOK
<1>2. c.start \in Nat /\ EndOf(c) \in Nat  BY <1>1, ChunkExtent
<1>3. SparseOK(c) /\ EndOf(c) = c.start + ChunkCap
  <2>1. ~IsRLE(c)  OBVIOUS
  <2> HIDE DEF c
  <2> QED  BY <1>1, <2>1, SparseIsOK, SparseCapacity DEF EndOf
<1>4. i - c.start \in 0 .. ChunkCap - 1  BY <1>2, <1>3, ChunkCapPositive
<1>5. ClearInPlace(m, j, i) =
        IF j > Len(r.chunks) THEN r
        ELSE Coalesce(r, j, m.chunks[j].start, i, isSet)
  BY DEF ClearInPlace
<1>6. SparseOK(d) /\ d.start = c.start
  <2> HIDE DEF c
  <2> QED  BY <1>3, <1>4, ClrBitOK
<1> HIDE DEF d
<1>7. StreamOK(t, c.start, EndOf(c))
  <2>1. ChunkOK(d) /\ EndOf(d) = EndOf(c)
    BY <1>3, <1>6, SparseIsOK, SparseCapacity DEF EndOf
  <2> HIDE DEF c, gone
  <2>2. StreamOK(<< d >>, c.start, EndOf(c))  BY <1>2, <1>6, <2>1, OneChunkStream
  <2> QED  BY <2>2, EmptyStream
<1>8. words \in Int
  <2>1. Len(d.data) \in Nat /\ Len(c.data) \in Nat
    BY <1>3, <1>6, LenProperties DEF SparseOK, SparseChunks
  <2> HIDE DEF c, gone
  <2> QED  BY <2>1
<1>9. /\ StreamOK(t, m.chunks[j].start, EndOf(m.chunks[j])) /\ words \in Int
      /\ Limit(L) /\ MapOK(m, L) /\ j \in 1 .. Len(m.chunks) /\ i \in Nat
  BY <1>7, <1>8
<1> HIDE DEF t, words, isSet
<1>10. Rewritten(r, m, j, t, i, isSet, L)
  BY ONLY <1>9, RewriteOK DEF r
<1>11. Len(r.chunks) \in Nat
  BY <1>10, LenProperties DEF Rewritten, MapOK, StreamOK
<1> HIDE DEF r
<1>12. j > Len(r.chunks) \/ j \in 1 .. Len(r.chunks)
  <2>1. j \in Nat /\ j >= 1  OBVIOUS
  <2> QED  BY <1>11, <2>1
<1> QED  BY <1>5, <1>10, <1>11, <1>12 DEF Rewritten

\* __sm_map_unset, whichever way it goes, keeps a map in order.
LEMMA MapUnsetOK ==
  ASSUME NEW L, Limit(L), NEW m, MapOK(m, L), NEW i \in Nat
  PROVE  CallOK(MapUnset(m, i), m, L)
<1> DEFINE s == m.chunks
           j == Locate(s, i)
           c == s[j]
           at == i - c.start
<1>1. /\ StreamOK(s, 0, L) /\ Len(s) \in Nat
  BY LenProperties DEF MapOK, StreamOK, Limit
<1>2. MapUnset(m, i) =
        IF ~HasRoom(m, 2) THEN Failed(m)
        ELSE IF s = << >> \/ i < c.start \/ at >= Capacity(c) THEN Done(m)
        ELSE IF ~IsRLE(c) THEN Done(ClearInPlace(m, j, i))
        ELSE IF at >= c.len THEN Done(Coalesce(m, j, c.start, i, FALSE))
        ELSE IF at + 1 = c.len THEN Done(DropLast(m, j, i))
        ELSE Separate(m, j, i, FALSE)
  BY DEF MapUnset
<1>3. CASE ~HasRoom(m, 2) \/ s = << >> \/ i < c.start \/ at >= Capacity(c)
  <2> HIDE DEF s, c, at, j
  <2> QED  BY <1>2, <1>3, RefusedOK
<1>4. CASE HasRoom(m, 2) /\ s # << >> /\ ~(i < c.start) /\ ~(at >= Capacity(c))
  <2>1. j \in 1 .. Len(s)  BY <1>1, <1>4, LocateProperties
  <2> HIDE DEF j
  <2>2. ChunkOK(c) /\ c.start \in Nat /\ EndOf(c) \in Nat
    BY <1>1, <2>1, ChunkExtent DEF StreamOK
  <2>3. /\ EndOf(c) = c.start + Capacity(c) /\ Capacity(c) \in Nat
    <3> HIDE DEF c
    <3> QED  BY <2>2, RunLengthBounds DEF EndOf
  <2>4. m.chunks[j].start <= i /\ i < EndOf(m.chunks[j]) /\ j \in 1 .. Len(m.chunks)
    BY <1>4, <2>1, <2>2, <2>3
  <2> DEFINE isSet == FALSE
             start == c.start
             q == Coalesce(m, j, start, i, isSet)
  <2>5. CASE ~IsRLE(c)
    <3>1. MapUnset(m, i) = Done(ClearInPlace(m, j, i))
      <4> HIDE DEF c, s, at
      <4> QED  BY <1>2, <1>4, <2>5
    <3>2. ~IsRLE(m.chunks[j])  BY <2>5
    <3>3. MapOK(ClearInPlace(m, j, i), L) /\ ClearInPlace(m, j, i).cap = m.cap
      BY ONLY <2>4, <3>2, ClearInPlaceOK, Limit(L), MapOK(m, L), i \in Nat
    <3> QED  BY <3>1, <3>3, DoneOK
  <2>6. CASE IsRLE(c) /\ at >= c.len
    <3>1. MapUnset(m, i) = Done(q)
      <4> HIDE DEF c, s, at
      <4> QED  BY <1>2, <1>4, <2>6
    <3>2. StartOK(m.chunks, j, start)  BY <1>1, <2>1, OwnStart
    <3> HIDE DEF start, isSet
    <3>3. MapOK(q, L) /\ q.cap = m.cap
      BY ONLY <2>4, <3>2, CoalesceOK, Limit(L), MapOK(m, L), i \in Nat
    <3> QED  BY <3>1, <3>3, DoneOK
  <2>7. CASE IsRLE(c) /\ ~(at >= c.len) /\ at + 1 = c.len
    <3>1. MapUnset(m, i) = Done(DropLast(m, j, i))
      <4> HIDE DEF c, s, at
      <4> QED  BY <1>2, <1>4, <2>7
    <3>2. IsRLE(m.chunks[j])  BY <2>7
    <3>3. MapOK(DropLast(m, j, i), L) /\ DropLast(m, j, i).cap = m.cap
      BY ONLY <2>4, <3>2, DropLastOK, Limit(L), MapOK(m, L), i \in Nat
    <3> QED  BY <3>1, <3>3, DoneOK
  <2>8. CASE IsRLE(c) /\ ~(at >= c.len) /\ at + 1 # c.len
    <3>1. MapUnset(m, i) = Separate(m, j, i, isSet)
      <4> HIDE DEF c, s, at
      <4> QED  BY <1>2, <1>4, <2>8
    <3>2. IsRLE(m.chunks[j]) /\ i < m.chunks[j].start + m.chunks[j].len
      <4>1. c.len \in Nat
        <5> HIDE DEF c
        <5> QED  BY <2>2, <2>8, SparseKind, ChunkConstants
              DEF ChunkOK, Chunks, RLEChunks
      <4> QED  BY <2>2, <2>8, <4>1
    <3>3. isSet \in BOOLEAN  OBVIOUS
    <3> HIDE DEF isSet
    <3>4. CallOK(Separate(m, j, i, isSet), m, L)
      BY ONLY <2>4, <3>2, <3>3, SeparateOK, Limit(L), MapOK(m, L), i \in Nat
    <3> QED  BY <3>1, <3>4
  <2> QED  BY <2>5, <2>6, <2>7, <2>8
<1> QED  BY <1>3, <1>4

----------------------------------------------------------------------------
(* The indices, the words and the encoding.                                *)

----------------------------------------------------------------------------
(* Separation.                                                             *)

\* A remainder of a run holds what it is made for, whichever kind of chunk it
\* becomes.
LEMMA LeftRemainderHolds ==
  ASSUME NEW lo \in Nat, Boundary(lo), NEW a \in Nat, Boundary(a), lo < a,
         a <= RLEMax, NEW n \in Nat, n >= 1, n <= a - lo
  PROVE  /\ Canonical(LeftRemainder(lo, n, a))
         /\ BitsOf(LeftRemainder(lo, n, a)) = lo .. lo + n - 1
<1> DEFINE c == LeftRemainder(lo, n, a)
<1>1. CASE n > ChunkCap
  <2>1. a - lo \in Nat /\ a - lo <= RLEMax /\ n \in 1 .. a - lo /\ Boundary(a - lo)
    BY ChunkConstants, BoundarySum
  <2>2. /\ ChunkOK(c)
        /\ c = [kind |-> "rle", start |-> lo, len |-> n, cap |-> a - lo]
    BY <1>1, <2>1, RLEChunkOK DEF LeftRemainder
  <2>3. IsRLE(c) /\ c.start = lo /\ c.len = n  BY <2>2 DEF IsRLE
  <2> HIDE DEF c
  <2>4. Canonical(c) /\ BitsOf(c) = c.start .. c.start + c.len - 1
    BY <2>2, <2>3, RunIsCanonical
  <2> QED  BY <2>3, <2>4 DEF c
<1>2. CASE n <= ChunkCap
  <2>1. n \in 1 .. ChunkCap /\ ~(n > ChunkCap)  BY <1>2, ChunkCapPositive
  <2>2. c = PrefixChunk(lo, n)  BY <2>1 DEF LeftRemainder
  <2> HIDE DEF c
  <2>3. /\ SparseOK(c) /\ c.start = lo /\ ProperWords(c)
        /\ \A k \in 0 .. ChunkCap - 1 : IsSet(c, k) <=> k < n
    BY <2>1, <2>2, PrefixChunkOK, PrefixChunkBits
  <2>4. 0 \in 0 .. ChunkCap - 1 /\ 0 < n  BY <2>1, ChunkCapPositive
  <2>5. Canonical(c)
    <3>1. IsSet(c, 0)  BY <2>3, <2>4
    <3> QED  BY <2>3, <2>4, <3>1, SparseIsCanonical
  <2>6. ASSUME NEW x \in Nat  PROVE x \in BitsOf(c) <=> x \in lo .. lo + n - 1
    <3>1. x \in BitsOf(c) <=> x - lo \in 0 .. ChunkCap - 1 /\ IsSet(c, x - lo)
      BY <2>3, HeldSparse
    <3>2. x \in BitsOf(c) <=> x - lo \in 0 .. ChunkCap - 1 /\ x - lo < n
      BY <2>3, <3>1
    <3> QED  BY <2>1, <3>2, ChunkCapPositive
  <2>7. BitsOf(c) \subseteq Nat /\ lo .. lo + n - 1 \subseteq Nat  BY DEF BitsOf
  <2>8. BitsOf(c) = lo .. lo + n - 1  BY <2>6, <2>7
  <2> QED  BY <2>5, <2>8 DEF c
<1> QED  BY <1>1, <1>2, ChunkCapPositive

\* The same of what is left of it after the pivot.
LEMMA RightRemainderHolds ==
  ASSUME NEW lo \in Nat, Boundary(lo), NEW capEnd \in Nat, Boundary(capEnd),
         lo < capEnd, capEnd <= RLEMax, NEW n \in Nat, n >= 1, n <= capEnd - lo
  PROVE  /\ Canonical(RightRemainder(lo, n, capEnd))
         /\ BitsOf(RightRemainder(lo, n, capEnd)) = lo .. lo + n - 1
<1>1. Lesser(capEnd - lo, RLEMax) = capEnd - lo  BY ChunkConstants DEF Lesser
<1>2. RightRemainder(lo, n, capEnd) = LeftRemainder(lo, n, capEnd)
  BY <1>1 DEF RightRemainder, LeftRemainder
<1> QED  BY <1>2, LeftRemainderHolds

\* The calls that separate: i is set past the run but not at its end, where the
\* run would be extended, or cleared inside the run but not at its last index.
Separates(t, i, isSet) ==
  /\ ChunkOK(t) /\ IsRLE(t) /\ EndOf(t) <= RLEMax
  /\ i \in Nat /\ t.start <= i /\ i < EndOf(t) /\ isSet \in BOOLEAN
  /\ IF isSet THEN i > t.start + t.len ELSE i + 1 < t.start + t.len

\* The indices that t is to hold afterwards.
AfterSeparation(t, i, isSet) == IF isSet THEN BitsOf(t) \cup {i} ELSE BitsOf(t) \ {i}

\* The numbers of a run.
LEMMA RunFields ==
  ASSUME NEW t, ChunkOK(t), IsRLE(t)
  PROVE  /\ t.start \in Nat /\ Boundary(t.start) /\ t.len \in Nat /\ t.len >= 1
         /\ t.cap \in Nat /\ t.len <= t.cap /\ Boundary(t.cap) /\ t.cap <= RLEMax
         /\ EndOf(t) = t.start + t.cap /\ EndOf(t) \in Nat /\ Boundary(EndOf(t))
         /\ Size(t) = 1 /\ Canonical(t)
         /\ BitsOf(t) = t.start .. t.start + t.len - 1
<1>1. /\ t.len \in Nat /\ t.len >= 1 /\ t.len <= t.cap /\ t.cap \in Nat
      /\ t.cap <= RLEMax /\ Boundary(t.cap) /\ EndOf(t) = t.start + t.cap
  BY SparseKind, ChunkConstants DEF ChunkOK, Chunks, RLEChunks, EndOf, Capacity
<1>2. t.start \in Nat /\ Boundary(t.start) /\ EndOf(t) \in Nat /\ Boundary(EndOf(t))
  BY ChunkExtent
<1> QED  BY <1>1, <1>2, RunIsCanonical

\* The pivot holds the run's indices of its window, with i or without it.
LEMMA PivotBits ==
  ASSUME NEW t, NEW i, NEW isSet, Separates(t, i, isSet)
  PROVE  /\ ProperWords(PivotChunk(t, i, isSet))
         /\ \A k \in 0 .. ChunkCap - 1 :
              IsSet(PivotChunk(t, i, isSet), k) <=>
                LET x == AlignedOffset(i) + k
                    inRun == x < t.start + t.len
                IN IF isSet THEN inRun \/ x = i ELSE inRun /\ x # i
<1>0. /\ ChunkOK(t) /\ IsRLE(t) /\ i \in Nat /\ t.start <= i /\ i < EndOf(t)
      /\ isSet \in BOOLEAN
      /\ isSet => i > t.start + t.len
      /\ ~isSet => i + 1 < t.start + t.len
  BY DEF Separates
<1> DEFINE a == AlignedOffset(i)
           end == t.start + t.len
           ones == IF isSet THEN OnesChunk(a) ELSE ClrBit(OnesChunk(a), i - a)
           masked == MaskTail(ones, end - a)
           u == (i - a) \div BitsPerVector
           pivot == PivotChunk(t, i, isSet)
<1>1. a \in Nat /\ Boundary(a) /\ a <= i /\ i < a + ChunkCap
  BY <1>0, AlignedOffsetBounds
<1>2. end \in Nat  BY <1>0, RunFields
<1>3. (isSet /\ end < i) \/ (~isSet /\ i + 1 < end)
  <2>1. ASSUME isSet  PROVE end < i
    <3>1. i > end  BY <1>0, <2>1
    <3> HIDE DEF end
    <3> QED  BY <1>0, <1>2, <3>1
  <2> QED  BY <1>0, <2>1
<1>4. pivot = IF a >= end THEN SetBit(ZerosChunk(a), i - a)
              ELSE IF a + ChunkCap < end THEN ones
              ELSE IF isSet /\ i > end THEN SetBit(masked, i - a)
              ELSE masked
  BY DEF PivotChunk
<1> HIDE DEF a, end, pivot
<1>5. i - a \in 0 .. ChunkCap - 1  BY <1>0, <1>1, ChunkCapPositive
<1>6. /\ SparseOK(OnesChunk(a)) /\ SparseOK(ZerosChunk(a))
      /\ ProperWords(OnesChunk(a)) /\ ProperWords(ZerosChunk(a))
      /\ \A k \in 0 .. ChunkCap - 1 : IsSet(OnesChunk(a), k) /\ ~IsSet(ZerosChunk(a), k)
  BY <1>1, PlainChunksOK, PlainChunksBits
<1>7. /\ SparseOK(ones) /\ ProperWords(ones)
      /\ \A k \in 0 .. ChunkCap - 1 : IsSet(ones, k) <=> isSet \/ k # i - a
  <2>1. CASE isSet  BY <1>6, <2>1
  <2>2. CASE ~isSet
    <3>1. ones = ClrBit(OnesChunk(a), i - a)  BY <2>2
    <3> HIDE DEF ones
    <3> QED  BY <1>5, <1>6, <2>2, <3>1, ClrBitOK, ClrBitClears
  <2> QED  BY <2>1, <2>2
<1>8. /\ \A v \in Vec : ones.flag[v] \in {"ones", "mixed"}
      /\ Mixed(ones.flag) \subseteq {u} /\ (isSet => Mixed(ones.flag) = {})
  <2>1. ASSUME NEW v \in Vec  PROVE ones.flag[v] \in {"ones", "mixed"}
    BY <1>1, <1>5, OnesOrMixed
  <2>2. Mixed(ones.flag) \subseteq {u} /\ (isSet => Mixed(ones.flag) = {})
    BY <1>5, OneBitCleared
  <2> QED  BY <2>1, <2>2
<1>9. u \in Vec /\ u * BitsPerVector \in Nat /\ u * BitsPerVector <= i - a
  <2> DEFINE n == i - a
             rest == n % BitsPerVector
  <2>1. n \in Nat /\ u \in Vec  BY <1>5, BitOfIndex
  <2>2. rest \in Nat /\ n = u * BitsPerVector + rest
    BY <2>1, WordSplit DEF Bit
  <2>3. u * BitsPerVector \in Nat  BY <2>1, ChunkConstants DEF Vec
  <2> HIDE DEF u, rest, n
  <2>4. u * BitsPerVector <= n
    <3> DEFINE whole == u * BitsPerVector
    <3>1. whole \in Nat /\ n = whole + rest  BY <2>2, <2>3
    <3> HIDE DEF whole
    <3>2. whole <= n  BY ONLY <2>2, <3>1
    <3> QED  BY <3>2 DEF whole
  <2> QED  BY <2>1, <2>3, <2>4 DEF n
<1> HIDE DEF ones, u
<1>10. ASSUME a < end, ~(a + ChunkCap < end)
       PROVE  /\ SparseOK(masked) /\ ProperWords(masked)
              /\ \A k \in 0 .. ChunkCap - 1 :
                   IsSet(masked, k) <=> (isSet \/ k # i - a) /\ a + k < end
  <2> DEFINE n == end - a
             first == u * BitsPerVector
  <2>1. n \in Nat /\ n >= 1 /\ n - 1 \in 0 .. ChunkCap - 1
    BY <1>1, <1>2, <1>10, ChunkCapPositive
  <2>2. Mixed(ones.flag) # {} => first < n
    <3>1. first \in Nat /\ first <= i - a  BY <1>9
    <3> HIDE DEF first
    <3>2. ~isSet => first < n  BY <1>0, <1>1, <1>2, <1>3, <3>1
    <3> QED  BY <1>8, <3>2
  <2>3. IsSet(ones, n - 1)
    <3>1. isSet \/ n - 1 # i - a  BY <1>0, <1>1, <1>2, <1>3
    <3> QED  BY <1>7, <2>1, <3>1
  <2>4. SparseOK(MaskTail(ones, n))
    <3> HIDE DEF n
    <3> QED  BY <1>7, <1>8, <1>9, <2>1, <2>2, MaskTailOK
  <2>5. /\ ProperWords(MaskTail(ones, n))
        /\ \A k \in 0 .. ChunkCap - 1 : IsSet(MaskTail(ones, n), k) <=> IsSet(ones, k) /\ k < n
    <3> HIDE DEF n
    <3> QED  BY <1>7, <1>8, <1>9, <2>1, <2>2, <2>3, MaskTailBits
  <2>6. \A k \in 0 .. ChunkCap - 1 : k < n <=> a + k < end
    BY <1>1, <1>2, ChunkCapPositive
  <2> QED  BY <1>7, <2>4, <2>5, <2>6
<1> HIDE DEF masked
<1>11. ASSUME NEW c, SparseOK(c), ProperWords(c)
       PROVE  /\ ProperWords(SetBit(c, i - a))
              /\ \A k \in 0 .. ChunkCap - 1 :
                   IsSet(SetBit(c, i - a), k) <=> k = i - a \/ IsSet(c, k)
  BY <1>5, <1>11, SetBitSets
<1>12. \A k \in 0 .. ChunkCap - 1 : k \in Int /\ (a + k = i <=> k = i - a)
  BY <1>0, <1>1, ChunkCapPositive
<1> DEFINE Right(c) ==
             /\ ProperWords(c)
             /\ \A k \in 0 .. ChunkCap - 1 :
                  IsSet(c, k) <=> IF isSet THEN a + k < end \/ k = i - a
                                  ELSE a + k < end /\ k # i - a
<1>13. Right(pivot)
  <2>1. CASE a >= end
    <3>1. pivot = SetBit(ZerosChunk(a), i - a)  BY <1>4, <2>1
    <3>2. isSet  BY <1>0, <1>1, <1>2, <1>3, <2>1
    <3>3. \A k \in 0 .. ChunkCap - 1 : ~(a + k < end)  BY <1>1, <1>2, <2>1, ChunkCapPositive
    <3> QED  BY <1>6, <1>11, <3>1, <3>2, <3>3
  <2>2. CASE ~(a >= end) /\ a + ChunkCap < end
    <3>1. pivot = ones  BY <1>4, <2>2
    <3>2. \A k \in 0 .. ChunkCap - 1 : a + k < end  BY <1>1, <1>2, <2>2, ChunkCapPositive
    <3> QED  BY <1>7, <3>1, <3>2
  <2>3. CASE ~(a >= end) /\ ~(a + ChunkCap < end)
    <3>1. a < end  BY <1>1, <1>2, <2>3
    <3>2. /\ SparseOK(masked) /\ ProperWords(masked)
          /\ \A k \in 0 .. ChunkCap - 1 :
               IsSet(masked, k) <=> (isSet \/ k # i - a) /\ a + k < end
      BY <1>10, <2>3, <3>1
    <3>3. CASE isSet
      <4>1. i > end  BY <1>0, <1>2, <1>3, <3>3
      <4>2. pivot = SetBit(masked, i - a)  BY <1>4, <2>3, <3>3, <4>1
      <4> QED  BY <1>11, <3>2, <3>3, <4>2
    <3>4. CASE ~isSet
      <4>1. pivot = masked  BY <1>4, <2>3, <3>4
      <4> QED  BY <3>2, <3>4, <4>1
    <3> QED  BY <3>3, <3>4
  <2> QED  BY <2>1, <2>2, <2>3
<1>14. \A k \in 0 .. ChunkCap - 1 :
         IsSet(pivot, k) <=> IF isSet THEN a + k < end \/ a + k = i
                             ELSE a + k < end /\ a + k # i
  BY <1>12, <1>13
<1> QED  BY <1>13, <1>14 DEF a, end, pivot

\* The pivot is canonical; after a set it is no run.
LEMMA PivotHolds ==
  ASSUME NEW t, NEW i, NEW isSet, Separates(t, i, isSet)
  PROVE  /\ Canonical(PivotChunk(t, i, isSet))
         /\ isSet => RunLength(PivotChunk(t, i, isSet)) = 0
         /\ \A x \in Nat : x \in BitsOf(PivotChunk(t, i, isSet)) <=>
              /\ AlignedOffset(i) <= x /\ x < AlignedOffset(i) + ChunkCap
              /\ IF isSet THEN x < t.start + t.len \/ x = i
                 ELSE x < t.start + t.len /\ x # i
<1>0. /\ ChunkOK(t) /\ IsRLE(t) /\ i \in Nat /\ t.start <= i /\ i < EndOf(t)
      /\ isSet \in BOOLEAN
      /\ isSet => i > t.start + t.len
      /\ ~isSet => i + 1 < t.start + t.len
  BY DEF Separates
<1> DEFINE a == AlignedOffset(i)
           end == t.start + t.len
           pivot == PivotChunk(t, i, isSet)
<1>1. a \in Nat /\ Boundary(a) /\ a <= i /\ i < a + ChunkCap
  BY <1>0, AlignedOffsetBounds
<1>2. end \in Nat  BY <1>0, RunFields
<1>3. SparseOK(pivot) /\ pivot.start = a
  <2>1. isSet \/ i < t.start + t.len  BY <1>0, <1>2
  <2> QED  BY <1>0, <2>1, PivotOK
<1>4. /\ ProperWords(pivot)
      /\ \A k \in 0 .. ChunkCap - 1 :
           IsSet(pivot, k) <=> IF isSet THEN a + k < end \/ a + k = i
                               ELSE a + k < end /\ a + k # i
  BY PivotBits
<1>a. a >= end => pivot = SetBit(ZerosChunk(a), i - a)  BY DEF PivotChunk
<1> HIDE DEF a, end, pivot
<1>5. ASSUME NEW x \in Nat
      PROVE  x \in BitsOf(pivot) <=>
               /\ a <= x /\ x < a + ChunkCap
               /\ IF isSet THEN x < end \/ x = i ELSE x < end /\ x # i
  <2>1. x \in BitsOf(pivot) <=> x - a \in 0 .. ChunkCap - 1 /\ IsSet(pivot, x - a)
    BY <1>3, HeldSparse
  <2>2. x - a \in 0 .. ChunkCap - 1 <=> a <= x /\ x < a + ChunkCap
    BY <1>1, ChunkCapPositive
  <2>3. a + (x - a) = x  BY <1>1
  <2> QED  BY <1>4, <2>1, <2>2, <2>3
<1>6. \E k \in 0 .. ChunkCap - 1 : IsSet(pivot, k)
  <2>1. CASE isSet
    <3>1. i - a \in 0 .. ChunkCap - 1 /\ a + (i - a) = i  BY <1>0, <1>1, ChunkCapPositive
    <3> QED  BY <1>4, <2>1, <3>1
  <2>2. CASE ~isSet /\ i = a
    <3>1. 1 \in 0 .. ChunkCap - 1 /\ a + 1 < end /\ a + 1 # i
      BY <1>0, <1>1, <1>2, <2>2, ChunkCapPositive DEF end
    <3> QED  BY <1>4, <2>2, <3>1
  <2>3. CASE ~isSet /\ i # a
    <3>1. 0 \in 0 .. ChunkCap - 1 /\ a + 0 < end /\ a + 0 # i
      BY <1>0, <1>1, <1>2, <2>3, ChunkCapPositive DEF end
    <3> QED  BY <1>4, <2>3, <3>1
  <2> QED  BY <2>1, <2>2, <2>3
<1>7. Canonical(pivot)  BY <1>3, <1>4, <1>6, SparseIsCanonical
<1>8. ASSUME isSet  PROVE RunLength(pivot) = 0
  <2>1. CASE a >= end
    <3>1. pivot = SetBit(ZerosChunk(a), i - a) /\ i - a \in 0 .. ChunkCap - 1
      BY <1>0, <1>1, <1>a, <2>1, ChunkCapPositive
    <3> QED  BY <3>1, OneBitNoRun
  <2>2. CASE ~(a >= end)
    <3> DEFINE e == end - a
               k == i - a
    <3>1. /\ e \in 0 .. ChunkCap - 1 /\ k \in 0 .. ChunkCap - 1 /\ e < k
          /\ a + e = end /\ a + k = i /\ end # i
      <4>1. i > end  BY <1>0, <1>8 DEF end
      <4> QED  BY <1>0, <1>1, <1>2, <2>2, <4>1, ChunkCapPositive
    <3> HIDE DEF e, k
    <3>2. ~IsSet(pivot, e) /\ IsSet(pivot, k)
      <4>1. ~(end < end)  BY <1>2
      <4> QED  BY <1>4, <1>8, <3>1, <4>1
    <3>3. RunLength(pivot) \in Nat
      <4>1. ChunkOK(pivot)  BY <1>3, SparseIsOK
      <4> QED  BY <4>1, ChunkExtent
    <3>4. ASSUME RunLength(pivot) > 0  PROVE FALSE
      <4>1. k < RunLength(pivot) /\ ~(e < RunLength(pivot))
        BY <1>3, <3>1, <3>2, <3>4, RunIsPrefix
      <4> QED  BY <3>1, <3>3, <4>1, ChunkCapPositive
    <3> QED  BY <3>3, <3>4
  <2> QED  BY <2>1, <2>2
<1> QED  BY <1>5, <1>7, <1>8 DEF a, end, pivot

\* The parts hold what the run held, with i or without it.
LEMMA SeparatedHolds ==
  ASSUME NEW t, NEW i, NEW isSet, Separates(t, i, isSet)
  PROVE  /\ Encodes(Separated(t, i, isSet), AfterSeparation(t, i, isSet),
                  StreamWords(Separated(t, i, isSet)))
         /\ isSet => \/ Len(Separated(t, i, isSet)) = 1
                     \/ /\ Len(Separated(t, i, isSet)) = 2
                        /\ RunLength(Separated(t, i, isSet)[2]) = 0
<1>0. /\ ChunkOK(t) /\ IsRLE(t) /\ i \in Nat /\ t.start <= i /\ i < EndOf(t)
      /\ EndOf(t) <= RLEMax /\ isSet \in BOOLEAN
      /\ isSet => i > t.start + t.len
      /\ ~isSet => i + 1 < t.start + t.len
  BY DEF Separates
<1> DEFINE a == AlignedOffset(i)
           end == t.start + t.len
           next == a + ChunkCap
           pivot == PivotChunk(t, i, isSet)
           left == IF a = t.start \/ t.len = 0 THEN << >>
                   ELSE << LeftRemainder(t.start, Lesser(a, end) - t.start, a) >>
           right == IF next < end
                    THEN << RightRemainder(next, end - next, t.start + t.cap) >>
                    ELSE << >>
           lp == left \o << pivot >>
           A == {x \in Nat : t.start <= x /\ x < a /\ x < end}
           B == {x \in Nat : /\ a <= x /\ x < next
                             /\ IF isSet THEN x < end \/ x = i ELSE x < end /\ x # i}
           C == {x \in Nat : next <= x /\ x < end}
           parts == Separated(t, i, isSet)
<1>1. parts = lp \o right  BY DEF Separated, PivotChunk
<1>2. a \in Nat /\ Boundary(a) /\ a <= i /\ i < a + ChunkCap
  BY <1>0, AlignedOffsetBounds
<1>3. /\ t.start \in Nat /\ Boundary(t.start) /\ t.len \in Nat /\ t.len >= 1
      /\ t.cap \in Nat /\ t.len <= t.cap /\ EndOf(t) = t.start + t.cap
      /\ EndOf(t) \in Nat /\ Boundary(EndOf(t))
      /\ BitsOf(t) = t.start .. t.start + t.len - 1
  BY <1>0, RunFields
<1> HIDE DEF parts, a, pivot
<1>4. t.start <= a
  <2>1. ~(a < t.start)
    BY <1>0, <1>2, <1>3, BoundaryGap, ChunkCapPositive
  <2> QED  BY <1>2, <1>3, <2>1
<1>5. next \in Nat /\ Boundary(next) /\ next <= EndOf(t) /\ a < next
  <2>1. a < EndOf(t)  BY <1>0, <1>2, <1>3
  <2>2. a + ChunkCap <= EndOf(t)  BY <1>2, <1>3, <2>1, BoundaryGap
  <2>3. Boundary(a + ChunkCap)  BY <1>2, BoundarySum, BoundaryZero
  <2> QED  BY <1>2, <2>2, <2>3, ChunkCapPositive
<1>6. Encodes(left, A, StreamWords(left)) /\ (left = << >> \/ Len(left) = 1)
  <2>1. CASE a = t.start
    <3>1. left = << >>  BY <2>1
    <3>2. A = {}  BY <1>2, <1>3, <2>1
    <3> HIDE DEF left, A
    <3> QED  BY <3>1, <3>2, HoldsNone, WordsNone
  <2>2. CASE a # t.start
    <3> DEFINE n == Lesser(a, end) - t.start
               c == LeftRemainder(t.start, n, a)
    <3>1. left = << c >>  BY <1>3, <2>2
    <3>2. n \in Nat /\ n >= 1 /\ n <= a - t.start /\ t.start < a
      BY <1>2, <1>3, <1>4, <2>2 DEF Lesser
    <3>3. a <= RLEMax  BY <1>0, <1>2, <1>3, <1>5, ChunkConstants, ChunkCapPositive
    <3>4. A = t.start .. t.start + n - 1
      <4> DEFINE b == t.start
      <4>1. b \in Nat /\ a \in Nat /\ end \in Nat  BY <1>2, <1>3
      <4>2. b + n = IF a <= end THEN a ELSE end
        <5>1. n = (IF a <= end THEN a ELSE end) - b  BY DEF Lesser
        <5> HIDE DEF n, b, end
        <5> QED  BY <4>1, <5>1
      <4> HIDE DEF n, end
      <4>3. A = {x \in Nat : b <= x /\ x < a /\ x < end}  OBVIOUS
      <4> HIDE DEF A, b
      <4>4. ASSUME NEW x \in Nat
            PROVE  b <= x /\ x < a /\ x < end <=> x \in b .. b + n - 1
        BY <3>2, <4>1, <4>2
      <4>5. \A x \in b .. b + n - 1 : x \in Nat  BY <3>2, <4>1
      <4>6. A = b .. b + n - 1
        <5>1. \A x : x \in A <=> x \in Nat /\ b <= x /\ x < a /\ x < end  BY <4>3
        <5> QED  BY <4>4, <4>5, <5>1
      <4> QED  BY <4>6 DEF b
    <3> HIDE DEF n, A
    <3>5. Canonical(c) /\ BitsOf(c) = t.start .. t.start + n - 1
      BY <1>2, <1>3, <3>2, <3>3, LeftRemainderHolds
    <3> HIDE DEF c, left
    <3>6. Encodes(left, A, 1 + Size(c))  BY <3>1, <3>4, <3>5, HoldsOne
    <3>7. Len(left) = 1  BY <3>1
    <3> QED  BY <3>6, <3>7 DEF Encodes
  <2> QED  BY <2>1, <2>2
<1>7. Encodes(right, C, StreamWords(right)) /\ (isSet => right = << >>)
  <2>1. CASE next < end
    <3> DEFINE n == end - next
               c == RightRemainder(next, n, EndOf(t))
    <3>1. n \in Nat /\ n >= 1 /\ n <= EndOf(t) - next /\ next < EndOf(t)
      BY <1>3, <1>5, <2>1
    <3>2. right = << c >>  BY <1>3, <2>1
    <3>3. C = next .. next + n - 1  BY <1>3, <1>5, <2>1
    <3>4. ~isSet
      BY <1>0, <1>2, <1>3, <2>1, ChunkCapPositive
    <3> HIDE DEF n, next, C
    <3>5. Canonical(c) /\ BitsOf(c) = next .. next + n - 1
      BY <1>0, <1>3, <1>5, <3>1, RightRemainderHolds
    <3> HIDE DEF c, right
    <3>6. Encodes(right, C, 1 + Size(c))  BY <3>2, <3>3, <3>5, HoldsOne
    <3> QED  BY <3>4, <3>6 DEF Encodes
  <2>2. CASE ~(next < end)
    <3>1. right = << >>  BY <2>2
    <3>2. C = {}  BY <1>3, <1>5, <2>2
    <3> HIDE DEF right, C
    <3> QED  BY <3>1, <3>2, HoldsNone, WordsNone
  <2> QED  BY <2>1, <2>2
<1>8. Encodes(<< pivot >>, B, 1 + Size(pivot)) /\ (isSet => RunLength(pivot) = 0)
  <2>1. /\ Canonical(pivot) /\ (isSet => RunLength(pivot) = 0)
        /\ \A x \in Nat : x \in BitsOf(pivot) <=>
             /\ a <= x /\ x < next
             /\ IF isSet THEN x < end \/ x = i ELSE x < end /\ x # i
    BY PivotHolds DEF a, pivot
  <2>2. BitsOf(pivot) = B
    <3>1. BitsOf(pivot) \subseteq Nat  BY DEF BitsOf
    <3> QED  BY <2>1, <3>1
  <2> QED  BY <2>1, <2>2, HoldsOne
<1>9. AfterSeparation(t, i, isSet) = (A \cup B) \cup C
  <2> HIDE DEF next
  <2>1. AfterSeparation(t, i, isSet) \subseteq Nat  BY <1>0, <1>3 DEF AfterSeparation
  <2>2. ASSUME NEW x \in Nat
        PROVE  x \in AfterSeparation(t, i, isSet) <=>
                 IF isSet THEN (t.start <= x /\ x < end) \/ x = i
                 ELSE (t.start <= x /\ x < end) /\ x # i
    BY <1>3 DEF AfterSeparation
  <2>3. a <= i /\ i < next /\ t.start <= i  BY <1>0, <1>2 DEF next
  <2>4. ASSUME NEW x \in Nat
        PROVE  x \in (A \cup B) \cup C <=>
                 IF isSet THEN (t.start <= x /\ x < end) \/ x = i
                 ELSE (t.start <= x /\ x < end) /\ x # i
    <3>1. end \in Nat  BY <1>3
    <3>2. ~isSet \/ i > end  BY <1>0
    <3> HIDE DEF end
    <3>3. CASE isSet
      <4>1. ~(next <= x /\ x < end)  BY <1>0, <1>5, <2>3, <3>1, <3>2, <3>3
      <4> QED  BY <1>0, <1>2, <1>3, <1>4, <1>5, <2>3, <3>1, <3>3, <4>1
    <3>4. CASE ~isSet
      BY <1>0, <1>2, <1>3, <1>4, <1>5, <2>3, <3>1, <3>4
    <3> QED  BY <3>3, <3>4
  <2> QED  BY <2>1, <2>2, <2>4
<1> DEFINE D == AfterSeparation(t, i, isSet)
<1> HIDE DEF left, right, A, B, C, next, end, D
<1>10. Encodes(parts, D, StreamWords(parts))
  <2>1. Encodes(lp, A \cup B, StreamWords(left) + (1 + Size(pivot)))
    BY <1>6, <1>8, HoldsConcat
  <2> DEFINE w == (StreamWords(left) + (1 + Size(pivot))) + StreamWords(right)
  <2> HIDE DEF lp
  <2>2. Encodes(lp \o right, (A \cup B) \cup C, w)  BY <1>7, <2>1, HoldsConcat
  <2> HIDE DEF w
  <2>3. Encodes(parts, D, w)  BY <1>1, <1>9, <2>2 DEF D
  <2> QED  BY <2>3 DEF Encodes
<1>11. ASSUME isSet
       PROVE  Len(parts) = 1 \/ (Len(parts) = 2 /\ RunLength(parts[2]) = 0)
  <2>1. left \in Seq(Chunks) /\ << pivot >> \in Seq(Chunks) /\ Len(<< pivot >>) = 1
        /\ << pivot >>[1] = pivot
    BY <1>6, <1>8 DEF Encodes
  <2>2. /\ Len(lp) = Len(left) + 1 /\ lp \in Seq(Chunks)
        /\ \A x \in 1 .. Len(left) + 1 :
             lp[x] = IF x <= Len(left) THEN left[x] ELSE << pivot >>[x - Len(left)]
    BY <2>1, ConcatProperties
  <2> HIDE DEF lp
  <2>3. parts = lp
    <3>1. right = << >>  BY <1>7, <1>11
    <3>2. lp \o << >> = lp  BY <2>2, ConcatEmptySeq
    <3> QED  BY <1>1, <3>1, <3>2
  <2>4. CASE left = << >>
    <3>1. Len(left) = 0  BY <2>4
    <3> QED  BY <2>2, <2>3, <3>1
  <2>5. CASE Len(left) = 1
    <3>1. Len(lp) = 2 /\ lp[2] = pivot
      <4>1. 2 \in 1 .. 1 + 1 /\ ~(2 <= 1) /\ 2 - 1 = 1  OBVIOUS
      <4>2. lp[2] = << pivot >>[2 - 1]  BY ONLY <2>2, <2>5, <4>1
      <4> QED  BY <2>1, <2>2, <2>5, <4>2
    <3> QED  BY <1>8, <1>11, <2>3, <3>1
  <2> QED  BY <1>6, <2>4, <2>5
<1> QED  BY <1>10, <1>11 DEF parts, D

----------------------------------------------------------------------------
(* The steps of __sm_map_set and __sm_map_unset.                           *)

\* m holds X, in words that fit its buffer.
Fits(m, X, L) == Keeps(m, X, L) /\ m.used <= m.cap

\* The outcome r of a call on m that is to leave the map with the indices `to':
\* it does, if it is to be exact, and it is sound either way; or the call was
\* refused and has changed nothing.
CallKeeps(r, m, to, exact, L) ==
  IF r.ok THEN (\E Y : Fits(r.map, Y, L)) /\ (exact => Fits(r.map, to, L))
  ELSE r.map = m

\* A refused call, and one that had nothing to do.
LEMMA RefusedKeeps ==
  ASSUME NEW m, NEW X, NEW exact, NEW L
  PROVE  /\ CallKeeps(Failed(m), m, X, exact, L)
         /\ Fits(m, X, L) => CallKeeps(Done(m), m, X, exact, L)
  BY DEF CallKeeps, Failed, Done

\* A call that ends with a map in which no more words are used than would fit.
LEMMA DoneKeeps ==
  ASSUME NEW m, NEW p, NEW q, NEW X, NEW exact, NEW L,
         StillKeeps(q, p, X, exact, L), p.used \in Int, p.used <= m.cap,
         q.cap = m.cap, m.cap \in Nat
  PROVE  CallKeeps(Done(q), m, X, exact, L)
<1>1. PICK Y : Keeps(q, Y, L)  BY DEF StillKeeps
<1>2. q.used \in Int /\ q.used <= p.used  BY <1>1 DEF StillKeeps, Keeps, MapOK
<1>3. q.used <= q.cap  BY <1>2
<1> QED  BY <1>1, <1>3 DEF StillKeeps, CallKeeps, Done, Fits

\* Where the chunks are when t is written over chunk j.
LEMMA RewrittenPlaces ==
  ASSUME NEW L, NEW m, MapOK(m, L), NEW j \in 1 .. Len(m.chunks),
         NEW t \in Seq(Chunks), NEW words \in Int, NEW r, r = Replace(m, j, 1, t, words)
  PROVE  /\ Len(r.chunks) = Len(m.chunks) - 1 + Len(t) /\ Len(m.chunks) \in Nat
         /\ r.used = m.used + words /\ r.cap = m.cap
         /\ j > 1 => r.chunks[j - 1] = m.chunks[j - 1]
         /\ Len(t) >= 1 => r.chunks[j] = t[1]
         /\ Len(t) = 2 => r.chunks[j + 1] = t[2]
         /\ j < Len(m.chunks) => r.chunks[j + Len(t)] = m.chunks[j + 1]
<1> DEFINE s == m.chunks
           u == Splice(s, j, 1, t)
<1>1. /\ s \in Seq(Chunks) /\ Len(s) \in Nat /\ Len(t) \in Nat
      /\ m \in [chunks : Seq(Chunks), used : Int, cap : Nat]
  BY LenProperties DEF MapOK
<1>2. r = [m EXCEPT !.chunks = u, !.used = m.used + words]  BY DEF Replace
<1>3. r = [chunks |-> u, used |-> m.used + words, cap |-> m.cap]
  <2> HIDE DEF u
  <2> QED  BY ONLY <1>1, <1>2, TwoFields
<1>4. /\ Len(u) = Len(s) - 1 + Len(t)
      /\ \A x \in 1 .. j - 1 : u[x] = s[x]
      /\ \A x \in 1 .. Len(t) : u[j - 1 + x] = t[x]
      /\ \A x \in j + 1 .. Len(s) : u[x - 1 + Len(t)] = s[x]
  <2> DEFINE S == Chunks
             k == 1
  <2>1. /\ j \in 1 .. Len(s) + 1 /\ k \in Nat /\ j + k <= Len(s) + 1
        /\ s \in Seq(S) /\ t \in Seq(S)
    BY <1>1
  <2> HIDE DEF S, k, s, u
  <2>2. /\ Splice(s, j, k, t) \in Seq(S)
        /\ Len(Splice(s, j, k, t)) = Len(s) - k + Len(t)
        /\ \A x \in 1 .. j - 1 : Splice(s, j, k, t)[x] = s[x]
        /\ \A x \in 1 .. Len(t) : Splice(s, j, k, t)[j - 1 + x] = t[x]
        /\ \A x \in j + k .. Len(s) : Splice(s, j, k, t)[x - k + Len(t)] = s[x]
    BY ONLY <2>1, SplicePlaces
  <2> QED  BY <2>2 DEF u, k
<1> HIDE DEF u
<1>5. r.chunks = u /\ r.used = m.used + words /\ r.cap = m.cap  BY <1>3
<1> HIDE DEF s
<1>6. j \in Nat /\ j >= 1 /\ j <= Len(s)  BY DEF s
<1>7. j > 1 => u[j - 1] = s[j - 1]
  <2>1. j > 1 => j - 1 \in 1 .. j - 1  BY <1>6
  <2> QED  BY <1>4, <2>1
<1>8. Len(t) >= 1 => u[j] = t[1]
  <2>1. Len(t) >= 1 => 1 \in 1 .. Len(t)  BY <1>1
  <2>2. j - 1 + 1 = j  BY <1>6
  <2> QED  BY <1>4, <2>1, <2>2
<1>9. Len(t) = 2 => u[j + 1] = t[2]
  <2>1. Len(t) = 2 => 2 \in 1 .. Len(t)  OBVIOUS
  <2>2. j - 1 + 2 = j + 1  BY <1>6
  <2> QED  BY <1>4, <2>1, <2>2
<1>10. j < Len(s) => u[j + Len(t)] = s[j + 1]
  <2>1. j < Len(s) => j + 1 \in j + 1 .. Len(s)  BY <1>1, <1>6
  <2>2. (j + 1) - 1 + Len(t) = j + Len(t)  BY <1>1, <1>6
  <2> QED  BY <1>4, <2>1, <2>2
<1> QED  BY <1>1, <1>4, <1>5, <1>7, <1>8, <1>9, <1>10 DEF s

\* t, which holds B in w words, is written over chunk j of m, and stays clear of
\* the chunk after; m fits its buffer and will still do so.
Overwrites(m, X, j, t, B, w, words, b, L) ==
  /\ Limit(L) /\ Fits(m, X, L) /\ j \in 1 .. Len(m.chunks)
  /\ w \in Int /\ Encodes(t, B, w) /\ words = w - (1 + Size(m.chunks[j]))
  /\ m.used + words <= m.cap
  /\ b \in Int /\ StreamOK(t, m.chunks[j].start, b) /\ m.chunks[j].start <= b
  /\ b <= L /\ (j < Len(m.chunks) => b <= m.chunks[j + 1].start)

\* The chunks are still in order, and chunk j begins where the code takes it to.
LEMMA OverwriteInOrder ==
  ASSUME NEW m, NEW X, NEW j, NEW t, NEW B, NEW w, NEW words, NEW b, NEW L,
         Overwrites(m, X, j, t, B, w, words, b, L)
  PROVE  /\ MapOK(Replace(m, j, 1, t, words), L)
         /\ Replace(m, j, 1, t, words).cap = m.cap
         /\ j \in 1 .. Len(Replace(m, j, 1, t, words).chunks) =>
              StartOK(Replace(m, j, 1, t, words).chunks, j, m.chunks[j].start)
<1> DEFINE r == Replace(m, j, 1, t, words)
           s == m.chunks
<1>1. /\ Limit(L) /\ MapOK(m, L) /\ j \in 1 .. Len(m.chunks) /\ words \in Int
      /\ b \in Int /\ StreamOK(t, s[j].start, b) /\ s[j].start <= b
      /\ b <= L /\ (j < Len(m.chunks) => b <= m.chunks[j + 1].start)
  BY SizeIsNat DEF Overwrites, Fits, Keeps
<1>2. /\ MapOK(r, L) /\ r.cap = m.cap
      /\ j \in 1 .. Len(r.chunks) => StartOK(r.chunks, j, s[j].start)
      /\ Len(t) >= 1 => j \in 1 .. Len(r.chunks)
  BY ONLY <1>1, ReplaceOne
<1> QED  BY <1>2

\* What a map with a chunk overwritten keeps, before and after it is coalesced.
LEMMA OverwriteKeeps ==
  ASSUME NEW m, NEW X, NEW j, NEW t, NEW B, NEW w, NEW words, NEW b, NEW L,
         Overwrites(m, X, j, t, B, w, words, b, L), NEW r, r = Replace(m, j, 1, t, words),
         NEW i \in Nat, NEW isSet, NEW to, to = (X \ BitsOf(m.chunks[j])) \cup B
  PROVE  /\ CallKeeps(Done(r), m, to, TRUE, L)
         /\ j \in 1 .. Len(r.chunks) =>
              CallKeeps(Done(Coalesce(r, j, m.chunks[j].start, i, isSet)), m, to,
                        CoalesceExact(r, j, m.chunks[j].start, i, isSet), L)
<1>0. /\ Limit(L) /\ Keeps(m, X, L) /\ m.used <= m.cap /\ j \in 1 .. Len(m.chunks)
      /\ w \in Int /\ Encodes(t, B, w) /\ words = w - (1 + Size(m.chunks[j]))
      /\ m.used + words <= m.cap
      /\ b \in Int /\ StreamOK(t, m.chunks[j].start, b) /\ m.chunks[j].start <= b
      /\ b <= L /\ (j < Len(m.chunks) => b <= m.chunks[j + 1].start)
  BY DEF Overwrites, Fits
<1> USE <1>0
<1>1. MapOK(m, L) /\ m.used \in Int /\ m.cap \in Nat /\ words \in Int
  BY SizeIsNat DEF Keeps, MapOK
<1>2. /\ MapOK(Replace(m, j, 1, t, words), L)
      /\ Replace(m, j, 1, t, words).cap = m.cap
      /\ j \in 1 .. Len(Replace(m, j, 1, t, words).chunks) =>
           StartOK(Replace(m, j, 1, t, words).chunks, j, m.chunks[j].start)
  BY OverwriteInOrder
<1>3. Rewrites(m, X, j, t, B, w, words, L)  BY <1>2 DEF Rewrites
<1>4. Keeps(r, to, L) /\ r.used = m.used + words
  <2>1. /\ Keeps(Replace(m, j, 1, t, words), (X \ BitsOf(m.chunks[j])) \cup B, L)
        /\ Replace(m, j, 1, t, words).used = m.used + words
    BY ONLY <1>3, RewriteKeeps
  <2> QED  BY <2>1
<1>5. r.used \in Int /\ r.used <= m.cap /\ r.cap = m.cap  BY <1>1, <1>2, <1>4
<1> DEFINE exact == TRUE
<1>6. CallKeeps(Done(r), m, to, exact, L)
  BY <1>4, <1>5 DEF CallKeeps, Done, Fits
<1>7. ASSUME j \in 1 .. Len(r.chunks)
      PROVE  CallKeeps(Done(Coalesce(r, j, m.chunks[j].start, i, isSet)), m, to,
                       CoalesceExact(r, j, m.chunks[j].start, i, isSet), L)
  <2> DEFINE start == m.chunks[j].start
             q == Coalesce(r, j, start, i, isSet)
             ex == CoalesceExact(r, j, start, i, isSet)
  <2>1. StartOK(r.chunks, j, start) /\ MapOK(r, L)  BY <1>2, <1>7
  <2>2. Coalesces(r, to, j, start, i, L)  BY <1>4, <1>7, <2>1 DEF Coalesces
  <2> HIDE DEF start
  <2>3. StillKeeps(q, r, to, ex, L)  BY ONLY <2>2, CoalesceKeeps
  <2>4. q.cap = r.cap  BY <1>7, <2>1, CoalesceOK
  <2> HIDE DEF q, ex
  <2>5. CallKeeps(Done(q), m, to, ex, L)
    BY <1>1, <1>5, <2>3, <2>4, DoneKeeps
  <2> QED  BY <2>5 DEF q, ex, start
<1> QED  BY <1>6, <1>7

\* t begins where the chunk it replaces did, and no run lies on the right of an
\* index that is set.
OverwritesExactly(m, X, j, t, B, w, words, b, i, isSet, to, L) ==
  /\ Overwrites(m, X, j, t, B, w, words, b, L)
  /\ i \in Nat /\ to = (X \ BitsOf(m.chunks[j])) \cup B
  /\ Len(t) >= 1 /\ t[1].start = m.chunks[j].start
  /\ isSet => i < b /\ (Len(t) = 1 \/ (Len(t) = 2 /\ RunLength(t[2]) = 0))

\* When the code is told the start that t has, and a set leaves no run on the
\* right of the index it set, the coalescing is exact.
LEMMA OverwriteIsExact ==
  ASSUME NEW m, NEW X, NEW j, NEW t, NEW B, NEW w, NEW words, NEW b, NEW L,
         NEW i, NEW isSet, NEW to,
         OverwritesExactly(m, X, j, t, B, w, words, b, i, isSet, to, L)
  PROVE  CallKeeps(Done(Coalesce(Replace(m, j, 1, t, words), j, m.chunks[j].start, i, isSet)),
                   m, to, TRUE, L)
<1> DEFINE r == Replace(m, j, 1, t, words)
           start == m.chunks[j].start
           q == Coalesce(r, j, start, i, isSet)
<1>0. /\ Limit(L) /\ Keeps(m, X, L) /\ j \in 1 .. Len(m.chunks)
      /\ w \in Int /\ Encodes(t, B, w) /\ words = w - (1 + Size(m.chunks[j]))
      /\ b \in Int
      /\ j < Len(m.chunks) => b <= m.chunks[j + 1].start
      /\ i \in Nat /\ to = (X \ BitsOf(m.chunks[j])) \cup B
      /\ Len(t) >= 1 /\ t[1].start = m.chunks[j].start
      /\ isSet => i < b /\ (Len(t) = 1 \/ (Len(t) = 2 /\ RunLength(t[2]) = 0))
      /\ Overwrites(m, X, j, t, B, w, words, b, L)
  BY DEF OverwritesExactly, Overwrites, Fits
<1>1. MapOK(m, L) /\ words \in Int /\ t \in Seq(Chunks) /\ Len(t) \in Nat
  BY <1>0, SizeIsNat, LenProperties DEF Keeps, Encodes
<1>2. /\ Len(r.chunks) = Len(m.chunks) - 1 + Len(t) /\ Len(m.chunks) \in Nat
      /\ r.chunks[j] = t[1]
      /\ Len(t) = 2 => r.chunks[j + 1] = t[2]
      /\ j < Len(m.chunks) => r.chunks[j + Len(t)] = m.chunks[j + 1]
  BY <1>0, <1>1, RewrittenPlaces, SMTT(30)
<1> HIDE DEF r
<1>3. j \in 1 .. Len(r.chunks)  BY <1>0, <1>1, <1>2
<1>4. RightExact(r, j, i, isSet)
  <2>1. CASE ~isSet  BY <2>1 DEF RightExact
  <2>2. CASE isSet /\ Len(t) = 2 /\ RunLength(t[2]) = 0
    BY <1>2, <2>2 DEF RightExact
  <2>3. CASE isSet /\ Len(t) = 1
    <3>1. ASSUME j < Len(r.chunks)  PROVE i < r.chunks[j + 1].start
      <4>1. j < Len(m.chunks)  BY <1>0, <1>2, <2>3, <3>1
      <4>2. r.chunks[j + 1] = m.chunks[j + 1] /\ i < b /\ b <= m.chunks[j + 1].start
        BY <1>0, <1>2, <2>3, <4>1
      <4>3. m.chunks[j + 1].start \in Nat
        <5>1. j + 1 \in 1 .. Len(m.chunks)  BY <1>0, <1>2, <4>1
        <5> QED  BY <1>1, <5>1, ChunkExtent DEF MapOK, StreamOK
      <4> QED  BY <1>0, <4>2, <4>3
    <3> QED  BY <3>1 DEF RightExact
  <2> QED  BY <1>0, <2>1, <2>2, <2>3
<1>5. CoalesceExact(r, j, start, i, isSet)
  BY <1>0, <1>2, <1>4 DEF CoalesceExact, LeftExact
<1>6. CallKeeps(Done(q), m, to, CoalesceExact(r, j, start, i, isSet), L)
  <2> HIDE DEF start
  <2>1. j \in 1 .. Len(r.chunks) =>
          CallKeeps(Done(Coalesce(r, j, m.chunks[j].start, i, isSet)), m, to,
                    CoalesceExact(r, j, m.chunks[j].start, i, isSet), L)
    <3>1. r = Replace(m, j, 1, t, words)  BY DEF r
    <3>2. Overwrites(m, X, j, t, B, w, words, b, L) /\ i \in Nat
          /\ to = (X \ BitsOf(m.chunks[j])) \cup B
      BY <1>0
    <3> QED  BY ONLY <3>1, <3>2, OverwriteKeeps
  <2> QED  BY <1>3, <2>1 DEF start
<1> HIDE DEF q
<1>7. CallKeeps(Done(q), m, to, TRUE, L)
  BY <1>5, <1>6 DEF CallKeeps
<1> QED  BY <1>7 DEF q, r

\* The chunk inserted for i holds i and nothing else, in the three words that
\* were asked for; it has no run, so coalescing leaves it alone.
LEMMA InsertNewKeeps ==
  ASSUME NEW m, NEW X, NEW j, NEW i, NEW start, NEW L,
         Limit(L), Fits(m, X, L), i \in Nat, i < L, HasRoom(m, 2),
         j \in 1 .. Len(m.chunks) + 1,
         \A p \in 1 .. j - 1 : EndOf(m.chunks[p]) <= i,
         \A p \in j .. Len(m.chunks) : i < m.chunks[p].start
  PROVE  CallKeeps(InsertNew(m, j, i, start), m, X \cup {i}, TRUE, L)
<1> DEFINE a == AlignedOffset(i)
           fresh == SetBit(ZerosChunk(a), i - a)
           t == << fresh >>
           w == 3
           r == Replace(m, j, 0, t, w)
           q == Coalesce(r, j, start, i, TRUE)
           B == {i}
           to == X \cup B
<1>1. /\ MapOK(m, L) /\ m.used \in Int /\ m.cap \in Nat /\ m.chunks \in Seq(Chunks)
      /\ Len(m.chunks) \in Nat /\ Keeps(m, X, L)
      /\ m \in [chunks : Seq(Chunks), used : Int, cap : Nat]
  BY LenProperties DEF Fits, Keeps, MapOK
<1>2. a \in Nat /\ Boundary(a) /\ a <= i /\ i < a + ChunkCap  BY AlignedOffsetBounds
<1>3. InsertNew(m, j, i, start) =
        IF m.chunks # << >> /\ ~HasRoom(m, 3) THEN Failed(m) ELSE Done(q)
  BY DEF InsertNew
<1>4. CallOK(InsertNew(m, j, i, start), m, L)
  BY <1>1, InsertNewOK
<1> HIDE DEF a
<1>5. i - a \in 0 .. ChunkCap - 1  BY <1>2, ChunkCapPositive
<1>6. /\ SparseOK(fresh) /\ fresh.start = a /\ ProperWords(fresh)
      /\ RunLength(fresh) = 0 /\ Len(fresh.data) = 1
      /\ \A k \in 0 .. ChunkCap - 1 : IsSet(fresh, k) <=> k = i - a
  <2>1. /\ SparseOK(ZerosChunk(a)) /\ ZerosChunk(a).start = a
        /\ ProperWords(ZerosChunk(a))
        /\ \A k \in 0 .. ChunkCap - 1 : ~IsSet(ZerosChunk(a), k)
    BY <1>2, PlainChunksOK, PlainChunksBits
  <2>2. SparseOK(fresh) /\ fresh.start = a  BY <1>5, <2>1, SetBitOK
  <2>3. /\ ProperWords(fresh)
        /\ \A k \in 0 .. ChunkCap - 1 : IsSet(fresh, k) <=> k = i - a
    BY <1>5, <2>1, SetBitSets
  <2>4. RunLength(fresh) = 0  BY <1>5, OneBitNoRun
  <2>5. Len(fresh.data) = 1  BY <1>2, <1>5, OneBitOneWord
  <2> QED  BY <2>2, <2>3, <2>4, <2>5
<1> HIDE DEF fresh
<1>7. Canonical(fresh)
  <2>1. IsSet(fresh, i - a)  BY <1>5, <1>6
  <2> QED  BY <1>5, <1>6, <2>1, SparseIsCanonical
<1>8. BitsOf(fresh) = B
  <2>1. ASSUME NEW x \in Nat  PROVE x \in BitsOf(fresh) <=> x = i
    <3>1. x \in BitsOf(fresh) <=> x - a \in 0 .. ChunkCap - 1 /\ IsSet(fresh, x - a)
      BY <1>6, HeldSparse
    <3>2. x \in BitsOf(fresh) <=> x - a \in 0 .. ChunkCap - 1 /\ x - a = i - a
      BY <1>6, <3>1
    <3> QED  BY <1>2, <1>5, <3>2
  <2>2. BitsOf(fresh) \subseteq Nat  BY DEF BitsOf
  <2> QED  BY <2>1, <2>2
<1>9. Encodes(t, B, w)
  <2>1. Encodes(<< fresh >>, BitsOf(fresh), 1 + Size(fresh))  BY <1>7, HoldsOne
  <2>2. 1 + Size(fresh) = w
    <3>1. Size(fresh) = 1 + Len(fresh.data)  BY <1>6, SparseSize
    <3> QED  BY <1>6, <3>1
  <2> HIDE DEF w, B
  <2> QED  BY <1>8, <2>1, <2>2
<1>10. r.chunks[j] = fresh
  <2> DEFINE u == Splice(m.chunks, j, 0, t)
  <2>1. t \in Seq(Chunks) /\ Len(t) = 1 /\ t[1] = fresh
    <3>1. fresh \in Chunks  BY <1>7 DEF Canonical, ChunkOK
    <3> QED  BY <3>1
  <2> HIDE DEF t
  <2>2. \A x \in 1 .. Len(t) : u[j - 1 + x] = t[x]
    <3> DEFINE S == Chunks
               s == m.chunks
               k == 0
    <3>1. /\ j + k <= Len(s) + 1 /\ k \in Nat /\ j \in 1 .. Len(s) + 1
          /\ s \in Seq(S) /\ t \in Seq(S)
      BY <1>1, <2>1
    <3> HIDE DEF S, k, s, u
    <3>2. /\ Splice(s, j, k, t) \in Seq(S)
          /\ Len(Splice(s, j, k, t)) = Len(s) - k + Len(t)
          /\ \A x \in 1 .. j - 1 : Splice(s, j, k, t)[x] = s[x]
          /\ \A x \in 1 .. Len(t) : Splice(s, j, k, t)[j - 1 + x] = t[x]
          /\ \A x \in j + k .. Len(s) : Splice(s, j, k, t)[x - k + Len(t)] = s[x]
      BY ONLY <3>1, SplicePlaces
    <3> QED  BY <3>2 DEF u, k, s
  <2>3. u[j] = fresh
    <3>1. 1 \in 1 .. Len(t) /\ j - 1 + 1 = j  BY <1>1, <2>1
    <3> HIDE DEF u
    <3> QED  BY <2>1, <2>2, <3>1
  <2>4. r.chunks = u
    <3> HIDE DEF u
    <3>1. r = [m EXCEPT !.chunks = u, !.used = m.used + w]  BY DEF Replace, u
    <3> QED  BY <1>1, <3>1
  <2> QED  BY <2>3, <2>4
<1> HIDE DEF t, w, B
<1>11. ASSUME ~(m.chunks # << >> /\ ~HasRoom(m, 3))
       PROVE  Fits(r, to, L) /\ InsertNew(m, j, i, start) = Done(r)
  <2> HIDE DEF r
  <2>1. q = r
    <3>1. RunLength(r.chunks[j]) = 0  BY <1>6, <1>10
    <3> QED  BY ONLY <3>1 DEF Coalesce
  <2>2. InsertNew(m, j, i, start) = Done(r)  BY <1>3, <1>11, <2>1
  <2>3. MapOK(r, L) /\ r.cap = m.cap  BY <1>4, <2>2 DEF CallOK, Done
  <2>4. Inserts(m, X, j, t, B, w, L)
    BY <1>1, <1>9, <2>3 DEF Inserts, r, w
  <2>5. Keeps(r, to, L) /\ r.used = m.used + w
    <3>1. /\ Keeps(Replace(m, j, 0, t, w), X \cup B, L)
          /\ Replace(m, j, 0, t, w).used = m.used + w
      BY ONLY <2>4, InsertKeeps
    <3> QED  BY <3>1 DEF r
  <2>6. m.used + 3 <= m.cap
    <3>1. CASE HasRoom(m, 3)  BY <1>1, <3>1 DEF HasRoom, HeaderWords
    <3>2. CASE ~HasRoom(m, 3)
      BY <1>1 DEF HasRoom, HeaderWords
    <3> QED  BY <3>1, <3>2
  <2>7. r.used <= r.cap  BY <2>3, <2>5, <2>6 DEF w
  <2> QED  BY <2>2, <2>5, <2>7 DEF Fits
<1> HIDE DEF r, q, to
<1>12. CallKeeps(InsertNew(m, j, i, start), m, to, TRUE, L)
  <2>1. CASE m.chunks # << >> /\ ~HasRoom(m, 3)
    BY <1>3, <2>1, RefusedKeeps
  <2>2. CASE ~(m.chunks # << >> /\ ~HasRoom(m, 3))
    BY <1>11, <2>2, RefusedKeeps DEF CallKeeps, Done
  <2> QED  BY <2>1, <2>2
<1> QED  BY <1>12 DEF to, B

\* Chunk j holds a run up to i, and may go on as a run with i that ends by b.
GoesOn(m, X, j, len, cap, i, b, L) ==
  /\ Limit(L) /\ Fits(m, X, L) /\ j \in 1 .. Len(m.chunks) /\ i \in Nat
  /\ b \in Int /\ b <= L
  /\ ChunkOK(RLEChunk(m.chunks[j].start, len, cap))
  /\ RLEChunk(m.chunks[j].start, len, cap).len = len
  /\ EndOf(RLEChunk(m.chunks[j].start, len, cap)) <= b
  /\ j < Len(m.chunks) => b <= m.chunks[j + 1].start
  /\ Size(m.chunks[j]) = 1 /\ m.chunks[j].start <= i
  /\ len = i - m.chunks[j].start + 1
  /\ BitsOf(m.chunks[j]) = m.chunks[j].start .. i - 1

\* It does so in the same words.
LEMMA SetRunKeeps ==
  ASSUME NEW m, NEW X, NEW j, NEW len, NEW cap, NEW i, NEW b, NEW L,
         GoesOn(m, X, j, len, cap, i, b, L)
  PROVE  CallKeeps(SetRun(m, j, len, cap, i), m, X \cup {i}, TRUE, L)
<1> DEFINE s == m.chunks
           run == RLEChunk(s[j].start, len, cap)
           t == << run >>
           words == 0
           w == 2
           B == BitsOf(run)
           isSet == TRUE
           to == X \cup {i}
<1>0. /\ Limit(L) /\ Fits(m, X, L) /\ j \in 1 .. Len(m.chunks) /\ i \in Nat
      /\ b \in Int /\ b <= L
      /\ ChunkOK(RLEChunk(m.chunks[j].start, len, cap))
      /\ RLEChunk(m.chunks[j].start, len, cap).len = len
      /\ EndOf(RLEChunk(m.chunks[j].start, len, cap)) <= b
      /\ (j < Len(m.chunks) => b <= m.chunks[j + 1].start)
      /\ Size(m.chunks[j]) = 1 /\ m.chunks[j].start <= i
      /\ len = i - m.chunks[j].start + 1
      /\ BitsOf(m.chunks[j]) = m.chunks[j].start .. i - 1
  BY DEF GoesOn
<1> USE <1>0
<1>1. /\ Keeps(m, X, L) /\ MapOK(m, L) /\ m.used \in Int /\ m.used <= m.cap
      /\ BitsOf(s[j]) \subseteq X /\ ChunkOK(s[j]) /\ s[j].start \in Nat
  BY HeldIsKept, ChunkExtent DEF Fits
<1>2. run.start = s[j].start /\ IsRLE(run)  BY DEF RLEChunk, IsRLE
<1>3. SetRun(m, j, len, cap, i) =
        Done(Coalesce(Replace(m, j, 1, t, words), j, m.chunks[j].start, i, isSet))
  BY DEF SetRun
<1> HIDE DEF run
<1>4. /\ Canonical(run) /\ Size(run) = 1
      /\ B = s[j].start .. i /\ i < EndOf(run)
  <2>1. /\ Canonical(run) /\ Size(run) = 1 /\ run.len = len
        /\ BitsOf(run) = run.start .. run.start + run.len - 1
        /\ run.len <= run.cap /\ run.cap \in Nat /\ EndOf(run) = run.start + run.cap
    BY <1>2, RunFields DEF run
  <2>2. run.start + run.len - 1 = i  BY <1>1, <1>2, <2>1
  <2>5. run.start \in Nat /\ run.len \in Int  BY <1>1, <1>2, <2>1
  <2>3. i < EndOf(run)  BY ONLY <2>1, <2>2, <2>5
  <2>4. B = s[j].start .. i
    <3>1. BitsOf(run) = run.start .. run.start + run.len - 1  BY <2>1
    <3> HIDE DEF s
    <3> QED  BY ONLY <1>2, <2>2, <3>1 DEF B
  <2> HIDE DEF B, s
  <2> QED  BY ONLY <2>1, <2>3, <2>4
<1>5. StreamOK(t, m.chunks[j].start, b) /\ s[j].start <= b /\ i < b
  <2>1. EndOf(run) \in Nat /\ run.start + ChunkCap <= EndOf(run) /\ ChunkOK(run)
        /\ EndOf(run) <= b
    BY <1>4, ChunkExtent DEF Canonical, run
  <2>2. StreamOK(t, s[j].start, b)  BY <1>1, <1>2, <2>1, OneChunkStream
  <2> QED  BY <1>1, <1>2, <1>4, <2>1, <2>2, ChunkCapPositive
<1>6. Encodes(t, B, w)
  <2>1. Encodes(<< run >>, BitsOf(run), 1 + Size(run))  BY <1>4, HoldsOne
  <2>2. 1 + Size(run) = w  BY <1>4
  <2> HIDE DEF w
  <2> QED  BY <2>1, <2>2
<1>7. to = (X \ BitsOf(s[j])) \cup B
  <2>1. B = BitsOf(s[j]) \cup {i}
    <3> HIDE DEF s, B
    <3>1. BitsOf(s[j]) = s[j].start .. i - 1  BY DEF s
    <3>2. s[j].start <= i  BY DEF s
    <3> QED  BY <1>1, <1>4, <3>1, <3>2
  <2> HIDE DEF s, B
  <2> QED  BY <1>1, <2>1
<1>8. /\ w \in Int /\ words = w - (1 + Size(m.chunks[j])) /\ m.used + words <= m.cap
  BY <1>1
<1>9. Len(t) = 1 /\ t[1].start = m.chunks[j].start /\ Len(t) >= 1  BY <1>2
<1> HIDE DEF t, B, w, words, to, isSet
<1>10. Overwrites(m, X, j, t, B, w, words, b, L)
  BY <1>5, <1>6, <1>8 DEF Overwrites
<1>11. OverwritesExactly(m, X, j, t, B, w, words, b, i, isSet, to, L)
  BY <1>5, <1>7, <1>9, <1>10 DEF OverwritesExactly
<1>12. CallKeeps(SetRun(m, j, len, cap, i), m, to, TRUE, L)
  <2>1. CallKeeps(Done(Coalesce(Replace(m, j, 1, t, words), j, m.chunks[j].start, i, isSet)),
                  m, to, TRUE, L)
    BY ONLY <1>11, OverwriteIsExact
  <2> QED  BY <1>3, <2>1
<1> QED  BY <1>12 DEF to

\* What lies after a chunk, and what a part of the set that lies in its span is.
LEMMA ChunkInPlace ==
  ASSUME NEW m, NEW X, NEW j, NEW L, Limit(L), Fits(m, X, L), j \in 1 .. Len(m.chunks)
  PROVE  /\ Keeps(m, X, L) /\ MapOK(m, L) /\ m.used \in Int /\ m.cap \in Nat
         /\ m.used <= m.cap /\ Len(m.chunks) \in Nat
         /\ ChunkOK(m.chunks[j]) /\ Canonical(m.chunks[j]) /\ BitsOf(m.chunks[j]) \subseteq X
         /\ m.chunks[j].start \in Nat /\ EndOf(m.chunks[j]) \in Nat
         /\ m.chunks[j].start <= EndOf(m.chunks[j]) /\ EndOf(m.chunks[j]) <= L
         /\ EndOf(m.chunks[j]) <= RLEMax
         /\ j < Len(m.chunks) => EndOf(m.chunks[j]) <= m.chunks[j + 1].start
         /\ \A x \in Nat : m.chunks[j].start <= x /\ x < EndOf(m.chunks[j]) =>
              (x \in X <=> x \in BitsOf(m.chunks[j]))
<1> DEFINE s == m.chunks
           c == s[j]
<1>1. /\ Keeps(m, X, L) /\ MapOK(m, L) /\ m.used \in Int /\ m.cap \in Nat
      /\ m.used <= m.cap /\ Len(s) \in Nat
      /\ ChunkOK(c) /\ Canonical(c) /\ BitsOf(c) \subseteq X
  BY HeldIsKept DEF Fits, MapOK
<1>2. /\ c.start \in Nat /\ EndOf(c) \in Nat /\ c.start <= EndOf(c)
  BY <1>1, ChunkExtent, ChunkCapPositive
<1>3. StreamOK(s, 0, L) /\ Bits(s) = X /\ L <= RLEMax /\ L \in Nat
  BY <1>1 DEF MapOK, Keeps, Encodes, Limit
<1>4. EndOf(c) <= L /\ EndOf(c) <= RLEMax
  <2>1. EndOf(c) <= L  BY <1>3 DEF StreamOK
  <2>2. RLEMax \in Nat  BY ChunkConstants
  <2> HIDE DEF c
  <2> QED  BY <1>2, <1>3, <2>1, <2>2
<1>5. j < Len(s) => EndOf(c) <= s[j + 1].start
  <2>1. j < Len(s) => j + 1 \in 1 .. Len(s) /\ j < j + 1  BY <1>1
  <2> QED  BY <1>3, <2>1 DEF StreamOK
<1>6. ASSUME NEW x \in Nat, c.start <= x, x < EndOf(c), x \in X  PROVE x \in BitsOf(c)
  <2>1. PICK p \in 1 .. Len(s) : x \in BitsOf(s[p])  BY <1>3, <1>6 DEF Bits
  <2>2. s[p].start <= x /\ x < EndOf(s[p])  BY <2>1 DEF BitsOf
  <2>3. s[p].start \in Nat /\ EndOf(s[p]) \in Nat  BY <1>3, ChunkExtent DEF StreamOK
  <2>4. ~(p < j)
    <3>1. ASSUME p < j  PROVE FALSE
      <4>1. EndOf(s[p]) <= c.start  BY <1>3, <3>1 DEF StreamOK
      <4> HIDE DEF c
      <4> QED  BY <1>2, <1>6, <2>2, <2>3, <4>1
    <3> QED  BY <3>1
  <2>5. ~(j < p)
    <3>1. ASSUME j < p  PROVE FALSE
      <4>1. EndOf(c) <= s[p].start  BY <1>3, <3>1 DEF StreamOK
      <4> HIDE DEF c
      <4> QED  BY <1>2, <1>6, <2>2, <2>3, <4>1
    <3> QED  BY <3>1
  <2>6. p = j  BY <1>1, <2>4, <2>5
  <2> QED  BY <2>1, <2>6
<1>7. ASSUME NEW x \in Nat, c.start <= x, x < EndOf(c)  PROVE x \in X <=> x \in BitsOf(c)
  BY <1>1, <1>6, <1>7
<1> QED  BY <1>1, <1>2, <1>4, <1>5, <1>7

\* A separation is exact, on its own and followed by the coalescing of a set.
LEMMA SeparateKeeps ==
  ASSUME NEW m, NEW X, NEW j, NEW i, NEW isSet, NEW L,
         Limit(L), Fits(m, X, L), j \in 1 .. Len(m.chunks),
         Separates(m.chunks[j], i, isSet)
  PROVE  /\ ~isSet => CallKeeps(Separate(m, j, i, isSet), m, X \ {i}, TRUE, L)
         /\ isSet => CallKeeps(SetPastRun(m, j, i), m, X \cup {i}, TRUE, L)
<1> DEFINE c == m.chunks[j]
           t == Separated(c, i, isSet)
           w == StreamWords(t)
           words == w - 2
           B == AfterSeparation(c, i, isSet)
           b == EndOf(c)
           to == IF isSet THEN X \cup {i} ELSE X \ {i}
           r == Replace(m, j, 1, t, words)
           q == Coalesce(r, j, m.chunks[j].start, i, isSet)
<1>0. /\ ChunkOK(c) /\ IsRLE(c) /\ EndOf(c) <= RLEMax
      /\ i \in Nat /\ c.start <= i /\ i < EndOf(c) /\ isSet \in BOOLEAN
      /\ isSet => i > c.start + c.len
      /\ ~isSet => i + 1 < c.start + c.len
  BY DEF Separates
<1>1. /\ Keeps(m, X, L) /\ MapOK(m, L) /\ m.used \in Int /\ m.cap \in Nat
      /\ m.used <= m.cap /\ Len(m.chunks) \in Nat
      /\ BitsOf(c) \subseteq X /\ c.start \in Nat /\ b \in Nat /\ c.start <= b /\ b <= L
      /\ j < Len(m.chunks) => b <= m.chunks[j + 1].start
  BY ChunkInPlace
<1>2. /\ Size(c) = 1 /\ c.len \in Nat /\ BitsOf(c) = c.start .. c.start + c.len - 1
  <2> HIDE DEF c
  <2> QED  BY <1>0, RunFields
<1>3. /\ Encodes(t, B, w)
      /\ isSet => Len(t) = 1 \/ (Len(t) = 2 /\ RunLength(t[2]) = 0)
  BY SeparatedHolds
<1>4. StreamOK(t, c.start, b) /\ Len(t) >= 1 /\ t[1].start = c.start
  <2>1. isSet \/ i < c.start + c.len
    <3>1. ASSUME ~isSet  PROVE i < c.start + c.len
      <4>1. i + 1 < c.start + c.len  BY <1>0, <3>1
      <4> HIDE DEF c
      <4> QED  BY <1>0, <1>1, <1>2, <4>1
    <3> QED  BY <3>1
  <2> HIDE DEF c, t
  <2> QED  BY <1>0, <2>1, SeparatedOK DEF t
<1>5. to = (X \ BitsOf(c)) \cup B
  <2>1. CASE isSet
    <3>1. B = BitsOf(c) \cup {i}  BY <2>1 DEF AfterSeparation
    <3> HIDE DEF c, B
    <3> QED  BY <1>1, <2>1, <3>1
  <2>2. CASE ~isSet
    <3>1. B = BitsOf(c) \ {i}  BY <2>2 DEF AfterSeparation
    <3>2. i \in BitsOf(c)
      <4> HIDE DEF c
      <4> QED  BY <1>0, <1>1, <1>2, <2>2
    <3> HIDE DEF c, B
    <3> QED  BY <1>1, <2>2, <3>1, <3>2
  <2> QED  BY <2>1, <2>2
<1>6. w \in Int
  <2>1. w \in Nat  BY <1>3, StreamWordsIsNat DEF Encodes
  <2> QED  BY <2>1
<1>7. /\ Separate(m, j, i, isSet) = IF HasRoom(m, words) THEN Done(r) ELSE Failed(m)
      /\ isSet => SetPastRun(m, j, i) = IF HasRoom(m, words) THEN Done(q) ELSE Failed(m)
  <2>1. Separate(m, j, i, isSet) = IF HasRoom(m, words) THEN Done(r) ELSE Failed(m)
    BY DEF Separate, SeparateInto
  <2>2. ASSUME isSet
        PROVE  SetPastRun(m, j, i) =
                 LET sep == Separate(m, j, i, isSet)
                 IN IF sep.ok
                    THEN Done(Coalesce(sep.map, j, m.chunks[j].start, i, isSet))
                    ELSE Failed(m)
    <3>1. isSet = TRUE  BY <1>0, <2>2
    <3> HIDE DEF t, c, r
    <3> QED  BY <3>1 DEF SetPastRun
  <2> HIDE DEF t, c, words, r
  <2> QED  BY <2>1, <2>2 DEF Done, Failed
<1> HIDE DEF t, w, B
<1>8. CASE HasRoom(m, words)
  <2>1. m.used + words <= m.cap
    <3>1. m.used + words + 1 <= m.cap /\ words \in Int
      BY <1>6, <1>8 DEF HasRoom, HeaderWords
    <3> HIDE DEF words
    <3> QED  BY <1>1, <3>1
  <2>2. words = w - (1 + Size(m.chunks[j]))  BY <1>2, <1>6
  <2>3. b \in Int  BY <1>1
  <2> HIDE DEF words, b
  <2>4. Overwrites(m, X, j, t, B, w, words, b, L)
    BY <1>1, <1>3, <1>4, <1>6, <2>1, <2>2, <2>3 DEF Overwrites
  <2>5. CallKeeps(Done(r), m, to, TRUE, L)
    <3>1. r = Replace(m, j, 1, t, words) /\ to = (X \ BitsOf(m.chunks[j])) \cup B /\ i \in Nat
      BY <1>0, <1>5
    <3> HIDE DEF r, to
    <3> QED  BY ONLY <2>4, <3>1, OverwriteKeeps
  <2>6. ASSUME isSet  PROVE CallKeeps(Done(q), m, to, TRUE, L)
    <3>1. i < b  BY <1>0 DEF b
    <3>2. OverwritesExactly(m, X, j, t, B, w, words, b, i, isSet, to, L)
      BY <1>0, <1>3, <1>4, <1>5, <2>4, <3>1 DEF OverwritesExactly
    <3> HIDE DEF to
    <3>3. CallKeeps(Done(Coalesce(Replace(m, j, 1, t, words), j, m.chunks[j].start, i, isSet)),
                    m, to, TRUE, L)
      BY ONLY <3>2, OverwriteIsExact
    <3> QED  BY <3>3
  <2>7. ASSUME isSet  PROVE CallKeeps(SetPastRun(m, j, i), m, X \cup {i}, TRUE, L)
    <3>1. SetPastRun(m, j, i) = Done(q)  BY <1>7, <1>8, <2>7
    <3> HIDE DEF q
    <3> QED  BY <2>6, <2>7, <3>1
  <2>8. ASSUME ~isSet  PROVE CallKeeps(Separate(m, j, i, isSet), m, X \ {i}, TRUE, L)
    <3>1. Separate(m, j, i, isSet) = Done(r)  BY <1>7, <1>8
    <3> HIDE DEF r
    <3> QED  BY <2>5, <2>8, <3>1
  <2> QED  BY <2>7, <2>8
<1>9. CASE ~HasRoom(m, words)
  <2>1. isSet => SetPastRun(m, j, i) = Failed(m)  BY <1>7, <1>9
  <2>2. Separate(m, j, i, isSet) = Failed(m)  BY <1>7, <1>9
  <2> QED  BY <2>1, <2>2, RefusedKeeps
<1> QED  BY <1>8, <1>9

----------------------------------------------------------------------------
(* A set and an unset in a sparse chunk.                                   *)

\* A sparse chunk with the bit of i set holds i besides, in a word more at most.
LEMMA SetBitHolds ==
  ASSUME NEW c, SparseOK(c), ProperWords(c), NEW i \in Nat,
         i - c.start \in 0 .. ChunkCap - 1, NEW d, d = SetBit(c, i - c.start)
  PROVE  /\ SparseOK(d) /\ d.start = c.start /\ EndOf(d) = EndOf(c) /\ Canonical(d)
         /\ BitsOf(d) = BitsOf(c) \cup {i}
         /\ Len(d.data) \in Nat /\ Len(d.data) <= Len(c.data) + 1
<1> DEFINE k == i - c.start
<1>1. k \in 0 .. ChunkCap - 1 /\ d = SetBit(c, k)  OBVIOUS
<1>2. c.start \in Nat /\ EndOf(c) = c.start + ChunkCap  BY HeldSparse
<1> HIDE DEF k
<1>3. SparseOK(d) /\ d.start = c.start  BY <1>1, SetBitOK
<1>4. /\ \A x \in 0 .. ChunkCap - 1 : IsSet(d, x) <=> x = k \/ IsSet(c, x)
      /\ ProperWords(d)
  BY <1>1, SetBitSets
<1>5. Len(d.data) \in Nat /\ Len(d.data) <= Len(c.data) + 1
  <2>1. d \in {SetBit(c, k), ClrBit(c, k)}  BY <1>1
  <2> QED  BY <1>1, <2>1, OneWordMore
<1>6. Canonical(d)
  <2>1. IsSet(d, k)  BY <1>1, <1>4
  <2> QED  BY <1>1, <1>3, <1>4, <2>1, SparseIsCanonical
<1>7. EndOf(d) = EndOf(c)  BY <1>2, <1>3, HeldSparse
<1>8. ASSUME NEW x \in Nat  PROVE x \in BitsOf(d) <=> x \in BitsOf(c) \cup {i}
  <2>1. x \in BitsOf(d) <=> x - c.start \in 0 .. ChunkCap - 1 /\ IsSet(d, x - c.start)
    BY <1>3, HeldSparse
  <2>2. x \in BitsOf(c) <=> x - c.start \in 0 .. ChunkCap - 1 /\ IsSet(c, x - c.start)
    BY HeldSparse
  <2>3. x - c.start = k <=> x = i  BY <1>2 DEF k
  <2> QED  BY <1>1, <1>4, <2>1, <2>2, <2>3
<1>9. BitsOf(d) \subseteq Nat /\ BitsOf(c) \cup {i} \subseteq Nat  BY DEF BitsOf
<1>10. BitsOf(d) = BitsOf(c) \cup {i}  BY <1>8, <1>9
<1> QED  BY <1>3, <1>5, <1>6, <1>7, <1>10

\* A chunk that keeps a bit when one is cleared stays canonical.
LEMMA ClearedIsCanonical ==
  ASSUME NEW c, SparseOK(c), ProperWords(c), NEW k \in 0 .. ChunkCap - 1,
         NEW d, d = ClrBit(c, k), BitsOf(d) # {}
  PROVE  Canonical(d)
<1>1. SparseOK(d)  BY ClrBitOK
<1>2. ProperWords(d)  BY ClrBitClears
<1>3. ChunkOK(d)  BY <1>1, SparseIsOK
<1> QED  BY <1>2, <1>3 DEF Canonical

\* It is empty when none of its window is set.
LEMMA ClearedIsEmpty ==
  ASSUME NEW c, SparseOK(c), ProperWords(c), NEW k \in 0 .. ChunkCap - 1,
         NEW d, d = ClrBit(c, k)
  PROVE  IsEmptyChunk(d) <=> BitsOf(d) = {}
<1>1. SparseOK(d)  BY ClrBitOK
<1>2. ProperWords(d)  BY ClrBitClears
<1>3. IsEmptyChunk(d) <=> \A x \in 0 .. ChunkCap - 1 : ~IsSet(d, x)
  BY ONLY <1>1, <1>2, EmptyHoldsNothing
<1>4. d.start \in Nat
      /\ \A x \in Nat : x \in BitsOf(d) <=>
           x - d.start \in 0 .. ChunkCap - 1 /\ IsSet(d, x - d.start)
  BY ONLY <1>1, HeldSparse
<1>5. BitsOf(d) = {} <=> \A x \in 0 .. ChunkCap - 1 : ~IsSet(d, x)
  <2>1. ASSUME BitsOf(d) = {}, NEW x \in 0 .. ChunkCap - 1  PROVE ~IsSet(d, x)
    <3>1. d.start + x \in Nat /\ (d.start + x) - d.start = x  BY <1>4, ChunkCapPositive
    <3> QED  BY <1>4, <2>1, <3>1
  <2>2. ASSUME \A x \in 0 .. ChunkCap - 1 : ~IsSet(d, x)  PROVE BitsOf(d) = {}
    <3>1. BitsOf(d) \subseteq Nat  BY DEF BitsOf
    <3> QED  BY <1>4, <2>2, <3>1
  <2> QED  BY <2>1, <2>2
<1> QED  BY ONLY <1>3, <1>5

\* With the bit cleared it holds the others.
LEMMA ClrBitHolds ==
  ASSUME NEW c, SparseOK(c), ProperWords(c), NEW i \in Nat,
         i - c.start \in 0 .. ChunkCap - 1, NEW d, d = ClrBit(c, i - c.start)
  PROVE  /\ SparseOK(d) /\ d.start = c.start /\ EndOf(d) = EndOf(c)
         /\ BitsOf(d) = BitsOf(c) \ {i}
         /\ Len(d.data) \in Nat /\ Len(d.data) <= Len(c.data) + 1
<1> DEFINE k == i - c.start
<1>1. k \in 0 .. ChunkCap - 1 /\ d = ClrBit(c, k)  OBVIOUS
<1>2. c.start \in Nat /\ EndOf(c) = c.start + ChunkCap  BY HeldSparse
<1> HIDE DEF k
<1>3. SparseOK(d) /\ d.start = c.start  BY <1>1, ClrBitOK
<1>4. \A x \in 0 .. ChunkCap - 1 : IsSet(d, x) <=> x # k /\ IsSet(c, x)
  BY <1>1, ClrBitClears
<1>5. Len(d.data) \in Nat /\ Len(d.data) <= Len(c.data) + 1
  <2>1. d \in {SetBit(c, k), ClrBit(c, k)}  BY <1>1
  <2> QED  BY <1>1, <2>1, OneWordMore
<1>6. /\ EndOf(d) = EndOf(c) /\ ChunkOK(d) /\ ~IsRLE(d)
      /\ \A x \in Nat : x \in BitsOf(d) <=>
           x - c.start \in 0 .. ChunkCap - 1 /\ IsSet(d, x - c.start)
  BY <1>2, <1>3, HeldSparse
<1>8. ASSUME NEW x \in Nat  PROVE x \in BitsOf(d) <=> x \in BitsOf(c) \ {i}
  <2>1. x \in BitsOf(d) <=> x - c.start \in 0 .. ChunkCap - 1 /\ IsSet(d, x - c.start)
    BY <1>6
  <2>2. x \in BitsOf(c) <=> x - c.start \in 0 .. ChunkCap - 1 /\ IsSet(c, x - c.start)
    BY HeldSparse
  <2>3. x - c.start = k <=> x = i  BY <1>2 DEF k
  <2> QED  BY <1>1, <1>4, <2>1, <2>2, <2>3
<1>9. BitsOf(d) \subseteq Nat /\ BitsOf(c) \ {i} \subseteq Nat  BY DEF BitsOf
<1>10. BitsOf(d) = BitsOf(c) \ {i}  BY <1>8, <1>9
<1> QED  BY <1>3, <1>5, <1>6, <1>10

\* i lies in the window of the sparse chunk j of m.
InWindow(m, X, j, i, L) ==
  /\ Limit(L) /\ Fits(m, X, L) /\ j \in 1 .. Len(m.chunks)
  /\ ~IsRLE(m.chunks[j]) /\ i \in Nat
  /\ m.chunks[j].start <= i /\ i < EndOf(m.chunks[j])

\* What such an i and such a chunk are to each other.
LEMMA WindowFacts ==
  ASSUME NEW m, NEW X, NEW j, NEW i, NEW L, InWindow(m, X, j, i, L)
  PROVE  /\ SparseOK(m.chunks[j]) /\ ProperWords(m.chunks[j])
         /\ i - m.chunks[j].start \in 0 .. ChunkCap - 1
         /\ Size(m.chunks[j]) = 1 + Len(m.chunks[j].data)
         /\ Len(m.chunks[j].data) \in Nat
         /\ i \in X <=> i \in BitsOf(m.chunks[j])
         /\ i \in BitsOf(m.chunks[j]) <=> IsSet(m.chunks[j], i - m.chunks[j].start)
<1> DEFINE c == m.chunks[j]
<1>0. /\ Limit(L) /\ Fits(m, X, L) /\ j \in 1 .. Len(m.chunks)
      /\ ~IsRLE(c) /\ i \in Nat /\ c.start <= i /\ i < EndOf(c)
  BY DEF InWindow
<1>1. Canonical(c) /\ (i \in X <=> i \in BitsOf(c))  BY <1>0, ChunkInPlace
<1> HIDE DEF c
<1>2. SparseOK(c) /\ ProperWords(c)  BY <1>0, <1>1, CanonicalNotEmpty
<1>3. c.start \in Nat /\ EndOf(c) = c.start + ChunkCap  BY <1>2, HeldSparse
<1>4. i - c.start \in 0 .. ChunkCap - 1  BY <1>0, <1>3, ChunkCapPositive
<1>5. i \in BitsOf(c) <=> IsSet(c, i - c.start)  BY <1>0, <1>2, <1>4, HeldSparse
<1>6. Size(c) = 1 + Len(c.data) /\ Len(c.data) \in Nat  BY <1>2, SparseSize
<1> QED  BY <1>1, <1>2, <1>4, <1>5, <1>6 DEF c

\* A canonical sparse chunk of the same window is written over chunk j.
LEMMA WindowOverwritten ==
  ASSUME NEW m, NEW X, NEW j, NEW i, NEW L, InWindow(m, X, j, i, L), NEW d,
         Canonical(d), SparseOK(d), d.start = m.chunks[j].start,
         EndOf(d) = EndOf(m.chunks[j]),
         m.used + (Len(d.data) - Len(m.chunks[j].data)) <= m.cap
  PROVE  Overwrites(m, X, j, << d >>, BitsOf(d), 1 + Size(d),
                    Len(d.data) - Len(m.chunks[j].data), EndOf(m.chunks[j]), L)
<1> DEFINE c == m.chunks[j]
           t == << d >>
           w == 1 + Size(d)
           words == Len(d.data) - Len(c.data)
           B == BitsOf(d)
           b == EndOf(c)
<1>0. Limit(L) /\ Fits(m, X, L) /\ j \in 1 .. Len(m.chunks)
  BY DEF InWindow
<1>1. /\ c.start \in Nat /\ b \in Nat /\ c.start <= b /\ b <= L
      /\ j < Len(m.chunks) => b <= m.chunks[j + 1].start
  BY <1>0, ChunkInPlace
<1>2. Size(c) = 1 + Len(c.data) /\ Len(c.data) \in Nat  BY WindowFacts
<1>3. Size(d) = 1 + Len(d.data) /\ Len(d.data) \in Nat  BY SparseSize
<1>4. w \in Int /\ words = w - (1 + Size(m.chunks[j])) /\ m.used + words <= m.cap
  <2>1. w = 2 + Len(d.data) /\ 1 + Size(c) = 2 + Len(c.data)  BY <1>2, <1>3
  <2>2. w \in Int /\ words = w - (1 + Size(c))  BY <1>2, <1>3, <2>1
  <2>3. m.used + words <= m.cap  OBVIOUS
  <2> QED  BY <2>2, <2>3
<1>5. Encodes(t, B, w)  BY HoldsOne
<1>6. StreamOK(t, m.chunks[j].start, b)
  <2>1. ChunkOK(d) /\ EndOf(d) <= b  BY <1>1, HeldSparse
  <2>2. StreamOK(<< d >>, m.chunks[j].start, b)  BY <1>1, <2>1, OneChunkStream
  <2> QED  BY <2>2
<1>7. b \in Int  BY <1>1
<1> HIDE DEF t, w, words, B, b
<1>8. Overwrites(m, X, j, t, B, w, words, b, L)
  BY <1>0, <1>1, <1>4, <1>5, <1>6, <1>7 DEF Overwrites
<1> QED  BY <1>8 DEF t, w, words, B, b

\* A set in a sparse chunk adds i, in the word that was asked for on entry.
LEMMA SetInPlaceKeeps ==
  ASSUME NEW m, NEW X, NEW j, NEW i, NEW L, InWindow(m, X, j, i, L), HasRoom(m, 2)
  PROVE  CallKeeps(SetInPlace(m, j, i), m, X \cup {i}, TRUE, L)
<1> DEFINE c == m.chunks[j]
           d == SetBit(c, i - c.start)
           t == << d >>
           w == 1 + Size(d)
           words == Len(d.data) - Len(c.data)
           B == BitsOf(d)
           b == EndOf(c)
           isSet == TRUE
           to == X \cup {i}
<1>0. /\ Limit(L) /\ Fits(m, X, L) /\ j \in 1 .. Len(m.chunks)
      /\ i \in Nat /\ i < b
  BY DEF InWindow
<1>1. m.used \in Int /\ m.cap \in Nat /\ BitsOf(c) \subseteq X
  BY <1>0, ChunkInPlace
<1>2. /\ SparseOK(c) /\ ProperWords(c) /\ i - c.start \in 0 .. ChunkCap - 1
      /\ Len(c.data) \in Nat
  BY WindowFacts
<1>3. SetInPlace(m, j, i) =
        Done(Coalesce(Replace(m, j, 1, t, words), j, m.chunks[j].start, i, isSet))
  BY DEF SetInPlace
<1>4. /\ SparseOK(d) /\ d.start = c.start /\ EndOf(d) = EndOf(c) /\ Canonical(d)
      /\ B = BitsOf(c) \cup {i}
      /\ Len(d.data) \in Nat /\ Len(d.data) <= Len(c.data) + 1
  <2> HIDE DEF c
  <2> QED  BY <1>0, <1>2, SetBitHolds
<1> HIDE DEF d
<1>5. m.used + words <= m.cap
  <2>1. m.used + 2 + 1 <= m.cap  BY DEF HasRoom, HeaderWords
  <2>2. words \in Int /\ words <= 1  BY <1>2, <1>4
  <2> HIDE DEF words
  <2> QED  BY <1>1, <2>1, <2>2
<1>6. Overwrites(m, X, j, t, B, w, words, b, L)  BY <1>4, <1>5, WindowOverwritten
<1>7. to = (X \ BitsOf(m.chunks[j])) \cup B
  <2> HIDE DEF B, c
  <2>1. to = (X \ BitsOf(c)) \cup B  BY <1>1, <1>4
  <2> QED  BY <2>1 DEF c
<1>8. Len(t) = 1 /\ Len(t) >= 1 /\ t[1].start = m.chunks[j].start  BY <1>4
<1> HIDE DEF t, w, words, B, b, isSet, to
<1>9. OverwritesExactly(m, X, j, t, B, w, words, b, i, isSet, to, L)
  BY <1>0, <1>6, <1>7, <1>8 DEF OverwritesExactly
<1>10. CallKeeps(SetInPlace(m, j, i), m, to, TRUE, L)
  <2>1. CallKeeps(Done(Coalesce(Replace(m, j, 1, t, words), j, m.chunks[j].start, i, isSet)),
                  m, to, TRUE, L)
    BY ONLY <1>9, OverwriteIsExact
  <2> QED  BY <1>3, <2>1
<1> QED  BY <1>10 DEF to

----------------------------------------------------------------------------
(* __sm_map_set.                                                           *)

\* The last chunk, full up to i, becomes a run with i, as long as its window
\* allows.
LEMMA LongerRunKeeps ==
  ASSUME NEW m, NEW X, NEW j, NEW i, NEW len, NEW L,
         Limit(L), Fits(m, X, L), j = Len(m.chunks), j \in 1 .. Len(m.chunks),
         i \in Nat, i < L, m.chunks[j].start <= i, len = i - m.chunks[j].start + 1,
         Size(m.chunks[j]) = 1, BitsOf(m.chunks[j]) = m.chunks[j].start .. i - 1
  PROVE  CallKeeps(SetRun(m, j, len, RunCapacity(m.chunks, j, m.chunks[j].start, len), i),
                   m, X \cup {i}, TRUE, L)
<1> DEFINE s == m.chunks
           start == s[j].start
           cap == RunCapacity(s, j, start, len)
           hi == AlignedOffset(i) + ChunkCap
<1>1. StreamOK(s, 0, L) /\ Len(s) \in Nat /\ L \in Nat /\ Boundary(L)
  BY LenProperties DEF Fits, Keeps, MapOK, StreamOK, Limit
<1>2. start \in Nat /\ Boundary(start)  BY <1>1, ChunkExtent DEF StreamOK
<1>3. /\ AlignedOffset(i) \in Nat /\ Boundary(AlignedOffset(i))
      /\ AlignedOffset(i) <= i /\ i < hi
  BY AlignedOffsetBounds
<1>4. hi \in Nat /\ Boundary(hi)  BY <1>3, BoundarySum, BoundaryZero, ChunkCapPositive
<1>5. hi <= L  BY <1>1, <1>3, BoundaryGap
<1> HIDE DEF hi
<1>6. len \in Nat /\ len >= 1 /\ start + len <= hi
  BY <1>2, <1>3, <1>4, SMTT(30)
<1>7. /\ ChunkOK(RLEChunk(start, len, cap)) /\ EndOf(RLEChunk(start, len, cap)) <= hi
      /\ RLEChunk(start, len, cap).len = len
  <2>1. /\ j \in Nat /\ j >= 1 /\ (j < Len(s) => hi <= s[j + 1].start)
        /\ Limit(L) /\ StreamOK(s, 0, L)
    BY <1>1
  <2>2. start \in Nat /\ Boundary(start)  BY <1>2
  <2> HIDE DEF s, start, cap
  <2>3. /\ ChunkOK(RLEChunk(start, len, RunCapacity(s, j, start, len)))
        /\ IsRLE(RLEChunk(start, len, RunCapacity(s, j, start, len)))
        /\ RunLength(RLEChunk(start, len, RunCapacity(s, j, start, len))) = len
        /\ EndOf(RLEChunk(start, len, RunCapacity(s, j, start, len))) <= hi
    BY ONLY <1>4, <1>5, <1>6, <2>1, <2>2, RunCapacityIs
  <2> QED  BY <2>3 DEF cap, RunLength
<1> HIDE DEF cap
<1>8. CallKeeps(SetRun(m, j, len, cap, i), m, X \cup {i}, TRUE, L)
  <2>1. hi \in Int /\ (j < Len(m.chunks) => hi <= m.chunks[j + 1].start)
    BY <1>1, <1>4
  <2>2. GoesOn(m, X, j, len, cap, i, hi, L)
    BY <1>5, <1>7, <2>1 DEF GoesOn
  <2> QED  BY ONLY <2>2, SetRunKeeps
<1> QED  BY <1>8 DEF cap

\* A set of an index that is set leaves the set as it is, whatever it coalesces.
LEMMA CoalesceInPlace ==
  ASSUME NEW m, NEW X, NEW j, NEW i, NEW isSet, NEW L,
         Limit(L), Fits(m, X, L), j \in 1 .. Len(m.chunks), i \in Nat,
         isSet => i < EndOf(m.chunks[j])
  PROVE  CallKeeps(Done(Coalesce(m, j, m.chunks[j].start, i, isSet)), m, X, TRUE, L)
<1> DEFINE start == m.chunks[j].start
           q == Coalesce(m, j, start, i, isSet)
           ex == CoalesceExact(m, j, start, i, isSet)
<1>1. /\ Keeps(m, X, L) /\ MapOK(m, L) /\ m.used \in Int /\ m.cap \in Nat
      /\ m.used <= m.cap /\ Len(m.chunks) \in Nat /\ EndOf(m.chunks[j]) \in Nat
      /\ j < Len(m.chunks) => EndOf(m.chunks[j]) <= m.chunks[j + 1].start
  BY ChunkInPlace
<1>2. StartOK(m.chunks, j, start)
  <2>1. StreamOK(m.chunks, 0, L)  BY <1>1 DEF MapOK
  <2> QED  BY <2>1, OwnStart
<1>3. ex
  <2>1. ASSUME isSet, j < Len(m.chunks)  PROVE i < m.chunks[j + 1].start
    <3>1. i < EndOf(m.chunks[j]) /\ EndOf(m.chunks[j]) <= m.chunks[j + 1].start
      BY <1>1, <2>1
    <3>2. m.chunks[j + 1].start \in Nat
      <4>1. j + 1 \in 1 .. Len(m.chunks)  BY <1>1, <2>1
      <4> QED  BY <1>1, <4>1, ChunkExtent DEF MapOK, StreamOK
    <3> QED  BY <1>1, <3>1, <3>2
  <2> QED  BY <2>1 DEF CoalesceExact, LeftExact, RightExact
<1>4. Coalesces(m, X, j, start, i, L)  BY <1>1, <1>2 DEF Coalesces
<1>5. q.cap = m.cap  BY <1>1, <1>2, CoalesceOK
<1> HIDE DEF start
<1>6. StillKeeps(q, m, X, ex, L)  BY ONLY <1>4, CoalesceKeeps
<1> HIDE DEF q, ex
<1>7. CallKeeps(Done(q), m, X, ex, L)
  BY <1>1, <1>5, <1>6, DoneKeeps
<1>8. CallKeeps(Done(q), m, X, TRUE, L)  BY <1>3, <1>7 DEF CallKeeps
<1> QED  BY <1>8 DEF q, start

\* Locate gave chunk j of m, in which there is room, for i.
Located(m, X, j, i, L) ==
  /\ Limit(L) /\ Fits(m, X, L) /\ HasRoom(m, 2) /\ i \in Nat /\ i < L
  /\ j \in 1 .. Len(m.chunks)
  /\ \A p \in 1 .. j - 1 : EndOf(m.chunks[p]) <= i
  /\ j < Len(m.chunks) => i < EndOf(m.chunks[j])

\* The numbers of the chunk that was located, in one place.
LEMMA LocatedChunk ==
  ASSUME NEW m, NEW X, NEW j, NEW i, NEW L, Located(m, X, j, i, L)
  PROVE  /\ ChunkOK(m.chunks[j]) /\ BitsOf(m.chunks[j]) \subseteq X
         /\ Canonical(m.chunks[j]) /\ Len(m.chunks) \in Nat
         /\ m.chunks[j].start \in Nat /\ EndOf(m.chunks[j]) \in Nat
         /\ EndOf(m.chunks[j]) <= L /\ EndOf(m.chunks[j]) <= RLEMax
         /\ m.chunks[j].start <= EndOf(m.chunks[j])
         /\ Capacity(m.chunks[j]) \in Nat
         /\ EndOf(m.chunks[j]) = m.chunks[j].start + Capacity(m.chunks[j])
         /\ ~IsRLE(m.chunks[j]) => Capacity(m.chunks[j]) = ChunkCap
         /\ j < Len(m.chunks) =>
              /\ EndOf(m.chunks[j]) <= m.chunks[j + 1].start
              /\ i < EndOf(m.chunks[j])
<1> DEFINE c == m.chunks[j]
<1>1. /\ Limit(L) /\ Fits(m, X, L) /\ j \in 1 .. Len(m.chunks)
      /\ j < Len(m.chunks) => i < EndOf(c)
  BY DEF Located
<1>2. /\ ChunkOK(c) /\ BitsOf(c) \subseteq X /\ Canonical(c) /\ Len(m.chunks) \in Nat
      /\ c.start \in Nat /\ EndOf(c) \in Nat /\ c.start <= EndOf(c)
      /\ EndOf(c) <= L /\ EndOf(c) <= RLEMax
      /\ j < Len(m.chunks) => EndOf(c) <= m.chunks[j + 1].start
  BY <1>1, ChunkInPlace
<1>3. Capacity(c) \in Nat /\ EndOf(c) = c.start + Capacity(c)
  BY <1>2, RunLengthBounds DEF EndOf
<1>4. ~IsRLE(c) => Capacity(c) = ChunkCap  BY <1>2, SparseCapacity
<1> QED  BY <1>1, <1>2, <1>3, <1>4

\* i lies past every chunk, or before chunk j.
LEMMA InsertKeepsAt ==
  ASSUME NEW m, NEW X, NEW j, NEW i, NEW L, Located(m, X, j, i, L), NEW start
  PROVE  /\ i < m.chunks[j].start =>
              CallKeeps(InsertNew(m, j, i, start), m, X \cup {i}, TRUE, L)
         /\ EndOf(m.chunks[j]) <= i =>
              CallKeeps(InsertNew(m, j + 1, i, start), m, X \cup {i}, TRUE, L)
<1> DEFINE s == m.chunks
           c == s[j]
<1>0. /\ Limit(L) /\ Fits(m, X, L) /\ HasRoom(m, 2) /\ i \in Nat /\ i < L
      /\ j \in 1 .. Len(s)
      /\ \A p \in 1 .. j - 1 : EndOf(s[p]) <= i
  BY DEF Located
<1>1. /\ c.start \in Nat /\ EndOf(c) \in Nat /\ Len(s) \in Nat /\ c.start <= EndOf(c)
      /\ j < Len(s) => i < EndOf(c)
  BY LocatedChunk
<1>2. StreamOK(s, 0, L)  BY <1>0 DEF Fits, Keeps, MapOK
<1>3. ASSUME i < c.start
      PROVE  CallKeeps(InsertNew(m, j, i, start), m, X \cup {i}, TRUE, L)
  <2>1. ASSUME NEW p \in j .. Len(s)  PROVE i < s[p].start
    <3>1. CASE p = j  BY <1>3, <3>1
    <3>2. CASE p # j
      <4>1. p \in 1 .. Len(s) /\ j < p  BY <1>0, <1>1, <3>2
      <4>2. EndOf(c) <= s[p].start /\ s[p].start \in Nat
        BY <1>0, <1>2, <4>1, ChunkExtent DEF StreamOK
      <4> HIDE DEF c
      <4> QED  BY <1>0, <1>1, <1>3, <4>2
    <3> QED  BY <3>1, <3>2
  <2>2. /\ j \in 1 .. Len(m.chunks) + 1
        /\ \A p \in 1 .. j - 1 : EndOf(m.chunks[p]) <= i
        /\ \A p \in j .. Len(m.chunks) : i < m.chunks[p].start
    BY <1>0, <1>1, <2>1
  <2> QED  BY ONLY <1>0, <2>2, InsertNewKeeps
<1>4. ASSUME EndOf(c) <= i
      PROVE  CallKeeps(InsertNew(m, j + 1, i, start), m, X \cup {i}, TRUE, L)
  <2> DEFINE place == j + 1
  <2>1. j = Len(s)
    <3>1. ~(i < EndOf(c))  BY <1>0, <1>1, <1>4
    <3> QED  BY <1>0, <1>1, <3>1
  <2>2. /\ place \in 1 .. Len(m.chunks) + 1
        /\ \A p \in 1 .. place - 1 : EndOf(m.chunks[p]) <= i
        /\ \A p \in place .. Len(m.chunks) : i < m.chunks[p].start
    BY <1>0, <1>1, <1>4, <2>1
  <2> HIDE DEF place
  <2>3. CallKeeps(InsertNew(m, place, i, start), m, X \cup {i}, TRUE, L)
    BY ONLY <1>0, <2>2, InsertNewKeeps
  <2> QED  BY <2>3 DEF place
<1> QED  BY <1>3, <1>4

\* i is the first index that a full last chunk does not answer for.
LEMMA PastFullKeeps ==
  ASSUME NEW m, NEW X, NEW j, NEW i, NEW L, Located(m, X, j, i, L),
         NEW len, len = i - m.chunks[j].start + 1,
         EndOf(m.chunks[j]) = i, Size(m.chunks[j]) = 1,
         BitsOf(m.chunks[j]) = m.chunks[j].start .. i - 1
  PROVE  CallKeeps(SetRun(m, j, len, RunCapacity(m.chunks, j, m.chunks[j].start, len), i),
                   m, X \cup {i}, TRUE, L)
<1> DEFINE c == m.chunks[j]
<1>0. /\ Limit(L) /\ Fits(m, X, L) /\ i \in Nat /\ i < L /\ j \in 1 .. Len(m.chunks)
  BY DEF Located
<1>1. /\ c.start \in Nat /\ EndOf(c) \in Nat /\ Len(m.chunks) \in Nat /\ c.start <= EndOf(c)
      /\ (j < Len(m.chunks) => i < EndOf(c))
  BY LocatedChunk
<1>2. EndOf(c) = i  OBVIOUS
<1>3. j = Len(m.chunks)
  <2>1. ~(i < EndOf(c))  BY <1>0, <1>1, <1>2
  <2> QED  BY <1>0, <1>1, <2>1
<1>4. /\ Limit(L) /\ Fits(m, X, L) /\ j = Len(m.chunks) /\ j \in 1 .. Len(m.chunks)
      /\ i \in Nat /\ i < L /\ m.chunks[j].start <= i /\ len = i - m.chunks[j].start + 1
      /\ Size(m.chunks[j]) = 1 /\ BitsOf(m.chunks[j]) = m.chunks[j].start .. i - 1
  BY <1>0, <1>1, <1>2, <1>3
<1> QED  BY ONLY <1>4, LongerRunKeeps

\* i is the index after a run that has capacity left.
LEMMA NextOfRunKeeps ==
  ASSUME NEW m, NEW X, NEW j, NEW i, NEW L, Located(m, X, j, i, L),
         NEW len, len = i - m.chunks[j].start + 1, IsRLE(m.chunks[j]),
         i - m.chunks[j].start = m.chunks[j].len,
         m.chunks[j].len < m.chunks[j].cap
  PROVE  CallKeeps(SetRun(m, j, len, m.chunks[j].cap, i), m, X \cup {i}, TRUE, L)
<1> DEFINE c == m.chunks[j]
           cap == c.cap
           b == EndOf(c)
           start == c.start
<1>0. /\ Limit(L) /\ Fits(m, X, L) /\ i \in Nat /\ i < L /\ j \in 1 .. Len(m.chunks)
  BY DEF Located
<1>1. /\ Len(m.chunks) \in Nat /\ ChunkOK(c) /\ EndOf(c) <= L
      /\ (j < Len(m.chunks) => EndOf(c) <= m.chunks[j + 1].start)
  BY LocatedChunk
<1>2. /\ start \in Nat /\ Boundary(start) /\ c.len \in Nat /\ c.len >= 1
      /\ cap \in Nat /\ Boundary(cap) /\ cap <= RLEMax
      /\ b = start + cap /\ b \in Nat /\ Size(c) = 1
      /\ BitsOf(c) = start .. start + c.len - 1
  BY <1>1, RunFields
<1>3. IsRLE(c) /\ i - start = c.len /\ c.len < cap /\ len = i - start + 1  OBVIOUS
<1> HIDE DEF c, start, cap, b
<1>4. len \in 1 .. cap /\ start <= i
  <2>1. /\ i \in Nat /\ start \in Nat /\ c.len \in Nat /\ cap \in Nat
        /\ i - start = c.len /\ c.len < cap /\ len = i - start + 1
    BY <1>0, <1>2, <1>3
  <2> QED  BY ONLY <2>1
<1>5. BitsOf(c) = start .. i - 1
  <2>1. start + c.len - 1 = i - 1  BY <1>0, <1>2, <1>3
  <2> QED  BY <1>2, <2>1
<1>6. /\ ChunkOK(RLEChunk(start, len, cap))
      /\ RLEChunk(start, len, cap) =
           [kind |-> "rle", start |-> start, len |-> len, cap |-> cap]
  BY <1>2, <1>4, RLEChunkOK
<1>7. EndOf(RLEChunk(start, len, cap)) <= b /\ RLEChunk(start, len, cap).len = len
  <2>1. EndOf(RLEChunk(start, len, cap)) = start + cap /\ RLEChunk(start, len, cap).len = len
    BY <1>6 DEF EndOf, Capacity, IsRLE
  <2> QED  BY <1>2, <2>1
<1>8. /\ ChunkOK(RLEChunk(m.chunks[j].start, len, cap))
      /\ RLEChunk(m.chunks[j].start, len, cap).len = len
      /\ EndOf(RLEChunk(m.chunks[j].start, len, cap)) <= b
      /\ BitsOf(m.chunks[j]) = m.chunks[j].start .. i - 1
      /\ Size(m.chunks[j]) = 1 /\ m.chunks[j].start <= i
      /\ len = i - m.chunks[j].start + 1
  BY <1>2, <1>3, <1>4, <1>5, <1>6, <1>7 DEF c, start
<1>9. b \in Int /\ b <= L /\ (j < Len(m.chunks) => b <= m.chunks[j + 1].start)
  BY <1>1, <1>2 DEF b
<1>10. GoesOn(m, X, j, len, cap, i, b, L)
  BY <1>0, <1>8, <1>9 DEF GoesOn
<1>11. CallKeeps(SetRun(m, j, len, cap, i), m, X \cup {i}, TRUE, L)
  BY ONLY <1>10, SetRunKeeps
<1> QED  BY <1>11 DEF cap, c

\* i is not before the chunk that was located.
LEMMA SetFromKeeps ==
  ASSUME NEW m, NEW X, NEW j, NEW i, NEW L, Located(m, X, j, i, L),
         m.chunks[j].start <= i
  PROVE  CallKeeps(SetFrom(m, j, i), m, X \cup {i}, TRUE, L)
<1> DEFINE s == m.chunks
           c == s[j]
           at == i - c.start
           len == at + 1
           to == X \cup {i}
           longer == SetRun(m, j, len, RunCapacity(s, j, c.start, len), i)
           onward == SetRun(m, j, len, c.cap, i)
           inRun == Done(Coalesce(m, j, c.start, i, TRUE))
           past == SetPastRun(m, j, i)
           after == InsertNew(m, j + 1, i, AlignedOffset(i))
           place == SetInPlace(m, j, i)
           r == SetFrom(m, j, i)
<1>0. /\ Limit(L) /\ Fits(m, X, L) /\ HasRoom(m, 2) /\ i \in Nat /\ i < L
      /\ j \in 1 .. Len(s) /\ c.start <= i
  BY DEF Located
<1>1. /\ ChunkOK(c) /\ BitsOf(c) \subseteq X /\ Canonical(c) /\ Len(s) \in Nat
      /\ c.start \in Nat /\ EndOf(c) \in Nat /\ EndOf(c) <= RLEMax
      /\ Capacity(c) \in Nat /\ EndOf(c) = c.start + Capacity(c)
      /\ ~IsRLE(c) => Capacity(c) = ChunkCap
  BY LocatedChunk
<1>2. r = IF AllOnes(c) /\ at = ChunkCap THEN longer
          ELSE IF IsRLE(c) /\ at <= c.cap /\ at < c.len THEN inRun
          ELSE IF IsRLE(c) /\ at <= c.cap /\ at = c.len
               THEN SetRun(m, j, len,
                           IF c.len = c.cap THEN RunCapacity(s, j, c.start, len)
                           ELSE c.cap, i)
          ELSE IF IsRLE(c) /\ at < c.cap THEN past
          ELSE IF at >= Capacity(c) THEN after
          ELSE place
  BY DEF SetFrom
<1>3. at \in Nat /\ len = i - m.chunks[j].start + 1 /\ c.start + at = i
  <2>1. len = i - m.chunks[j].start + 1  OBVIOUS
  <2> HIDE DEF c
  <2>2. at \in Nat /\ c.start + at = i  BY <1>0, <1>1
  <2> QED  BY <2>1, <2>2
<1>4. IsRLE(c) => /\ c.len \in Nat /\ c.len >= 1 /\ c.cap \in Nat /\ c.len <= c.cap
                  /\ Capacity(c) = c.cap /\ RunLength(c) = c.len
                  /\ BitsOf(c) = c.start .. c.start + c.len - 1
  <2> HIDE DEF c
  <2> QED  BY <1>1, RunFields DEF Capacity, RunLength
<1> HIDE DEF r
<1>5. CASE AllOnes(c) /\ at = ChunkCap
  <2>1. ~IsRLE(c) /\ SparseOK(c)  BY <1>1, <1>5, SparseIsOK DEF AllOnes
  <2>2. EndOf(c) = i  BY <1>1, <1>3, <1>5, <2>1
  <2>3. Size(c) = 1 /\ BitsOf(c) = c.start .. i - 1
    <3> HIDE DEF c
    <3>1. Size(c) = 1 /\ \A k \in 0 .. ChunkCap - 1 : IsSet(c, k)
      BY <1>5, <2>1, AllOnesBits
    <3>2. ASSUME NEW x \in Nat  PROVE x \in BitsOf(c) <=> x \in c.start .. i - 1
      <4>1. x \in BitsOf(c) <=> x - c.start \in 0 .. ChunkCap - 1 /\ IsSet(c, x - c.start)
        BY <2>1, HeldSparse
      <4>2. x \in BitsOf(c) <=> x - c.start \in 0 .. ChunkCap - 1  BY <3>1, <4>1
      <4>3. i - c.start = ChunkCap  BY <1>5 DEF at
      <4>4. i \in Nat /\ c.start \in Nat  BY <1>0, <1>1
      <4> DEFINE b == c.start
      <4>5. x - b \in 0 .. ChunkCap - 1 <=> x \in b .. i - 1
        <5>1. i - b = ChunkCap /\ i \in Nat /\ b \in Nat  BY <4>3, <4>4
        <5> HIDE DEF b
        <5> QED  BY ONLY <5>1, x \in Nat
      <4> QED  BY ONLY <4>2, <4>5
    <3>3. BitsOf(c) \subseteq Nat /\ c.start .. i - 1 \subseteq Nat
      BY <1>1 DEF BitsOf
    <3> QED  BY <3>1, <3>2, <3>3
  <2>4. CallKeeps(longer, m, to, TRUE, L)
    <3> HIDE DEF len
    <3>1. /\ Located(m, X, j, i, L) /\ len = i - m.chunks[j].start + 1
          /\ EndOf(m.chunks[j]) = i /\ Size(m.chunks[j]) = 1
          /\ BitsOf(m.chunks[j]) = m.chunks[j].start .. i - 1
      BY <1>3, <2>2, <2>3
    <3>2. CallKeeps(SetRun(m, j, len, RunCapacity(m.chunks, j, m.chunks[j].start, len), i),
                    m, X \cup {i}, TRUE, L)
      BY ONLY <3>1, PastFullKeeps
    <3> QED  BY <3>2
  <2>5. r = longer  BY <1>2, <1>5
  <2> HIDE DEF longer, to
  <2> QED  BY <2>4, <2>5 DEF r, to
<1>6. CASE ~(AllOnes(c) /\ at = ChunkCap) /\ IsRLE(c) /\ at <= c.cap /\ at < c.len
  <2>1. i \in BitsOf(c)
    <3> HIDE DEF c
    <3>1. c.start \in Nat /\ c.len \in Nat /\ i \in Nat /\ c.start <= i
      BY <1>0, <1>1, <1>4, <1>6
    <3>2. i < c.start + c.len  BY <1>6, <3>1
    <3>3. i \in c.start .. c.start + c.len - 1  BY ONLY <3>1, <3>2
    <3>4. BitsOf(c) = c.start .. c.start + c.len - 1  BY <1>4, <1>6
    <3> QED  BY ONLY <3>3, <3>4
  <2>2. to = X
    <3> HIDE DEF c
    <3> QED  BY <1>1, <2>1
  <2>3. i < EndOf(c)
    <3> HIDE DEF c, at
    <3> QED  BY <1>1, <1>3, <1>4, <1>6
  <2> DEFINE isSet == TRUE
  <2>4. /\ Limit(L) /\ Fits(m, X, L) /\ j \in 1 .. Len(m.chunks) /\ i \in Nat
        /\ isSet => i < EndOf(m.chunks[j])
    BY <1>0, <2>3
  <2>5. inRun = Done(Coalesce(m, j, m.chunks[j].start, i, isSet))  OBVIOUS
  <2> HIDE DEF isSet, inRun
  <2>6. CallKeeps(Done(Coalesce(m, j, m.chunks[j].start, i, isSet)), m, X, TRUE, L)
    BY ONLY <2>4, CoalesceInPlace
  <2>7. r = inRun  BY <1>2, <1>6
  <2> HIDE DEF to
  <2>8. CallKeeps(r, m, to, TRUE, L)  BY ONLY <2>2, <2>5, <2>6, <2>7
  <2> QED  BY <2>8 DEF r, to
<1>7. CASE ~(AllOnes(c) /\ at = ChunkCap) /\ IsRLE(c) /\ at <= c.cap /\ at = c.len
  <2>0. ~(at < c.len)
    <3> HIDE DEF c, at
    <3> QED  BY <1>3, <1>7
  <2>1. CASE c.len = c.cap
    <3>1. r = longer
      <4> HIDE DEF c, s, at
      <4> QED  BY <1>2, <1>7, <2>0, <2>1
    <3>2. EndOf(c) = i /\ Size(c) = 1 /\ BitsOf(c) = c.start .. i - 1
      <4> HIDE DEF c, at
      <4>1. EndOf(c) = i /\ c.start + c.len - 1 = i - 1
        BY <1>1, <1>3, <1>4, <1>7, <2>1
      <4> QED  BY <1>4, <1>7, <4>1 DEF Size
    <3>3. CallKeeps(longer, m, to, TRUE, L)
      <4> HIDE DEF len
      <4>1. /\ Located(m, X, j, i, L) /\ len = i - m.chunks[j].start + 1
            /\ EndOf(m.chunks[j]) = i /\ Size(m.chunks[j]) = 1
            /\ BitsOf(m.chunks[j]) = m.chunks[j].start .. i - 1
        BY <1>3, <3>2
      <4>2. CallKeeps(SetRun(m, j, len, RunCapacity(m.chunks, j, m.chunks[j].start, len), i),
                      m, X \cup {i}, TRUE, L)
        BY ONLY <4>1, PastFullKeeps
      <4> QED  BY <4>2
    <3> HIDE DEF longer, to
    <3> QED  BY <3>1, <3>3 DEF r, to
  <2>2. CASE c.len # c.cap
    <3>1. r = onward
      <4> HIDE DEF c, s, at
      <4> QED  BY <1>2, <1>7, <2>0, <2>2
    <3>2. c.len < c.cap /\ i - c.start = c.len
      <4>1. c.len < c.cap
        <5> HIDE DEF c, at
        <5> QED  BY <1>4, <1>7, <2>2
      <4> QED  BY <1>7, <4>1
    <3>3. CallKeeps(onward, m, to, TRUE, L)
      <4> HIDE DEF len
      <4>1. /\ Located(m, X, j, i, L) /\ len = i - m.chunks[j].start + 1
            /\ IsRLE(m.chunks[j]) /\ i - m.chunks[j].start = m.chunks[j].len
            /\ m.chunks[j].len < m.chunks[j].cap
        BY <1>3, <1>7, <3>2
      <4>2. CallKeeps(SetRun(m, j, len, m.chunks[j].cap, i), m, X \cup {i}, TRUE, L)
        BY ONLY <4>1, NextOfRunKeeps
      <4> QED  BY <4>2
    <3> HIDE DEF onward, to
    <3> QED  BY <3>1, <3>3 DEF r, to
  <2> QED  BY <2>1, <2>2
<1>8. CASE /\ ~(AllOnes(c) /\ at = ChunkCap) /\ IsRLE(c)
           /\ ~(at <= c.cap /\ at < c.len) /\ ~(at <= c.cap /\ at = c.len)
           /\ at < c.cap
  <2>1. r = past
    <3> HIDE DEF c, s, at
    <3> QED  BY <1>2, <1>8
  <2> DEFINE isSet == TRUE
  <2>2. Separates(m.chunks[j], i, isSet)
    <3>1. i < EndOf(c) /\ i > c.start + c.len
      <4> HIDE DEF c, at
      <4> QED  BY <1>0, <1>1, <1>3, <1>4, <1>8, SMTT(30)
    <3> QED  BY <1>0, <1>1, <1>8, <3>1 DEF Separates
  <2>3. isSet  OBVIOUS
  <2> HIDE DEF isSet
  <2>4. isSet => CallKeeps(SetPastRun(m, j, i), m, X \cup {i}, TRUE, L)
    BY ONLY <1>0, <2>2, SeparateKeeps
  <2> QED  BY <2>1, <2>3, <2>4 DEF r
<1>9. CASE /\ ~(AllOnes(c) /\ at = ChunkCap)
           /\ ~(IsRLE(c) /\ at <= c.cap /\ at < c.len)
           /\ ~(IsRLE(c) /\ at <= c.cap /\ at = c.len)
           /\ ~(IsRLE(c) /\ at < c.cap) /\ at >= Capacity(c)
  <2>1. r = after
    <3> HIDE DEF c, s, at
    <3> QED  BY <1>2, <1>9
  <2>2. EndOf(m.chunks[j]) <= i
    <3>1. EndOf(c) <= i
      <4> HIDE DEF c, at
      <4> QED  BY <1>0, <1>1, <1>3, <1>9
    <3> QED  BY <3>1
  <2> DEFINE start == AlignedOffset(i)
  <2> HIDE DEF start
  <2>3. CallKeeps(InsertNew(m, j + 1, i, start), m, X \cup {i}, TRUE, L)
    BY <2>2, InsertKeepsAt
  <2> QED  BY <2>1, <2>3 DEF r, start
<1>10. CASE /\ ~(AllOnes(c) /\ at = ChunkCap)
            /\ ~(IsRLE(c) /\ at <= c.cap /\ at < c.len)
            /\ ~(IsRLE(c) /\ at <= c.cap /\ at = c.len)
            /\ ~(IsRLE(c) /\ at < c.cap) /\ ~(at >= Capacity(c))
  <2>1. r = place
    <3> HIDE DEF c, s, at
    <3> QED  BY <1>2, <1>10
  <2>2. ~IsRLE(c) /\ i < EndOf(c)
    <3> HIDE DEF c, at
    <3>1. ASSUME IsRLE(c)  PROVE FALSE  BY <1>3, <1>4, <1>10, <3>1
    <3> QED  BY <1>0, <1>1, <1>3, <1>10, <3>1
  <2>3. InWindow(m, X, j, i, L)  BY <1>0, <2>2 DEF InWindow
  <2>4. CallKeeps(SetInPlace(m, j, i), m, X \cup {i}, TRUE, L)
    BY ONLY <1>0, <2>3, SetInPlaceKeeps
  <2> QED  BY <2>1, <2>4 DEF r
<1> HIDE DEF c, at
<1> QED  BY <1>5, <1>6, <1>7, <1>8, <1>9, <1>10

\* __sm_map_set adds the one index and loses no other, or changes nothing.
LEMMA MapSetKeeps ==
  ASSUME NEW m, NEW X, NEW i, NEW L, Limit(L), Fits(m, X, L), i \in Nat, i < L
  PROVE  CallKeeps(MapSet(m, i), m, X \cup {i}, TRUE, L)
<1> DEFINE s == m.chunks
           j == Locate(s, i)
           c == s[j]
<1>1. StreamOK(s, 0, L) /\ s \in Seq(Chunks) /\ Len(s) \in Nat
  BY LenProperties DEF Fits, Keeps, MapOK, StreamOK
<1>2. CASE ~HasRoom(m, 2)
  <2>1. MapSet(m, i) = Failed(m)  BY <1>2 DEF MapSet
  <2> QED  BY <2>1, RefusedKeeps
<1>3. CASE HasRoom(m, 2) /\ s = << >>
  <2> DEFINE place == 1
             start == AlignedOffset(i)
  <2>1. Len(s) = 0  BY <1>3
  <2>2. /\ Limit(L) /\ Fits(m, X, L) /\ i \in Nat /\ i < L /\ HasRoom(m, 2)
        /\ place \in 1 .. Len(m.chunks) + 1
        /\ \A p \in 1 .. place - 1 : EndOf(m.chunks[p]) <= i
        /\ \A p \in place .. Len(m.chunks) : i < m.chunks[p].start
    BY <1>3, <2>1
  <2>3. MapSet(m, i) = InsertNew(m, place, i, start)  BY <1>3 DEF MapSet
  <2> HIDE DEF place, start
  <2>4. CallKeeps(InsertNew(m, place, i, start), m, X \cup {i}, TRUE, L)
    BY ONLY <2>2, InsertNewKeeps
  <2> QED  BY <2>3, <2>4
<1>4. CASE HasRoom(m, 2) /\ s # << >>
  <2>1. /\ j \in 1 .. Len(s)
        /\ \A p \in 1 .. j - 1 : EndOf(s[p]) <= i
        /\ j < Len(s) => i < EndOf(s[j])
    <3>1. s # << >> /\ i \in Nat  BY <1>4
    <3> HIDE DEF s
    <3> QED  BY ONLY <1>1, <3>1, LocateProperties
  <2>2. MapSet(m, i) = IF i < c.start THEN InsertNew(m, j, i, c.start)
                       ELSE SetFrom(m, j, i)
    <3>1. ChunkOK(c)  BY <1>1, <2>1, ChunkExtent DEF StreamOK
    <3>2. WithWholeWindow(m, j, i) = m
      <4>1. ~IsRLE(c) => Capacity(c) = ChunkCap  BY <3>1, SparseCapacity
      <4> QED  BY <4>1, ChunkCapPositive DEF WithWholeWindow
    <3>3. MapSet(m, i) = IF i < c.start THEN InsertNew(m, j, i, c.start)
                         ELSE SetFrom(WithWholeWindow(m, j, i), j, i)
      BY <1>4 DEF MapSet
    <3> QED  BY <3>2, <3>3
  <2> HIDE DEF j
  <2>3. Located(m, X, j, i, L)  BY <1>4, <2>1 DEF Located
  <2>4. CASE i < c.start
    <3> DEFINE start == c.start
    <3>1. MapSet(m, i) = InsertNew(m, j, i, start)  BY <2>2, <2>4
    <3>2. i < m.chunks[j].start  BY <2>4
    <3> HIDE DEF start
    <3>3. CallKeeps(InsertNew(m, j, i, start), m, X \cup {i}, TRUE, L)
      BY <2>3, <3>2, InsertKeepsAt
    <3> QED  BY <3>1, <3>3
  <2>5. CASE ~(i < c.start)
    <3>1. MapSet(m, i) = SetFrom(m, j, i)  BY <2>2, <2>5
    <3>2. m.chunks[j].start <= i
      <4>1. c.start \in Nat  BY <2>3, LocatedChunk
      <4> QED  BY <2>5, <4>1
    <3>3. CallKeeps(SetFrom(m, j, i), m, X \cup {i}, TRUE, L)
      BY ONLY <2>3, <3>2, SetFromKeeps
    <3> QED  BY <3>1, <3>3
  <2> QED  BY <2>4, <2>5
<1> QED  BY <1>2, <1>3, <1>4

----------------------------------------------------------------------------
(* __sm_map_unset.                                                         *)

\* A chunk all of ones holds its window and needs no payload.
LEMMA OnesChunkHolds ==
  ASSUME NEW start \in Nat, Boundary(start), NEW c, c = OnesChunk(start)
  PROVE  /\ Canonical(c) /\ ChunkOK(c) /\ c.start = start /\ EndOf(c) = start + ChunkCap
         /\ Size(c) = 1 /\ BitsOf(c) = start .. start + ChunkCap - 1
<1>1. SparseOK(c) /\ c.start = start  BY PlainChunksOK
<1>2. ProperWords(c) /\ \A k \in 0 .. ChunkCap - 1 : IsSet(c, k)  BY PlainChunksBits
<1>3. AllOnes(c)
  BY DEF AllOnes, OnesChunk, SparseChunk, IsRLE
<1>4. Size(c) = 1  BY <1>1, <1>3, AllOnesBits
<1>5. /\ ChunkOK(c) /\ EndOf(c) = start + ChunkCap
      /\ \A x \in Nat : x \in BitsOf(c) <=>
           x - start \in 0 .. ChunkCap - 1 /\ IsSet(c, x - start)
  BY <1>1, HeldSparse
<1>6. Canonical(c)
  <2>1. 0 \in 0 .. ChunkCap - 1  BY ChunkCapPositive
  <2> QED  BY <1>1, <1>2, <2>1, SparseIsCanonical
<1>7. BitsOf(c) = start .. start + ChunkCap - 1
  <2>1. ASSUME NEW x \in Nat
        PROVE  x \in BitsOf(c) <=> x \in start .. start + ChunkCap - 1
    <3>1. x \in BitsOf(c) <=> x - start \in 0 .. ChunkCap - 1  BY <1>2, <1>5
    <3> QED  BY <3>1, ChunkCapPositive
  <2>2. BitsOf(c) \subseteq Nat /\ start .. start + ChunkCap - 1 \subseteq Nat
    BY ChunkCapPositive DEF BitsOf
  <2> QED  BY <2>1, <2>2
<1> QED  BY <1>1, <1>4, <1>5, <1>6, <1>7

\* What is left of the run t when its last index is cleared.
Shorter(t) == IF t.len - 1 = ChunkCap THEN OnesChunk(t.start)
              ELSE RLEChunk(t.start, t.len - 1, t.cap)

\* It holds what the run held but for that index, in a chunk of the same size.
LEMMA ShorterHolds ==
  ASSUME NEW t, ChunkOK(t), IsRLE(t), t.len # 1
  PROVE  /\ Canonical(Shorter(t)) /\ ChunkOK(Shorter(t)) /\ Shorter(t).start = t.start
         /\ EndOf(Shorter(t)) <= EndOf(t) /\ Size(Shorter(t)) = 1
         /\ BitsOf(Shorter(t)) = t.start .. t.start + t.len - 2
<1> DEFINE c == Shorter(t)
           len == t.len - 1
           cap == t.cap
           start == t.start
<1>1. /\ start \in Nat /\ Boundary(start) /\ t.len \in Nat /\ t.len >= 1
      /\ cap \in Nat /\ t.len <= cap /\ Boundary(cap) /\ cap <= RLEMax
      /\ EndOf(t) = start + cap /\ EndOf(t) \in Nat
  BY RunFields
<1>2. len \in 1 .. cap /\ start + t.len - 2 = start + len - 1  BY <1>1
<1>3. c = IF len = ChunkCap THEN OnesChunk(start) ELSE RLEChunk(start, len, cap)
  BY DEF Shorter
<1> HIDE DEF c, start, len, cap
<1>4. CASE len = ChunkCap
  <2>1. c = OnesChunk(start)  BY <1>3, <1>4
  <2>2. /\ Canonical(c) /\ ChunkOK(c) /\ c.start = start /\ EndOf(c) = start + ChunkCap
        /\ Size(c) = 1 /\ BitsOf(c) = start .. start + ChunkCap - 1
    BY <1>1, <2>1, OnesChunkHolds
  <2>3. EndOf(c) <= EndOf(t)  BY <1>1, <1>2, <1>4, <2>2, ChunkCapPositive
  <2> QED  BY <1>2, <1>4, <2>2, <2>3 DEF c, start
<1>5. CASE len # ChunkCap
  <2>1. /\ ChunkOK(c) /\ c = [kind |-> "rle", start |-> start, len |-> len, cap |-> cap]
    BY <1>1, <1>2, <1>3, <1>5, RLEChunkOK
  <2>2. IsRLE(c) /\ c.start = start /\ c.len = len /\ c.cap = cap  BY <2>1 DEF IsRLE
  <2>3. /\ Canonical(c) /\ Size(c) = 1 /\ BitsOf(c) = c.start .. c.start + c.len - 1
        /\ EndOf(c) = c.start + c.cap
    BY <2>1, <2>2, RunFields
  <2>4. EndOf(c) <= EndOf(t)  BY <1>1, <2>2, <2>3
  <2> QED  BY <1>2, <2>1, <2>2, <2>3, <2>4 DEF c, start
<1> QED  BY <1>4, <1>5

\* i is the last index of the run of chunk j.
LastOfRun(m, X, j, i, L) ==
  /\ Limit(L) /\ Fits(m, X, L) /\ j \in 1 .. Len(m.chunks)
  /\ IsRLE(m.chunks[j]) /\ i \in Nat
  /\ i - m.chunks[j].start + 1 = m.chunks[j].len

\* Clearing it is exact: the chunk goes, or is rewritten in the same words.
LEMMA DropLastKeeps ==
  ASSUME NEW m, NEW X, NEW j, NEW i, NEW L, LastOfRun(m, X, j, i, L)
  PROVE  CallKeeps(Done(DropLast(m, j, i)), m, X \ {i}, TRUE, L)
<1> DEFINE c == m.chunks[j]
           b == EndOf(c)
           to == X \ {i}
           isSet == FALSE
<1>0. /\ Limit(L) /\ Fits(m, X, L) /\ j \in 1 .. Len(m.chunks)
      /\ IsRLE(c) /\ i \in Nat /\ i - c.start + 1 = c.len
  BY DEF LastOfRun
<1>1. /\ m.used \in Int /\ m.cap \in Nat /\ m.used <= m.cap
      /\ ChunkOK(c) /\ BitsOf(c) \subseteq X /\ c.start \in Nat /\ b \in Nat
      /\ c.start <= b /\ b <= L
      /\ j < Len(m.chunks) => b <= m.chunks[j + 1].start
  BY <1>0, ChunkInPlace
<1>2. /\ c.len \in Nat /\ c.len >= 1 /\ Size(c) = 1
      /\ BitsOf(c) = c.start .. c.start + c.len - 1
  <2> HIDE DEF c
  <2> QED  BY <1>0, <1>1, RunFields
<1>3. c.start <= i /\ BitsOf(c) = c.start .. i
  <2> HIDE DEF c
  <2>1. c.start + c.len - 1 = i /\ c.start <= i  BY <1>0, <1>1, <1>2
  <2> QED  BY <1>2, <2>1
<1>4. CASE c.len = 1
  <2> DEFINE t == << >>
             B == {}
             w == 0
             words == -2
             r == Replace(m, j, 1, t, words)
  <2>1. DropLast(m, j, i) = r  BY <1>4 DEF DropLast
  <2>2. Encodes(t, B, w)  BY HoldsNone
  <2>3. /\ w \in Int /\ words = w - (1 + Size(m.chunks[j])) /\ m.used + words <= m.cap
    <3>1. words = w - (1 + Size(c))  BY <1>2
    <3> QED  BY <1>1, <3>1
  <2>4. StreamOK(t, m.chunks[j].start, b) /\ b \in Int  BY <1>1, EmptyStream
  <2>5. to = (X \ BitsOf(m.chunks[j])) \cup B
    <3>1. BitsOf(c) = {i}
      <4> HIDE DEF c
      <4>1. c.start = i  BY <1>0, <1>1, <1>4
      <4> QED  BY <1>0, <1>3, <4>1
    <3> HIDE DEF c
    <3>2. to = X \ BitsOf(c)  BY <3>1
    <3> QED  BY <3>2 DEF c
  <2> HIDE DEF t, B, w, words, b
  <2>6. Overwrites(m, X, j, t, B, w, words, b, L)
    BY <1>0, <1>1, <2>2, <2>3, <2>4 DEF Overwrites
  <2>7. r = Replace(m, j, 1, t, words) /\ i \in Nat  BY <1>0
  <2> HIDE DEF r, to
  <2>8. CallKeeps(Done(r), m, to, TRUE, L)
    BY ONLY <2>5, <2>6, <2>7, OverwriteKeeps
  <2> QED  BY <2>1, <2>8 DEF to
<1>5. CASE c.len # 1
  <2> DEFINE shorter == Shorter(c)
             t == << shorter >>
             B == BitsOf(shorter)
             w == 2
             words == 0
  <2>1. DropLast(m, j, i) =
          Coalesce(Replace(m, j, 1, t, words), j, m.chunks[j].start, i, isSet)
    BY <1>5 DEF DropLast, Shorter
  <2>2. /\ Canonical(shorter) /\ ChunkOK(shorter) /\ shorter.start = c.start
        /\ EndOf(shorter) <= b /\ Size(shorter) = 1
        /\ B = c.start .. c.start + c.len - 2
    <3> HIDE DEF c
    <3> QED  BY <1>0, <1>1, <1>5, ShorterHolds DEF b
  <2> HIDE DEF shorter
  <2>3. Encodes(t, B, w)
    <3>1. Encodes(<< shorter >>, BitsOf(shorter), 1 + Size(shorter))  BY <2>2, HoldsOne
    <3>2. 1 + Size(shorter) = w  BY <2>2
    <3> HIDE DEF w
    <3> QED  BY <3>1, <3>2
  <2>4. /\ w \in Int /\ words = w - (1 + Size(m.chunks[j])) /\ m.used + words <= m.cap
    <3>1. words = w - (1 + Size(c))  BY <1>2
    <3> QED  BY <1>1, <3>1
  <2>5. StreamOK(t, m.chunks[j].start, b) /\ b \in Int
    <3> HIDE DEF c, b
    <3>1. StreamOK(<< shorter >>, c.start, b)  BY <1>1, <2>2, OneChunkStream
    <3> QED  BY <1>1, <3>1 DEF c
  <2>6. to = (X \ BitsOf(m.chunks[j])) \cup B
    <3>1. c.start + c.len - 2 = i - 1
      <4>1. i - c.start + 1 = c.len /\ i \in Nat  BY <1>0
      <4> HIDE DEF c
      <4>2. c.len \in Nat /\ c.start \in Nat  BY <1>1, <1>2
      <4> QED  BY ONLY <4>1, <4>2
    <3>2. B = BitsOf(c) \ {i}
      <4> HIDE DEF c, B
      <4> QED  BY <1>0, <1>1, <1>3, <2>2, <3>1
    <3>3. i \in BitsOf(c)
      <4> HIDE DEF c
      <4> QED  BY <1>0, <1>1, <1>3
    <3> HIDE DEF c, B
    <3>4. to = (X \ BitsOf(c)) \cup B  BY <1>1, <3>2, <3>3
    <3> QED  BY <3>4 DEF c
  <2>7. Len(t) = 1 /\ Len(t) >= 1 /\ t[1].start = m.chunks[j].start  BY <2>2
  <2>8. ~isSet  OBVIOUS
  <2> HIDE DEF t, B, w, words, b, to, isSet
  <2>9. Overwrites(m, X, j, t, B, w, words, b, L)
    BY <1>0, <1>1, <2>3, <2>4, <2>5 DEF Overwrites
  <2>10. OverwritesExactly(m, X, j, t, B, w, words, b, i, isSet, to, L)
    BY <1>0, <2>6, <2>7, <2>8, <2>9 DEF OverwritesExactly
  <2>11. CallKeeps(Done(Coalesce(Replace(m, j, 1, t, words), j, m.chunks[j].start, i, isSet)),
                   m, to, TRUE, L)
    BY ONLY <2>10, OverwriteIsExact
  <2> QED  BY <2>1, <2>11 DEF to
<1> QED  BY <1>4, <1>5

\* JoinsAcrossRemoved, for i in the window of chunk j.
Bridges(m, j, i) ==
  /\ j \in 2 .. Len(m.chunks) - 1
  /\ IsSet(m.chunks[j], i - m.chunks[j].start)
  /\ IsEmptyChunk(ClrBit(m.chunks[j], i - m.chunks[j].start))
  /\ m.chunks[j - 1].start + RunLength(m.chunks[j - 1]) = m.chunks[j].start
  /\ RunLength(m.chunks[j + 1]) > 0

\* The last bit of chunk j is cleared and the chunk removed.  Coalescing at its
\* place, with its start, is exact unless a run then joins across the gap.
LEMMA RemoveChunkKeeps ==
  ASSUME NEW m, NEW X, NEW j, NEW i, NEW L, InWindow(m, X, j, i, L),
         IsSet(m.chunks[j], i - m.chunks[j].start),
         IsEmptyChunk(ClrBit(m.chunks[j], i - m.chunks[j].start)),
         NEW r, r = Replace(m, j, 1, << >>, -3),
         NEW q, q = IF j > Len(r.chunks) THEN r
                    ELSE Coalesce(r, j, m.chunks[j].start, i, FALSE)
  PROVE  CallKeeps(Done(q), m, X \ {i}, ~Bridges(m, j, i), L)
<1> DEFINE c == m.chunks[j]
           d == ClrBit(c, i - c.start)
           t == << >>
           B == {}
           w == 0
           words == -3
           b == EndOf(c)
           to == X \ {i}
           isSet == FALSE
           start == c.start
           exact == ~Bridges(m, j, i)
<1>0. /\ Limit(L) /\ Fits(m, X, L) /\ j \in 1 .. Len(m.chunks) /\ i \in Nat
  BY DEF InWindow
<1>1. /\ m.used \in Int /\ m.cap \in Nat /\ m.used <= m.cap /\ MapOK(m, L)
      /\ ChunkOK(c) /\ BitsOf(c) \subseteq X /\ c.start \in Nat /\ b \in Nat
      /\ c.start <= b /\ b <= L /\ Len(m.chunks) \in Nat
      /\ j < Len(m.chunks) => b <= m.chunks[j + 1].start
  BY <1>0, ChunkInPlace
<1>2. /\ SparseOK(c) /\ ProperWords(c) /\ i - c.start \in 0 .. ChunkCap - 1
      /\ Size(c) = 1 + Len(c.data)
      /\ i \in BitsOf(c) <=> IsSet(c, i - c.start)
  BY WindowFacts
<1>3. Size(c) = 2 /\ BitsOf(c) = {i}
  <2>1. IsSet(c, i - c.start) /\ IsEmptyChunk(ClrBit(c, i - c.start))  OBVIOUS
  <2> HIDE DEF c
  <2>2. Len(c.data) = 1  BY <1>2, <2>1, LastBitOneWord
  <2>3. BitsOf(d) = BitsOf(c) \ {i}  BY <1>0, <1>2, ClrBitHolds
  <2>4. BitsOf(c) \ {i} = {} /\ i \in BitsOf(c)
    <3>1. IsEmptyChunk(d) <=> BitsOf(d) = {}  BY <1>2, ClearedIsEmpty
    <3> HIDE DEF d
    <3>2. IsEmptyChunk(d)  BY <2>1 DEF d
    <3> QED  BY <1>2, <2>1, <2>3, <3>1, <3>2
  <2>5. BitsOf(c) = {i}  BY <2>4
  <2> QED  BY <1>2, <2>2, <2>5
<1>4. Encodes(t, B, w)  BY HoldsNone
<1>5. w \in Int /\ words = w - (1 + Size(m.chunks[j])) /\ m.used + words <= m.cap
  <2>1. words = w - (1 + Size(c))  BY <1>3
  <2> QED  BY <1>1, <2>1
<1>6. StreamOK(t, m.chunks[j].start, b) /\ b \in Int  BY <1>1, EmptyStream
<1>7. to = (X \ BitsOf(m.chunks[j])) \cup B
  <2>1. to = X \ BitsOf(c)
    <3> HIDE DEF c
    <3> QED  BY <1>3
  <2> HIDE DEF to
  <2> QED  BY <2>1
<1>8. Len(t) = 0 /\ t \in Seq(Chunks) /\ words \in Int  BY EmptySeq
<1>9. r = Replace(m, j, 1, t, words)  OBVIOUS
<1>10. q = IF j > Len(r.chunks) THEN r ELSE Coalesce(r, j, m.chunks[j].start, i, isSet)
  OBVIOUS
<1> HIDE DEF t, B, w, words, b, to, isSet
<1>11. Overwrites(m, X, j, t, B, w, words, b, L)
  BY <1>0, <1>1, <1>4, <1>5, <1>6 DEF Overwrites
<1>12. /\ CallKeeps(Done(r), m, to, TRUE, L)
       /\ j \in 1 .. Len(r.chunks) =>
            CallKeeps(Done(Coalesce(r, j, m.chunks[j].start, i, isSet)), m, to,
                      CoalesceExact(r, j, m.chunks[j].start, i, isSet), L)
  BY ONLY <1>0, <1>7, <1>9, <1>11, OverwriteKeeps
<1>13. /\ MapOK(r, L)
       /\ j \in 1 .. Len(r.chunks) => StartOK(r.chunks, j, start)
  BY <1>9, <1>11, OverwriteInOrder
<1>14. /\ Len(r.chunks) = Len(m.chunks) - 1 + Len(t) /\ Len(m.chunks) \in Nat
       /\ r.used = m.used + words /\ r.cap = m.cap
       /\ j > 1 => r.chunks[j - 1] = m.chunks[j - 1]
       /\ Len(t) >= 1 => r.chunks[j] = t[1]
       /\ Len(t) = 2 => r.chunks[j + 1] = t[2]
       /\ j < Len(m.chunks) => r.chunks[j + Len(t)] = m.chunks[j + 1]
  <2>1. /\ MapOK(m, L) /\ j \in 1 .. Len(m.chunks) /\ t \in Seq(Chunks)
        /\ words \in Int /\ r = Replace(m, j, 1, t, words)
    BY <1>0, <1>1, <1>8, <1>9
  <2> QED  BY ONLY <2>1, RewrittenPlaces, SMTT(30)
<1>15. ASSUME j \in 1 .. Len(r.chunks), exact
       PROVE  CoalesceExact(r, j, start, i, isSet)
  <2>1. j \in Nat /\ j < Len(m.chunks) /\ j + Len(t) = j
    BY <1>0, <1>1, <1>8, <1>14, <1>15
  <2>2. r.chunks[j] = m.chunks[j + 1]  BY <1>14, <2>1
  <2>3. RightExact(r, j, i, isSet)  BY DEF RightExact, isSet
  <2>4. RunLength(m.chunks[j + 1]) \in Nat
    <3>1. j + 1 \in 1 .. Len(m.chunks)  BY <1>1, <2>1
    <3> QED  BY <1>1, <3>1, ChunkExtent DEF MapOK, StreamOK
  <2>5. ASSUME RunLength(m.chunks[j + 1]) # 0, CanJoinLeft(r, j, start)  PROVE FALSE
    <3>1. RunLength(r.chunks[j]) > 0  BY <2>2, <2>4, <2>5
    <3>2. JoinsLeft(r, j, start)
      BY <1>0, <1>13, <1>15, <2>5, <3>1, JoinLeftIs
    <3>3. r.chunks[j - 1].start + RunLength(r.chunks[j - 1]) = start
          /\ j - 1 \in 1 .. Len(r.chunks)
      BY <3>2 DEF JoinsLeft
    <3>4. j > 1 /\ j \in 2 .. Len(m.chunks) - 1  BY <1>1, <2>1, <3>3
    <3>5. m.chunks[j - 1].start + RunLength(m.chunks[j - 1]) = m.chunks[j].start
      BY <1>14, <3>3, <3>4
    <3>6. RunLength(m.chunks[j + 1]) > 0  BY <2>2, <3>1
    <3>7. Bridges(m, j, i)  BY <3>4, <3>5, <3>6 DEF Bridges
    <3> QED  BY <1>15, <3>7
  <2> QED  BY <2>2, <2>3, <2>5 DEF CoalesceExact, LeftExact
<1>16. Len(r.chunks) \in Nat
  BY <1>13, LenProperties DEF MapOK, StreamOK
<1>17. CASE j > Len(r.chunks)
  <2>1. q = r  BY <1>10, <1>17
  <2>2. CallKeeps(Done(q), m, to, exact, L)  BY <1>12, <2>1 DEF CallKeeps
  <2> QED  BY <2>2 DEF to
<1>18. CASE ~(j > Len(r.chunks))
  <2>1. j \in 1 .. Len(r.chunks)  BY <1>0, <1>16, <1>18
  <2>2. CallKeeps(Done(q), m, to, CoalesceExact(r, j, start, i, isSet), L)
    BY <1>10, <1>12, <1>18, <2>1
  <2>3. exact => CoalesceExact(r, j, start, i, isSet)  BY <1>15, <2>1
  <2> HIDE DEF exact, start
  <2>4. CallKeeps(Done(q), m, to, exact, L)  BY <2>2, <2>3 DEF CallKeeps
  <2> QED  BY <2>4 DEF to, exact
<1> QED  BY <1>17, <1>18

\* Clearing an index in a sparse chunk's window is exact but for that case.
LEMMA ClearInPlaceKeeps ==
  ASSUME NEW m, NEW X, NEW j, NEW i, NEW L, InWindow(m, X, j, i, L), HasRoom(m, 2)
  PROVE  CallKeeps(Done(ClearInPlace(m, j, i)), m, X \ {i}, ~Bridges(m, j, i), L)
<1> DEFINE c == m.chunks[j]
           d == ClrBit(c, i - c.start)
           gone == IsSet(c, i - c.start) /\ IsEmptyChunk(d)
<1>0. /\ Limit(L) /\ Fits(m, X, L) /\ j \in 1 .. Len(m.chunks) /\ i \in Nat
  BY DEF InWindow
<1>1. CASE gone
  <2> DEFINE r == Replace(m, j, 1, << >>, -3)
             q == IF j > Len(r.chunks) THEN r
                  ELSE Coalesce(r, j, m.chunks[j].start, i, FALSE)
  <2>1. ClearInPlace(m, j, i) = q  BY <1>1 DEF ClearInPlace
  <2>2. /\ InWindow(m, X, j, i, L) /\ IsSet(m.chunks[j], i - m.chunks[j].start)
        /\ IsEmptyChunk(ClrBit(m.chunks[j], i - m.chunks[j].start))
        /\ r = Replace(m, j, 1, << >>, -3)
        /\ q = IF j > Len(r.chunks) THEN r
               ELSE Coalesce(r, j, m.chunks[j].start, i, FALSE)
    BY <1>1
  <2> HIDE DEF r, q
  <2>3. CallKeeps(Done(q), m, X \ {i}, ~Bridges(m, j, i), L)
    BY ONLY <2>2, RemoveChunkKeeps
  <2> QED  BY <2>1, <2>3
<1>2. CASE ~gone
  <2> DEFINE t == << d >>
             B == BitsOf(d)
             w == 1 + Size(d)
             words == Len(d.data) - Len(c.data)
             b == EndOf(c)
             to == X \ {i}
             isSet == FALSE
             r == Replace(m, j, 1, t, words)
             q == Coalesce(r, j, m.chunks[j].start, i, isSet)
  <2>1. m.used \in Int /\ m.cap \in Nat /\ MapOK(m, L) /\ BitsOf(c) \subseteq X
        /\ Canonical(c) /\ Len(m.chunks) \in Nat
    BY <1>0, ChunkInPlace
  <2>2. /\ SparseOK(c) /\ ProperWords(c) /\ i - c.start \in 0 .. ChunkCap - 1
        /\ Len(c.data) \in Nat
        /\ (i \in X <=> i \in BitsOf(c)) /\ (i \in BitsOf(c) <=> IsSet(c, i - c.start))
    BY WindowFacts
  <2>3. /\ SparseOK(d) /\ d.start = c.start /\ EndOf(d) = EndOf(c)
        /\ BitsOf(d) = BitsOf(c) \ {i}
        /\ IsEmptyChunk(d) <=> BitsOf(d) = {}
        /\ BitsOf(d) # {} => Canonical(d)
        /\ Len(d.data) \in Nat /\ Len(d.data) <= Len(c.data) + 1
    <3> DEFINE k == i - c.start
    <3>0. /\ SparseOK(c) /\ ProperWords(c) /\ i \in Nat
          /\ k \in 0 .. ChunkCap - 1 /\ d = ClrBit(c, k)
      BY <1>0, <2>2
    <3>1. /\ SparseOK(d) /\ d.start = c.start /\ EndOf(d) = EndOf(c)
          /\ BitsOf(d) = BitsOf(c) \ {i}
          /\ Len(d.data) \in Nat /\ Len(d.data) <= Len(c.data) + 1
      <4> HIDE DEF c
      <4> QED  BY <1>0, <2>2, ClrBitHolds
    <3> HIDE DEF c, d, k
    <3>2. IsEmptyChunk(d) <=> BitsOf(d) = {}  BY ONLY <3>0, ClearedIsEmpty
    <3>3. ASSUME BitsOf(d) # {}  PROVE Canonical(d)
      BY ONLY <3>0, <3>3, ClearedIsCanonical
    <3> QED  BY <3>1, <3>2, <3>3
  <2>4. ClearInPlace(m, j, i) = IF j > Len(r.chunks) THEN r ELSE q
    <3>1. ~(IsSet(m.chunks[j], i - m.chunks[j].start)
            /\ IsEmptyChunk(ClrBit(m.chunks[j], i - m.chunks[j].start)))
      BY <1>2
    <3> QED  BY <3>1 DEF ClearInPlace
  <2>5. Canonical(d)
    <3>1. CASE ~IsSet(c, i - c.start)
      <4>1. BitsOf(c) # {} /\ i \notin BitsOf(c)  BY <2>1, <2>2, <3>1 DEF Canonical
      <4> HIDE DEF c, d
      <4> QED  BY <2>3, <4>1
    <3>2. CASE ~IsEmptyChunk(d)
      <4> HIDE DEF c, d
      <4> QED  BY <2>3, <3>2
    <3> QED  BY <1>2, <3>1, <3>2
  <2> HIDE DEF d
  <2>6. m.used + words <= m.cap /\ words \in Int
    <3>1. m.used + 2 + 1 <= m.cap  BY DEF HasRoom, HeaderWords
    <3>2. words \in Int /\ words <= 1  BY <2>2, <2>3
    <3> HIDE DEF words
    <3> QED  BY <2>1, <3>1, <3>2
  <2>7. Overwrites(m, X, j, t, B, w, words, b, L)  BY <2>3, <2>5, <2>6, WindowOverwritten
  <2>8. to = (X \ BitsOf(m.chunks[j])) \cup B
    <3> HIDE DEF B, c
    <3>1. B = BitsOf(c) \ {i}  BY <2>3 DEF B
    <3>2. to = (X \ BitsOf(c)) \cup B
      <4>1. i \in X => i \in BitsOf(c)  BY <2>2
      <4>2. ASSUME NEW x  PROVE x \in to <=> x \in (X \ BitsOf(c)) \cup B
        BY <2>1, <3>1, <4>1
      <4> QED  BY <4>2
    <3> QED  BY <3>2 DEF c
  <2>9. Len(t) = 1 /\ Len(t) >= 1 /\ t[1].start = m.chunks[j].start  BY <2>3
  <2>10. ~isSet /\ t \in Seq(Chunks)
    <3>1. d \in Chunks  BY <2>5 DEF Canonical, ChunkOK
    <3> QED  BY <3>1
  <2>11. ClearInPlace(m, j, i) = q
    <3> HIDE DEF t, words
    <3>1. Len(r.chunks) = Len(m.chunks) - 1 + Len(t)
      BY <1>0, <2>1, <2>6, <2>10, RewrittenPlaces, SMTT(30)
    <3>2. ~(j > Len(r.chunks))
      <4> HIDE DEF r
      <4> QED  BY <1>0, <2>1, <2>9, <3>1
    <3> HIDE DEF r, q
    <3> QED  BY <2>4, <3>2
  <2> HIDE DEF t, B, w, words, b, to, isSet
  <2>12. OverwritesExactly(m, X, j, t, B, w, words, b, i, isSet, to, L)
    BY <1>0, <2>7, <2>8, <2>9, <2>10 DEF OverwritesExactly
  <2>13. CallKeeps(Done(Coalesce(Replace(m, j, 1, t, words), j, m.chunks[j].start, i, isSet)),
                   m, to, TRUE, L)
    BY ONLY <2>12, OverwriteIsExact
  <2>14. CallKeeps(Done(q), m, to, TRUE, L)  BY <2>13
  <2> HIDE DEF q
  <2>15. CallKeeps(Done(q), m, to, ~Bridges(m, j, i), L)  BY <2>14 DEF CallKeeps
  <2> QED  BY <2>11, <2>15 DEF to
<1> QED  BY <1>1, <1>2

\* A call exact without condition is exact under any.
LEMMA WeakerKeeps ==
  ASSUME NEW r, NEW m, NEW to, NEW exact, NEW L, CallKeeps(r, m, to, TRUE, L)
  PROVE  CallKeeps(r, m, to, exact, L)
  BY DEF CallKeeps

\* i is at or past the start of chunk j, the one located for it, and before the
\* end of its span.
InSpan(m, X, j, i, L) ==
  /\ Limit(L) /\ Fits(m, X, L) /\ j \in 1 .. Len(m.chunks) /\ i \in Nat
  /\ m.chunks[j].start <= i /\ i < EndOf(m.chunks[j])

\* What an unset does in a run is exact.
LEMMA UnsetInRunKeeps ==
  ASSUME NEW m, NEW X, NEW j, NEW i, NEW L, InSpan(m, X, j, i, L), IsRLE(m.chunks[j]),
         NEW r, r = IF i - m.chunks[j].start >= m.chunks[j].len
                      THEN Done(Coalesce(m, j, m.chunks[j].start, i, FALSE))
                    ELSE IF i - m.chunks[j].start + 1 = m.chunks[j].len
                      THEN Done(DropLast(m, j, i))
                    ELSE Separate(m, j, i, FALSE)
  PROVE  CallKeeps(r, m, X \ {i}, TRUE, L)
<1> DEFINE c == m.chunks[j]
           at == i - c.start
           start == c.start
           isSet == FALSE
<1>0. /\ Limit(L) /\ Fits(m, X, L) /\ j \in 1 .. Len(m.chunks) /\ i \in Nat
      /\ c.start <= i /\ i < EndOf(c) /\ IsRLE(c)
  BY DEF InSpan
<1>1. /\ ChunkOK(c) /\ c.start \in Nat /\ EndOf(c) \in Nat /\ EndOf(c) <= RLEMax
      /\ (i \in X <=> i \in BitsOf(c))
  BY <1>0, ChunkInPlace
<1>2. c.len \in Nat /\ c.len >= 1 /\ BitsOf(c) = c.start .. c.start + c.len - 1
  <2> HIDE DEF c
  <2> QED  BY <1>0, <1>1, RunFields
<1>3. CASE at >= c.len
  <2>1. i \notin X
    <3> HIDE DEF c
    <3> QED  BY <1>0, <1>1, <1>2, <1>3
  <2>2. X \ {i} = X  BY <2>1
  <2>3. r = Done(Coalesce(m, j, m.chunks[j].start, i, isSet))  BY <1>3
  <2>4. ~isSet  OBVIOUS
  <2> HIDE DEF isSet
  <2>5. CallKeeps(Done(Coalesce(m, j, m.chunks[j].start, i, isSet)), m, X, TRUE, L)
    BY <1>0, <2>4, CoalesceInPlace
  <2> QED  BY <2>2, <2>3, <2>5
<1>4. CASE ~(at >= c.len) /\ at + 1 = c.len
  <2>1. r = Done(DropLast(m, j, i))  BY <1>4
  <2>2. LastOfRun(m, X, j, i, L)  BY <1>0, <1>4 DEF LastOfRun
  <2>3. CallKeeps(Done(DropLast(m, j, i)), m, X \ {i}, TRUE, L)
    BY ONLY <2>2, DropLastKeeps
  <2> QED  BY <2>1, <2>3
<1>5. CASE ~(at >= c.len) /\ at + 1 # c.len
  <2>1. r = Separate(m, j, i, isSet)  BY <1>5
  <2>2. i + 1 < c.start + c.len
    <3>1. c.start \in Nat /\ c.len \in Nat /\ i \in Nat  BY <1>0, <1>1, <1>2
    <3>2. ~(i - c.start >= c.len) /\ i - c.start + 1 # c.len  BY <1>5
    <3> HIDE DEF c
    <3> QED  BY ONLY <3>1, <3>2
  <2>3. Separates(m.chunks[j], i, isSet)  BY <1>0, <1>1, <2>2 DEF Separates
  <2>4. ~isSet  OBVIOUS
  <2> HIDE DEF c, at, start, isSet
  <2>5. /\ Limit(L) /\ Fits(m, X, L) /\ j \in 1 .. Len(m.chunks)
        /\ Separates(m.chunks[j], i, isSet)
    BY <1>0, <2>3
  <2>6. ~isSet => CallKeeps(Separate(m, j, i, isSet), m, X \ {i}, TRUE, L)
    BY ONLY <2>5, SeparateKeeps
  <2> QED  BY <2>1, <2>4, <2>6
<1> QED  BY <1>3, <1>4, <1>5

\* Every call to unset an index below the limit keeps the invariant, and outside
\* the one case clears exactly that index or reports that it has no room.
LEMMA MapUnsetKeeps ==
  ASSUME NEW m, NEW X, NEW i, NEW L, Limit(L), Fits(m, X, L), i \in Nat
  PROVE  CallKeeps(MapUnset(m, i), m, X \ {i}, ~JoinsAcrossRemoved(m, i), L)
<1> DEFINE s == m.chunks
           j == Locate(s, i)
           c == s[j]
           at == i - c.start
           exact == ~JoinsAcrossRemoved(m, i)
           to == X \ {i}
           r == MapUnset(m, i)
<1>1. /\ StreamOK(s, 0, L) /\ s \in Seq(Chunks) /\ Len(s) \in Nat /\ Bits(s) = X
  BY LenProperties DEF Fits, Keeps, MapOK, StreamOK, Encodes
<1>2. r = IF ~HasRoom(m, 2) THEN Failed(m)
          ELSE IF s = << >> \/ i < c.start \/ at >= Capacity(c) THEN Done(m)
          ELSE IF ~IsRLE(c) THEN Done(ClearInPlace(m, j, i))
          ELSE IF at >= c.len THEN Done(Coalesce(m, j, c.start, i, FALSE))
          ELSE IF at + 1 = c.len THEN Done(DropLast(m, j, i))
          ELSE Separate(m, j, i, FALSE)
  BY DEF MapUnset
<1>3. HasBit(s, i) <=> i \in X
  <2> HIDE DEF s
  <2>1. HasBit(s, i) <=> i \in Bits(s)  BY <1>1, HasBitHolds
  <2> QED  BY <1>1, <2>1
<1>4. HasBit(s, i) <=>
        s # << >> /\ c.start <= i /\ i - c.start < Capacity(c) /\ IsSet(c, i - c.start)
  BY DEF HasBit
<1>5. s # << >> => j \in 1 .. Len(s)
  <2> HIDE DEF s
  <2> QED  BY <1>1, LocateProperties
<1>6. JoinsAcrossRemoved(m, i) <=>
        /\ HasBit(s, i) /\ j \in 2 .. Len(s) - 1 /\ ~IsRLE(s[j])
        /\ IsEmptyChunk(ClrBit(s[j], i - s[j].start))
        /\ s[j - 1].start + RunLength(s[j - 1]) = s[j].start
        /\ RunLength(s[j + 1]) > 0
  BY DEF JoinsAcrossRemoved
<1>7. CASE ~HasRoom(m, 2)
  <2>1. r = Failed(m)  BY <1>2, <1>7
  <2> HIDE DEF r, exact, to
  <2>2. CallKeeps(r, m, to, exact, L)  BY <2>1, RefusedKeeps
  <2> QED  BY <2>2 DEF r, exact, to
<1>8. CASE HasRoom(m, 2) /\ (s = << >> \/ i < c.start \/ at >= Capacity(c))
  <2>1. r = Done(m)  BY <1>2, <1>8
  <2>2. i \notin X
    <3>1. CASE s = << >>  BY <1>3, <1>4, <3>1
    <3>2. CASE s # << >> /\ (i < c.start \/ at >= Capacity(c))
      <4>1. ChunkOK(c) /\ c.start \in Nat /\ Capacity(c) \in Nat
        <5>1. ChunkOK(c)  BY <1>1, <1>5, <3>2 DEF StreamOK
        <5> HIDE DEF c
        <5> QED  BY <5>1, ChunkExtent, RunLengthBounds
      <4>2. ~(c.start <= i /\ i - c.start < Capacity(c))
        <5> HIDE DEF c
        <5> QED  BY <3>2, <4>1
      <4> QED  BY <1>3, <1>4, <4>2
    <3> QED  BY <1>8, <3>1, <3>2
  <2>3. to = X  BY <2>2
  <2> HIDE DEF r, exact, to
  <2>4. CallKeeps(r, m, to, exact, L)  BY <2>1, <2>3, RefusedKeeps
  <2> QED  BY <2>4 DEF r, exact, to
<1>9. CASE HasRoom(m, 2) /\ ~(s = << >> \/ i < c.start \/ at >= Capacity(c))
  <2>1. j \in 1 .. Len(s) /\ s # << >>  BY <1>5, <1>9
  <2>2. ChunkOK(c) /\ c.start \in Nat /\ Capacity(c) \in Nat
        /\ EndOf(c) = c.start + Capacity(c)
    <3>1. ChunkOK(c)  BY <1>1, <2>1 DEF StreamOK
    <3> HIDE DEF c
    <3> QED  BY <3>1, ChunkExtent, RunLengthBounds DEF EndOf
  <2>3. c.start <= i /\ i < EndOf(c) /\ i - c.start < Capacity(c)
    <3>1. ~(i < c.start) /\ ~(i - c.start >= Capacity(c))  BY <1>9
    <3> HIDE DEF c
    <3> QED  BY <2>2, <3>1
  <2>4. CASE ~IsRLE(c)
    <3>1. r = Done(ClearInPlace(m, j, i))  BY <1>2, <1>9, <2>4
    <3>2. Bridges(m, j, i) => JoinsAcrossRemoved(m, i)
      <4>1. ASSUME Bridges(m, j, i)  PROVE HasBit(s, i)
        <5>1. IsSet(c, i - c.start)  BY <4>1 DEF Bridges
        <5> QED  BY <1>4, <2>1, <2>3, <5>1
      <4>2. ASSUME Bridges(m, j, i)
            PROVE  /\ j \in 2 .. Len(s) - 1
                   /\ IsEmptyChunk(ClrBit(s[j], i - s[j].start))
                   /\ s[j - 1].start + RunLength(s[j - 1]) = s[j].start
                   /\ RunLength(s[j + 1]) > 0
        BY <4>2 DEF Bridges
      <4> QED  BY <1>6, <2>4, <4>1, <4>2
    <3> HIDE DEF j
    <3>3. InWindow(m, X, j, i, L) /\ HasRoom(m, 2)
      BY <1>9, <2>1, <2>3, <2>4 DEF InWindow
    <3>4. CallKeeps(Done(ClearInPlace(m, j, i)), m, X \ {i}, ~Bridges(m, j, i), L)
      BY ONLY <3>3, ClearInPlaceKeeps
    <3> HIDE DEF r, exact, to
    <3>5. exact => ~Bridges(m, j, i)  BY <3>2 DEF exact
    <3>6. CallKeeps(r, m, X \ {i}, exact, L)
      BY <3>1, <3>4, <3>5 DEF CallKeeps
    <3> QED  BY <3>6 DEF r, exact
  <2>5. CASE IsRLE(c)
    <3>1. r = IF i - m.chunks[j].start >= m.chunks[j].len
                THEN Done(Coalesce(m, j, m.chunks[j].start, i, FALSE))
              ELSE IF i - m.chunks[j].start + 1 = m.chunks[j].len
                THEN Done(DropLast(m, j, i))
              ELSE Separate(m, j, i, FALSE)
      BY <1>2, <1>9, <2>5
    <3> HIDE DEF j, r
    <3>2. InSpan(m, X, j, i, L) /\ IsRLE(m.chunks[j])
      BY <2>1, <2>3, <2>5 DEF InSpan
    <3>3. CallKeeps(r, m, X \ {i}, TRUE, L)  BY ONLY <3>1, <3>2, UnsetInRunKeeps
    <3>4. CallKeeps(r, m, X \ {i}, exact, L)  BY ONLY <3>3, WeakerKeeps
    <3> QED  BY <3>4 DEF r
  <2> QED  BY <2>4, <2>5
<1> QED  BY <1>7, <1>8, <1>9
=============================================================================
