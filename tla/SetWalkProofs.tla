--------------------------- MODULE SetWalkProofs ---------------------------
(***************************************************************************)
(* The walk of two maps, for every size of its parts: the inductive        *)
(* invariant of SetWalk, and what follows from it.                         *)
(***************************************************************************)
EXTENDS SetWalk, EmitterTheorems

----------------------------------------------------------------------------
(* One of the two maps, and where the walk is in it.                       *)

\* The chunks of an operand whose indices are below L.
IsOperand(s, L) == Limit(L) /\ StreamOK(s, 0, L) /\ \A j \in 1 .. Len(s) : Canonical(s[j])

\* The walk is at chunk j of s, and has taken it up to cur.  A chunk that was
\* taken in part is a run.
Side(s, j, cur, L) ==
  /\ IsOperand(s, L) /\ j \in 1 .. Len(s) + 1 /\ cur \in Nat /\ Boundary(cur)
  /\ j <= Len(s) => /\ cur <= EndOf(s[j])
                    /\ cur > s[j].start => IsRLE(s[j]) \/ cur = EndOf(s[j])

\* Something of chunk j is left.
Open(s, j, cur) == j <= Len(s) => cur < EndOf(s[j])

\* Up to where s has been taken.
PlaceIn(s, j, cur, L) == IF j > Len(s) THEN L ELSE Greater(cur, s[j].start)

\* Nothing of S is in [f, p).
Clear(S, f, p) == \A x \in S : ~(f <= x /\ x < p)
Below(S, f) == {x \in S : x < f}

----------------------------------------------------------------------------
(* The walk.                                                               *)

Want(o, A, B) ==
  CASE o = "union"        -> A \cup B
    [] o = "intersection" -> A \cap B
    [] o = "difference"   -> A \ B

\* Frontier, below L.
Edge(o, p, q) ==
  CASE o = "union"        -> Lesser(p, q)
    [] o = "intersection" -> Greater(p, q)
    [] o = "difference"   -> p

\* Each operation on its way, with the result m: it holds what is wanted below
\* the edge.  What was passed has nothing at or after it.
UnionGoes(s, j, cur, t, k, new, m, L) ==
  LET p == PlaceIn(s, j, cur, L)
      q == PlaceIn(t, k, new, L)
      f == Lesser(p, q)
  IN /\ Side(s, j, cur, L) /\ Side(t, k, new, L) /\ Open(s, j, cur) /\ Open(t, k, new)
     /\ Clear(Bits(s), f, p) /\ Clear(Bits(t), f, q)
     /\ Written(m, Below(Bits(s) \cup Bits(t), f), f)
IntersectionGoes(s, j, cur, t, k, new, m, L) ==
  LET f == Greater(PlaceIn(s, j, cur, L), PlaceIn(t, k, new, L))
  IN /\ Side(s, j, cur, L) /\ Side(t, k, new, L) /\ cur = 0 /\ new = 0
     /\ Written(m, Below(Bits(s) \cap Bits(t), f), f)
DifferenceGoes(s, j, cur, t, k, new, ph, m, L) ==
  LET p == PlaceIn(s, j, cur, L)
      q == PlaceIn(t, k, new, L)
  IN /\ Side(s, j, cur, L) /\ Side(t, k, new, L) /\ new = 0
     /\ Clear(Bits(t), p, q)
     /\ ph \in {"outer", "inner", "tail"}
     /\ ph = "outer" => cur = 0
     /\ ph # "outer" => j <= Len(s) /\ cur >= s[j].start
     /\ ph = "inner" => Open(s, j, cur)
     /\ ph = "tail" => cur = EndOf(s[j]) \/ EndOf(s[j]) <= q
     /\ Written(m, Below(Bits(s) \ Bits(t), p), p)
Goes(o, s, j, cur, t, k, new, ph, m, L) ==
  CASE o = "union"        -> UnionGoes(s, j, cur, t, k, new, m, L)
    [] o = "intersection" -> IntersectionGoes(s, j, cur, t, k, new, m, L)
    [] o = "difference"   -> DifferenceGoes(s, j, cur, t, k, new, ph, m, L)

Target == Want(op, Bits(a), Bits(b))

\* The inductive invariant.
WalkInv(L) ==
  /\ op \in Operations /\ phase \in {"outer", "inner", "tail"}
  /\ status \in {"walking", "done", "empty", "failed"}
  /\ Side(a, ai, acur, L) /\ Side(b, bi, bcur, L) /\ Open(b, bi, bcur)
  /\ status = "walking" => Goes(op, a, ai, acur, b, bi, bcur, phase, out, L)
  /\ status = "done" => Stores(out, Target, L) /\ LeastResult <= out.cap
  /\ status = "empty" => Target = {} /\ ChunkHolds(out, {}, L)
  /\ status = "failed" => ChunkHolds(out, {}, L)

----------------------------------------------------------------------------
(* A side.                                                                 *)

\* A chunk, and up to where it has been taken.
ChunkAt(c, p, L) ==
  /\ Canonical(c) /\ Limit(L) /\ ChunkCap \in Nat /\ ChunkCap >= 2
  /\ c.start \in Nat /\ Boundary(c.start) /\ EndOf(c) \in Nat /\ Boundary(EndOf(c))
  /\ c.start + ChunkCap <= EndOf(c) /\ EndOf(c) <= L /\ Limit(EndOf(c))
  /\ p \in Nat /\ Boundary(p) /\ c.start <= p /\ p <= EndOf(c)
  /\ p > c.start => IsRLE(c) \/ p = EndOf(c)
  /\ ~IsRLE(c) => EndOf(c) = c.start + ChunkCap

\* What a limit is.
LEMMA LimitIs ==
  ASSUME NEW L, Limit(L)
  PROVE  L \in Nat /\ Boundary(L) /\ L <= RLEMax /\ RLEMax \in Nat
  BY ChunkConstants DEF Limit

\* The chunk a side is at.
LEMMA SideChunk ==
  ASSUME NEW s, NEW j, NEW cur, NEW L, Side(s, j, cur, L), j <= Len(s)
  PROVE  /\ ChunkAt(s[j], PlaceIn(s, j, cur, L), L)
         /\ PlaceIn(s, j, cur, L) = Greater(cur, s[j].start)
         /\ Open(s, j, cur) => PlaceIn(s, j, cur, L) < EndOf(s[j])
         /\ cur > s[j].start => PlaceIn(s, j, cur, L) = cur
         /\ cur <= s[j].start => PlaceIn(s, j, cur, L) = s[j].start
<1> DEFINE c == s[j]
           p == PlaceIn(s, j, cur, L)
<1>1. /\ IsOperand(s, L) /\ j \in 1 .. Len(s) + 1 /\ cur \in Nat /\ Boundary(cur)
      /\ cur <= EndOf(c) /\ (cur > c.start => IsRLE(c) \/ cur = EndOf(c))
  BY DEF Side
<1>2. Limit(L) /\ StreamOK(s, 0, L) /\ Len(s) \in Nat  BY <1>1, LenProperties
      DEF IsOperand, StreamOK
<1>3. j \in 1 .. Len(s)  BY <1>1, <1>2
<1>4. Canonical(c) /\ ChunkOK(c) /\ EndOf(c) <= L
  BY <1>1, <1>2, <1>3 DEF IsOperand, StreamOK
<1>5. p = Greater(cur, c.start)
  <2>1. ~(j > Len(s))  BY <1>2, <1>3
  <2> QED  BY <2>1 DEF PlaceIn
<1> HIDE DEF p, c
<1>6. /\ c.start \in Nat /\ Boundary(c.start) /\ EndOf(c) \in Nat /\ Boundary(EndOf(c))
      /\ c.start + ChunkCap <= EndOf(c)
  BY <1>4, ChunkExtent
<1>7. L \in Nat /\ L <= RLEMax /\ RLEMax \in Nat /\ ChunkCap \in Nat /\ ChunkCap >= 2
  BY <1>2, LimitIs, ChunkCapPositive
<1>8. Limit(EndOf(c))  BY <1>4, <1>6, <1>7 DEF Limit
<1>9. /\ p \in Nat /\ Boundary(p) /\ c.start <= p /\ p <= EndOf(c)
      /\ p = cur \/ p = c.start
      /\ cur > c.start => p = cur
      /\ cur <= c.start => p = c.start
  BY <1>1, <1>5, <1>6, <1>7 DEF Greater
<1>10. p > c.start => IsRLE(c) \/ p = EndOf(c)
  BY <1>1, <1>6, <1>9
<1>11. ~IsRLE(c) => EndOf(c) = c.start + ChunkCap
  BY <1>4, SparseWords
<1>12. ChunkAt(c, p, L)
  BY <1>2, <1>4, <1>6, <1>7, <1>8, <1>9, <1>10, <1>11 DEF ChunkAt
<1>13. Open(s, j, cur) => p < EndOf(c)
  <2>1. ASSUME Open(s, j, cur)  PROVE p < EndOf(c)
    <3>1. cur < EndOf(c)  BY <1>2, <1>3, <2>1 DEF Open, c
    <3> QED  BY <1>1, <1>6, <1>7, <1>9, <3>1
  <2> QED  BY <2>1
<1> QED  BY <1>5, <1>9, <1>12, <1>13 DEF p, c

\* A side that is through.
LEMMA SideOver ==
  ASSUME NEW s, NEW j, NEW cur, NEW L, Side(s, j, cur, L), j > Len(s)
  PROVE  PlaceIn(s, j, cur, L) = L
  BY DEF PlaceIn

\* What an operand holds is below its limit, and around a chunk it is what the
\* chunk holds.
LEMMA OperandBits ==
  ASSUME NEW s, NEW L, IsOperand(s, L)
  PROVE  /\ Bits(s) \subseteq Nat /\ \A x \in Bits(s) : x < L
         /\ \A j \in 1 .. Len(s) : \A x \in Nat :
              /\ s[j].start <= x /\ x < EndOf(s[j]) => (x \in Bits(s) <=> x \in BitsOf(s[j]))
              /\ /\ EndOf(s[j]) <= x
                 /\ j + 1 <= Len(s) => x < s[j + 1].start
                 => x \notin Bits(s)
              /\ 1 <= Len(s) /\ x < s[1].start => x \notin Bits(s)
<1>1. Limit(L) /\ StreamOK(s, 0, L) /\ Len(s) \in Nat /\ L \in Nat
  BY LenProperties DEF IsOperand, StreamOK, Limit
<1>2. ASSUME NEW j \in 1 .. Len(s)
      PROVE  /\ s[j].start \in Nat /\ EndOf(s[j]) \in Nat /\ EndOf(s[j]) <= L
             /\ s[j].start < EndOf(s[j])
  <2>1. ChunkOK(s[j]) /\ EndOf(s[j]) <= L  BY <1>1 DEF StreamOK
  <2>2. s[j].start \in Nat /\ EndOf(s[j]) \in Nat /\ s[j].start + ChunkCap <= EndOf(s[j])
    BY <2>1, ChunkExtent
  <2> QED  BY <2>1, <2>2, ChunkCapPositive
<1>3. ASSUME NEW x \in Bits(s)
      PROVE  x \in Nat /\ \E j \in 1 .. Len(s) :
               x \in BitsOf(s[j]) /\ s[j].start <= x /\ x < EndOf(s[j])
  <2>1. PICK j \in 1 .. Len(s) : x \in BitsOf(s[j])  BY DEF Bits
  <2> QED  BY <2>1 DEF BitsOf
<1>4. ASSUME NEW x \in Bits(s)  PROVE x < L
  <2>1. PICK j \in 1 .. Len(s) : x < EndOf(s[j])  BY <1>3
  <2>2. x \in Nat /\ EndOf(s[j]) \in Nat /\ EndOf(s[j]) <= L  BY <1>2, <1>3
  <2> QED  BY <1>1, <2>1, <2>2
<1>5. ASSUME NEW j \in 1 .. Len(s), NEW k \in 1 .. Len(s), j < k
      PROVE  EndOf(s[j]) <= s[k].start
  BY <1>1, <1>5 DEF StreamOK
<1>6. ASSUME NEW j \in 1 .. Len(s), NEW x \in Nat, s[j].start <= x, x < EndOf(s[j])
      PROVE  x \in Bits(s) <=> x \in BitsOf(s[j])
  <2>1. ASSUME x \in Bits(s)  PROVE x \in BitsOf(s[j])
    <3>1. PICK k \in 1 .. Len(s) :
            x \in BitsOf(s[k]) /\ s[k].start <= x /\ x < EndOf(s[k])
      BY <1>3, <2>1
    <3>2. CASE j < k
      <4>1. EndOf(s[j]) <= s[k].start  BY <1>5, <3>2
      <4> QED  BY <1>2, <1>6, <3>1, <4>1
    <3>3. CASE k < j
      <4>1. EndOf(s[k]) <= s[j].start  BY <1>5, <3>3
      <4> QED  BY <1>2, <1>6, <3>1, <4>1
    <3>4. j = k \/ j < k \/ k < j  BY <1>1
    <3> QED  BY <3>1, <3>2, <3>3, <3>4
  <2>2. x \in BitsOf(s[j]) => x \in Bits(s)  BY DEF Bits
  <2> QED  BY <2>1, <2>2
<1>7. ASSUME NEW j \in 1 .. Len(s), NEW x \in Nat, EndOf(s[j]) <= x,
             j + 1 <= Len(s) => x < s[j + 1].start, x \in Bits(s)
      PROVE  FALSE
  <2>1. PICK k \in 1 .. Len(s) : s[k].start <= x /\ x < EndOf(s[k])  BY <1>3, <1>7
  <2>2. CASE k <= j
    <3>1. k = j \/ k < j  BY <1>1, <2>2
    <3>2. CASE k = j  BY <1>2, <1>7, <2>1, <3>2
    <3>3. CASE k < j
      <4>1. EndOf(s[k]) <= s[j].start  BY <1>5, <3>3
      <4> QED  BY <1>2, <1>7, <2>1, <4>1
    <3> QED  BY <3>1, <3>2, <3>3
  <2>3. CASE ~(k <= j)
    <3>1. j + 1 \in 1 .. Len(s) /\ (k = j + 1 \/ j + 1 < k)  BY <1>1, <2>3
    <3>2. x < s[j + 1].start  BY <1>7, <3>1
    <3>3. s[j + 1].start \in Nat /\ EndOf(s[j + 1]) \in Nat /\ s[j + 1].start < EndOf(s[j + 1])
      BY <1>2, <3>1
    <3>4. CASE k = j + 1  BY <2>1, <3>2, <3>3, <3>4
    <3>5. CASE j + 1 < k
      <4>1. EndOf(s[j + 1]) <= s[k].start  BY <1>5, <3>1, <3>5
      <4>2. s[k].start \in Nat  BY <1>2
      <4> QED  BY <1>7, <2>1, <3>2, <3>3, <4>1, <4>2
    <3> QED  BY <3>1, <3>4, <3>5
  <2> QED  BY <2>2, <2>3
<1>8. ASSUME 1 <= Len(s), NEW x \in Nat, x < s[1].start, x \in Bits(s)  PROVE FALSE
  <2>1. PICK k \in 1 .. Len(s) : s[k].start <= x /\ x < EndOf(s[k])  BY <1>3, <1>8
  <2>2. 1 \in 1 .. Len(s) /\ (k = 1 \/ 1 < k)  BY <1>1, <1>8
  <2>3. s[1].start \in Nat /\ EndOf(s[1]) \in Nat /\ s[1].start < EndOf(s[1])
        /\ s[k].start \in Nat
    BY <1>2, <2>2
  <2>4. CASE k = 1  BY <1>8, <2>1, <2>3, <2>4
  <2>5. CASE 1 < k
    <3>1. EndOf(s[1]) <= s[k].start  BY <1>5, <2>2, <2>5
    <3> QED  BY <1>8, <2>1, <2>3, <3>1
  <2> QED  BY <2>2, <2>4, <2>5
<1> QED  BY <1>3, <1>4, <1>6, <1>7, <1>8

\* Around its chunk a side holds what the chunk holds.
LEMMA SideBits ==
  ASSUME NEW s, NEW j, NEW cur, NEW L, Side(s, j, cur, L)
  PROVE  /\ Bits(s) \subseteq Nat /\ \A x \in Bits(s) : x < L
         /\ j <= Len(s) => \A x \in Nat :
              s[j].start <= x /\ x < EndOf(s[j]) => (x \in Bits(s) <=> x \in BitsOf(s[j]))
<1>1. IsOperand(s, L) /\ j \in 1 .. Len(s) + 1  BY DEF Side
<1>2. Len(s) \in Nat  BY <1>1, LenProperties DEF IsOperand, StreamOK
<1>3. j <= Len(s) => j \in 1 .. Len(s)  BY <1>1, <1>2
<1> QED  BY <1>1, <1>3, OperandBits

\* The cursor's way of moving: on to `to', or to the next chunk.
MovesTo(s, j, to, k, new) ==
  IF to >= EndOf(s[j]) THEN k = j + 1 /\ new = 0 ELSE k = j /\ new = to

\* What a side is like after it has been taken up to `to'.
Moved(s, j, to, k, new, L) ==
  /\ Side(s, k, new, L) /\ Open(s, k, new) /\ j <= k
  /\ PlaceIn(s, k, new, L) \in Nat /\ to <= PlaceIn(s, k, new, L)
  /\ PlaceIn(s, k, new, L) <= L
  /\ Clear(Bits(s), to, PlaceIn(s, k, new, L))
  /\ to < EndOf(s[j]) => PlaceIn(s, k, new, L) = to

\* A side moves on.  It stops inside a chunk only if that is a run.
LEMMA SideMoves ==
  ASSUME NEW s, NEW j, NEW cur, NEW L, Side(s, j, cur, L), j <= Len(s),
         NEW to \in Nat, Boundary(to), PlaceIn(s, j, cur, L) <= to, to <= EndOf(s[j]),
         to < EndOf(s[j]) => IsRLE(s[j]), NEW k, NEW new, MovesTo(s, j, to, k, new)
  PROVE  Moved(s, j, to, k, new, L)
<1> DEFINE c == s[j]
           p == PlaceIn(s, j, cur, L)
           q == PlaceIn(s, k, new, L)
<1>1. ChunkAt(c, p, L)  BY SideChunk
<1>2. /\ c.start \in Nat /\ EndOf(c) \in Nat /\ EndOf(c) <= L /\ p \in Nat
      /\ c.start <= p /\ Limit(L) /\ L \in Nat /\ c.start < EndOf(c)
  BY <1>1 DEF ChunkAt, Limit
<1>3. IsOperand(s, L) /\ j \in 1 .. Len(s) + 1  BY DEF Side
<1>4. Len(s) \in Nat  BY <1>3, LenProperties DEF IsOperand, StreamOK
<1>5. CASE to < EndOf(c)
  <2>1. k = j /\ new = to  BY <1>2, <1>5 DEF MovesTo
  <2>2. Side(s, k, new, L)  BY <1>2, <1>3, <1>5, <2>1 DEF Side
  <2>3. q = to
    <3>1. q = Greater(to, c.start)
      <4>1. ~(k > Len(s))  BY <1>3, <1>4, <2>1
      <4> QED  BY <2>1, <4>1 DEF PlaceIn
    <3>2. c.start <= to  BY <1>2
    <3> HIDE DEF q, c
    <3> QED  BY <1>2, <3>1, <3>2 DEF Greater
  <2>4. Open(s, k, new)  BY <1>5, <2>1 DEF Open
  <2>5. to <= L /\ j <= k  BY <1>2, <1>3, <1>4, <1>5, <2>1
  <2>6. Clear(Bits(s), to, q)
    <3>1. \A x \in Bits(s) : x \in Nat  BY SideBits
    <3> HIDE DEF q
    <3> QED  BY <2>3, <3>1 DEF Clear
  <2> HIDE DEF q
  <2>7. q \in Nat /\ to <= q /\ q <= L  BY <1>2, <2>3, <2>5
  <2> QED  BY <2>2, <2>3, <2>4, <2>5, <2>6, <2>7 DEF Moved, q
<1>6. CASE ~(to < EndOf(c))
  <2>1. to = EndOf(c)  BY <1>2, <1>6
  <2>2. k = j + 1 /\ new = 0  BY <1>2, <2>1 DEF MovesTo
  <2>3. k \in 1 .. Len(s) + 1 /\ j \in 1 .. Len(s) /\ j <= k  BY <1>3, <1>4, <2>2
  <2>4. ASSUME k <= Len(s)
        PROVE  /\ s[k].start \in Nat /\ EndOf(s[k]) \in Nat /\ EndOf(s[k]) <= L
               /\ s[k].start < EndOf(s[k]) /\ EndOf(c) <= s[k].start
    <3>1. k \in 1 .. Len(s) /\ j < k  BY <1>3, <1>4, <2>2, <2>3, <2>4
    <3>2. ChunkOK(s[k]) /\ EndOf(s[k]) <= L  BY <1>3, <3>1 DEF IsOperand, StreamOK
    <3>3. EndOf(c) <= s[k].start  BY <1>3, <2>3, <3>1 DEF IsOperand, StreamOK
    <3>4. /\ s[k].start \in Nat /\ EndOf(s[k]) \in Nat
          /\ s[k].start + ChunkCap <= EndOf(s[k])
      BY <3>2, ChunkExtent
    <3>5. s[k].start < EndOf(s[k])  BY <3>4, ChunkCapPositive
    <3> QED  BY <3>2, <3>3, <3>4, <3>5
  <2>5. Side(s, k, new, L)
    <3>1. k <= Len(s) => new <= EndOf(s[k]) /\ ~(new > s[k].start)  BY <2>2, <2>4
    <3>2. new \in Nat /\ Boundary(new)  BY <2>2, BoundaryZero
    <3> QED  BY <1>3, <2>3, <3>1, <3>2 DEF Side
  <2>6. Open(s, k, new)  BY <2>2, <2>4 DEF Open
  <2>7. CASE k <= Len(s)
    <3>1. q = s[k].start
      <4>1. q = Greater(new, s[k].start)  BY <1>4, <2>3, <2>7 DEF PlaceIn
      <4> HIDE DEF q
      <4> QED  BY <2>2, <2>4, <2>7, <4>1 DEF Greater
    <3> HIDE DEF q
    <3>2. q \in Nat /\ to <= q /\ q <= L  BY <1>2, <2>1, <2>4, <2>7, <3>1
    <3>3. Clear(Bits(s), to, q)
      <4>1. ASSUME NEW x \in Bits(s), to <= x, x < q  PROVE FALSE
        <5>1. x \in Nat  BY SideBits
        <5>2. j + 1 <= Len(s) => x < s[j + 1].start  BY <2>2, <3>1, <4>1
        <5> QED  BY <1>3, <2>1, <2>3, <4>1, <5>1, <5>2, OperandBits
      <4> QED  BY <4>1 DEF Clear
    <3>4. ~(to < EndOf(c))  BY <1>6
    <3> QED  BY <2>3, <2>5, <2>6, <3>2, <3>3, <3>4 DEF Moved, q
  <2>8. CASE ~(k <= Len(s))
    <3>1. k > Len(s)  BY <1>4, <2>3, <2>8
    <3>2. q = L  BY <3>1 DEF PlaceIn
    <3> HIDE DEF q
    <3>3. q \in Nat /\ to <= q /\ q <= L  BY <1>2, <2>1, <3>2
    <3>4. Clear(Bits(s), to, q)
      <4>1. ASSUME NEW x \in Bits(s), to <= x, x < q  PROVE FALSE
        <5>1. x \in Nat  BY SideBits
        <5>2. ~(j + 1 <= Len(s))  BY <2>2, <2>8
        <5> QED  BY <1>3, <2>1, <2>3, <4>1, <5>1, <5>2, OperandBits
      <4> QED  BY <4>1 DEF Clear
    <3>5. ~(to < EndOf(c))  BY <1>6
    <3> QED  BY <2>3, <2>5, <2>6, <3>3, <3>4, <3>5 DEF Moved, q
  <2> QED  BY <2>7, <2>8
<1> QED  BY <1>5, <1>6

\* Where nothing is wanted the result is complete as it is.
LEMMA NothingBetween ==
  ASSUME NEW m, NEW W, W \subseteq Nat, NEW g, Written(m, Below(W, g), g),
         NEW h \in Nat, g <= h, Clear(W, g, h)
  PROVE  Written(m, Below(W, h), h)
<1>1. g \in Nat  BY DEF Written
<1>2. Below(W, h) = Below(W, g)
  <2>1. ASSUME NEW x \in W  PROVE x < h <=> x < g
    <3>1. x \in Nat /\ ~(g <= x /\ x < h)  BY DEF Clear
    <3> QED  BY <1>1, <3>1
  <2> QED  BY <2>1 DEF Below
<1> QED  BY <1>2, WrittenFurther

\* What is wanted below g is what is wanted below f, and Y.
Completes(W, f, Y, g) == Below(W, f) \cup Y = Below(W, g)

\* The set below g is the set below f and what is between.
LEMMA UpTo ==
  ASSUME NEW W, W \subseteq Nat, NEW f \in Nat, NEW g \in Nat, f <= g, NEW Y,
         Y \subseteq Nat, \A x \in Nat : x \in Y <=> x \in W /\ f <= x /\ x < g
  PROVE  Completes(W, f, Y, g)
<1>1. ASSUME NEW x \in Nat  PROVE x \in Below(W, f) \cup Y <=> x \in Below(W, g)
  <2>1. x \in Y <=> x \in W /\ f <= x /\ x < g  OBVIOUS
  <2> QED  BY <2>1 DEF Below
<1>2. Below(W, f) \subseteq Nat /\ Below(W, g) \subseteq Nat  BY DEF Below
<1> QED  BY <1>1, <1>2 DEF Completes

----------------------------------------------------------------------------
(* What is written where no chunk of the other map is.                     *)

\* WriteRest sees the cursor or the chunk's start, whichever is further.
LEMMA RestFrom ==
  ASSUME NEW m, NEW s, NEW j, NEW cur, NEW L, Side(s, j, cur, L), j <= Len(s)
  PROVE  WriteRest(m, s[j], cur) = WriteRest(m, s[j], PlaceIn(s, j, cur, L))
<1> DEFINE p == PlaceIn(s, j, cur, L)
<1>1. /\ s[j].start \in Nat /\ cur \in Nat
      /\ cur > s[j].start => p = cur
      /\ cur <= s[j].start => p = s[j].start
  <2>1. /\ ChunkAt(s[j], p, L)
        /\ cur > s[j].start => p = cur
        /\ cur <= s[j].start => p = s[j].start
    BY SideChunk
  <2> QED  BY <2>1 DEF ChunkAt, Side
<1> HIDE DEF p
<1>2. CASE cur > s[j].start  BY <1>1, <1>2 DEF p
<1>3. CASE ~(cur > s[j].start)
  <2>1. cur <= s[j].start /\ p <= s[j].start  BY <1>1, <1>3
  <2> QED  BY <2>1 DEF WriteRest, p
<1> QED  BY <1>2, <1>3

\* A place in a chunk is its own aligned offset.
LEMMA PlaceAligned ==
  ASSUME NEW p \in Nat, Boundary(p)
  PROVE  AlignedOffset(p) = p /\ RoundUp(p) = p
<1>1. /\ AlignedOffset(p) \in Nat /\ Boundary(AlignedOffset(p)) /\ AlignedOffset(p) <= p
      /\ p < AlignedOffset(p) + ChunkCap
  BY AlignedOffsetBounds
<1>2. ~(AlignedOffset(p) < p)
  <2>1. ASSUME AlignedOffset(p) < p  PROVE FALSE
    <3>1. AlignedOffset(p) + ChunkCap <= p  BY <1>1, <2>1, BoundaryGap
    <3> QED  BY <1>1, <3>1, ChunkCapPositive
  <2> QED  BY <2>1
<1>3. RoundUp(p) \in Nat /\ p <= RoundUp(p) /\ RoundUp(p) <= p
  BY RoundUpBounds, RoundUpLeast
<1> QED  BY <1>1, <1>2, <1>3

\* A part of a chunk, from its place on.
LEMMA PartWritten ==
  ASSUME NEW m, NEW X, NEW F, Written(m, X, F), NEW c, NEW p, NEW L, ChunkAt(c, p, L),
         F <= p, NEW to \in Nat, Boundary(to), p <= to, to <= EndOf(c),
         ~IsRLE(c) => to = p \/ to = EndOf(c)
  PROVE  Written(EmitChunkBits(m, c, p, to), X \cup Within(c, p, to), to)
<1>1. /\ Canonical(c) /\ p \in Nat /\ Boundary(p) /\ c.start <= p /\ c.start \in Nat
      /\ EndOf(c) \in Nat /\ Limit(EndOf(c))
      /\ (p > c.start => IsRLE(c) \/ p = EndOf(c))
  BY DEF ChunkAt
<1>2. F \in Nat  BY DEF Written
<1>3. Limit(to)
  <2>1. EndOf(c) <= RLEMax /\ RLEMax \in Nat  BY <1>1, LimitIs
  <2>2. to <= RLEMax  BY <1>1, <2>1
  <2> QED  BY <2>2 DEF Limit
<1>4. Greater(p, c.start) = p  BY <1>1 DEF Greater
<1>5. AlignedOffset(p) = p  BY <1>1, PlaceAligned
<1>6. p < to /\ ~IsRLE(c) => p <= c.start /\ to = EndOf(c)  BY <1>1
<1>7. Clips(c, p, to, F, to)
  BY <1>1, <1>2, <1>3, <1>4, <1>5, <1>6 DEF Clips
<1> QED  BY <1>7, EmitChunkBitsWritten

\* The rest of a chunk.
LEMMA RestWritten ==
  ASSUME NEW m, NEW X, NEW F, Written(m, X, F), NEW c, NEW p, NEW L, ChunkAt(c, p, L),
         F <= p
  PROVE  Written(WriteRest(m, c, p), X \cup Within(c, p, EndOf(c)), EndOf(c))
<1>1. /\ Canonical(c) /\ p \in Nat /\ c.start <= p /\ c.start \in Nat /\ p <= EndOf(c)
      /\ EndOf(c) \in Nat /\ Boundary(EndOf(c))
      /\ (p > c.start => IsRLE(c) \/ p = EndOf(c))
  BY DEF ChunkAt
<1>2. F \in Nat  BY DEF Written
<1>3. CASE p <= c.start
  <2>1. WriteRest(m, c, p) = AppendChunk(m, c)  BY <1>3 DEF WriteRest
  <2>2. Within(c, p, EndOf(c)) = BitsOf(c)
    <3>1. ASSUME NEW x \in BitsOf(c)  PROVE p <= x /\ x < EndOf(c)
      <4>1. x \in Nat /\ c.start <= x /\ x < EndOf(c)  BY DEF BitsOf
      <4> QED  BY <1>1, <1>3, <4>1
    <3> QED  BY <3>1 DEF Within
  <2>3. F <= c.start /\ EndOf(c) <= EndOf(c)  BY <1>1, <1>2, <1>3
  <2>4. Follows(c, F, EndOf(c))  BY <1>1, <2>3 DEF Follows
  <2> QED  BY <2>1, <2>2, <2>4, AppendChunkWritten
<1>4. CASE ~(p <= c.start)
  <2>1. WriteRest(m, c, p) = EmitChunkBits(m, c, p, EndOf(c))
    BY <1>4 DEF WriteRest, Ends, EndOf
  <2>2. EndOf(c) <= EndOf(c)  BY <1>1
  <2>3. Written(EmitChunkBits(m, c, p, EndOf(c)), X \cup Within(c, p, EndOf(c)), EndOf(c))
    BY <1>1, <2>2, PartWritten
  <2> QED  BY <2>1, <2>3
<1> QED  BY <1>3, <1>4

----------------------------------------------------------------------------
(* Two chunks that overlap.                                                *)

\* Something is left of both, and they overlap there.
Meeting(c, p, d, q, L) ==
  /\ ChunkAt(c, p, L) /\ ChunkAt(d, q, L)
  /\ p < EndOf(c) /\ q < EndOf(d) /\ p < EndOf(d) /\ q < EndOf(c)
MeetStart(p, q) == Greater(p, q)
MeetEnd(c, d) == Lesser(EndOf(c), EndOf(d))

\* Where they overlap a sparse chunk does whole.
LEMMA MeetingOfSparse ==
  ASSUME NEW c, NEW p, NEW d, NEW q, NEW L, Meeting(c, p, d, q, L), ~IsRLE(c)
  PROVE  /\ p = c.start /\ MeetStart(p, q) = p /\ MeetEnd(c, d) = EndOf(c)
         /\ MeetStart(q, p) = p /\ MeetEnd(d, c) = EndOf(c)
         /\ EndOf(c) = p + ChunkCap
<1>1. /\ ChunkCap \in Nat /\ ChunkCap >= 2
      /\ p \in Nat /\ Boundary(p) /\ c.start <= p /\ c.start \in Nat /\ Boundary(c.start)
      /\ p > c.start => IsRLE(c) \/ p = EndOf(c)
      /\ EndOf(c) = c.start + ChunkCap /\ EndOf(c) \in Nat
      /\ q \in Nat /\ Boundary(q) /\ EndOf(d) \in Nat /\ Boundary(EndOf(d))
      /\ p < EndOf(c) /\ q < EndOf(d) /\ p < EndOf(d) /\ q < EndOf(c)
  BY DEF Meeting, ChunkAt
<1>2. p = c.start  BY <1>1
<1>3. q <= p
  <2>1. ASSUME p < q  PROVE FALSE
    <3>1. p + ChunkCap <= q  BY <1>1, <2>1, BoundaryGap
    <3> QED  BY <1>1, <1>2, <3>1
  <2> QED  BY <1>1, <2>1
<1>4. p + ChunkCap <= EndOf(d)  BY <1>1, BoundaryGap
<1>5. EndOf(c) <= EndOf(d)  BY <1>1, <1>2, <1>4
<1> DEFINE x == EndOf(c)
           y == EndOf(d)
<1> HIDE DEF x, y
<1>6. x \in Nat /\ y \in Nat /\ x <= y  BY <1>1, <1>5 DEF x, y
<1>7. Lesser(x, y) = x /\ Lesser(y, x) = x  BY <1>6 DEF Lesser
<1>8. Greater(p, q) = p /\ Greater(q, p) = p  BY <1>1, <1>3 DEF Greater
<1> QED  BY <1>1, <1>2, <1>7, <1>8 DEF MeetStart, MeetEnd, x, y

\* Where they overlap.
LEMMA MeetingIs ==
  ASSUME NEW c, NEW p, NEW d, NEW q, NEW L, Meeting(c, p, d, q, L)
  PROVE  LET o == MeetStart(p, q)
             e == MeetEnd(c, d)
         IN /\ o \in Nat /\ Boundary(o) /\ e \in Nat /\ Boundary(e) /\ Limit(e)
            /\ o < e /\ e <= L /\ p <= o /\ q <= o /\ e <= EndOf(c) /\ e <= EndOf(d)
            /\ c.start <= o /\ d.start <= o
            /\ o = IF q <= p THEN p ELSE q
            /\ e = IF EndOf(c) <= EndOf(d) THEN EndOf(c) ELSE EndOf(d)
            /\ ~(IsRLE(c) /\ IsRLE(d)) =>
                 Window(c, d) = o /\ Window(d, c) = o /\ e = o + ChunkCap
            /\ ~IsRLE(c) => o = c.start
            /\ ~IsRLE(d) => o = d.start
<1> DEFINE o == MeetStart(p, q)
           e == MeetEnd(c, d)
           x == EndOf(c)
           y == EndOf(d)
<1>1. /\ ChunkCap \in Nat /\ ChunkCap >= 2
      /\ p \in Nat /\ Boundary(p) /\ c.start <= p /\ c.start \in Nat
      /\ x \in Nat /\ Boundary(x) /\ Limit(x) /\ x <= L
      /\ q \in Nat /\ Boundary(q) /\ d.start <= q /\ d.start \in Nat
      /\ y \in Nat /\ Boundary(y) /\ Limit(y) /\ y <= L
      /\ p < x /\ q < y /\ p < y /\ q < x
  BY DEF Meeting, ChunkAt
<1>2. L \in Nat  BY LimitIs DEF Meeting, ChunkAt
<1>3. ~IsRLE(c) => p = c.start /\ o = p /\ e = x /\ x = p + ChunkCap
  BY MeetingOfSparse
<1>4. ~IsRLE(d) => q = d.start /\ o = q /\ e = y /\ y = q + ChunkCap
  <2>1. Meeting(d, q, c, p, L)  BY DEF Meeting
  <2> QED  BY <2>1, MeetingOfSparse
<1>5. o = (IF q <= p THEN p ELSE q) /\ e = IF x <= y THEN x ELSE y
  BY <1>1 DEF MeetStart, MeetEnd, Greater, Lesser
<1> HIDE DEF o, e, x, y
<1>6. /\ o \in Nat /\ Boundary(o) /\ e \in Nat /\ Boundary(e) /\ Limit(e)
      /\ o < e /\ e <= L /\ p <= o /\ q <= o /\ e <= x /\ e <= y
      /\ c.start <= o /\ d.start <= o
  BY <1>1, <1>2, <1>5
<1>7. ~(IsRLE(c) /\ IsRLE(d)) =>
        Window(c, d) = o /\ Window(d, c) = o /\ e = o + ChunkCap
  BY <1>3, <1>4 DEF Window, TargetChunk
<1> QED  BY <1>3, <1>4, <1>5, <1>6, <1>7 DEF o, e, x, y

\* A chunk's words in a window.
LEMMA BitsInIs ==
  ASSUME NEW c, Canonical(c), NEW w \in Nat, ~IsRLE(c) => w = c.start
  PROVE  /\ BitsIn(c, w) \subseteq WindowBits
         /\ \A x \in Nat : x - w \in BitsIn(c, w) <=>
              x \in BitsOf(c) /\ w <= x /\ x < w + ChunkCap
<1>1. ChunkCap \in Nat  BY ChunkCapPositive
<1>2. CASE IsRLE(c)
  <2>1. /\ c.start \in Nat /\ c.len \in Nat
        /\ BitsOf(c) = c.start .. c.start + c.len - 1
    BY <1>2, RunFields DEF Canonical
  <2>2. BitsIn(c, w) = {k \in WindowBits : c.start <= w + k /\ w + k < c.start + c.len}
    BY <1>2 DEF BitsIn, RunBits
  <2>3. ASSUME NEW x \in Nat
        PROVE  x - w \in BitsIn(c, w) <=> x \in BitsOf(c) /\ w <= x /\ x < w + ChunkCap
    <3>1. w + (x - w) = x  OBVIOUS
    <3>2. x - w \in WindowBits <=> w <= x /\ x < w + ChunkCap  BY <1>1 DEF WindowBits
    <3>3. x \in BitsOf(c) <=> c.start <= x /\ x < c.start + c.len  BY <2>1
    <3> QED  BY <2>2, <3>1, <3>2, <3>3
  <2> QED  BY <2>2, <2>3
<1>3. CASE ~IsRLE(c)
  <2>1. BitsIn(c, w) = SparseBits(c)  BY <1>3 DEF BitsIn
  <2>2. /\ SparseBits(c) \subseteq WindowBits /\ EndOf(c) = w + ChunkCap
        /\ \A x \in Nat : x - w \in SparseBits(c) <=> x \in BitsOf(c)
    BY <1>3, SparseWords
  <2>3. \A x \in BitsOf(c) : w <= x /\ x < w + ChunkCap  BY <1>3, <2>2 DEF BitsOf
  <2> QED  BY <2>1, <2>2, <2>3
<1> QED  BY <1>2, <1>3

\* Where one of two is sparse, both answer for every slot.
LEMMA SlotsAtIs ==
  ASSUME NEW c, Canonical(c), NEW d, Canonical(d), ~(IsRLE(c) /\ IsRLE(d))
  PROVE  SlotsAt(c, d) = Vec /\ WordBits(SlotsAt(c, d)) = WindowBits
<1>1. SlotsAt(c, d) = Vec  BY SparseWords DEF SlotsAt
<1>2. ASSUME NEW x \in WindowBits  PROVE x \div BitsPerVector \in Vec
  BY BitOfIndex DEF WindowBits
<1> QED  BY <1>1, <1>2 DEF WordBits

\* The window of an overlap, written as words.
LEMMA MeetPieceWritten ==
  ASSUME NEW c, NEW p, NEW d, NEW q, NEW L, Meeting(c, p, d, q, L),
         ~(IsRLE(c) /\ IsRLE(d)), NEW W, W \subseteq Nat, NEW m,
         Written(m, Below(W, MeetStart(p, q)), MeetStart(p, q)),
         NEW bits, bits \subseteq WindowBits,
         \A x \in Nat : MeetStart(p, q) <= x /\ x < MeetEnd(c, d) =>
           (x \in W <=> x - MeetStart(p, q) \in bits)
  PROVE  Written(AppendSparse(m, Piece(MeetStart(p, q), bits, Vec)),
                 Below(W, MeetEnd(c, d)), MeetEnd(c, d))
<1> DEFINE o == MeetStart(p, q)
           e == MeetEnd(c, d)
           w == Piece(o, bits, Vec)
<1>1. o \in Nat /\ Boundary(o) /\ e \in Nat /\ o < e /\ e = o + ChunkCap
  BY MeetingIs
<1>2. ChunkCap \in Nat  BY ChunkCapPositive
<1> HIDE DEF o, e
<1>3. w.start = o /\ w.bits = bits  BY DEF Piece
<1>4. IsWhole(w)  BY <1>1, <1>3 DEF IsWhole, Piece
<1> HIDE DEF w
<1>5. o <= w.start /\ w.start + ChunkCap <= e  BY <1>1, <1>2, <1>3
<1>6. Written(AppendSparse(m, w), Below(W, o) \cup PieceBits(w), e)
  BY <1>1, <1>4, <1>5, AppendSparseWritten DEF o
<1>7. Below(W, o) \cup PieceBits(w) = Below(W, e)
  <2>1. ASSUME NEW x \in Nat  PROVE x \in PieceBits(w) <=> x \in W /\ o <= x /\ x < e
    <3>1. x \in PieceBits(w) <=> x - o \in bits  BY <1>3 DEF PieceBits
    <3>2. x - o \in WindowBits => o <= x /\ x < e  BY <1>1, <1>2 DEF WindowBits
    <3>3. o <= x /\ x < e => (x \in W <=> x - o \in bits)  BY DEF o, e
    <3> QED  BY <3>1, <3>2, <3>3
  <2>2. PieceBits(w) \subseteq Nat /\ o <= e  BY <1>1 DEF PieceBits
  <2>3. Completes(W, o, PieceBits(w), e)  BY <1>1, <2>1, <2>2, UpTo
  <2> QED  BY <2>3 DEF Completes
<1> QED  BY <1>6, <1>7 DEF o, e, w

\* An overlap that holds a run from its beginning on.
LEMMA MeetRunWritten ==
  ASSUME NEW c, NEW p, NEW d, NEW q, NEW L, Meeting(c, p, d, q, L),
         NEW W, W \subseteq Nat, NEW m,
         Written(m, Below(W, MeetStart(p, q)), MeetStart(p, q)),
         NEW h \in Nat, h <= MeetEnd(c, d),
         \A x \in Nat : MeetStart(p, q) <= x /\ x < MeetEnd(c, d) => (x \in W <=> x < h)
  PROVE  Written(AppendRun(m, MeetStart(p, q), h), Below(W, MeetEnd(c, d)), MeetEnd(c, d))
<1> DEFINE o == MeetStart(p, q)
           e == MeetEnd(c, d)
<1>1. o \in Nat /\ Boundary(o) /\ e \in Nat /\ Boundary(e) /\ Limit(e) /\ o < e
  BY MeetingIs
<1>2. \A x \in Nat : o <= x /\ x < e => (x \in W <=> x < h)  OBVIOUS
<1>3. h <= e  OBVIOUS
<1>4. Written(m, Below(W, o), o)  OBVIOUS
<1> HIDE DEF o, e
<1>5. RoundUp(h) <= e  BY <1>1, <1>3, RoundUpLeast
<1>6. o <= o /\ o <= e  BY <1>1
<1>7. Written(AppendRun(m, o, h), Below(W, o) \cup (o .. h - 1), e)
  BY <1>1, <1>4, <1>5, <1>6, AppendRunWritten
<1>8. Below(W, o) \cup (o .. h - 1) = Below(W, e)
  <2>1. ASSUME NEW x \in Nat  PROVE x \in o .. h - 1 <=> x \in W /\ o <= x /\ x < e
    BY <1>1, <1>2, <1>3
  <2>2. o .. h - 1 \subseteq Nat  BY <1>1
  <2>3. Completes(W, o, o .. h - 1, e)  BY <1>1, <1>6, <2>1, <2>2, UpTo
  <2> QED  BY <2>3 DEF Completes
<1> QED  BY <1>7, <1>8 DEF o, e

----------------------------------------------------------------------------
(* sm_union                                                                *)

\* What two chunks hold from their places on.
EitherFrom(x, c, p, d, q) == (p <= x /\ x \in BitsOf(c)) \/ (q <= x /\ x \in BitsOf(d))

\* What comes before the overlap: nothing, or a part of the one that began first.
LEMMA UpToMeeting ==
  ASSUME NEW c, NEW p, NEW d, NEW q, NEW L, Meeting(c, p, d, q, L),
         NEW W, W \subseteq Nat, NEW m, Written(m, Below(W, Lesser(p, q)), Lesser(p, q)),
         \A x \in Nat : Lesser(p, q) <= x /\ x < MeetStart(p, q) =>
           (x \in W <=> EitherFrom(x, c, p, d, q))
  PROVE  Written(EmitChunkBits(EmitChunkBits(m, c, p, MeetStart(p, q)),
                               d, q, MeetStart(p, q)),
                 Below(W, MeetStart(p, q)), MeetStart(p, q))
<1> DEFINE o == MeetStart(p, q)
           f == Lesser(p, q)
           m1 == EmitChunkBits(m, c, p, o)
           m2 == EmitChunkBits(m1, d, q, o)
<1>1. /\ o \in Nat /\ Boundary(o) /\ p <= o /\ q <= o
      /\ o = (IF q <= p THEN p ELSE q)
      /\ (~IsRLE(c) => o = c.start) /\ (~IsRLE(d) => o = d.start)
  BY MeetingIs
<1>2. /\ ChunkAt(c, p, L) /\ ChunkAt(d, q, L) /\ p \in Nat /\ q \in Nat
      /\ p < EndOf(d) /\ q < EndOf(c) /\ p < EndOf(c) /\ q < EndOf(d)
      /\ EndOf(c) \in Nat /\ EndOf(d) \in Nat
      /\ c.start \in Nat /\ d.start \in Nat /\ c.start <= p /\ d.start <= q
  BY DEF Meeting, ChunkAt
<1>3. f = IF p <= q THEN p ELSE q  BY DEF Lesser
<1>4. /\ \A x \in Nat : f <= x /\ x < o => (x \in W <=> EitherFrom(x, c, p, d, q))
      /\ Written(m, Below(W, f), f)
  OBVIOUS
<1> HIDE DEF o, f
<1>5. CASE p <= q
  <2>1. f = p /\ o = q  BY <1>1, <1>2, <1>3, <1>5
  <2>2. m2 = m1
    <3>1. q >= o  BY <1>2, <2>1
    <3> HIDE DEF m1
    <3> QED  BY <3>1 DEF EmitChunkBits
  <2>3. p <= o /\ o <= EndOf(c) /\ f <= p  BY <1>2, <1>5, <2>1
  <2>4. ~IsRLE(c) => o = p \/ o = EndOf(c)  BY <1>1, <1>2, <2>1
  <2>5. Written(m1, Below(W, f) \cup Within(c, p, o), o)
    BY <1>1, <1>2, <1>4, <2>3, <2>4, PartWritten
  <2>6. Below(W, f) \cup Within(c, p, o) = Below(W, o)
    <3>1. ASSUME NEW x \in Nat
          PROVE  x \in Within(c, p, o) <=> x \in W /\ f <= x /\ x < o
      <4>1. x \in Within(c, p, o) <=> x \in BitsOf(c) /\ p <= x /\ x < o  BY DEF Within
      <4>2. f <= x /\ x < o => (x \in W <=> x \in BitsOf(c))
        BY <1>2, <1>4, <2>1 DEF EitherFrom
      <4> QED  BY <2>1, <4>1, <4>2
    <3>2. Within(c, p, o) \subseteq Nat /\ f \in Nat /\ f <= o
      BY <1>2, <1>5, <2>1 DEF Within, BitsOf
    <3>3. Completes(W, f, Within(c, p, o), o)  BY <1>1, <3>1, <3>2, UpTo
    <3> QED  BY <3>3 DEF Completes
  <2> QED  BY <2>2, <2>5, <2>6 DEF o
<1>6. CASE ~(p <= q)
  <2>1. f = q /\ o = p  BY <1>1, <1>2, <1>3, <1>6
  <2>2. m1 = m
    <3>1. p >= o  BY <1>2, <2>1
    <3> QED  BY <3>1 DEF EmitChunkBits
  <2>3. q <= o /\ o <= EndOf(d) /\ f <= q  BY <1>2, <1>6, <2>1
  <2>4. ~IsRLE(d) => o = q \/ o = EndOf(d)  BY <1>1, <1>2, <1>6, <2>1
  <2>5. Written(EmitChunkBits(m, d, q, o), Below(W, f) \cup Within(d, q, o), o)
    BY <1>1, <1>2, <1>4, <2>3, <2>4, PartWritten
  <2>6. Below(W, f) \cup Within(d, q, o) = Below(W, o)
    <3>1. ASSUME NEW x \in Nat
          PROVE  x \in Within(d, q, o) <=> x \in W /\ f <= x /\ x < o
      <4>1. x \in Within(d, q, o) <=> x \in BitsOf(d) /\ q <= x /\ x < o  BY DEF Within
      <4>2. f <= x /\ x < o => (x \in W <=> x \in BitsOf(d))
        BY <1>2, <1>4, <2>1 DEF EitherFrom
      <4> QED  BY <2>1, <4>1, <4>2
    <3>2. Within(d, q, o) \subseteq Nat /\ f \in Nat /\ f <= o
      BY <1>2, <1>6, <2>1 DEF Within, BitsOf
    <3>3. Completes(W, f, Within(d, q, o), o)  BY <1>1, <3>1, <3>2, UpTo
    <3> QED  BY <3>3 DEF Completes
  <2> QED  BY <2>2, <2>5, <2>6 DEF o
<1> QED  BY <1>2, <1>5, <1>6

\* The run a chunk holds in an overlap.
LEMMA RunInMeeting ==
  ASSUME NEW c, NEW p, NEW d, NEW q, NEW L, Meeting(c, p, d, q, L), IsRLE(c),
         NEW e, e = MeetEnd(c, d), NEW h, h = Lesser(e, c.start + c.len)
  PROVE  /\ h \in Nat /\ h <= e /\ Greater(MeetStart(p, q), c.start) = MeetStart(p, q)
         /\ \A x \in Nat : MeetStart(p, q) <= x /\ x < e => (x \in BitsOf(c) <=> x < h)
<1> DEFINE o == MeetStart(p, q)
<1>1. o \in Nat /\ e \in Nat /\ c.start <= o  BY MeetingIs
<1>2. /\ c.start \in Nat /\ c.len \in Nat
      /\ BitsOf(c) = c.start .. c.start + c.len - 1
  <2>1. Canonical(c)  BY DEF Meeting, ChunkAt
  <2> QED  BY <2>1, RunFields DEF Canonical
<1> HIDE DEF o
<1>3. h \in Nat /\ h <= e /\ (h = e \/ h = c.start + c.len) /\ h <= c.start + c.len
  BY <1>1, <1>2 DEF Lesser
<1>4. Greater(o, c.start) = o  BY <1>1, <1>2 DEF Greater
<1>5. ASSUME NEW x \in Nat, o <= x, x < e  PROVE x \in BitsOf(c) <=> x < h
  <2>1. x \in BitsOf(c) <=> c.start <= x /\ x < c.start + c.len  BY <1>2
  <2> QED  BY <1>1, <1>2, <1>3, <1>5, <2>1
<1> QED  BY <1>3, <1>4, <1>5 DEF o

\* Two runs that overlap, joined.
LEMMA UnionRunsWritten ==
  ASSUME NEW c, NEW p, NEW d, NEW q, NEW L, Meeting(c, p, d, q, L), IsRLE(c), IsRLE(d),
         NEW W, W \subseteq Nat, NEW m,
         Written(m, Below(W, MeetStart(p, q)), MeetStart(p, q)),
         \A x \in Nat : MeetStart(p, q) <= x /\ x < MeetEnd(c, d) =>
           (x \in W <=> x \in BitsOf(c) \/ x \in BitsOf(d))
  PROVE  Written(JoinedRuns(m, Greater(MeetStart(p, q), c.start),
                            Lesser(MeetEnd(c, d), c.start + c.len),
                            Greater(MeetStart(p, q), d.start),
                            Lesser(MeetEnd(c, d), d.start + d.len)),
                 Below(W, MeetEnd(c, d)), MeetEnd(c, d))
<1> DEFINE o == MeetStart(p, q)
           e == MeetEnd(c, d)
           h == Lesser(e, c.start + c.len)
           k == Lesser(e, d.start + d.len)
           g == IF o < h /\ o < k THEN Greater(h, k) ELSE IF o < h THEN h ELSE k
<1>1. /\ h \in Nat /\ h <= e /\ Greater(o, c.start) = o
      /\ \A x \in Nat : o <= x /\ x < e => (x \in BitsOf(c) <=> x < h)
  BY RunInMeeting
<1>2. /\ k \in Nat /\ k <= e /\ Greater(o, d.start) = o
      /\ \A x \in Nat : o <= x /\ x < e => (x \in BitsOf(d) <=> x < k)
  <2>1. Meeting(d, q, c, p, L)  BY DEF Meeting
  <2>2. MeetStart(q, p) = o /\ MeetEnd(d, c) = e
    <3>1. p \in Nat /\ q \in Nat /\ EndOf(c) \in Nat /\ EndOf(d) \in Nat
      BY DEF Meeting, ChunkAt
    <3> QED  BY <3>1 DEF MeetStart, MeetEnd, Greater, Lesser
  <2> HIDE DEF o, e
  <2> QED  BY <2>1, <2>2, RunInMeeting
<1>3. o \in Nat /\ e \in Nat  BY MeetingIs
<1>4. \A x \in Nat : o <= x /\ x < e => (x \in W <=> x \in BitsOf(c) \/ x \in BitsOf(d))
  OBVIOUS
<1> HIDE DEF o, e, h, k
<1>5. JoinedRuns(m, o, h, o, k) = AppendRun(m, o, g)
  <2>1. Lesser(o, o) = o /\ Greater(o, o) = o /\ o <= o  BY <1>3 DEF Lesser, Greater
  <2>2. o < h => h >= o  BY <1>1, <1>3
  <2> HIDE DEF g
  <2>3. CASE o < h /\ o < k
    <3>1. JoinedRuns(m, o, h, o, k) = AppendRun(m, o, Greater(h, k))
      BY <2>1, <2>2, <2>3 DEF JoinedRuns
    <3> QED  BY <2>3, <3>1 DEF g
  <2>4. CASE ~(o < h /\ o < k)  BY <2>4 DEF JoinedRuns, g
  <2> QED  BY <2>3, <2>4
<1>6. /\ g \in Nat /\ g <= e
      /\ \A x \in Nat : o <= x /\ x < e => (x < g <=> x < h \/ x < k)
  BY <1>1, <1>2, <1>3 DEF Greater
<1> HIDE DEF g
<1>7. \A x \in Nat : o <= x /\ x < e => (x \in W <=> x < g)
  BY <1>1, <1>2, <1>4, <1>6
<1>8. Written(AppendRun(m, o, g), Below(W, e), e)
  BY <1>6, <1>7, MeetRunWritten DEF o, e
<1>9. JoinedRuns(m, Greater(o, c.start), h, Greater(o, d.start), k) = JoinedRuns(m, o, h, o, k)
  BY <1>1, <1>2
<1> QED  BY <1>5, <1>8, <1>9 DEF o, e, h, k

\* A run and a sparse chunk, or two sparse ones, as the words of both.
LEMMA UnionWordsWritten ==
  ASSUME NEW c, NEW p, NEW d, NEW q, NEW L, Meeting(c, p, d, q, L),
         ~(IsRLE(c) /\ IsRLE(d)), NEW W, W \subseteq Nat, NEW m,
         Written(m, Below(W, MeetStart(p, q)), MeetStart(p, q)),
         \A x \in Nat : MeetStart(p, q) <= x /\ x < MeetEnd(c, d) =>
           (x \in W <=> x \in BitsOf(c) \/ x \in BitsOf(d))
  PROVE  Written(AppendSparse(m, OrPiece(c, d)), Below(W, MeetEnd(c, d)), MeetEnd(c, d))
<1> DEFINE o == MeetStart(p, q)
           e == MeetEnd(c, d)
           bits == BitsIn(c, o) \cup BitsIn(d, o)
<1>1. /\ o \in Nat /\ Window(c, d) = o /\ e = o + ChunkCap
      /\ (~IsRLE(c) => o = c.start) /\ (~IsRLE(d) => o = d.start)
  BY MeetingIs
<1>2. Canonical(c) /\ Canonical(d)  BY DEF Meeting, ChunkAt
<1>3. SlotsAt(c, d) = Vec /\ SlotsAt(d, c) = Vec  BY <1>2, SlotsAtIs
<1>4. OrPiece(c, d) = Piece(o, bits, Vec)
  <2>1. OrPiece(c, d) = Piece(o, bits, Vec \cup Vec)  BY <1>1, <1>3 DEF OrPiece
  <2>2. Vec \cup Vec = Vec  OBVIOUS
  <2> QED  BY <2>1, <2>2
<1> HIDE DEF o, e
<1>5. /\ BitsIn(c, o) \subseteq WindowBits
      /\ \A x \in Nat : x - o \in BitsIn(c, o) <=>
           x \in BitsOf(c) /\ o <= x /\ x < o + ChunkCap
  BY <1>1, <1>2, BitsInIs
<1>6. /\ BitsIn(d, o) \subseteq WindowBits
      /\ \A x \in Nat : x - o \in BitsIn(d, o) <=>
           x \in BitsOf(d) /\ o <= x /\ x < o + ChunkCap
  BY <1>1, <1>2, BitsInIs
<1>7. bits \subseteq WindowBits  BY <1>5, <1>6
<1>8. ASSUME NEW x \in Nat, o <= x, x < e  PROVE x \in W <=> x - o \in bits
  <2>1. x \in W <=> x \in BitsOf(c) \/ x \in BitsOf(d)  BY <1>8 DEF o, e
  <2> QED  BY <1>1, <1>5, <1>6, <1>8, <2>1
<1> HIDE DEF bits
<1>9. Written(AppendSparse(m, Piece(o, bits, Vec)), Below(W, e), e)
  BY <1>7, <1>8, MeetPieceWritten DEF o, e
<1> QED  BY <1>4, <1>9 DEF e

\* Two sparse chunks of one window: as UnionSparse puts them together.
LEMMA SparsePairIs ==
  ASSUME NEW c, NEW p, NEW d, NEW q, NEW L, Meeting(c, p, d, q, L), ~IsRLE(c), ~IsRLE(d)
  PROVE  /\ Piece(c.start, From(c, p).bits \cup From(d, q).bits,
                  From(c, p).slots \cup From(d, q).slots) = OrPiece(c, d)
         /\ MeetStart(p, q) = p /\ p = q /\ MeetEnd(c, d) = EndOf(c) /\ EndOf(d) = EndOf(c)
<1>1. /\ p = c.start /\ MeetStart(p, q) = p /\ MeetEnd(c, d) = EndOf(c)
      /\ EndOf(c) = p + ChunkCap
  BY MeetingOfSparse
<1>2. Meeting(d, q, c, p, L)  BY DEF Meeting
<1>3. /\ q = d.start /\ MeetStart(p, q) = q /\ MeetEnd(c, d) = EndOf(d)
      /\ EndOf(d) = q + ChunkCap
  BY <1>2, MeetingOfSparse
<1>4. /\ Canonical(c) /\ Canonical(d) /\ p \in Nat /\ q \in Nat /\ ChunkCap \in Nat
      /\ p <= c.start /\ q <= d.start
  BY <1>1, <1>3 DEF Meeting, ChunkAt
<1>5. From(c, p) = Piece(c.start, SparseBits(c), Vec)
  <2>1. p + ChunkCap \in Nat /\ EndOf(c) <= p + ChunkCap  BY <1>1, <1>4
  <2>2. From(c, p) = Clipped(c, p, p + ChunkCap)  BY <1>1 DEF From
  <2> QED  BY <1>4, <2>1, <2>2, ClippedIsWhole
<1>6. From(d, q) = Piece(d.start, SparseBits(d), Vec)
  <2>1. q + ChunkCap \in Nat /\ EndOf(d) <= q + ChunkCap  BY <1>3, <1>4
  <2>2. From(d, q) = Clipped(d, q, q + ChunkCap)  BY <1>3 DEF From
  <2> QED  BY <1>4, <2>1, <2>2, ClippedIsWhole
<1>7. /\ From(c, p).bits = SparseBits(c) /\ From(c, p).slots = Vec
      /\ From(d, q).bits = SparseBits(d) /\ From(d, q).slots = Vec
  BY <1>5, <1>6 DEF Piece
<1>8. OrPiece(c, d) = Piece(c.start, SparseBits(c) \cup SparseBits(d), Vec \cup Vec)
  <2>1. SlotsAt(c, d) = Vec /\ SlotsAt(d, c) = Vec  BY <1>4, SlotsAtIs
  <2>2. Window(c, d) = c.start  BY DEF Window, TargetChunk
  <2> QED  BY <2>1, <2>2 DEF OrPiece, BitsIn
<1> QED  BY <1>1, <1>3, <1>7, <1>8

----------------------------------------------------------------------------
(* A part of a chunk that is wanted as it is.                              *)

\* What a chunk holds from p to `to' is wanted, and nothing else there is.
LEMMA PartIs ==
  ASSUME NEW c, NEW W, W \subseteq Nat, NEW p \in Nat, NEW to \in Nat, p <= to,
         \A x \in Nat : p <= x /\ x < to => (x \in W <=> x \in BitsOf(c))
  PROVE  Completes(W, p, Within(c, p, to), to)
<1>1. \A x \in Nat : x \in Within(c, p, to) <=> x \in W /\ p <= x /\ x < to
  BY DEF Within, BitsOf
<1>2. Within(c, p, to) \subseteq Nat  BY DEF Within, BitsOf
<1> QED  BY <1>1, <1>2, UpTo

\* A part from the place on.
LEMMA PartDone ==
  ASSUME NEW c, NEW p, NEW L, ChunkAt(c, p, L), NEW W, W \subseteq Nat, NEW m,
         Written(m, Below(W, p), p),
         NEW to \in Nat, Boundary(to), p <= to, to <= EndOf(c),
         ~IsRLE(c) => to = p \/ to = EndOf(c),
         \A x \in Nat : p <= x /\ x < to => (x \in W <=> x \in BitsOf(c))
  PROVE  Written(EmitChunkBits(m, c, p, to), Below(W, to), to)
<1>1. p \in Nat /\ p <= p  BY DEF ChunkAt
<1>2. Written(EmitChunkBits(m, c, p, to), Below(W, p) \cup Within(c, p, to), to)
  BY <1>1, PartWritten
<1>3. Completes(W, p, Within(c, p, to), to)  BY <1>1, PartIs
<1> QED  BY <1>2, <1>3 DEF Completes

\* All that is left of it.
LEMMA RestDone ==
  ASSUME NEW c, NEW p, NEW L, ChunkAt(c, p, L), NEW W, W \subseteq Nat, NEW m,
         Written(m, Below(W, p), p),
         \A x \in Nat : p <= x /\ x < EndOf(c) => (x \in W <=> x \in BitsOf(c))
  PROVE  Written(WriteRest(m, c, p), Below(W, EndOf(c)), EndOf(c))
<1>1. p \in Nat /\ p <= p /\ EndOf(c) \in Nat /\ p <= EndOf(c)  BY DEF ChunkAt
<1>2. Written(WriteRest(m, c, p), Below(W, p) \cup Within(c, p, EndOf(c)), EndOf(c))
  BY <1>1, RestWritten
<1>3. Completes(W, p, Within(c, p, EndOf(c)), EndOf(c))  BY <1>1, PartIs
<1> QED  BY <1>2, <1>3 DEF Completes

----------------------------------------------------------------------------
(* sm_intersection                                                         *)

\* Two runs that overlap: their common part.
LEMMA CommonRunsWritten ==
  ASSUME NEW c, NEW d, NEW L, Meeting(c, c.start, d, d.start, L), IsRLE(c), IsRLE(d),
         NEW W, W \subseteq Nat, NEW m, NEW o, o = Greater(c.start, d.start),
         NEW e, e = MeetEnd(c, d), Written(m, Below(W, o), o),
         \A x \in Nat : o <= x /\ x < e => (x \in W <=> x \in BitsOf(c) /\ x \in BitsOf(d))
  PROVE  Written(AppendRun(m, o, Lesser(c.start + c.len, d.start + d.len)), Below(W, e), e)
<1> DEFINE p == c.start
           q == d.start
           h == Lesser(c.start + c.len, d.start + d.len)
<1>1. o = MeetStart(p, q) /\ Meeting(c, p, d, q, L)  BY DEF MeetStart
<1>2. /\ p \in Nat /\ c.len \in Nat /\ BitsOf(c) = p .. p + c.len - 1 /\ c.len <= c.cap
      /\ EndOf(c) = p + c.cap /\ c.cap \in Nat
      /\ q \in Nat /\ d.len \in Nat /\ BitsOf(d) = q .. q + d.len - 1
      /\ d.len <= d.cap /\ EndOf(d) = q + d.cap /\ d.cap \in Nat
  <2>1. Canonical(c) /\ Canonical(d)  BY DEF Meeting, ChunkAt
  <2> QED  BY <2>1, RunFields DEF Canonical
<1> HIDE DEF p, q
<1>3. /\ o \in Nat /\ e \in Nat /\ p <= o /\ q <= o
      /\ e = IF EndOf(c) <= EndOf(d) THEN EndOf(c) ELSE EndOf(d)
  BY <1>1, MeetingIs
<1>4. /\ h = p + c.len \/ h = q + d.len
      /\ h <= p + c.len /\ h <= q + d.len
  BY <1>2 DEF Lesser, p, q
<1> HIDE DEF h
<1>5. h \in Nat /\ h <= e
  <2>1. h \in Nat /\ h <= EndOf(c) /\ h <= EndOf(d)
    <3>1. /\ p \in Nat /\ c.len \in Nat /\ c.len <= c.cap /\ c.cap \in Nat
          /\ EndOf(c) = p + c.cap
      BY <1>2
    <3>2. /\ q \in Nat /\ d.len \in Nat /\ d.len <= d.cap /\ d.cap \in Nat
          /\ EndOf(d) = q + d.cap
      BY <1>2
    <3>3. p + c.len <= EndOf(c) /\ p + c.len \in Nat /\ EndOf(c) \in Nat  BY <3>1
    <3>4. q + d.len <= EndOf(d) /\ q + d.len \in Nat /\ EndOf(d) \in Nat  BY <3>2
    <3>5. h \in Nat  BY <1>4, <3>3, <3>4
    <3> QED  BY <1>4, <3>3, <3>4, <3>5
  <2> QED  BY <1>3, <2>1
<1>6. ASSUME NEW x \in Nat, o <= x, x < e  PROVE x \in W <=> x < h
  <2>1. x \in W <=> x \in BitsOf(c) /\ x \in BitsOf(d)  BY <1>6
  <2>2. x \in BitsOf(c) <=> x < p + c.len  BY <1>2, <1>3, <1>6
  <2>3. x \in BitsOf(d) <=> x < q + d.len
    <3>1. BitsOf(d) = q .. q + d.len - 1 /\ q \in Nat /\ d.len \in Nat  BY <1>2
    <3>2. q <= x  BY <1>3, <1>6, <3>1
    <3> QED  BY <3>1, <3>2
  <2> QED  BY <1>2, <1>4, <2>1, <2>2, <2>3
<1>7. Written(AppendRun(m, MeetStart(p, q), h), Below(W, MeetEnd(c, d)), MeetEnd(c, d))
  BY <1>1, <1>5, <1>6, MeetRunWritten
<1> QED  BY <1>1, <1>7 DEF h

\* An overlap as the words that are in both.
LEMMA CommonWordsWritten ==
  ASSUME NEW c, NEW p, NEW d, NEW q, NEW L, Meeting(c, p, d, q, L),
         ~(IsRLE(c) /\ IsRLE(d)), NEW W, W \subseteq Nat, NEW m,
         Written(m, Below(W, MeetStart(p, q)), MeetStart(p, q)),
         \A x \in Nat : MeetStart(p, q) <= x /\ x < MeetEnd(c, d) =>
           (x \in W <=> x \in BitsOf(c) /\ x \in BitsOf(d))
  PROVE  Written(AppendSparse(m, AndPiece(c, d)), Below(W, MeetEnd(c, d)), MeetEnd(c, d))
<1> DEFINE o == MeetStart(p, q)
           e == MeetEnd(c, d)
           bits == BitsIn(c, o) \cap BitsIn(d, o)
<1>1. /\ o \in Nat /\ Window(c, d) = o /\ e = o + ChunkCap
      /\ (~IsRLE(c) => o = c.start) /\ (~IsRLE(d) => o = d.start)
  BY MeetingIs
<1>2. Canonical(c) /\ Canonical(d)  BY DEF Meeting, ChunkAt
<1>3. SlotsAt(c, d) = Vec /\ SlotsAt(d, c) = Vec  BY <1>2, SlotsAtIs
<1>4. AndPiece(c, d) = Piece(o, bits, Vec)
  <2>1. AndPiece(c, d) = Piece(o, bits, Vec \cap Vec)  BY <1>1, <1>3 DEF AndPiece
  <2>2. Vec \cap Vec = Vec  OBVIOUS
  <2> QED  BY <2>1, <2>2
<1> HIDE DEF o, e
<1>5. /\ BitsIn(c, o) \subseteq WindowBits
      /\ \A x \in Nat : x - o \in BitsIn(c, o) <=>
           x \in BitsOf(c) /\ o <= x /\ x < o + ChunkCap
  BY <1>1, <1>2, BitsInIs
<1>6. /\ BitsIn(d, o) \subseteq WindowBits
      /\ \A x \in Nat : x - o \in BitsIn(d, o) <=>
           x \in BitsOf(d) /\ o <= x /\ x < o + ChunkCap
  BY <1>1, <1>2, BitsInIs
<1>7. bits \subseteq WindowBits  BY <1>5, <1>6
<1>8. ASSUME NEW x \in Nat, o <= x, x < e  PROVE x \in W <=> x - o \in bits
  <2>1. x \in W <=> x \in BitsOf(c) /\ x \in BitsOf(d)  BY <1>8 DEF o, e
  <2> QED  BY <1>1, <1>5, <1>6, <1>8, <2>1
<1> HIDE DEF bits
<1>9. Written(AppendSparse(m, Piece(o, bits, Vec)), Below(W, e), e)
  BY <1>7, <1>8, MeetPieceWritten DEF o, e
<1> QED  BY <1>4, <1>9 DEF e

----------------------------------------------------------------------------
(* sm_difference                                                           *)

\* An overlap as the words of the one without those of the other.
LEMMA SurvivingWordsWritten ==
  ASSUME NEW c, NEW p, NEW d, NEW q, NEW L, Meeting(c, p, d, q, L),
         ~(IsRLE(c) /\ IsRLE(d)), NEW W, W \subseteq Nat, NEW m,
         Written(m, Below(W, MeetStart(p, q)), MeetStart(p, q)),
         \A x \in Nat : MeetStart(p, q) <= x /\ x < MeetEnd(c, d) =>
           (x \in W <=> x \in BitsOf(c) /\ x \notin BitsOf(d))
  PROVE  Written(AppendSparse(m, AndNotPiece(c, d)), Below(W, MeetEnd(c, d)), MeetEnd(c, d))
<1> DEFINE o == MeetStart(p, q)
           e == MeetEnd(c, d)
           bits == BitsIn(c, o) \ (BitsIn(d, o) \cap WindowBits)
<1>1. /\ o \in Nat /\ Window(c, d) = o /\ e = o + ChunkCap
      /\ (~IsRLE(c) => o = c.start) /\ (~IsRLE(d) => o = d.start)
  BY MeetingIs
<1>2. Canonical(c) /\ Canonical(d)  BY DEF Meeting, ChunkAt
<1>3. SlotsAt(c, d) = Vec /\ WordBits(SlotsAt(d, c)) = WindowBits  BY <1>2, SlotsAtIs
<1>4. AndNotPiece(c, d) = Piece(o, bits, Vec)  BY <1>1, <1>3 DEF AndNotPiece
<1> HIDE DEF o, e
<1>5. /\ BitsIn(c, o) \subseteq WindowBits
      /\ \A x \in Nat : x - o \in BitsIn(c, o) <=>
           x \in BitsOf(c) /\ o <= x /\ x < o + ChunkCap
  BY <1>1, <1>2, BitsInIs
<1>6. /\ BitsIn(d, o) \subseteq WindowBits
      /\ \A x \in Nat : x - o \in BitsIn(d, o) <=>
           x \in BitsOf(d) /\ o <= x /\ x < o + ChunkCap
  BY <1>1, <1>2, BitsInIs
<1>7. bits \subseteq WindowBits  BY <1>5
<1>8. ASSUME NEW x \in Nat, o <= x, x < e  PROVE x \in W <=> x - o \in bits
  <2>1. x \in W <=> x \in BitsOf(c) /\ x \notin BitsOf(d)  BY <1>8 DEF o, e
  <2>2. x - o \in BitsIn(c, o) <=> x \in BitsOf(c)  BY <1>1, <1>5, <1>8
  <2>3. x - o \in BitsIn(d, o) <=> x \in BitsOf(d)  BY <1>1, <1>6, <1>8
  <2>4. x - o \in BitsIn(d, o) => x - o \in WindowBits  BY <1>6
  <2> QED  BY <2>1, <2>2, <2>3, <2>4
<1> HIDE DEF bits
<1>9. Written(AppendSparse(m, Piece(o, bits, Vec)), Below(W, e), e)
  BY <1>7, <1>8, MeetPieceWritten DEF o, e
<1> QED  BY <1>4, <1>9 DEF e

\* Two runs that overlap: what is left of the first is what is after the second.
LEMMA SurvivingRunsWritten ==
  ASSUME NEW c, NEW p, NEW d, NEW q, NEW L, Meeting(c, p, d, q, L), IsRLE(c), IsRLE(d),
         NEW W, W \subseteq Nat, NEW m, NEW o, o = MeetStart(p, q),
         NEW e, e = MeetEnd(c, d), Written(m, Below(W, o), o),
         \A x \in Nat : o <= x /\ x < e => (x \in W <=> x \in BitsOf(c) /\ x \notin BitsOf(d))
  PROVE  Written(RunAfter(EmitChunkBits(m, c, o, Lesser(e, d.start)), c, d, o, e),
                 Below(W, e), e)
<1> DEFINE t == d.start + d.len
           from == Greater(t, o)
<1>1. /\ o \in Nat /\ Boundary(o) /\ e \in Nat /\ Boundary(e) /\ Limit(e) /\ o < e
      /\ e <= EndOf(c) /\ c.start <= o /\ d.start <= o
  BY MeetingIs
<1>2. Canonical(c) /\ Canonical(d)  BY DEF Meeting, ChunkAt
<1>3. /\ d.start \in Nat /\ d.len \in Nat /\ BitsOf(d) = d.start .. d.start + d.len - 1
      /\ c.start \in Nat
  BY <1>2, RunFields DEF Canonical
<1>4. EmitChunkBits(m, c, o, Lesser(e, d.start)) = m
  <2>1. o >= Lesser(e, d.start)  BY <1>1, <1>3 DEF Lesser
  <2> QED  BY <2>1 DEF EmitChunkBits
<1>5. ASSUME NEW x \in Nat, o <= x, x < e  PROVE x \in W <=> x \in BitsOf(c) /\ t <= x
  <2>1. x \in W <=> x \in BitsOf(c) /\ x \notin BitsOf(d)  BY <1>5
  <2>2. x \in BitsOf(d) <=> x < t  BY <1>1, <1>3, <1>5
  <2> QED  BY <1>3, <2>1, <2>2
<1>6. t \in Nat  BY <1>3
<1>7. RunAfter(m, c, d, o, e) = IF t < e THEN EmitChunkBits(m, c, from, e) ELSE m
  BY DEF RunAfter
<1> HIDE DEF t
<1>8. from \in Nat /\ o <= from /\ t <= from /\ (from = o \/ from = t)
  BY <1>1, <1>6 DEF Greater
<1> HIDE DEF from
<1>9. CASE t < e
  <2>1. o <= AlignedOffset(Greater(from, c.start))
    <3>1. Greater(from, c.start) = from  BY <1>1, <1>3, <1>8 DEF Greater
    <3>2. /\ AlignedOffset(from) \in Nat /\ Boundary(AlignedOffset(from))
          /\ from < AlignedOffset(from) + ChunkCap
      BY <1>8, AlignedOffsetBounds
    <3>3. ~(AlignedOffset(from) < o)
      <4>1. ASSUME AlignedOffset(from) < o  PROVE FALSE
        <5>1. AlignedOffset(from) + ChunkCap <= o  BY <1>1, <3>2, <4>1, BoundaryGap
        <5> QED  BY <1>1, <1>8, <3>2, <5>1, ChunkCapPositive
      <4> QED  BY <4>1
    <3> QED  BY <1>1, <3>1, <3>2, <3>3
  <2>2. Clips(c, from, e, o, e)
    <3>1. e <= e /\ o <= e  BY <1>1
    <3> QED  BY <1>1, <1>2, <1>8, <2>1, <3>1 DEF Clips
  <2>3. Written(EmitChunkBits(m, c, from, e), Below(W, o) \cup Within(c, from, e), e)
    BY <2>2, EmitChunkBitsWritten
  <2>4. Below(W, o) \cup Within(c, from, e) = Below(W, e)
    <3>1. ASSUME NEW x \in Nat
          PROVE  x \in Within(c, from, e) <=> x \in W /\ o <= x /\ x < e
      <4>1. x \in Within(c, from, e) <=> x \in BitsOf(c) /\ from <= x /\ x < e
        BY DEF Within
      <4>2. from <= x <=> o <= x /\ t <= x  BY <1>1, <1>6, <1>8
      <4> QED  BY <1>5, <4>1, <4>2
    <3>2. Within(c, from, e) \subseteq Nat /\ o <= e  BY <1>1 DEF Within, BitsOf
    <3>3. Completes(W, o, Within(c, from, e), e)  BY <1>1, <3>1, <3>2, UpTo
    <3> QED  BY <3>3 DEF Completes
  <2> QED  BY <1>4, <1>7, <1>9, <2>3, <2>4
<1>10. CASE ~(t < e)
  <2>1. Clear(W, o, e)
    <3>1. ASSUME NEW x \in W, o <= x, x < e  PROVE FALSE
      <4>1. x \in Nat  OBVIOUS
      <4>2. t <= x  BY <1>5, <3>1, <4>1
      <4> QED  BY <1>1, <1>6, <1>10, <3>1, <4>1, <4>2
    <3> QED  BY <3>1 DEF Clear
  <2>2. o <= e  BY <1>1
  <2>3. Written(m, Below(W, e), e)  BY <1>1, <2>1, <2>2, NothingBetween
  <2> QED  BY <1>4, <1>7, <1>10, <2>3
<1> QED  BY <1>9, <1>10

----------------------------------------------------------------------------
(* The steps of sm_union.                                                  *)

\* A place is a number below the limit.
LEMMA PlaceIsNat ==
  ASSUME NEW s, NEW j, NEW cur, NEW L, Side(s, j, cur, L)
  PROVE  /\ PlaceIn(s, j, cur, L) \in Nat /\ PlaceIn(s, j, cur, L) <= L
         /\ L \in Nat /\ Limit(L) /\ j \in Nat /\ Len(s) \in Nat
<1>1. IsOperand(s, L) /\ j \in 1 .. Len(s) + 1  BY DEF Side
<1>2. Len(s) \in Nat /\ Limit(L) /\ L \in Nat
  BY <1>1, LenProperties DEF IsOperand, StreamOK, Limit
<1>3. CASE j <= Len(s)
  <2>1. ChunkAt(s[j], PlaceIn(s, j, cur, L), L)  BY <1>3, SideChunk
  <2> DEFINE p == PlaceIn(s, j, cur, L)
             e == EndOf(s[j])
  <2> HIDE DEF p, e
  <2>2. p \in Nat /\ p <= e /\ e \in Nat /\ e <= L  BY <2>1 DEF ChunkAt, p, e
  <2>3. p <= L  BY <1>2, <2>2
  <2> QED  BY <1>1, <1>2, <2>2, <2>3 DEF p
<1>4. CASE ~(j <= Len(s))
  <2>1. j > Len(s)  BY <1>1, <1>2, <1>4
  <2>2. PlaceIn(s, j, cur, L) = L  BY <2>1, SideOver
  <2>3. L <= L /\ j \in Nat  BY <1>1, <1>2
  <2> QED  BY <1>2, <2>2, <2>3
<1> QED  BY <1>3, <1>4

\* The cursor may be written out as the place.
LEMMA SideAtPlace ==
  ASSUME NEW s, NEW j, NEW cur, NEW L, Side(s, j, cur, L), j <= Len(s), Open(s, j, cur)
  PROVE  /\ Side(s, j, PlaceIn(s, j, cur, L), L) /\ Open(s, j, PlaceIn(s, j, cur, L))
         /\ PlaceIn(s, j, PlaceIn(s, j, cur, L), L) = PlaceIn(s, j, cur, L)
<1> DEFINE c == s[j]
           p == PlaceIn(s, j, cur, L)
<1>1. ChunkAt(c, p, L) /\ p < EndOf(c)  BY SideChunk
<1>2. /\ p \in Nat /\ Boundary(p) /\ c.start <= p /\ c.start \in Nat /\ EndOf(c) \in Nat
      /\ p <= EndOf(c) /\ (p > c.start => IsRLE(c) \/ p = EndOf(c))
  BY <1>1 DEF ChunkAt
<1>3. IsOperand(s, L) /\ j \in 1 .. Len(s) + 1  BY DEF Side
<1>4. Len(s) \in Nat /\ ~(j > Len(s))  BY <1>3, PlaceIsNat
<1>5. PlaceIn(s, j, p, L) = Greater(p, c.start)  BY <1>4 DEF PlaceIn
<1> HIDE DEF p
<1>6. Side(s, j, p, L)  BY <1>2, <1>3 DEF Side
<1>7. Open(s, j, p)  BY <1>1 DEF Open
<1>8. Greater(p, c.start) = p  BY <1>2 DEF Greater
<1> QED  BY <1>5, <1>6, <1>7, <1>8 DEF p

\* What is clear is clear from further on.
LEMMA ClearFurther ==
  ASSUME NEW S, S \subseteq Nat, NEW f \in Nat, NEW p \in Nat, Clear(S, f, p),
         NEW h \in Nat, f <= h
  PROVE  Clear(S, h, p)
<1>1. ASSUME NEW x \in S, h <= x, x < p  PROVE FALSE
  <2>1. x \in Nat /\ ~(f <= x /\ x < p)  BY DEF Clear
  <2> QED  BY <1>1, <2>1
<1> QED  BY <1>1 DEF Clear

\* Two sets that are clear.
LEMMA ClearOfTwo ==
  ASSUME NEW S, NEW T, S \subseteq Nat, T \subseteq Nat, NEW g \in Nat, NEW p \in Nat,
         NEW q \in Nat, Clear(S, g, p), Clear(T, g, q)
  PROVE  /\ Clear(S \cup T, g, Lesser(p, q)) /\ Clear(S \cap T, g, Greater(p, q))
         /\ Clear(S \ T, g, p)
         /\ Lesser(p, q) \in Nat /\ Lesser(p, q) <= p /\ Lesser(p, q) <= q
         /\ Greater(p, q) \in Nat /\ p <= Greater(p, q) /\ q <= Greater(p, q)
<1> DEFINE l == Lesser(p, q)
           u == Greater(p, q)
<1>1. /\ l = IF p <= q THEN p ELSE q
      /\ u = IF p >= q THEN p ELSE q
  BY DEF Lesser, Greater
<1> HIDE DEF l, u
<1>2. /\ \A x \in S : x \in Nat /\ ~(g <= x /\ x < p)
      /\ \A x \in T : x \in Nat /\ ~(g <= x /\ x < q)
  BY DEF Clear
<1>3. l \in Nat /\ l <= p /\ l <= q /\ u \in Nat /\ p <= u /\ q <= u  BY <1>1
<1>4. ASSUME NEW x \in S \cup T  PROVE ~(g <= x /\ x < l)
  BY <1>2, <1>3
<1>5. ASSUME NEW x \in S \cap T  PROVE ~(g <= x /\ x < u)
  BY <1>1, <1>2
<1>6. Clear(S \cup T, g, l)  BY <1>4 DEF Clear
<1>7. Clear(S \cap T, g, u)  BY <1>5 DEF Clear
<1>8. Clear(S \ T, g, p)  BY <1>2 DEF Clear
<1> QED  BY <1>3, <1>6, <1>7, <1>8 DEF l, u

\* The two sides may be exchanged.
LEMMA UnionEitherWay ==
  ASSUME NEW s, NEW j, NEW cur, NEW t, NEW k, NEW new, NEW m, NEW L,
         UnionGoes(s, j, cur, t, k, new, m, L)
  PROVE  UnionGoes(t, k, new, s, j, cur, m, L)
<1> DEFINE p == PlaceIn(s, j, cur, L)
           q == PlaceIn(t, k, new, L)
<1>1. p \in Nat /\ q \in Nat  BY PlaceIsNat DEF UnionGoes
<1>2. /\ Side(s, j, cur, L) /\ Side(t, k, new, L) /\ Open(s, j, cur) /\ Open(t, k, new)
      /\ Clear(Bits(s), Lesser(p, q), p) /\ Clear(Bits(t), Lesser(p, q), q)
      /\ Written(m, Below(Bits(s) \cup Bits(t), Lesser(p, q)), Lesser(p, q))
  BY DEF UnionGoes
<1>3. Bits(s) \cup Bits(t) = Bits(t) \cup Bits(s)  OBVIOUS
<1> HIDE DEF p, q
<1>4. Lesser(p, q) = Lesser(q, p)  BY <1>1 DEF Lesser
<1> QED  BY <1>2, <1>3, <1>4 DEF UnionGoes, p, q

\* A union goes on, with what was written up to g, from places where nothing is
\* left out.
LEMMA UnionGoesOn ==
  ASSUME NEW s, NEW j, NEW cur, NEW t, NEW k, NEW new, NEW m, NEW L,
         Side(s, j, cur, L), Side(t, k, new, L), Open(s, j, cur), Open(t, k, new),
         NEW g, Written(m, Below(Bits(s) \cup Bits(t), g), g),
         Clear(Bits(s), g, PlaceIn(s, j, cur, L)), Clear(Bits(t), g, PlaceIn(t, k, new, L)),
         g <= PlaceIn(s, j, cur, L), g <= PlaceIn(t, k, new, L)
  PROVE  UnionGoes(s, j, cur, t, k, new, m, L)
<1> DEFINE p == PlaceIn(s, j, cur, L)
           q == PlaceIn(t, k, new, L)
           h == Lesser(p, q)
           S == Bits(s)
           T == Bits(t)
           W == S \cup T
<1>1. p \in Nat /\ q \in Nat /\ g \in Nat  BY PlaceIsNat DEF Written
<1>2. S \subseteq Nat /\ T \subseteq Nat  BY SideBits
<1>3. /\ Written(m, Below(W, g), g) /\ Clear(S, g, p) /\ Clear(T, g, q)
      /\ g <= p /\ g <= q
  OBVIOUS
<1> HIDE DEF p, q, S, T
<1>4. g <= h  BY <1>1, <1>3 DEF Lesser
<1>5. Clear(W, g, h) /\ h \in Nat  BY <1>1, <1>2, <1>3, ClearOfTwo
<1> HIDE DEF h
<1>6. Clear(S, h, p) /\ Clear(T, h, q)
  BY <1>1, <1>2, <1>3, <1>4, <1>5, ClearFurther
<1>7. W \subseteq Nat  BY <1>2
<1> HIDE DEF W
<1>8. Written(m, Below(W, h), h)  BY <1>3, <1>4, <1>5, <1>7, NothingBetween
<1> QED  BY <1>6, <1>8 DEF UnionGoes, p, q, h, S, T, W

\* A chunk that ends before the other side's place is written to its end.
LEMMA UnionPasses ==
  ASSUME NEW s, NEW j, NEW cur, NEW t, NEW k, NEW new, NEW m, NEW L,
         UnionGoes(s, j, cur, t, k, new, m, L), j <= Len(s),
         EndOf(s[j]) <= PlaceIn(t, k, new, L), NEW then, Side(t, k, then, L),
         Open(t, k, then), PlaceIn(t, k, then, L) = PlaceIn(t, k, new, L)
  PROVE  /\ UnionGoes(s, j + 1, 0, t, k, then, WriteRest(m, s[j], cur), L)
         /\ PlaceIn(s, j, cur, L) <= PlaceIn(s, j + 1, 0, L)
<1> DEFINE c == s[j]
           p == PlaceIn(s, j, cur, L)
           q == PlaceIn(t, k, new, L)
           p2 == PlaceIn(s, j + 1, 0, L)
           f == Lesser(p, q)
           e == EndOf(c)
           S == Bits(s)
           T == Bits(t)
           W == S \cup T
           r == WriteRest(m, c, cur)
<1>1. /\ Side(s, j, cur, L) /\ Side(t, k, new, L) /\ Open(s, j, cur) /\ Open(t, k, new)
      /\ Clear(S, f, p) /\ Clear(T, f, q) /\ Written(m, Below(W, f), f)
  BY DEF UnionGoes
<1>2. ChunkAt(c, p, L) /\ p < e  BY <1>1, SideChunk
<1>3. p \in Nat /\ e \in Nat /\ Boundary(e) /\ c.start <= p /\ c.start \in Nat /\ e <= L
  BY <1>2 DEF ChunkAt
<1>4. q \in Nat /\ e <= q  BY <1>1, PlaceIsNat
<1>5. S \subseteq Nat /\ T \subseteq Nat
      /\ \A x \in Nat : c.start <= x /\ x < e => (x \in S <=> x \in BitsOf(c))
  BY <1>1, SideBits
<1>6. Moved(s, j, e, j + 1, 0, L)
  <2>1. p <= e /\ e <= e /\ ~(e < e)  BY <1>2, <1>3
  <2>2. MovesTo(s, j, e, j + 1, 0)  BY <2>1 DEF MovesTo
  <2> QED  BY <1>1, <1>3, <2>1, <2>2, SideMoves
<1>7. /\ Side(s, j + 1, 0, L) /\ Open(s, j + 1, 0) /\ p2 \in Nat /\ e <= p2
      /\ Clear(S, e, p2)
  BY <1>6 DEF Moved
<1>8. r = WriteRest(m, c, p)  BY <1>1, RestFrom
<1> HIDE DEF p, q, e, S, T, r, p2
<1>9. f = p  BY <1>2, <1>3, <1>4 DEF Lesser
<1>10. ASSUME NEW x \in Nat, p <= x, x < e  PROVE x \in W <=> x \in BitsOf(c)
  <2>1. x \in S <=> x \in BitsOf(c)  BY <1>3, <1>5, <1>10
  <2>2. x \notin T
    <3>1. p <= x /\ x < q  BY <1>3, <1>4, <1>10
    <3> QED  BY <1>1, <1>9, <3>1 DEF Clear
  <2> QED  BY <2>1, <2>2
<1>11. W \subseteq Nat  BY <1>5
<1>12. Written(m, Below(W, p), p)  BY <1>1, <1>9
<1> HIDE DEF W, f
<1>13. Written(r, Below(W, e), e)  BY <1>2, <1>8, <1>10, <1>11, <1>12, RestDone DEF e
<1>14. Clear(T, e, q)
  <2>1. p <= e /\ Clear(T, p, q)  BY <1>1, <1>2, <1>3, <1>9
  <2> QED  BY <1>3, <1>4, <1>5, <2>1, ClearFurther
<1>15. PlaceIn(t, k, then, L) = q  BY DEF q
<1>16. UnionGoes(s, j + 1, 0, t, k, then, r, L)
  BY <1>4, <1>7, <1>13, <1>14, <1>15, UnionGoesOn DEF p2, S, T, W
<1>17. p <= p2  BY <1>2, <1>3, <1>7
<1> QED  BY <1>16, <1>17 DEF r, p, p2

\* Where two chunks overlap, and what is wanted there.
LEMMA UnionMeeting ==
  ASSUME NEW s, NEW j, NEW cur, NEW t, NEW k, NEW new, NEW m, NEW L,
         UnionGoes(s, j, cur, t, k, new, m, L), j <= Len(s), k <= Len(t),
         PlaceIn(t, k, new, L) < EndOf(s[j]), PlaceIn(s, j, cur, L) < EndOf(t[k]),
         NEW p, p = PlaceIn(s, j, cur, L), NEW q, q = PlaceIn(t, k, new, L),
         NEW o, o = MeetStart(p, q), NEW W, W = Bits(s) \cup Bits(t)
  PROVE  /\ Meeting(s[j], p, t[k], q, L) /\ W \subseteq Nat
         /\ Written(EmitChunkBits(EmitChunkBits(m, s[j], p, o), t[k], q, o), Below(W, o), o)
         /\ \A x \in Nat : o <= x /\ x < MeetEnd(s[j], t[k]) =>
              (x \in W <=> x \in BitsOf(s[j]) \/ x \in BitsOf(t[k]))
         /\ IF q <= p THEN p = o ELSE q = o
         /\ Written(m, Below(W, Lesser(p, q)), Lesser(p, q))
<1> DEFINE c == s[j]
           d == t[k]
           f == Lesser(p, q)
           S == Bits(s)
           T == Bits(t)
           e == MeetEnd(c, d)
<1>1. /\ Side(s, j, cur, L) /\ Side(t, k, new, L) /\ Open(s, j, cur) /\ Open(t, k, new)
      /\ Clear(S, f, p) /\ Clear(T, f, q) /\ Written(m, Below(S \cup T, f), f)
  BY DEF UnionGoes
<1>2. ChunkAt(c, p, L) /\ p < EndOf(c)  BY <1>1, SideChunk
<1>3. ChunkAt(d, q, L) /\ q < EndOf(d)  BY <1>1, SideChunk
<1>4. Meeting(c, p, d, q, L)  BY <1>2, <1>3 DEF Meeting
<1>5. /\ o \in Nat /\ e \in Nat /\ p <= o /\ q <= o /\ e <= EndOf(c) /\ e <= EndOf(d)
      /\ c.start <= o /\ d.start <= o /\ o < e
      /\ o = (IF q <= p THEN p ELSE q)
  BY <1>4, MeetingIs
<1>6. /\ p \in Nat /\ q \in Nat /\ c.start \in Nat /\ d.start \in Nat
      /\ c.start <= p /\ d.start <= q /\ EndOf(c) \in Nat /\ EndOf(d) \in Nat
  BY <1>2, <1>3 DEF ChunkAt
<1>7. /\ S \subseteq Nat
      /\ \A x \in Nat : c.start <= x /\ x < EndOf(c) => (x \in S <=> x \in BitsOf(c))
  BY <1>1, SideBits
<1>8. /\ T \subseteq Nat
      /\ \A x \in Nat : d.start <= x /\ x < EndOf(d) => (x \in T <=> x \in BitsOf(d))
  BY <1>1, SideBits
<1> HIDE DEF S, T, e
<1>9. W = S \cup T  BY DEF S, T
<1>10. ASSUME NEW x \in Nat, o <= x, x < e
       PROVE  x \in W <=> x \in BitsOf(c) \/ x \in BitsOf(d)
  <2>1. x \in S <=> x \in BitsOf(c)  BY <1>5, <1>6, <1>7, <1>10
  <2>2. x \in T <=> x \in BitsOf(d)  BY <1>5, <1>6, <1>8, <1>10
  <2> QED  BY <1>9, <2>1, <2>2
<1>11. f = IF p <= q THEN p ELSE q  BY DEF Lesser
<1> HIDE DEF f
<1>12. ASSUME NEW x \in Nat, f <= x, x < o
       PROVE  x \in W <=> EitherFrom(x, c, p, d, q)
  <2>1. x < EndOf(c) /\ x < EndOf(d)  BY <1>5, <1>6, <1>12
  <2>2. CASE p <= q
    <3>1. p <= x /\ x < q  BY <1>5, <1>6, <1>11, <1>12, <2>2
    <3>2. x \notin T  BY <1>1, <1>12, <3>1 DEF Clear
    <3>3. x \in S <=> x \in BitsOf(c)  BY <1>6, <1>7, <2>1, <3>1
    <3>4. ~(q <= x)  BY <1>6, <3>1
    <3> QED  BY <1>9, <3>1, <3>2, <3>3, <3>4 DEF EitherFrom
  <2>3. CASE ~(p <= q)
    <3>1. q <= x /\ x < p  BY <1>5, <1>6, <1>11, <1>12, <2>3
    <3>2. x \notin S  BY <1>1, <1>12, <3>1 DEF Clear
    <3>3. x \in T <=> x \in BitsOf(d)  BY <1>6, <1>8, <2>1, <3>1
    <3>4. ~(p <= x)  BY <1>6, <3>1
    <3> QED  BY <1>9, <3>1, <3>2, <3>3, <3>4 DEF EitherFrom
  <2> QED  BY <2>2, <2>3
<1>13. W \subseteq Nat /\ Written(m, Below(W, f), f)  BY <1>1, <1>7, <1>8, <1>9
<1>14. Written(EmitChunkBits(EmitChunkBits(m, c, p, o), d, q, o), Below(W, o), o)
  BY <1>4, <1>12, <1>13, UpToMeeting DEF f
<1>15. IF q <= p THEN p = o ELSE q = o  BY <1>5
<1> QED  BY <1>4, <1>10, <1>13, <1>14, <1>15 DEF e, f

\* Both sides go to the end of the overlap.
LEMMA UnionMeets ==
  ASSUME NEW s, NEW j, NEW cur, NEW t, NEW k, NEW new, NEW L,
         Side(s, j, cur, L), Side(t, k, new, L), j <= Len(s), k <= Len(t),
         Meeting(s[j], PlaceIn(s, j, cur, L), t[k], PlaceIn(t, k, new, L), L),
         NEW e, e = MeetEnd(s[j], t[k]), NEW m, Written(m, Below(Bits(s) \cup Bits(t), e), e),
         NEW i, NEW at, MovesTo(s, j, e, i, at), NEW l, NEW to, MovesTo(t, k, e, l, to)
  PROVE  /\ UnionGoes(s, i, at, t, l, to, m, L)
         /\ Moved(s, j, e, i, at, L) /\ Moved(t, k, e, l, to, L)
         /\ PlaceIn(s, j, cur, L) <= PlaceIn(s, i, at, L)
         /\ PlaceIn(t, k, new, L) <= PlaceIn(t, l, to, L)
<1> DEFINE c == s[j]
           d == t[k]
           p == PlaceIn(s, j, cur, L)
           q == PlaceIn(t, k, new, L)
           o == MeetStart(p, q)
<1>1. /\ o \in Nat /\ e \in Nat /\ Boundary(e) /\ o < e /\ p <= o /\ q <= o
      /\ e <= EndOf(c) /\ e <= EndOf(d)
  BY MeetingIs
<1>2. /\ p \in Nat /\ q \in Nat /\ EndOf(c) \in Nat /\ EndOf(d) \in Nat
  BY DEF Meeting, ChunkAt
<1>3. ~IsRLE(c) => e = EndOf(c)  BY MeetingOfSparse
<1>4. ~IsRLE(d) => e = EndOf(d)
  <2>1. Meeting(d, q, c, p, L)  BY DEF Meeting
  <2> QED  BY <2>1, MeetingOfSparse
<1> HIDE DEF o
<1>5. p <= e /\ q <= e /\ (e < EndOf(c) => IsRLE(c)) /\ (e < EndOf(d) => IsRLE(d))
  BY <1>1, <1>2, <1>3, <1>4
<1>6. Moved(s, j, e, i, at, L)  BY <1>1, <1>5, SideMoves
<1>7. Moved(t, k, e, l, to, L)  BY <1>1, <1>5, SideMoves
<1> DEFINE p2 == PlaceIn(s, i, at, L)
           q2 == PlaceIn(t, l, to, L)
<1>8. /\ Side(s, i, at, L) /\ Open(s, i, at) /\ Side(t, l, to, L) /\ Open(t, l, to)
      /\ p2 \in Nat /\ q2 \in Nat /\ e <= p2 /\ e <= q2
      /\ Clear(Bits(s), e, p2) /\ Clear(Bits(t), e, q2)
  BY <1>6, <1>7 DEF Moved
<1>9. UnionGoes(s, i, at, t, l, to, m, L)  BY <1>8, UnionGoesOn
<1> HIDE DEF p, q, p2, q2
<1>10. p <= p2 /\ q <= q2  BY <1>1, <1>2, <1>5, <1>8
<1> QED  BY <1>6, <1>7, <1>9, <1>10 DEF p, q, p2, q2

----------------------------------------------------------------------------
(* Intersection.                                                           *)

\* The two sides are interchangeable.
LEMMA IntersectionEitherWay ==
  ASSUME NEW s, NEW j, NEW cur, NEW t, NEW k, NEW new, NEW m, NEW L,
         IntersectionGoes(s, j, cur, t, k, new, m, L)
  PROVE  IntersectionGoes(t, k, new, s, j, cur, m, L)
<1> DEFINE p == PlaceIn(s, j, cur, L)
           q == PlaceIn(t, k, new, L)
<1>1. p \in Nat /\ q \in Nat  BY PlaceIsNat DEF IntersectionGoes
<1>2. Bits(s) \cap Bits(t) = Bits(t) \cap Bits(s)  OBVIOUS
<1> HIDE DEF p, q
<1>3. Greater(p, q) = Greater(q, p)  BY <1>1 DEF Greater
<1> QED  BY <1>2, <1>3 DEF IntersectionGoes, p, q

\* An intersection goes on from chunks before which nothing common is left.
LEMMA IntersectionGoesOn ==
  ASSUME NEW s, NEW j, NEW t, NEW k, NEW m, NEW L, Side(s, j, 0, L), Side(t, k, 0, L),
         NEW g, Written(m, Below(Bits(s) \cap Bits(t), g), g),
         Clear(Bits(s), g, PlaceIn(s, j, 0, L)), Clear(Bits(t), g, PlaceIn(t, k, 0, L)),
         g <= PlaceIn(s, j, 0, L) \/ g <= PlaceIn(t, k, 0, L)
  PROVE  IntersectionGoes(s, j, 0, t, k, 0, m, L)
<1> DEFINE p == PlaceIn(s, j, 0, L)
           q == PlaceIn(t, k, 0, L)
           h == Greater(p, q)
           S == Bits(s)
           T == Bits(t)
           W == S \cap T
<1>1. p \in Nat /\ q \in Nat /\ g \in Nat  BY PlaceIsNat DEF Written
<1>2. S \subseteq Nat /\ T \subseteq Nat  BY SideBits
<1>3. /\ Written(m, Below(W, g), g) /\ Clear(S, g, p) /\ Clear(T, g, q)
      /\ g <= p \/ g <= q
  OBVIOUS
<1> HIDE DEF p, q, S, T
<1>4. g <= h  BY <1>1, <1>3 DEF Greater
<1>5. Clear(W, g, h) /\ h \in Nat  BY <1>1, <1>2, <1>3, ClearOfTwo
<1> HIDE DEF h
<1>6. W \subseteq Nat  BY <1>2
<1> HIDE DEF W
<1>7. Written(m, Below(W, h), h)  BY <1>3, <1>4, <1>5, <1>6, NothingBetween
<1> QED  BY <1>7 DEF IntersectionGoes, p, q, h, S, T, W

\* A chunk that ends before the other map's begins is passed.
LEMMA IntersectionPasses ==
  ASSUME NEW s, NEW j, NEW cur, NEW t, NEW k, NEW new, NEW m, NEW L,
         IntersectionGoes(s, j, cur, t, k, new, m, L), j <= Len(s), k <= Len(t),
         EndOf(s[j]) <= t[k].start
  PROVE  /\ IntersectionGoes(s, j + 1, 0, t, k, new, m, L)
         /\ PlaceIn(s, j, cur, L) <= PlaceIn(s, j + 1, 0, L)
<1> DEFINE c == s[j]
           p == PlaceIn(s, j, cur, L)
           q == PlaceIn(t, k, 0, L)
           p2 == PlaceIn(s, j + 1, 0, L)
           e == EndOf(c)
           S == Bits(s)
           T == Bits(t)
           f == Greater(p, q)
<1>1. /\ cur = 0 /\ new = 0 /\ Side(s, j, cur, L) /\ Side(t, k, 0, L)
      /\ Written(m, Below(S \cap T, f), f)
  BY DEF IntersectionGoes
<1>2. ChunkAt(c, p, L)  BY <1>1, SideChunk
<1>3. /\ p \in Nat /\ e \in Nat /\ Boundary(e) /\ c.start <= p /\ c.start \in Nat /\ e <= L
      /\ p <= e
  BY <1>2 DEF ChunkAt
<1>4. q = t[k].start /\ q \in Nat
  <2>1. ChunkAt(t[k], q, L) /\ (0 <= t[k].start => q = t[k].start)  BY <1>1, SideChunk
  <2>2. t[k].start \in Nat  BY <2>1 DEF ChunkAt
  <2> QED  BY <2>1, <2>2
<1>5. S \subseteq Nat /\ T \subseteq Nat  BY <1>1, SideBits
<1>6. Moved(s, j, e, j + 1, 0, L)
  <2>1. e <= e /\ ~(e < e)  BY <1>3
  <2>2. MovesTo(s, j, e, j + 1, 0)  BY <2>1 DEF MovesTo
  <2> QED  BY <1>1, <1>3, <2>1, <2>2, SideMoves
<1>7. Side(s, j + 1, 0, L) /\ p2 \in Nat /\ e <= p2 /\ Clear(S, e, p2)
  BY <1>6 DEF Moved
<1>8. e <= q  BY <1>4
<1> HIDE DEF p, q, p2, e, S, T
<1>9. f = q  BY <1>3, <1>4, <1>8 DEF Greater
<1> HIDE DEF f
<1>10. Clear(S, q, p2)  BY <1>3, <1>4, <1>5, <1>7, <1>8, ClearFurther
<1>11. Clear(T, q, q) /\ q <= q  BY <1>4, <1>5 DEF Clear
<1>12. Written(m, Below(S \cap T, q), q)  BY <1>1, <1>9
<1>13. IntersectionGoes(s, j + 1, 0, t, k, 0, m, L)
  BY <1>1, <1>7, <1>10, <1>11, <1>12, IntersectionGoesOn DEF p2, q, S, T
<1>14. p <= p2  BY <1>3, <1>7
<1> QED  BY <1>1, <1>13, <1>14 DEF p, p2

\* A side leaves its chunk when the overlap reaches its end.
Leaves(s, j, e, i) == IF EndOf(s[j]) <= e THEN i = j + 1 ELSE i = j
\* A side that leaves its chunk, or stays in it, loses no index it has not given.
LEMMA SideLeaves ==
  ASSUME NEW s, NEW j, NEW L, Side(s, j, 0, L), j <= Len(s), NEW e \in Nat,
         Boundary(e), PlaceIn(s, j, 0, L) <= e, e <= EndOf(s[j]), NEW i, Leaves(s, j, e, i)
  PROVE  /\ Side(s, i, 0, L) /\ PlaceIn(s, i, 0, L) \in Nat
         /\ PlaceIn(s, j, 0, L) <= PlaceIn(s, i, 0, L)
         /\ Clear(Bits(s), e, PlaceIn(s, i, 0, L))
         /\ EndOf(s[j]) <= e => e <= PlaceIn(s, i, 0, L)
         /\ j <= i
<1> DEFINE c == s[j]
           p == PlaceIn(s, j, 0, L)
           p2 == PlaceIn(s, i, 0, L)
<1>1. ChunkAt(c, p, L)  BY SideChunk
<1>2. p \in Nat /\ EndOf(c) \in Nat  BY <1>1 DEF ChunkAt
<1>3. Bits(s) \subseteq Nat  BY SideBits
<1>4. j \in Nat  BY PlaceIsNat
<1>5. CASE EndOf(c) <= e
  <2>1. e = EndOf(c) /\ i = j + 1  BY <1>2, <1>5 DEF Leaves
  <2>2. e >= EndOf(c) /\ ~(e < EndOf(c))  BY <1>2, <2>1
  <2>3. MovesTo(s, j, e, i, 0)  BY <2>1, <2>2 DEF MovesTo
  <2>4. Moved(s, j, e, i, 0, L)  BY <2>2, <2>3, SideMoves
  <2>5. Side(s, i, 0, L) /\ p2 \in Nat /\ e <= p2 /\ Clear(Bits(s), e, p2)
    BY <2>4 DEF Moved
  <2> HIDE DEF p, p2
  <2>6. p <= p2  BY <1>2, <2>5 DEF p
  <2> QED  BY <1>4, <2>1, <2>5, <2>6 DEF p, p2
<1>6. CASE ~(EndOf(c) <= e)
  <2>1. i = j  BY <1>6 DEF Leaves
  <2> HIDE DEF p
  <2>2. Clear(Bits(s), e, p)
    <3>1. p <= e  BY DEF p
    <3> QED  BY <1>2, <1>3, <3>1 DEF Clear
  <2>3. p <= p /\ j <= j  BY <1>2, <1>4
  <2> QED  BY <1>2, <1>6, <2>1, <2>2, <2>3 DEF p
<1> QED  BY <1>5, <1>6

\* What two chunks have in common is written, and whichever ends first is left.
CommonPart(m, c, d) ==
  IF IsRLE(c) /\ IsRLE(d)
  THEN AppendRun(m, Greater(c.start, d.start), Lesser(c.start + c.len, d.start + d.len))
  ELSE AppendSparse(m, AndPiece(c, d))
\* The intersection is then written that much further.
LEMMA IntersectionMeets ==
  ASSUME NEW s, NEW j, NEW cur, NEW t, NEW k, NEW new, NEW m, NEW L,
         IntersectionGoes(s, j, cur, t, k, new, m, L), j <= Len(s), k <= Len(t),
         t[k].start < EndOf(s[j]), s[j].start < EndOf(t[k]),
         NEW i, Leaves(s, j, EndOf(t[k]), i), NEW l, Leaves(t, k, EndOf(s[j]), l)
  PROVE  /\ IntersectionGoes(s, i, 0, t, l, 0, CommonPart(m, s[j], t[k]), L)
         /\ PlaceIn(s, j, cur, L) <= PlaceIn(s, i, 0, L)
         /\ PlaceIn(t, k, new, L) <= PlaceIn(t, l, 0, L)
         /\ j <= i /\ k <= l /\ cur = 0 /\ new = 0
<1> DEFINE c == s[j]
           d == t[k]
           p == PlaceIn(s, j, 0, L)
           q == PlaceIn(t, k, 0, L)
           p2 == PlaceIn(s, i, 0, L)
           q2 == PlaceIn(t, l, 0, L)
           o == MeetStart(p, q)
           e == MeetEnd(c, d)
           S == Bits(s)
           T == Bits(t)
           W == S \cap T
           r == CommonPart(m, c, d)
<1>1. /\ cur = 0 /\ new = 0 /\ Side(s, j, 0, L) /\ Side(t, k, 0, L)
      /\ Written(m, Below(W, o), o)
  BY DEF IntersectionGoes, MeetStart
<1>2. ChunkAt(c, p, L) /\ (0 <= c.start => p = c.start)  BY <1>1, SideChunk
<1>3. ChunkAt(d, q, L) /\ (0 <= d.start => q = d.start)  BY <1>1, SideChunk
<1>4. p = c.start /\ q = d.start /\ p \in Nat /\ q \in Nat
      /\ c.start + ChunkCap <= EndOf(c) /\ d.start + ChunkCap <= EndOf(d)
      /\ EndOf(c) \in Nat /\ EndOf(d) \in Nat /\ ChunkCap \in Nat /\ ChunkCap >= 2
  BY <1>2, <1>3 DEF ChunkAt
<1>5. Meeting(c, p, d, q, L)
  <2>1. p < EndOf(c) /\ q < EndOf(d)  BY <1>4
  <2>2. p < EndOf(d) /\ q < EndOf(c)  BY <1>4
  <2> QED  BY <1>2, <1>3, <2>1, <2>2 DEF Meeting
<1>6. /\ o \in Nat /\ e \in Nat /\ Boundary(e) /\ o < e /\ p <= o /\ q <= o
      /\ e <= EndOf(c) /\ e <= EndOf(d) /\ c.start <= o /\ d.start <= o
      /\ e = (IF EndOf(c) <= EndOf(d) THEN EndOf(c) ELSE EndOf(d))
  BY <1>5, MeetingIs
<1>7. /\ S \subseteq Nat
      /\ \A x \in Nat : c.start <= x /\ x < EndOf(c) => (x \in S <=> x \in BitsOf(c))
  BY <1>1, SideBits
<1>8. /\ T \subseteq Nat
      /\ \A x \in Nat : d.start <= x /\ x < EndOf(d) => (x \in T <=> x \in BitsOf(d))
  BY <1>1, SideBits
<1>9. Leaves(s, j, e, i) /\ Leaves(t, k, e, l)
  <2> HIDE DEF e
  <2>1. EndOf(c) <= EndOf(d) <=> EndOf(c) <= e  BY <1>4, <1>6
  <2>2. EndOf(d) <= EndOf(c) <=> EndOf(d) <= e  BY <1>4, <1>6
  <2> QED  BY <2>1, <2>2 DEF Leaves
<1> HIDE DEF o, e, S, T
<1>10. p <= e /\ q <= e  BY <1>4, <1>6
<1>11. /\ Side(s, i, 0, L) /\ p2 \in Nat /\ p <= p2 /\ Clear(S, e, p2) /\ j <= i
       /\ EndOf(c) <= e => e <= p2
  BY <1>1, <1>6, <1>9, <1>10, SideLeaves DEF S
<1>12. /\ Side(t, l, 0, L) /\ q2 \in Nat /\ q <= q2 /\ Clear(T, e, q2) /\ k <= l
       /\ EndOf(d) <= e => e <= q2
  BY <1>1, <1>6, <1>9, <1>10, SideLeaves DEF T
<1>13. e <= p2 \/ e <= q2  BY <1>4, <1>6, <1>11, <1>12
<1>14. ASSUME NEW x \in Nat, o <= x, x < e
       PROVE  x \in W <=> x \in BitsOf(c) /\ x \in BitsOf(d)
  <2>1. x \in S <=> x \in BitsOf(c)  BY <1>4, <1>6, <1>7, <1>14
  <2>2. x \in T <=> x \in BitsOf(d)  BY <1>4, <1>6, <1>8, <1>14
  <2> QED  BY <2>1, <2>2
<1>15. W \subseteq Nat  BY <1>7, <1>8
<1>16. Written(r, Below(W, e), e)
  <2> HIDE DEF W
  <2>1. CASE IsRLE(c) /\ IsRLE(d)
    <3>1. o = Greater(c.start, d.start)  BY <1>4 DEF o, MeetStart
    <3>2. Meeting(c, c.start, d, d.start, L)  BY <1>4, <1>5
    <3>3. r = AppendRun(m, o, Lesser(c.start + c.len, d.start + d.len))
      BY <2>1, <3>1 DEF CommonPart
    <3> HIDE DEF r, p, q, c, d
    <3>4. e = MeetEnd(c, d)  BY DEF e
    <3> QED  BY <1>1, <1>14, <1>15, <2>1, <3>1, <3>2, <3>3, <3>4, CommonRunsWritten
  <2>2. CASE ~(IsRLE(c) /\ IsRLE(d))
    <3>1. r = AppendSparse(m, AndPiece(c, d))  BY <2>2 DEF CommonPart
    <3> HIDE DEF r, p, q, c, d
    <3>2. \A x \in Nat : MeetStart(p, q) <= x /\ x < MeetEnd(c, d) =>
            (x \in W <=> x \in BitsOf(c) /\ x \in BitsOf(d))
      BY <1>14 DEF o, e
    <3>3. Written(m, Below(W, MeetStart(p, q)), MeetStart(p, q))  BY <1>1 DEF o
    <3> QED  BY <1>5, <1>15, <2>2, <3>1, <3>2, <3>3, CommonWordsWritten DEF e
  <2> QED  BY <2>1, <2>2
<1> HIDE DEF r
<1>17. IntersectionGoes(s, i, 0, t, l, 0, r, L)
  BY <1>11, <1>12, <1>13, <1>16, IntersectionGoesOn DEF S, T, W
<1> QED  BY <1>1, <1>11, <1>12, <1>17 DEF r

----------------------------------------------------------------------------
(* Difference.                                                             *)

\* Inside a range where the second map has nothing, what is wanted is what the
\* first map's chunk holds.
LEMMA OnlyFirst ==
  ASSUME NEW s, NEW j, NEW cur, NEW L, Side(s, j, cur, L), j <= Len(s),
         NEW T, NEW f \in Nat, NEW g \in Nat, Clear(T, f, g), s[j].start <= f,
         NEW x \in Nat, f <= x, x < g, x < EndOf(s[j])
  PROVE  x \in Bits(s) \ T <=> x \in BitsOf(s[j])
<1>1. ChunkAt(s[j], PlaceIn(s, j, cur, L), L)  BY SideChunk
<1>2. s[j].start \in Nat  BY <1>1 DEF ChunkAt
<1>3. s[j].start <= x  BY <1>2
<1>4. x \in Bits(s) <=> x \in BitsOf(s[j])  BY <1>3, SideBits
<1>5. x \notin T  BY DEF Clear
<1> QED  BY <1>4, <1>5

\* A chunk is written to its end, and the walk of the first map moves on.
LEMMA DifferenceMovesOn ==
  ASSUME NEW s, NEW j, NEW cur, NEW t, NEW k, NEW L, Side(s, j, cur, L), j <= Len(s),
         Side(t, k, 0, L), Clear(Bits(t), PlaceIn(s, j, cur, L), PlaceIn(t, k, 0, L)),
         NEW r, NEW e, e = EndOf(s[j]), Written(r, Below(Bits(s) \ Bits(t), e), e)
  PROVE  /\ DifferenceGoes(s, j + 1, 0, t, k, 0, "outer", r, L)
         /\ PlaceIn(s, j, cur, L) <= PlaceIn(s, j + 1, 0, L)
<1> DEFINE p == PlaceIn(s, j, cur, L)
           q == PlaceIn(t, k, 0, L)
           p2 == PlaceIn(s, j + 1, 0, L)
           S == Bits(s)
           T == Bits(t)
           W == S \ T
<1>1. ChunkAt(s[j], p, L)  BY SideChunk
<1>2. p \in Nat /\ e \in Nat /\ Boundary(e) /\ p <= e  BY <1>1 DEF ChunkAt
<1>3. q \in Nat  BY PlaceIsNat
<1>4. S \subseteq Nat /\ T \subseteq Nat  BY SideBits
<1>5. Moved(s, j, e, j + 1, 0, L)
  <2>1. e >= EndOf(s[j]) /\ e <= EndOf(s[j]) /\ ~(e < EndOf(s[j]))  BY <1>2
  <2>2. MovesTo(s, j, e, j + 1, 0)  BY <2>1 DEF MovesTo
  <2> QED  BY <1>2, <2>1, <2>2, SideMoves
<1>6. Side(s, j + 1, 0, L) /\ p2 \in Nat /\ e <= p2 /\ Clear(S, e, p2)
  BY <1>5 DEF Moved
<1>7. Clear(T, p, q) /\ Written(r, Below(W, e), e)  OBVIOUS
<1> HIDE DEF p, q, p2, S, T
<1>8. p <= p2  BY <1>2, <1>6
<1>9. Clear(T, p2, q)  BY <1>2, <1>3, <1>4, <1>6, <1>7, <1>8, ClearFurther
<1>10. W \subseteq Nat /\ Clear(W, e, p2)  BY <1>4, <1>6 DEF Clear
<1> HIDE DEF W
<1>11. Written(r, Below(W, p2), p2)  BY <1>2, <1>6, <1>7, <1>10, NothingBetween
<1>12. "outer" \in {"outer", "inner", "tail"} /\ "outer" # "inner" /\ "outer" # "tail"
  OBVIOUS
<1> QED  BY <1>6, <1>8, <1>9, <1>11, <1>12 DEF DifferenceGoes, p, q, p2, S, T, W

\* The second map is exhausted: the chunk is copied.
LEMMA DifferenceCopies ==
  ASSUME NEW s, NEW j, NEW cur, NEW t, NEW k, NEW new, NEW m, NEW L,
         DifferenceGoes(s, j, cur, t, k, new, "outer", m, L), j <= Len(s), k > Len(t)
  PROVE  /\ DifferenceGoes(s, j + 1, 0, t, k, new, "outer", AppendChunk(m, s[j]), L)
         /\ PlaceIn(s, j, cur, L) <= PlaceIn(s, j + 1, 0, L)
<1> DEFINE c == s[j]
           p == PlaceIn(s, j, cur, L)
           q == PlaceIn(t, k, 0, L)
           e == EndOf(c)
           W == Bits(s) \ Bits(t)
           r == AppendChunk(m, c)
<1>1. /\ cur = 0 /\ new = 0 /\ Side(s, j, cur, L) /\ Side(t, k, 0, L)
      /\ Clear(Bits(t), p, q) /\ Written(m, Below(W, p), p)
  BY DEF DifferenceGoes
<1>2. ChunkAt(c, p, L) /\ (cur <= c.start => p = c.start)  BY <1>1, SideChunk
<1>3. p = c.start /\ p \in Nat /\ e \in Nat /\ e <= L
  <2>1. c.start \in Nat /\ e \in Nat /\ e <= L  BY <1>2 DEF ChunkAt
  <2> QED  BY <1>1, <1>2, <2>1
<1>4. q = L /\ L \in Nat  BY <1>1, SideOver, PlaceIsNat
<1>5. r = WriteRest(m, c, p)
  <2>1. p <= c.start  BY <1>3
  <2> QED  BY <2>1 DEF WriteRest
<1>6. Bits(s) \subseteq Nat  BY <1>1, SideBits
<1> HIDE DEF p, q, e, r
<1>7. \A x \in Nat : p <= x /\ x < e => (x \in W <=> x \in BitsOf(c))
  <2> SUFFICES ASSUME NEW x \in Nat, p <= x, x < e  PROVE x \in W <=> x \in BitsOf(c)
    OBVIOUS
  <2>1. c.start <= p /\ x < q  BY <1>3, <1>4
  <2> QED  BY <1>1, <1>3, <1>4, <2>1, OnlyFirst DEF e
<1>8. W \subseteq Nat  BY <1>6
<1>9. Written(r, Below(W, e), e)
  <2> HIDE DEF W, c
  <2> QED  BY <1>1, <1>2, <1>5, <1>7, <1>8, RestDone DEF e
<1>10. /\ DifferenceGoes(s, j + 1, 0, t, k, 0, "outer", r, L)
       /\ p <= PlaceIn(s, j + 1, 0, L)
  BY <1>1, <1>9, DifferenceMovesOn DEF p, q, e, W
<1> QED  BY <1>1, <1>10 DEF p, r

\* The walk enters the chunk.
LEMMA DifferenceEnters ==
  ASSUME NEW s, NEW j, NEW cur, NEW t, NEW k, NEW new, NEW m, NEW L,
         DifferenceGoes(s, j, cur, t, k, new, "outer", m, L), j <= Len(s)
  PROVE  /\ DifferenceGoes(s, j, s[j].start, t, k, new, "inner", m, L)
         /\ PlaceIn(s, j, s[j].start, L) = PlaceIn(s, j, cur, L)
<1> DEFINE p == PlaceIn(s, j, cur, L)
           now == s[j].start
           q == PlaceIn(t, k, 0, L)
           W == Bits(s) \ Bits(t)
<1>1. /\ cur = 0 /\ new = 0 /\ Side(s, j, cur, L) /\ Side(t, k, 0, L)
      /\ Clear(Bits(t), p, q) /\ Written(m, Below(W, p), p)
  BY DEF DifferenceGoes
<1>2. ChunkAt(s[j], p, L) /\ (cur <= now => p = now)  BY <1>1, SideChunk
<1>3. now \in Nat /\ EndOf(s[j]) \in Nat /\ now + ChunkCap <= EndOf(s[j])
      /\ ChunkCap \in Nat /\ ChunkCap >= 2
  BY <1>2 DEF ChunkAt
<1>4. p = now /\ now >= now  BY <1>1, <1>2, <1>3
<1>5. Open(s, j, cur)
  <2>1. 0 < EndOf(s[j])  BY <1>3
  <2> QED  BY <1>1, <2>1 DEF Open
<1>6. /\ Side(s, j, p, L) /\ Open(s, j, p) /\ PlaceIn(s, j, p, L) = p
  BY <1>1, <1>5, SideAtPlace
<1> HIDE DEF p, q, now, W
<1>7. /\ Side(s, j, now, L) /\ Open(s, j, now) /\ PlaceIn(s, j, now, L) = p
  BY <1>4, <1>6
<1>8. "inner" \in {"outer", "inner", "tail"} /\ "inner" # "outer" /\ "inner" # "tail"
  OBVIOUS
<1>9. DifferenceGoes(s, j, now, t, k, 0, "inner", m, L)
  BY <1>1, <1>4, <1>7, <1>8 DEF DifferenceGoes, q, W, now
<1> QED  BY <1>1, <1>7, <1>9 DEF now, p

\* The second map is past the chunk: only its rest is left to write.
LEMMA DifferenceLeaves ==
  ASSUME NEW s, NEW j, NEW cur, NEW t, NEW k, NEW new, NEW m, NEW L,
         DifferenceGoes(s, j, cur, t, k, new, "inner", m, L),
         k <= Len(t) => EndOf(s[j]) <= t[k].start
  PROVE  DifferenceGoes(s, j, cur, t, k, new, "tail", m, L)
<1> DEFINE q == PlaceIn(t, k, new, L)
<1>1. /\ new = 0 /\ Side(s, j, cur, L) /\ Side(t, k, new, L) /\ j <= Len(s)
  BY DEF DifferenceGoes
<1>2. ChunkAt(s[j], PlaceIn(s, j, cur, L), L)  BY <1>1, SideChunk
<1>3. EndOf(s[j]) \in Nat /\ EndOf(s[j]) <= L  BY <1>2 DEF ChunkAt
<1>4. Len(t) \in Nat /\ k \in Nat  BY <1>1, PlaceIsNat
<1>5. EndOf(s[j]) <= q
  <2>1. CASE k > Len(t)
    <3>1. q = L  BY <1>1, <2>1, SideOver
    <3> QED  BY <1>3, <3>1
  <2>2. CASE k <= Len(t)
    <3>1. ChunkAt(t[k], q, L)  BY <1>1, <2>2, SideChunk
    <3>2. t[k].start <= q /\ q \in Nat /\ t[k].start \in Nat  BY <3>1 DEF ChunkAt
    <3>3. EndOf(s[j]) <= t[k].start  BY <2>2
    <3> QED  BY <1>3, <3>2, <3>3
  <2> QED  BY <1>4, <2>1, <2>2
<1>6. "tail" \in {"outer", "inner", "tail"} /\ "tail" # "outer" /\ "inner" # "tail"
      /\ "inner" # "outer"
  OBVIOUS
<1> QED  BY <1>5, <1>6 DEF DifferenceGoes

\* A chunk of the second map that ends before the place in the chunk is passed.
LEMMA DifferenceSkips ==
  ASSUME NEW s, NEW j, NEW cur, NEW t, NEW k, NEW new, NEW m, NEW L,
         DifferenceGoes(s, j, cur, t, k, new, "inner", m, L), k <= Len(t),
         EndOf(t[k]) <= cur
  PROVE  /\ DifferenceGoes(s, j, cur, t, k + 1, 0, "inner", m, L)
         /\ PlaceIn(t, k, new, L) <= PlaceIn(t, k + 1, 0, L)
<1> DEFINE p == PlaceIn(s, j, cur, L)
           q == PlaceIn(t, k, 0, L)
           q2 == PlaceIn(t, k + 1, 0, L)
           d == t[k]
           h == EndOf(d)
           T == Bits(t)
<1>1. /\ new = 0 /\ Side(s, j, cur, L) /\ Side(t, k, 0, L) /\ Clear(T, p, q)
      /\ j <= Len(s)
  BY DEF DifferenceGoes
<1>2. ChunkAt(d, q, L)  BY <1>1, SideChunk
<1>3. q \in Nat /\ h \in Nat /\ Boundary(h) /\ q <= h  BY <1>2 DEF ChunkAt
<1>4. Moved(t, k, h, k + 1, 0, L)
  <2>1. h >= EndOf(t[k]) /\ h <= EndOf(t[k]) /\ ~(h < EndOf(t[k]))  BY <1>3
  <2>2. MovesTo(t, k, h, k + 1, 0)  BY <2>1 DEF MovesTo
  <2> QED  BY <1>1, <1>3, <2>1, <2>2, SideMoves
<1>5. Side(t, k + 1, 0, L) /\ q2 \in Nat /\ h <= q2 /\ Clear(T, h, q2)
  BY <1>4 DEF Moved
<1>6. T \subseteq Nat /\ p \in Nat  BY <1>1, SideBits, PlaceIsNat
<1>7. h <= p
  <2>1. ChunkAt(s[j], p, L) /\ p = Greater(cur, s[j].start)  BY <1>1, SideChunk
  <2>2. s[j].start \in Nat /\ cur \in Nat  BY <1>1, <2>1 DEF ChunkAt, Side
  <2>3. cur <= p  BY <2>1, <2>2 DEF Greater
  <2> QED  BY <1>3, <1>6, <2>2, <2>3
<1> HIDE DEF p, q, q2, h, T
<1>8. Clear(T, p, q2)  BY <1>3, <1>5, <1>6, <1>7, ClearFurther
<1>9. q <= q2  BY <1>3, <1>5
<1>10. DifferenceGoes(s, j, cur, t, k + 1, 0, "inner", m, L)
  BY <1>5, <1>8 DEF DifferenceGoes, p, q2, T
<1> QED  BY <1>1, <1>9, <1>10 DEF q, q2

\* The rest of the chunk is written.
LEMMA DifferenceEnds ==
  ASSUME NEW s, NEW j, NEW cur, NEW t, NEW k, NEW new, NEW m, NEW L,
         DifferenceGoes(s, j, cur, t, k, new, "tail", m, L)
  PROVE  /\ DifferenceGoes(s, j + 1, 0, t, k, new, "outer",
                           EmitChunkBits(m, s[j], cur, EndOf(s[j])), L)
         /\ PlaceIn(s, j, cur, L) <= PlaceIn(s, j + 1, 0, L)
<1> DEFINE c == s[j]
           p == PlaceIn(s, j, cur, L)
           q == PlaceIn(t, k, 0, L)
           e == EndOf(c)
           W == Bits(s) \ Bits(t)
           r == EmitChunkBits(m, c, p, e)
<1>1. /\ new = 0 /\ Side(s, j, cur, L) /\ Side(t, k, 0, L) /\ j <= Len(s) /\ cur >= c.start
      /\ Clear(Bits(t), p, q) /\ Written(m, Below(W, p), p) /\ (cur = e \/ e <= q)
  BY DEF DifferenceGoes
<1>2. ChunkAt(c, p, L) /\ p = Greater(cur, c.start)  BY <1>1, SideChunk
<1>3. c.start \in Nat /\ cur \in Nat /\ p \in Nat /\ e \in Nat /\ Boundary(e) /\ p <= e
      /\ c.start <= p
  BY <1>1, <1>2 DEF ChunkAt, Side
<1>4. p = cur  BY <1>1, <1>2, <1>3 DEF Greater
<1>5. q \in Nat  BY <1>1, PlaceIsNat
<1>6. Bits(s) \subseteq Nat  BY <1>1, SideBits
<1> HIDE DEF p, q, e, r
<1>7. \A x \in Nat : p <= x /\ x < e => (x \in W <=> x \in BitsOf(c))
  <2> SUFFICES ASSUME NEW x \in Nat, p <= x, x < e  PROVE x \in W <=> x \in BitsOf(c)
    OBVIOUS
  <2>1. x < q  BY <1>1, <1>3, <1>4, <1>5
  <2> QED  BY <1>1, <1>3, <1>5, <2>1, OnlyFirst DEF e
<1>8. W \subseteq Nat /\ e <= e  BY <1>3, <1>6
<1>9. Written(r, Below(W, e), e)
  <2> HIDE DEF W, c
  <2> QED  BY <1>1, <1>2, <1>3, <1>7, <1>8, PartDone DEF e, r
<1>10. /\ DifferenceGoes(s, j + 1, 0, t, k, 0, "outer", r, L)
       /\ p <= PlaceIn(s, j + 1, 0, L)
  BY <1>1, <1>9, DifferenceMovesOn DEF p, q, e, W
<1>11. r = EmitChunkBits(m, s[j], cur, EndOf(s[j]))  BY <1>4 DEF r, e
<1> HIDE DEF c
<1> QED  BY <1>1, <1>10, <1>11 DEF p

\* Where the chunk is in reach of one of the second map, what survives of it is
\* written up to the end of their overlap.
LEMMA DifferenceMeets ==
  ASSUME NEW s, NEW j, NEW cur, NEW t, NEW k, NEW new, NEW m, NEW L,
         DifferenceGoes(s, j, cur, t, k, new, "inner", m, L), k <= Len(t),
         t[k].start < EndOf(s[j]), cur < EndOf(t[k]),
         NEW o, o = Greater(t[k].start, cur), NEW e, e = MeetEnd(s[j], t[k]),
         NEW l, Leaves(t, k, EndOf(s[j]), l),
         NEW ph, ph = IF EndOf(s[j]) <= EndOf(t[k]) THEN "tail" ELSE "inner"
  PROVE  /\ DifferenceGoes(s, j, e, t, l, 0, ph,
                           Survivors(EmitChunkBits(m, s[j], cur, o), s[j], t[k], o, e), L)
         /\ PlaceIn(s, j, cur, L) <= PlaceIn(s, j, e, L)
         /\ PlaceIn(t, k, new, L) <= PlaceIn(t, l, 0, L)
         /\ k <= l /\ new = 0
<1> DEFINE c == s[j]
           d == t[k]
           p == PlaceIn(s, j, cur, L)
           q == PlaceIn(t, k, 0, L)
           p2 == PlaceIn(s, j, e, L)
           q2 == PlaceIn(t, l, 0, L)
           S == Bits(s)
           T == Bits(t)
           W == S \ T
           before == EmitChunkBits(m, c, p, o)
           r == Survivors(before, c, d, o, e)
<1>1. /\ new = 0 /\ Side(s, j, cur, L) /\ Side(t, k, 0, L) /\ j <= Len(s) /\ cur >= c.start
      /\ Clear(T, p, q) /\ Open(s, j, cur) /\ Written(m, Below(W, p), p)
  BY DEF DifferenceGoes
<1>2. ChunkAt(c, p, L) /\ p < EndOf(c) /\ p = Greater(cur, c.start)
  BY <1>1, SideChunk
<1>3. ChunkAt(d, q, L) /\ (0 <= d.start => q = d.start)  BY <1>1, SideChunk
<1>4. p \in Nat /\ q \in Nat /\ c.start \in Nat /\ d.start \in Nat /\ cur \in Nat
      /\ EndOf(c) \in Nat /\ EndOf(d) \in Nat /\ c.start <= p
      /\ d.start + ChunkCap <= EndOf(d) /\ ChunkCap \in Nat /\ ChunkCap >= 2
  BY <1>1, <1>2, <1>3 DEF ChunkAt, Side
<1>5. p = cur /\ q = d.start  BY <1>1, <1>2, <1>3, <1>4 DEF Greater
<1>6. Meeting(c, p, d, q, L)
  <2>1. q < EndOf(d) /\ p < EndOf(d) /\ q < EndOf(c)  BY <1>4, <1>5
  <2> QED  BY <1>2, <1>3, <2>1 DEF Meeting
<1>7. o = MeetStart(p, q)  BY <1>4, <1>5 DEF MeetStart, Greater
<1>8. /\ o \in Nat /\ Boundary(o) /\ e \in Nat /\ Boundary(e) /\ o < e /\ p <= o /\ q <= o
      /\ e <= EndOf(c) /\ e <= EndOf(d) /\ c.start <= o /\ d.start <= o
      /\ e = (IF EndOf(c) <= EndOf(d) THEN EndOf(c) ELSE EndOf(d))
      /\ o = (IF q <= p THEN p ELSE q)
  BY <1>6, <1>7, MeetingIs
<1>9. ~IsRLE(c) => o = p /\ e = EndOf(c)  BY <1>6, <1>7, MeetingOfSparse
<1>10. /\ S \subseteq Nat
       /\ \A x \in Nat : c.start <= x /\ x < EndOf(c) => (x \in S <=> x \in BitsOf(c))
  BY <1>1, SideBits
<1>11. /\ T \subseteq Nat
       /\ \A x \in Nat : d.start <= x /\ x < EndOf(d) => (x \in T <=> x \in BitsOf(d))
  BY <1>1, SideBits
<1>12. Leaves(t, k, e, l)
  <2>1. EndOf(d) <= EndOf(c) <=> EndOf(d) <= e  BY <1>4, <1>8
  <2> QED  BY <2>1 DEF Leaves
<1>13. /\ Side(t, l, 0, L) /\ q2 \in Nat /\ q <= q2 /\ Clear(T, e, q2) /\ k <= l
  <2>1. q <= e  BY <1>4, <1>8
  <2> QED  BY <1>1, <1>8, <1>12, <2>1, SideLeaves
<1>14. Side(s, j, e, L)
  <2>1. e > c.start => IsRLE(c) \/ e = EndOf(c)  BY <1>9
  <2> QED  BY <1>1, <1>8, <2>1 DEF Side
<1>15. p2 = e
  <2>1. p2 = Greater(e, c.start)  BY <1>1, <1>14, SideChunk
  <2> QED  BY <1>4, <1>8, <2>1 DEF Greater
<1> HIDE DEF p, q, p2, q2, S, T, before, r
<1>16. ASSUME NEW x \in Nat, p <= x, x < o
       PROVE  x \in W <=> x \in BitsOf(c)
  <2>1. x < q /\ x < EndOf(c) /\ c.start <= x  BY <1>4, <1>8, <1>16
  <2>2. x \notin T  BY <1>1, <1>16, <2>1 DEF Clear
  <2> QED  BY <1>10, <2>1, <2>2
<1>17. ASSUME NEW x \in Nat, o <= x, x < e
       PROVE  x \in W <=> x \in BitsOf(c) /\ x \notin BitsOf(d)
  <2>1. x \in S <=> x \in BitsOf(c)  BY <1>4, <1>8, <1>10, <1>17
  <2>2. x \in T <=> x \in BitsOf(d)  BY <1>4, <1>8, <1>11, <1>17
  <2> QED  BY <2>1, <2>2
<1>18. W \subseteq Nat  BY <1>10
<1> HIDE DEF W
<1>19. Written(before, Below(W, o), o)
  <2>1. o <= EndOf(c) /\ (~IsRLE(c) => o = p \/ o = EndOf(c))  BY <1>4, <1>8, <1>9
  <2> HIDE DEF c
  <2> QED  BY <1>1, <1>2, <1>8, <1>16, <1>18, <2>1, PartDone DEF before
<1>20. Written(r, Below(W, e), e)
  <2> HIDE DEF c, d
  <2>0. e = MeetEnd(c, d)  BY DEF c, d
  <2>1. CASE IsRLE(c) /\ IsRLE(d)
    <3>1. r = RunAfter(EmitChunkBits(before, c, o, Lesser(e, d.start)), c, d, o, e)
      BY <2>1 DEF r, Survivors
    <3> QED  BY <1>6, <1>7, <1>17, <1>18, <1>19, <2>0, <2>1, <3>1, SurvivingRunsWritten
  <2>2. CASE ~(IsRLE(c) /\ IsRLE(d))
    <3>1. r = AppendSparse(before, AndNotPiece(c, d))  BY <2>2 DEF r, Survivors
    <3>2. \A x \in Nat : MeetStart(p, q) <= x /\ x < MeetEnd(c, d) =>
            (x \in W <=> x \in BitsOf(c) /\ x \notin BitsOf(d))
      BY <1>7, <1>17, <2>0
    <3>3. Written(before, Below(W, MeetStart(p, q)), MeetStart(p, q))  BY <1>7, <1>19
    <3> QED  BY <1>6, <1>18, <2>0, <2>2, <3>1, <3>2, <3>3, SurvivingWordsWritten
  <2> QED  BY <2>1, <2>2
<1>21. /\ ph \in {"inner", "tail"} /\ (ph = "inner" => e < EndOf(c))
       /\ (ph = "tail" => e = EndOf(c))
  BY <1>4, <1>8
<1>22. ph \in {"outer", "inner", "tail"} /\ ph # "outer"  BY <1>21
<1>23. e >= c.start /\ p <= p2  BY <1>4, <1>8, <1>15
<1>24. ph = "inner" => Open(s, j, e)  BY <1>21 DEF Open, c
<1>25. Clear(T, p2, q2) /\ Written(r, Below(W, p2), p2)  BY <1>13, <1>15, <1>20
<1>26. DifferenceGoes(s, j, e, t, l, 0, ph, r, L)
  BY <1>1, <1>13, <1>14, <1>21, <1>22, <1>23, <1>24, <1>25
     DEF DifferenceGoes, p2, q2, S, T, W, c
<1>27. r = Survivors(EmitChunkBits(m, s[j], cur, o), s[j], t[k], o, e)
  BY <1>5 DEF r, before, c, d
<1> QED  BY <1>1, <1>13, <1>23, <1>26, <1>27 DEF p, q, p2, q2

----------------------------------------------------------------------------
(* A turn of each loop.                                                    *)

\* The sides of the walk, in the terms of its actions.
LEMMA WalkSides ==
  ASSUME NEW L, WalkInv(L)
  PROVE  /\ Side(a, ai, acur, L) /\ Side(b, bi, bcur, L) /\ Open(b, bi, bcur)
         /\ ai \in Nat /\ bi \in Nat /\ Len(a) \in Nat /\ Len(b) \in Nat /\ L \in Nat
         /\ PlaceIn(a, ai, acur, L) \in Nat /\ PlaceIn(b, bi, bcur, L) \in Nat
         /\ PlaceIn(a, ai, acur, L) <= L /\ PlaceIn(b, bi, bcur, L) <= L
         /\ ai <= Len(a) => /\ CursorA = PlaceIn(a, ai, acur, L)
                            /\ ChunkAt(AtA, CursorA, L) /\ Ends(AtA) = EndOf(AtA)
         /\ bi <= Len(b) => /\ CursorB = PlaceIn(b, bi, bcur, L)
                            /\ ChunkAt(AtB, CursorB, L) /\ Ends(AtB) = EndOf(AtB)
<1>1. Side(a, ai, acur, L) /\ Side(b, bi, bcur, L) /\ Open(b, bi, bcur)  BY DEF WalkInv
<1>2. /\ PlaceIn(a, ai, acur, L) \in Nat /\ PlaceIn(a, ai, acur, L) <= L
      /\ L \in Nat /\ ai \in Nat /\ Len(a) \in Nat
  BY <1>1, PlaceIsNat
<1>3. /\ PlaceIn(b, bi, bcur, L) \in Nat /\ PlaceIn(b, bi, bcur, L) <= L
      /\ bi \in Nat /\ Len(b) \in Nat
  BY <1>1, PlaceIsNat
<1>4. ai <= Len(a) => /\ CursorA = PlaceIn(a, ai, acur, L) /\ ChunkAt(AtA, CursorA, L)
  BY <1>1, SideChunk DEF CursorA, AtA
<1>5. bi <= Len(b) => /\ CursorB = PlaceIn(b, bi, bcur, L) /\ ChunkAt(AtB, CursorB, L)
  BY <1>1, SideChunk DEF CursorB, AtB
<1>6. Ends(AtA) = EndOf(AtA) /\ Ends(AtB) = EndOf(AtB)  BY DEF Ends, EndOf
<1> QED  BY <1>1, <1>2, <1>3, <1>4, <1>5, <1>6

\* The turn leaves the walk where the result is to be m, and no side behind.
Turned(m, L) ==
  /\ Write(m)
  /\ Goes(op, a, ai', acur', b, bi', bcur', phase', m, L)
  /\ PlaceIn(a, ai, acur, L) <= PlaceIn(a, ai', acur', L)
  /\ PlaceIn(b, bi, bcur, L) <= PlaceIn(b, bi', bcur', L)

\* a ends before b's place.
LEMMA UnionPassATurn ==
  ASSUME NEW L, WalkInv(L), status = "walking", op = "union", UnionPassA
  PROVE  \E m : Turned(m, L)
<1> DEFINE m == WriteRest(out, AtA, acur)
           p == PlaceIn(a, ai, acur, L)
           q == PlaceIn(b, bi, bcur, L)
           then == CursorB
<1>1. UnionGoes(a, ai, acur, b, bi, bcur, out, L)  BY DEF WalkInv, Goes
<1>2. /\ Side(a, ai, acur, L) /\ Side(b, bi, bcur, L) /\ Open(b, bi, bcur)
      /\ ai <= Len(a) /\ bi <= Len(b) /\ CursorA = p /\ CursorB = q
      /\ Ends(AtA) = EndOf(AtA) /\ q \in Nat
  BY WalkSides DEF UnionPassA, Both
<1>3. EndOf(a[ai]) <= q  BY <1>2 DEF UnionPassA, AtA
<1>4. Side(b, bi, then, L) /\ Open(b, bi, then) /\ PlaceIn(b, bi, then, L) = q
  BY <1>2, SideAtPlace
<1>5. Write(m)
  <2>1. Side(a, ai, acur, L) /\ ai <= Len(a)  BY <1>2
  <2>2. WriteRest(out, a[ai], acur) = WriteRest(out, a[ai], PlaceIn(a, ai, acur, L))
    BY <2>1, RestFrom
  <2> QED  BY <1>2, <2>2 DEF UnionPassA, AtA
<1>6. ai' = ai + 1 /\ acur' = 0 /\ bi' = bi /\ bcur' = then  BY DEF UnionPassA, NextA
<1> HIDE DEF then
<1>7. /\ UnionGoes(a, ai + 1, 0, b, bi, then, WriteRest(out, a[ai], acur), L)
      /\ p <= PlaceIn(a, ai + 1, 0, L)
  BY <1>1, <1>2, <1>3, <1>4, UnionPasses
<1>8. q <= PlaceIn(b, bi, then, L)  BY <1>2, <1>4
<1>9. Goes(op, a, ai', acur', b, bi', bcur', phase', m, L)
  BY <1>6, <1>7 DEF Goes, AtA
<1>10. Turned(m, L)  BY <1>5, <1>6, <1>7, <1>8, <1>9 DEF Turned
<1> QED  BY <1>10

\* The same, of b.
LEMMA UnionPassBTurn ==
  ASSUME NEW L, WalkInv(L), status = "walking", op = "union", UnionPassB
  PROVE  \E m : Turned(m, L)
<1> DEFINE m == WriteRest(out, AtB, bcur)
           p == PlaceIn(a, ai, acur, L)
           q == PlaceIn(b, bi, bcur, L)
           then == CursorA
<1>1. UnionGoes(a, ai, acur, b, bi, bcur, out, L)  BY DEF WalkInv, Goes
<1>2. /\ Side(a, ai, acur, L) /\ Side(b, bi, bcur, L) /\ Open(a, ai, acur)
      /\ ai <= Len(a) /\ bi <= Len(b) /\ CursorA = p /\ CursorB = q
      /\ Ends(AtB) = EndOf(AtB) /\ p \in Nat
  BY <1>1, WalkSides DEF UnionPassB, Both, UnionGoes
<1>3. EndOf(b[bi]) <= p  BY <1>2 DEF UnionPassB, AtB
<1>4. Side(a, ai, then, L) /\ Open(a, ai, then) /\ PlaceIn(a, ai, then, L) = p
  BY <1>2, SideAtPlace
<1>5. Write(m)
  <2>1. WriteRest(out, b[bi], bcur) = WriteRest(out, b[bi], q)  BY <1>2, RestFrom
  <2> QED  BY <1>2, <2>1 DEF UnionPassB, AtB
<1>6. ai' = ai /\ acur' = then /\ bi' = bi + 1 /\ bcur' = 0  BY DEF UnionPassB, NextB
<1> HIDE DEF then
<1>7. UnionGoes(b, bi, bcur, a, ai, acur, out, L)  BY <1>1, UnionEitherWay
<1>8. /\ UnionGoes(b, bi + 1, 0, a, ai, then, WriteRest(out, b[bi], bcur), L)
      /\ q <= PlaceIn(b, bi + 1, 0, L)
  BY <1>2, <1>3, <1>4, <1>7, UnionPasses
<1>9. UnionGoes(a, ai, then, b, bi + 1, 0, WriteRest(out, b[bi], bcur), L)
  BY <1>8, UnionEitherWay
<1>10. p <= PlaceIn(a, ai, then, L)  BY <1>2, <1>4
<1>11. Goes(op, a, ai', acur', b, bi', bcur', phase', m, L)
  BY <1>6, <1>9 DEF Goes, AtB
<1>12. Turned(m, L)  BY <1>5, <1>6, <1>8, <1>10, <1>11 DEF Turned
<1> QED  BY <1>12

\* b is exhausted.
LEMMA UnionRestATurn ==
  ASSUME NEW L, WalkInv(L), status = "walking", op = "union", UnionRestA
  PROVE  \E m : Turned(m, L)
<1> DEFINE m == WriteRest(out, AtA, acur)
           p == PlaceIn(a, ai, acur, L)
           q == PlaceIn(b, bi, bcur, L)
<1>1. UnionGoes(a, ai, acur, b, bi, bcur, out, L)  BY DEF WalkInv, Goes
<1>2. /\ Side(a, ai, acur, L) /\ Side(b, bi, bcur, L) /\ Open(b, bi, bcur)
      /\ ai <= Len(a) /\ bi > Len(b) /\ ChunkAt(AtA, CursorA, L) /\ q \in Nat
  BY WalkSides DEF UnionRestA
<1>3. EndOf(a[ai]) <= q
  <2>1. q = L  BY <1>2, SideOver
  <2> QED  BY <1>2, <2>1 DEF ChunkAt, AtA
<1>4. Write(m)  BY DEF UnionRestA
<1>5. ai' = ai + 1 /\ acur' = 0 /\ bi' = bi /\ bcur' = bcur  BY DEF UnionRestA, NextA, StayB
<1>6. /\ UnionGoes(a, ai + 1, 0, b, bi, bcur, WriteRest(out, a[ai], acur), L)
      /\ p <= PlaceIn(a, ai + 1, 0, L)
  BY <1>1, <1>2, <1>3, UnionPasses
<1>7. Goes(op, a, ai', acur', b, bi', bcur', phase', m, L)  BY <1>5, <1>6 DEF Goes, AtA
<1>8. q <= q  BY <1>2
<1>9. Turned(m, L)  BY <1>4, <1>5, <1>6, <1>7, <1>8 DEF Turned
<1> QED  BY <1>9

\* a is exhausted.
LEMMA UnionRestBTurn ==
  ASSUME NEW L, WalkInv(L), status = "walking", op = "union", UnionRestB
  PROVE  \E m : Turned(m, L)
<1> DEFINE m == WriteRest(out, AtB, bcur)
           p == PlaceIn(a, ai, acur, L)
           q == PlaceIn(b, bi, bcur, L)
<1>1. UnionGoes(a, ai, acur, b, bi, bcur, out, L)  BY DEF WalkInv, Goes
<1>2. /\ Side(a, ai, acur, L) /\ Side(b, bi, bcur, L) /\ Open(a, ai, acur)
      /\ ai > Len(a) /\ bi <= Len(b) /\ ChunkAt(AtB, CursorB, L) /\ p \in Nat
  BY <1>1, WalkSides DEF UnionRestB, UnionGoes
<1>3. EndOf(b[bi]) <= p
  <2>1. p = L  BY <1>2, SideOver
  <2> QED  BY <1>2, <2>1 DEF ChunkAt, AtB
<1>4. Write(m)  BY DEF UnionRestB
<1>5. ai' = ai /\ acur' = acur /\ bi' = bi + 1 /\ bcur' = 0  BY DEF UnionRestB, NextB, StayA
<1>6. UnionGoes(b, bi, bcur, a, ai, acur, out, L)  BY <1>1, UnionEitherWay
<1>7. /\ UnionGoes(b, bi + 1, 0, a, ai, acur, WriteRest(out, b[bi], bcur), L)
      /\ q <= PlaceIn(b, bi + 1, 0, L)
  BY <1>2, <1>3, <1>6, UnionPasses
<1>8. UnionGoes(a, ai, acur, b, bi + 1, 0, WriteRest(out, b[bi], bcur), L)
  BY <1>7, UnionEitherWay
<1>9. Goes(op, a, ai', acur', b, bi', bcur', phase', m, L)  BY <1>5, <1>8 DEF Goes, AtB
<1>10. p <= p  BY <1>2
<1>11. Turned(m, L)  BY <1>4, <1>5, <1>7, <1>9, <1>10 DEF Turned
<1> QED  BY <1>11

\* The overlap of two chunks, in the terms of the actions.
LEMMA OverlapIs ==
  ASSUME NEW L, WalkInv(L), status = "walking", op = "union", Overlap,
         NEW p, p = PlaceIn(a, ai, acur, L), NEW q, q = PlaceIn(b, bi, bcur, L),
         NEW o, o = OverlapStart, NEW e, e = OverlapEnd, NEW W, W = Bits(a) \cup Bits(b)
  PROVE  /\ Side(a, ai, acur, L) /\ Side(b, bi, bcur, L) /\ ai <= Len(a) /\ bi <= Len(b)
         /\ CursorA = p /\ CursorB = q /\ o = MeetStart(p, q) /\ e = MeetEnd(AtA, AtB)
         /\ Ends(AtA) = EndOf(AtA) /\ Ends(AtB) = EndOf(AtB)
         /\ Meeting(AtA, p, AtB, q, L) /\ W \subseteq Nat
         /\ Written(UpToOverlap, Below(W, o), o)
         /\ \A x \in Nat : o <= x /\ x < e =>
              (x \in W <=> x \in BitsOf(AtA) \/ x \in BitsOf(AtB))
         /\ Written(out, Below(W, Lesser(p, q)), Lesser(p, q))
<1>1. UnionGoes(a, ai, acur, b, bi, bcur, out, L)  BY DEF WalkInv, Goes
<1>2. /\ Side(a, ai, acur, L) /\ Side(b, bi, bcur, L) /\ ai <= Len(a) /\ bi <= Len(b)
      /\ CursorA = p /\ CursorB = q
      /\ Ends(AtA) = EndOf(AtA) /\ Ends(AtB) = EndOf(AtB)
      /\ ChunkAt(AtA, p, L) /\ ChunkAt(AtB, q, L)
  BY WalkSides DEF Overlap, Both
<1>3. o = MeetStart(p, q) /\ e = MeetEnd(AtA, AtB)
  BY <1>2 DEF OverlapStart, OverlapEnd, MeetStart, MeetEnd
<1>4. p \in Nat /\ q \in Nat /\ EndOf(AtA) \in Nat /\ EndOf(AtB) \in Nat
  BY <1>2 DEF ChunkAt
<1>5. q < EndOf(a[ai]) /\ p < EndOf(b[bi])  BY <1>2, <1>4 DEF Overlap, AtA, AtB
<1>6. /\ Meeting(a[ai], p, b[bi], q, L) /\ W \subseteq Nat
      /\ Written(EmitChunkBits(EmitChunkBits(out, a[ai], p, o), b[bi], q, o), Below(W, o), o)
      /\ \A x \in Nat : o <= x /\ x < MeetEnd(a[ai], b[bi]) =>
           (x \in W <=> x \in BitsOf(a[ai]) \/ x \in BitsOf(b[bi]))
      /\ Written(out, Below(W, Lesser(p, q)), Lesser(p, q))
  <2> DEFINE c == a[ai]
             d == b[bi]
  <2>1. /\ ai <= Len(a) /\ bi <= Len(b)
        /\ PlaceIn(b, bi, bcur, L) < EndOf(a[ai]) /\ PlaceIn(a, ai, acur, L) < EndOf(b[bi])
    BY <1>2, <1>5
  <2>2. o = MeetStart(p, q)  BY <1>3
  <2>3. Meeting(c, p, d, q, L) /\ W \subseteq Nat
    <3>1. Meeting(c, p, d, q, L)
      <4>1. Open(a, ai, acur) /\ Open(b, bi, bcur)  BY <1>1 DEF UnionGoes
      <4>2. p < EndOf(c) /\ q < EndOf(d)  BY <1>2, <4>1, SideChunk
      <4> QED  BY <1>2, <1>5, <4>2 DEF Meeting, AtA, AtB
    <3>2. Bits(a) \subseteq Nat /\ Bits(b) \subseteq Nat  BY <1>2, SideBits
    <3> QED  BY <3>1, <3>2
  <2>4. Written(EmitChunkBits(EmitChunkBits(out, c, p, o), d, q, o), Below(W, o), o)
    BY <1>1, <2>1, <2>2, UnionMeeting
  <2>5. ASSUME NEW x \in Nat, o <= x, x < MeetEnd(c, d)
        PROVE  x \in W <=> x \in BitsOf(c) \/ x \in BitsOf(d)
    <3>1. /\ o \in Nat /\ MeetEnd(c, d) <= EndOf(c) /\ MeetEnd(c, d) <= EndOf(d)
          /\ c.start <= o /\ d.start <= o /\ MeetEnd(c, d) \in Nat
      BY <2>2, <2>3, MeetingIs
    <3>2. /\ c.start \in Nat /\ d.start \in Nat /\ EndOf(c) \in Nat /\ EndOf(d) \in Nat
      BY <2>3 DEF Meeting, ChunkAt
    <3> HIDE DEF c, d
    <3>3. c.start <= x /\ x < EndOf(c) /\ d.start <= x /\ x < EndOf(d)
      BY <2>5, <3>1, <3>2
    <3>4. x \in Bits(a) <=> x \in BitsOf(c)  BY <1>2, <3>3, SideBits DEF c
    <3>5. x \in Bits(b) <=> x \in BitsOf(d)  BY <1>2, <3>3, SideBits DEF d
    <3> QED  BY <3>4, <3>5
  <2>6. Written(out, Below(W, Lesser(p, q)), Lesser(p, q))
    BY <1>1, <2>1, <2>2, UnionMeeting
  <2> QED  BY <2>3, <2>4, <2>5, <2>6
<1>7. UpToOverlap = EmitChunkBits(EmitChunkBits(out, a[ai], p, o), b[bi], q, o)
  BY <1>2 DEF UpToOverlap, AtA, AtB
<1> QED  BY <1>2, <1>3, <1>6, <1>7 DEF AtA, AtB

\* The overlap is written, and both sides go to its end.
LEMMA OverlapTurn ==
  ASSUME NEW L, WalkInv(L), status = "walking", op = "union", Overlap,
         NEW e, e = MeetEnd(AtA, AtB), NEW m, Write(m),
         Written(m, Below(Bits(a) \cup Bits(b), e), e),
         MovesTo(a, ai, e, ai', acur'), MovesTo(b, bi, e, bi', bcur')
  PROVE  \E r : Turned(r, L)
<1> DEFINE p == PlaceIn(a, ai, acur, L)
           q == PlaceIn(b, bi, bcur, L)
           i == ai'
           at == acur'
           l == bi'
           to == bcur'
<1>1. /\ Side(a, ai, acur, L) /\ Side(b, bi, bcur, L) /\ ai <= Len(a) /\ bi <= Len(b)
      /\ Meeting(a[ai], p, b[bi], q, L)
  BY OverlapIs DEF AtA, AtB
<1>2. e = MeetEnd(a[ai], b[bi])  BY DEF AtA, AtB
<1>3. MovesTo(a, ai, e, i, at) /\ MovesTo(b, bi, e, l, to)  OBVIOUS
<1> HIDE DEF i, at, l, to
<1>4. /\ UnionGoes(a, i, at, b, l, to, m, L)
      /\ Moved(a, ai, e, i, at, L) /\ Moved(b, bi, e, l, to, L)
      /\ p <= PlaceIn(a, i, at, L)
      /\ q <= PlaceIn(b, l, to, L)
  BY <1>1, <1>2, <1>3, UnionMeets
<1>5. Goes(op, a, ai', acur', b, bi', bcur', phase', m, L)
  BY <1>4 DEF Goes, i, at, l, to
<1>6. Turned(m, L)  BY <1>4, <1>5 DEF Turned, i, at, l, to
<1> QED  BY <1>6

\* Two sparse chunks of one window.
LEMMA UnionSparseTurn ==
  ASSUME NEW L, WalkInv(L), status = "walking", op = "union", UnionSparse
  PROVE  \E m : Turned(m, L)
<1> DEFINE c == AtA
           d == AtB
           p == PlaceIn(a, ai, acur, L)
           q == PlaceIn(b, bi, bcur, L)
           o == OverlapStart
           e == OverlapEnd
           W == Bits(a) \cup Bits(b)
           m == AppendSparse(out, OrPiece(c, d))
<1>1. Overlap /\ ~IsRLE(c) /\ ~IsRLE(d) /\ NextA /\ NextB
  BY DEF UnionSparse, BothSparse
<1>2. /\ CursorA = p /\ CursorB = q /\ o = MeetStart(p, q) /\ e = MeetEnd(c, d)
      /\ Meeting(c, p, d, q, L) /\ W \subseteq Nat
      /\ \A x \in Nat : o <= x /\ x < e =>
           (x \in W <=> x \in BitsOf(c) \/ x \in BitsOf(d))
      /\ Written(out, Below(W, Lesser(p, q)), Lesser(p, q))
  BY <1>1, OverlapIs
<1>3. Write(AppendSparse(out, Piece(c.start, From(c, p).bits \cup From(d, q).bits,
                                    From(c, p).slots \cup From(d, q).slots)))
  BY <1>2 DEF UnionSparse
<1> HIDE DEF p, q, c, d, o, e, W
<1>4. /\ Piece(c.start, From(c, p).bits \cup From(d, q).bits,
               From(c, p).slots \cup From(d, q).slots) = OrPiece(c, d)
      /\ MeetStart(p, q) = p /\ p = q /\ e = EndOf(c) /\ EndOf(d) = EndOf(c)
  <2>1. Meeting(c, p, d, q, L)  BY <1>2
  <2>2. /\ Piece(c.start, From(c, p).bits \cup From(d, q).bits,
                 From(c, p).slots \cup From(d, q).slots) = OrPiece(c, d)
        /\ MeetStart(p, q) = p /\ p = q /\ MeetEnd(c, d) = EndOf(c) /\ EndOf(d) = EndOf(c)
    BY <1>1, <2>1, SparsePairIs
  <2> QED  BY <1>2, <2>2
<1>5. p \in Nat /\ EndOf(c) \in Nat  BY <1>2 DEF Meeting, ChunkAt
<1>6. Lesser(p, q) = o /\ Written(out, Below(W, o), o)  BY <1>2, <1>4, <1>5 DEF Lesser
<1>7. Written(m, Below(W, MeetEnd(c, d)), MeetEnd(c, d))
  BY <1>1, <1>2, <1>6, UnionWordsWritten
<1>8. Write(m)  BY <1>3, <1>4
<1>9. e >= EndOf(c) /\ e >= EndOf(d)  BY <1>4, <1>5
<1>10. MovesTo(a, ai, e, ai', acur') /\ MovesTo(b, bi, e, bi', bcur')
  BY <1>1, <1>9 DEF MovesTo, NextA, NextB, c, d, AtA, AtB
<1>11. Written(m, Below(Bits(a) \cup Bits(b), e), e)  BY <1>2, <1>7 DEF W
<1> HIDE DEF m
<1>12. e = MeetEnd(AtA, AtB)  BY <1>2 DEF c, d
<1> QED  BY <1>1, <1>8, <1>10, <1>11, <1>12, OverlapTurn

\* A side that advances to e moves there.
LEMMA Advances ==
  ASSUME NEW e
  PROVE  /\ AdvanceA(e) /\ Ends(AtA) = EndOf(AtA) => MovesTo(a, ai, e, ai', acur')
         /\ AdvanceB(e) /\ Ends(AtB) = EndOf(AtB) => MovesTo(b, bi, e, bi', bcur')
  BY DEF AdvanceA, AdvanceB, NextA, NextB, MovesTo, AtA, AtB

\* Two runs.
LEMMA UnionRunsTurn ==
  ASSUME NEW L, WalkInv(L), status = "walking", op = "union", UnionRuns
  PROVE  \E m : Turned(m, L)
<1> DEFINE c == AtA
           d == AtB
           p == PlaceIn(a, ai, acur, L)
           q == PlaceIn(b, bi, bcur, L)
           o == OverlapStart
           e == OverlapEnd
           W == Bits(a) \cup Bits(b)
           up == UpToOverlap
           m == JoinedRuns(up, Greater(o, c.start), Lesser(e, c.start + c.len),
                           Greater(o, d.start), Lesser(e, d.start + d.len))
<1>1. Overlap /\ IsRLE(c) /\ IsRLE(d) /\ AdvanceA(e) /\ AdvanceB(e)
  BY DEF UnionRuns, BothRuns
<1>2. /\ o = MeetStart(p, q) /\ e = MeetEnd(c, d)
      /\ Ends(c) = EndOf(c) /\ Ends(d) = EndOf(d)
      /\ Meeting(c, p, d, q, L) /\ W \subseteq Nat /\ Written(up, Below(W, o), o)
      /\ \A x \in Nat : o <= x /\ x < e =>
           (x \in W <=> x \in BitsOf(c) \/ x \in BitsOf(d))
  BY <1>1, OverlapIs
<1>3. Write(m)  BY DEF UnionRuns, RunFrom, RunEnd
<1>4. MovesTo(a, ai, e, ai', acur') /\ MovesTo(b, bi, e, bi', bcur')
  BY <1>1, <1>2, Advances
<1> HIDE DEF p, q, c, d, o, e, W, up
<1>5. m = JoinedRuns(up, Greater(MeetStart(p, q), c.start),
                     Lesser(MeetEnd(c, d), c.start + c.len),
                     Greater(MeetStart(p, q), d.start),
                     Lesser(MeetEnd(c, d), d.start + d.len))
  BY <1>2
<1> HIDE DEF m
<1>6. Written(m, Below(W, MeetEnd(c, d)), MeetEnd(c, d))
  BY <1>1, <1>2, <1>5, UnionRunsWritten
<1>7. Written(m, Below(Bits(a) \cup Bits(b), e), e)  BY <1>2, <1>6 DEF W
<1>8. e = MeetEnd(AtA, AtB)  BY <1>2 DEF c, d
<1> QED  BY <1>1, <1>3, <1>4, <1>7, <1>8, OverlapTurn

\* A run and a sparse chunk.
LEMMA UnionMixedTurn ==
  ASSUME NEW L, WalkInv(L), status = "walking", op = "union", UnionMixed
  PROVE  \E m : Turned(m, L)
<1> DEFINE c == AtA
           d == AtB
           p == PlaceIn(a, ai, acur, L)
           q == PlaceIn(b, bi, bcur, L)
           o == OverlapStart
           e == OverlapEnd
           W == Bits(a) \cup Bits(b)
           m == AppendSparse(UpToOverlap, OrPiece(c, d))
<1>1. /\ Overlap /\ ~(IsRLE(c) /\ IsRLE(d))
      /\ AdvanceA(Consumed(c, d)) /\ AdvanceB(Consumed(d, c)) /\ Write(m)
  BY DEF UnionMixed, BothRuns
<1>2. /\ o = MeetStart(p, q) /\ e = MeetEnd(c, d)
      /\ Ends(c) = EndOf(c) /\ Ends(d) = EndOf(d)
      /\ Meeting(c, p, d, q, L) /\ W \subseteq Nat /\ Written(UpToOverlap, Below(W, o), o)
      /\ \A x \in Nat : o <= x /\ x < e =>
           (x \in W <=> x \in BitsOf(c) \/ x \in BitsOf(d))
  BY <1>1, OverlapIs
<1> HIDE DEF p, q, c, d, o, e, W
<1>3. Consumed(c, d) = e /\ Consumed(d, c) = e
  <2>1. Meeting(d, q, c, p, L)  BY <1>2 DEF Meeting
  <2>2. ~IsRLE(c) => e = EndOf(c)  BY <1>2, MeetingOfSparse
  <2>3. ~IsRLE(d) => e = EndOf(d)
    <3>1. ~IsRLE(d) => MeetEnd(d, c) = EndOf(d) /\ MeetEnd(c, d) = EndOf(d)
      BY <2>1, MeetingOfSparse
    <3> QED  BY <1>2, <3>1
  <2>4. EndOf(c) \in Nat /\ EndOf(d) \in Nat  BY <1>2 DEF Meeting, ChunkAt
  <2>5. Lesser(EndOf(c), EndOf(d)) = e /\ Lesser(EndOf(d), EndOf(c)) = e
    BY <1>2, <2>4 DEF Lesser, MeetEnd
  <2> QED  BY <1>2, <2>2, <2>3, <2>5 DEF Consumed
<1>4. Written(m, Below(W, MeetEnd(c, d)), MeetEnd(c, d))
  BY <1>1, <1>2, UnionWordsWritten
<1>5. MovesTo(a, ai, e, ai', acur') /\ MovesTo(b, bi, e, bi', bcur')
  <2>1. AdvanceA(e) /\ AdvanceB(e)  BY <1>1, <1>3
  <2> QED  BY <1>2, <2>1, Advances DEF c, d
<1>6. Written(m, Below(Bits(a) \cup Bits(b), e), e)  BY <1>2, <1>4 DEF W
<1>7. e = MeetEnd(AtA, AtB)  BY <1>2 DEF c, d
<1> HIDE DEF m
<1> QED  BY <1>1, <1>5, <1>6, <1>7, OverlapTurn

\* A chunk of an intersection that ends before the other map's begins.
LEMMA IntersectionPassTurn ==
  ASSUME NEW L, WalkInv(L), status = "walking", op = "intersection", IntersectionPass
  PROVE  \E m : Turned(m, L)
<1> DEFINE p == PlaceIn(a, ai, acur, L)
           q == PlaceIn(b, bi, bcur, L)
<1>1. IntersectionGoes(a, ai, acur, b, bi, bcur, out, L)  BY DEF WalkInv, Goes
<1>2. /\ ai <= Len(a) /\ bi <= Len(b) /\ p \in Nat /\ q \in Nat
      /\ Ends(AtA) = EndOf(a[ai]) /\ Ends(AtB) = EndOf(b[bi])
      /\ acur = 0 /\ bcur = 0
  BY <1>1, WalkSides DEF IntersectionPass, Both, AtA, AtB, IntersectionGoes
<1>3. Write(out)  BY DEF Write, IntersectionPass
<1>4. CASE Ends(AtA) <= AtB.start /\ NextA /\ StayB
  <2>1. EndOf(a[ai]) <= b[bi].start  BY <1>2, <1>4 DEF AtB
  <2>2. /\ IntersectionGoes(a, ai + 1, 0, b, bi, bcur, out, L)
        /\ p <= PlaceIn(a, ai + 1, 0, L)
    BY <1>1, <1>2, <2>1, IntersectionPasses
  <2>3. ai' = ai + 1 /\ acur' = 0 /\ bi' = bi /\ bcur' = bcur  BY <1>4 DEF NextA, StayB
  <2>4. Goes(op, a, ai', acur', b, bi', bcur', phase', out, L)  BY <2>2, <2>3 DEF Goes
  <2>5. q <= q  BY <1>2
  <2>6. Turned(out, L)  BY <1>3, <2>2, <2>3, <2>4, <2>5 DEF Turned
  <2> QED  BY <2>6
<1>5. CASE Ends(AtB) <= AtA.start /\ NextB /\ StayA
  <2>1. EndOf(b[bi]) <= a[ai].start  BY <1>2, <1>5 DEF AtA
  <2>2. IntersectionGoes(b, bi, bcur, a, ai, acur, out, L)  BY <1>1, IntersectionEitherWay
  <2>3. /\ IntersectionGoes(b, bi + 1, 0, a, ai, acur, out, L)
        /\ q <= PlaceIn(b, bi + 1, 0, L)
    BY <1>2, <2>1, <2>2, IntersectionPasses
  <2>4. IntersectionGoes(a, ai, acur, b, bi + 1, 0, out, L)  BY <2>3, IntersectionEitherWay
  <2>5. bi' = bi + 1 /\ bcur' = 0 /\ ai' = ai /\ acur' = acur  BY <1>5 DEF NextB, StayA
  <2>6. Goes(op, a, ai', acur', b, bi', bcur', phase', out, L)  BY <2>4, <2>5 DEF Goes
  <2>7. p <= p  BY <1>2
  <2>8. Turned(out, L)  BY <1>3, <2>3, <2>5, <2>6, <2>7 DEF Turned
  <2> QED  BY <2>8
<1> QED  BY <1>4, <1>5 DEF IntersectionPass

\* Two chunks of an intersection that overlap.
LEMMA IntersectionMeetTurn ==
  ASSUME NEW L, WalkInv(L), status = "walking", op = "intersection", IntersectionMeet
  PROVE  \E m : Turned(m, L)
<1> DEFINE c == a[ai]
           d == b[bi]
           m == CommonPart(out, c, d)
           i == ai'
           l == bi'
<1>1. IntersectionGoes(a, ai, acur, b, bi, bcur, out, L)  BY DEF WalkInv, Goes
<1>2. /\ ai <= Len(a) /\ bi <= Len(b) /\ AtA = c /\ AtB = d
      /\ Ends(AtA) = EndOf(c) /\ Ends(AtB) = EndOf(d)
      /\ ChunkAt(c, CursorA, L) /\ ChunkAt(d, CursorB, L)
      /\ acur = 0 /\ bcur = 0
  BY <1>1, WalkSides DEF IntersectionMeet, Both, AtA, AtB, IntersectionGoes
<1>3. /\ c.start \in Nat /\ d.start \in Nat /\ EndOf(c) \in Nat /\ EndOf(d) \in Nat
  BY <1>2 DEF ChunkAt
<1>4. d.start < EndOf(c) /\ c.start < EndOf(d)  BY <1>2, <1>3 DEF IntersectionMeet
<1>5. Write(m)
  <2>1. Common(out, AtA, AtB) = m  BY <1>2 DEF Common, CommonPart, BothRuns
  <2> QED  BY <2>1 DEF IntersectionMeet
<1>6. Leaves(a, ai, EndOf(d), i) /\ acur' = 0
  BY <1>2 DEF IntersectionMeet, Leaves, NextA, StayA
<1>7. Leaves(b, bi, EndOf(c), l) /\ bcur' = 0
  BY <1>2 DEF IntersectionMeet, Leaves, NextB, StayB
<1> HIDE DEF i, l
<1>8. /\ IntersectionGoes(a, i, 0, b, l, 0, m, L)
      /\ PlaceIn(a, ai, acur, L) <= PlaceIn(a, i, 0, L)
      /\ PlaceIn(b, bi, bcur, L) <= PlaceIn(b, l, 0, L)
      /\ ai <= i /\ bi <= l /\ acur = 0 /\ bcur = 0
  BY <1>1, <1>2, <1>4, <1>6, <1>7, IntersectionMeets
<1>9. Goes(op, a, ai', acur', b, bi', bcur', phase', m, L)
  BY <1>6, <1>7, <1>8 DEF Goes, i, l
<1> HIDE DEF m
<1>10. Turned(m, L)  BY <1>5, <1>6, <1>7, <1>8, <1>9 DEF Turned, i, l
<1> QED  BY <1>10

\* The turns of a difference that write nothing.
LEMMA DifferenceQuietTurn ==
  ASSUME NEW L, WalkInv(L), status = "walking", op = "difference",
         DifferenceEnter \/ DifferenceLeave \/ DifferenceSkip
  PROVE  \E m : Turned(m, L)
<1> DEFINE p == PlaceIn(a, ai, acur, L)
           q == PlaceIn(b, bi, bcur, L)
<1>1. DifferenceGoes(a, ai, acur, b, bi, bcur, phase, out, L)  BY DEF WalkInv, Goes
<1>2. p \in Nat /\ q \in Nat /\ p <= p /\ q <= q  BY WalkSides
<1>3. CASE DifferenceEnter
  <2>1. /\ phase = "outer" /\ ai <= Len(a) /\ Write(out) /\ ai' = ai /\ bi' = bi
        /\ bcur' = bcur /\ acur' = a[ai].start /\ phase' = "inner"
    BY <1>3 DEF DifferenceEnter, Both, Write, AtA
  <2>2. /\ DifferenceGoes(a, ai, a[ai].start, b, bi, bcur, "inner", out, L)
        /\ PlaceIn(a, ai, a[ai].start, L) = p
    BY <1>1, <2>1, DifferenceEnters
  <2>3. Goes(op, a, ai', acur', b, bi', bcur', phase', out, L)  BY <2>1, <2>2 DEF Goes
  <2>4. Turned(out, L)  BY <1>2, <2>1, <2>2, <2>3 DEF Turned
  <2> QED  BY <2>4
<1>4. CASE DifferenceLeave
  <2>1. /\ phase = "inner" /\ Write(out) /\ ai' = ai /\ acur' = acur /\ bi' = bi
        /\ bcur' = bcur /\ phase' = "tail"
    BY <1>4 DEF DifferenceLeave, Write
  <2>2. ai <= Len(a)  BY <1>1, <2>1 DEF DifferenceGoes
  <2>3. bi <= Len(b) => EndOf(a[ai]) <= b[bi].start
    BY <1>4, <2>2, WalkSides DEF DifferenceLeave, Both, AtA, AtB
  <2>4. DifferenceGoes(a, ai, acur, b, bi, bcur, "tail", out, L)
    BY <1>1, <2>1, <2>3, DifferenceLeaves
  <2>5. Goes(op, a, ai', acur', b, bi', bcur', phase', out, L)  BY <2>1, <2>4 DEF Goes
  <2>6. Turned(out, L)  BY <1>2, <2>1, <2>5 DEF Turned
  <2> QED  BY <2>6
<1>5. CASE DifferenceSkip
  <2>1. /\ phase = "inner" /\ Write(out) /\ ai' = ai /\ acur' = acur /\ bi' = bi + 1
        /\ bcur' = 0 /\ phase' = "inner" /\ bi <= Len(b)
    BY <1>5 DEF DifferenceSkip, Write, Both, NextB, StayA
  <2>2. EndOf(b[bi]) <= acur  BY <1>5, <2>1, WalkSides DEF DifferenceSkip, AtB
  <2>3. /\ DifferenceGoes(a, ai, acur, b, bi + 1, 0, "inner", out, L)
        /\ q <= PlaceIn(b, bi + 1, 0, L)
    BY <1>1, <2>1, <2>2, DifferenceSkips
  <2>4. Goes(op, a, ai', acur', b, bi', bcur', phase', out, L)  BY <2>1, <2>3 DEF Goes
  <2>5. Turned(out, L)  BY <1>2, <2>1, <2>3, <2>4 DEF Turned
  <2> QED  BY <2>5
<1> QED  BY <1>3, <1>4, <1>5

\* The turns of a difference that end a chunk.
LEMMA DifferenceEndTurn ==
  ASSUME NEW L, WalkInv(L), status = "walking", op = "difference",
         DifferenceCopy \/ DifferenceTail
  PROVE  \E m : Turned(m, L)
<1> DEFINE p == PlaceIn(a, ai, acur, L)
           q == PlaceIn(b, bi, bcur, L)
<1>1. DifferenceGoes(a, ai, acur, b, bi, bcur, phase, out, L)  BY DEF WalkInv, Goes
<1>2. q \in Nat /\ q <= q  BY WalkSides
<1>3. ai' = ai + 1 /\ acur' = 0 /\ bi' = bi /\ bcur' = bcur
  BY DEF DifferenceCopy, DifferenceTail, NextA, StayB
<1>4. CASE DifferenceCopy
  <2> DEFINE m == AppendChunk(out, a[ai])
  <2>1. /\ phase = "outer" /\ phase' = "outer" /\ ai <= Len(a) /\ bi > Len(b) /\ Write(m)
    BY <1>4 DEF DifferenceCopy, AtA
  <2>2. /\ DifferenceGoes(a, ai + 1, 0, b, bi, bcur, "outer", m, L)
        /\ p <= PlaceIn(a, ai + 1, 0, L)
    BY <1>1, <2>1, DifferenceCopies
  <2>3. Goes(op, a, ai', acur', b, bi', bcur', phase', m, L)  BY <1>3, <2>1, <2>2 DEF Goes
  <2> HIDE DEF m
  <2>4. Turned(m, L)  BY <1>2, <1>3, <2>1, <2>2, <2>3 DEF Turned
  <2> QED  BY <2>4
<1>5. CASE DifferenceTail
  <2> DEFINE m == EmitChunkBits(out, a[ai], acur, EndOf(a[ai]))
  <2>1. phase = "tail" /\ phase' = "outer"  BY <1>5 DEF DifferenceTail
  <2>2. ai <= Len(a)  BY <1>1, <2>1 DEF DifferenceGoes
  <2>3. Write(m)
    <3>1. Ends(AtA) = EndOf(a[ai])  BY <2>2, WalkSides DEF AtA
    <3> QED  BY <1>5, <3>1 DEF DifferenceTail, AtA
  <2>4. /\ DifferenceGoes(a, ai + 1, 0, b, bi, bcur, "outer", m, L)
        /\ p <= PlaceIn(a, ai + 1, 0, L)
    BY <1>1, <2>1, DifferenceEnds
  <2>5. Goes(op, a, ai', acur', b, bi', bcur', phase', m, L)  BY <1>3, <2>1, <2>4 DEF Goes
  <2> HIDE DEF m
  <2>6. Turned(m, L)  BY <1>2, <1>3, <2>3, <2>4, <2>5 DEF Turned
  <2> QED  BY <2>6
<1> QED  BY <1>4, <1>5

\* A chunk of a difference in reach of one of the second map.
LEMMA DifferenceMeetTurn ==
  ASSUME NEW L, WalkInv(L), status = "walking", op = "difference", DifferenceMeet
  PROVE  \E m : Turned(m, L)
<1> DEFINE c == a[ai]
           d == b[bi]
           o == Greater(d.start, acur)
           e == MeetEnd(c, d)
           m == Survivors(EmitChunkBits(out, c, acur, o), c, d, o, e)
           l == bi'
           ph == phase'
<1>1. DifferenceGoes(a, ai, acur, b, bi, bcur, phase, out, L)  BY DEF WalkInv, Goes
<1>2. /\ ai <= Len(a) /\ bi <= Len(b) /\ AtA = c /\ AtB = d
      /\ Ends(AtA) = EndOf(c) /\ Ends(AtB) = EndOf(d)
      /\ ChunkAt(c, CursorA, L) /\ ChunkAt(d, CursorB, L)
      /\ phase = "inner"
  BY WalkSides DEF DifferenceMeet, Both, AtA, AtB
<1>3. /\ bcur = 0 /\ acur \in Nat /\ acur >= c.start /\ acur < EndOf(c)
      /\ CursorB = PlaceIn(b, bi, 0, L) /\ CursorA = PlaceIn(a, ai, acur, L)
  BY <1>1, <1>2, WalkSides DEF DifferenceGoes, Side, Open
<1>4. /\ c.start \in Nat /\ d.start \in Nat /\ EndOf(c) \in Nat /\ EndOf(d) \in Nat
      /\ CursorA \in Nat
  BY <1>2 DEF ChunkAt
<1>5. d.start < EndOf(c) /\ acur < EndOf(d)
  BY <1>2, <1>3, <1>4 DEF DifferenceMeet
<1>6. OverlapEnd = e  BY <1>2 DEF OverlapEnd, MeetEnd
<1>7. Write(m)  BY <1>2, <1>6 DEF DifferenceMeet
<1>8. Consumed(AtA, AtB) = e
  <2>1. ~IsRLE(c) => e = EndOf(c)
    <3> SUFFICES ASSUME ~IsRLE(c)  PROVE e = EndOf(c)
      OBVIOUS
    <3>1. CursorA = acur  BY <1>2, <1>3, <1>4 DEF CursorA, Greater
    <3>2. CursorB = d.start  BY <1>2, <1>3, <1>4 DEF CursorB, Greater
    <3>3. d.start < EndOf(d)
      <4>1. d.start + ChunkCap <= EndOf(d) /\ ChunkCap \in Nat /\ ChunkCap >= 2
        BY <1>2 DEF ChunkAt
      <4> QED  BY <1>4, <4>1
    <3>4. Meeting(c, acur, d, d.start, L)  BY <1>2, <1>3, <1>5, <3>1, <3>2, <3>3 DEF Meeting
    <3> HIDE DEF c, d
    <3> QED  BY <3>4, MeetingOfSparse
  <2> QED  BY <1>2, <2>1 DEF Consumed, MeetEnd
<1>9. ai' = ai /\ acur' = e  BY <1>8 DEF DifferenceMeet
<1>10. Leaves(b, bi, EndOf(c), l) /\ bcur' = 0
  BY <1>2, <1>3 DEF DifferenceMeet, Leaves, NextB, StayB
<1>11. ph = IF EndOf(c) <= EndOf(d) THEN "tail" ELSE "inner"
  BY <1>2 DEF DifferenceMeet
<1> HIDE DEF l, ph, o, e
<1>12. /\ DifferenceGoes(a, ai, e, b, l, 0, ph, m, L)
       /\ PlaceIn(a, ai, acur, L) <= PlaceIn(a, ai, e, L)
       /\ PlaceIn(b, bi, bcur, L) <= PlaceIn(b, l, 0, L)
       /\ bi <= l /\ bcur = 0
  <2>1. o = Greater(b[bi].start, acur) /\ e = MeetEnd(a[ai], b[bi])  BY DEF o, e
  <2> QED  BY <1>1, <1>2, <1>5, <1>10, <1>11, <2>1, DifferenceMeets
<1>13. Goes(op, a, ai', acur', b, bi', bcur', phase', m, L)
  BY <1>9, <1>10, <1>12 DEF Goes, l, ph
<1> HIDE DEF m
<1>14. Turned(m, L)  BY <1>7, <1>9, <1>10, <1>12, <1>13 DEF Turned, l
<1> QED  BY <1>14

\* Every turn of a loop.
LEMMA WalkTurn ==
  ASSUME NEW L, WalkInv(L), status = "walking", Union \/ Intersection \/ Difference
  PROVE  \E m : Turned(m, L)
<1>1. CASE Union
  <2> op = "union"  BY <1>1 DEF Union
  <2> QED  BY <1>1, UnionPassATurn, UnionPassBTurn, UnionSparseTurn, UnionRunsTurn,
              UnionMixedTurn, UnionRestATurn, UnionRestBTurn DEF Union
<1>2. CASE Intersection
  BY <1>2, IntersectionPassTurn, IntersectionMeetTurn DEF Intersection
<1>3. CASE Difference
  BY <1>3, DifferenceQuietTurn, DifferenceEndTurn, DifferenceMeetTurn DEF Difference
<1> QED  BY <1>1, <1>2, <1>3

----------------------------------------------------------------------------
(* The invariant.                                                          *)

\* A side that is at the start of a chunk has all of it left.
LEMMA OpenAtStart ==
  ASSUME NEW s, NEW j, NEW L, Side(s, j, 0, L)
  PROVE  Open(s, j, 0)
<1> SUFFICES ASSUME j <= Len(s)  PROVE 0 < EndOf(s[j])
  BY DEF Open
<1> DEFINE c == s[j]
<1>1. ChunkAt(c, PlaceIn(s, j, 0, L), L)  BY SideChunk
<1>2. c.start \in Nat /\ c.start + ChunkCap <= EndOf(c) /\ EndOf(c) \in Nat
      /\ ChunkCap \in Nat /\ ChunkCap >= 2
  BY <1>1 DEF ChunkAt
<1> HIDE DEF c
<1>3. 0 < EndOf(c)  BY <1>2
<1> QED  BY <1>3 DEF c

\* Whatever the operation, what is wanted below the edge has been written.
LEMMA GoesHolds ==
  ASSUME NEW o \in Operations, NEW s, NEW j, NEW cur, NEW t, NEW k, NEW new, NEW ph,
         NEW m, NEW L, Goes(o, s, j, cur, t, k, new, ph, m, L),
         NEW f, f = Edge(o, PlaceIn(s, j, cur, L), PlaceIn(t, k, new, L))
  PROVE  /\ Written(m, Below(Want(o, Bits(s), Bits(t)), f), f)
         /\ Side(s, j, cur, L) /\ Side(t, k, new, L) /\ Open(t, k, new)
         /\ o = "difference" => ph \in {"outer", "inner", "tail"}
<1>1. CASE o = "union"
  <2>1. UnionGoes(s, j, cur, t, k, new, m, L)  BY <1>1 DEF Goes
  <2>2. f = Lesser(PlaceIn(s, j, cur, L), PlaceIn(t, k, new, L))  BY <1>1 DEF Edge
  <2>3. Want(o, Bits(s), Bits(t)) = Bits(s) \cup Bits(t)  BY <1>1 DEF Want
  <2> QED  BY <1>1, <2>1, <2>2, <2>3 DEF UnionGoes
<1>2. CASE o = "intersection"
  <2>1. IntersectionGoes(s, j, cur, t, k, new, m, L)  BY <1>2 DEF Goes
  <2>2. f = Greater(PlaceIn(s, j, cur, L), PlaceIn(t, k, new, L))  BY <1>2 DEF Edge
  <2>3. Want(o, Bits(s), Bits(t)) = Bits(s) \cap Bits(t)  BY <1>2 DEF Want
  <2>4. new = 0 /\ Side(s, j, cur, L) /\ Side(t, k, new, L)  BY <2>1 DEF IntersectionGoes
  <2>5. Open(t, k, new)  BY <2>4, OpenAtStart
  <2>6. Written(m, Below(Want(o, Bits(s), Bits(t)), f), f)
    BY <2>1, <2>2, <2>3 DEF IntersectionGoes
  <2> QED  BY <1>2, <2>4, <2>5, <2>6
<1>3. CASE o = "difference"
  <2>1. DifferenceGoes(s, j, cur, t, k, new, ph, m, L)  BY <1>3 DEF Goes
  <2>2. f = PlaceIn(s, j, cur, L)  BY <1>3 DEF Edge
  <2>3. Want(o, Bits(s), Bits(t)) = Bits(s) \ Bits(t)  BY <1>3 DEF Want
  <2>4. new = 0 /\ Side(s, j, cur, L) /\ Side(t, k, new, L)
        /\ ph \in {"outer", "inner", "tail"}
    BY <2>1 DEF DifferenceGoes
  <2>5. Open(t, k, new)  BY <2>4, OpenAtStart
  <2>6. Written(m, Below(Want(o, Bits(s), Bits(t)), f), f)
    BY <2>1, <2>2, <2>3 DEF DifferenceGoes
  <2> QED  BY <2>4, <2>5, <2>6
<1> QED  BY <1>1, <1>2, <1>3 DEF Operations

\* The walk begins before everything.
LEMMA SideBegins ==
  ASSUME NEW s, NEW L, IsOperand(s, L), s # << >>
  PROVE  /\ Side(s, 1, 0, L) /\ Open(s, 1, 0) /\ 1 <= Len(s)
         /\ Clear(Bits(s), 0, PlaceIn(s, 1, 0, L))
<1>1. s \in Seq(Chunks) /\ Len(s) \in Nat /\ Len(s) >= 1
  <2>1. s \in Seq(Chunks)  BY DEF IsOperand, StreamOK
  <2>2. Len(s) \in Nat /\ (Len(s) = 0 => s = << >>)  BY <2>1, LenProperties, EmptySeq
  <2> QED  BY <2>1, <2>2
<1>2. Side(s, 1, 0, L)
  <2>1. 1 \in 1 .. Len(s) + 1 /\ 0 \in Nat /\ Boundary(0)  BY <1>1, BoundaryZero
  <2>2. 1 \in 1 .. Len(s)  BY <1>1
  <2>3. StreamOK(s, 0, L)  BY DEF IsOperand
  <2>4. ChunkOK(s[1])  BY <2>2, <2>3 DEF StreamOK
  <2>5. s[1].start \in Nat /\ EndOf(s[1]) \in Nat  BY <2>4, ChunkExtent
  <2>6. 0 <= EndOf(s[1]) /\ ~(0 > s[1].start)  BY <2>5
  <2> QED  BY <2>1, <2>6 DEF Side
<1>3. PlaceIn(s, 1, 0, L) = s[1].start
  <2>1. ChunkAt(s[1], PlaceIn(s, 1, 0, L), L)
        /\ (0 <= s[1].start => PlaceIn(s, 1, 0, L) = s[1].start)
    BY <1>1, <1>2, SideChunk
  <2>2. s[1].start \in Nat  BY <2>1 DEF ChunkAt
  <2> QED  BY <2>1, <2>2
<1>4. Bits(s) \subseteq Nat /\ \A x \in Nat : x < s[1].start => x \notin Bits(s)
  BY <1>1, OperandBits
<1>5. Clear(Bits(s), 0, s[1].start)  BY <1>4 DEF Clear
<1> QED  BY <1>1, <1>2, <1>3, <1>5, OpenAtStart

\* Each operation can begin on two maps of chunks.
LEMMA GoesFromStart ==
  ASSUME NEW o \in Operations, NEW s, NEW t, NEW L, IsOperand(s, L), IsOperand(t, L),
         s # << >>, t # << >>, NEW m, Written(m, {}, 0)
  PROVE  Goes(o, s, 1, 0, t, 1, 0, "outer", m, L)
<1> DEFINE p == PlaceIn(s, 1, 0, L)
           q == PlaceIn(t, 1, 0, L)
           S == Bits(s)
           T == Bits(t)
<1>1. Side(s, 1, 0, L) /\ Open(s, 1, 0) /\ Clear(S, 0, p)  BY SideBegins
<1>2. Side(t, 1, 0, L) /\ Open(t, 1, 0) /\ Clear(T, 0, q)  BY SideBegins
<1>3. p \in Nat /\ q \in Nat  BY <1>1, <1>2, PlaceIsNat
<1>4. S \subseteq Nat /\ T \subseteq Nat  BY <1>1, <1>2, SideBits
<1>5. Below(S \cup T, 0) = {} /\ Below(S \cap T, 0) = {} /\ Below(S \ T, 0) = {}
  BY <1>4 DEF Below
<1> HIDE DEF p, q, S, T
<1>6. 0 <= p /\ 0 <= q  BY <1>3
<1>7. CASE o = "union"
  <2>1. Written(m, Below(S \cup T, 0), 0)  BY <1>5
  <2>2. UnionGoes(s, 1, 0, t, 1, 0, m, L)
    BY <1>1, <1>2, <1>6, <2>1, UnionGoesOn DEF p, q, S, T
  <2> QED  BY <1>7, <2>2 DEF Goes
<1>8. CASE o = "intersection"
  <2>1. Written(m, Below(S \cap T, 0), 0)  BY <1>5
  <2>2. IntersectionGoes(s, 1, 0, t, 1, 0, m, L)
    BY <1>1, <1>2, <1>6, <2>1, IntersectionGoesOn DEF p, q, S, T
  <2> QED  BY <1>8, <2>2 DEF Goes
<1>9. CASE o = "difference"
  <2> DEFINE W == S \ T
  <2>1. Written(m, Below(W, 0), 0) /\ W \subseteq Nat /\ Clear(W, 0, p)
    BY <1>1, <1>4, <1>5 DEF Clear
  <2> HIDE DEF W
  <2>2. 0 \in Nat  OBVIOUS
  <2>3. Written(m, Below(W, p), p)  BY <1>3, <1>6, <2>1, <2>2, NothingBetween
  <2>4. Clear(T, p, q)  BY <1>2, <1>3, <1>4, <1>6, <2>2, ClearFurther
  <2>5. "outer" \in {"outer", "inner", "tail"} /\ "outer" # "inner" /\ "outer" # "tail"
    OBVIOUS
  <2>6. DifferenceGoes(s, 1, 0, t, 1, 0, "outer", m, L)
    BY <1>1, <1>2, <2>3, <2>4, <2>5 DEF DifferenceGoes, p, q, S, T, W
  <2> QED  BY <1>9, <2>6 DEF Goes
<1> QED  BY <1>7, <1>8, <1>9 DEF Operations

\* What the operations see of what clients build is an operand.
LEMMA ViewsAreOperands ==
  ASSUME NEW L, OperandsBelow(L), NEW x \in Views, x.chunks # << >>
  PROVE  IsOperand(x.chunks, L) /\ x.used \in Nat
<1>1. PICK h \in Histories : x = View(Built(h))  BY DEF Views
<1>2. PICK X : ChunkHolds(x, X, L)  BY <1>1, OperandStores
<1>3. StreamOK(x.chunks, 0, L) /\ Encodes(x.chunks, X, x.used - 1) /\ x.used \in Nat
  BY <1>2, ChunkFields
<1>4. Limit(L)  BY DEF OperandsBelow, Covers
<1> QED  BY <1>3, <1>4 DEF IsOperand, Encodes

\* The invariant holds when a call begins.
LEMMA InitWalks ==
  ASSUME NEW L, OperandsBelow(L), Init
  PROVE  WalkInv(L)
<1>1. PICK x \in Views, y \in Views, o \in Operations :
        /\ op = o /\ a = x.chunks /\ b = y.chunks /\ a # << >> /\ b # << >>
        /\ ai = 1 /\ bi = 1 /\ acur = 0 /\ bcur = 0 /\ phase = "outer"
        /\ out = NewResult(FirstSize(o, x, y)) /\ status = "walking"
  BY DEF Init
<1>2. IsOperand(a, L) /\ x.used \in Nat  BY <1>1, ViewsAreOperands
<1>3. IsOperand(b, L) /\ y.used \in Nat  BY <1>1, ViewsAreOperands
<1>4. FirstSize(o, x, y) \in Nat  BY <1>2, <1>3 DEF FirstSize, Operations, Greater
<1>5. Written(out, {}, 0)  BY <1>1, <1>4, NewIsWritten
<1>6. Goes(op, a, 1, 0, b, 1, 0, "outer", out, L)
  BY <1>1, <1>2, <1>3, <1>5, GoesFromStart
<1>7. /\ Side(a, 1, 0, L) /\ Side(b, 1, 0, L) /\ Open(b, 1, 0)
  BY <1>1, <1>2, <1>3, SideBegins
<1>8. "walking" # "done" /\ "walking" # "empty" /\ "walking" # "failed"  OBVIOUS
<1> QED  BY <1>1, <1>6, <1>7, <1>8 DEF WalkInv

\* A result that could not grow is given up, and nothing is left of it.
LEMMA TurnKeeps ==
  ASSUME NEW L, WalkInv(L), status = "walking", UNCHANGED operands,
         NEW m, Turned(m, L), op # "difference" => phase' = phase
  PROVE  WalkInv(L)'
<1>1. op \in Operations /\ phase \in {"outer", "inner", "tail"}
      /\ Goes(op, a, ai, acur, b, bi, bcur, phase, out, L)
  BY DEF WalkInv
<1>2. op' = op /\ a' = a /\ b' = b  BY DEF operands
<1> DEFINE i == ai'
           at == acur'
           l == bi'
           to == bcur'
           ph == phase'
           f == Edge(op, PlaceIn(a, ai, acur, L), PlaceIn(b, bi, bcur, L))
<1>3. Goes(op, a, i, at, b, l, to, ph, m, L) /\ Write(m)  BY DEF Turned
<1>4. Written(out, Below(Want(op, Bits(a), Bits(b)), f), f)  BY <1>1, GoesHolds
<1>5. out.cap \in Nat /\ out.cap >= 1
  <2> HIDE DEF f
  <2>1. out.cap \in Nat /\ LeastResult <= out.cap  BY <1>4, WrittenFields
  <2> QED  BY <2>1, ResultConstants
<1>6. L \in Nat  BY WalkSides
<1> HIDE DEF i, at, l, to, ph
<1>7. /\ Side(a, i, at, L) /\ Side(b, l, to, L) /\ Open(b, l, to)
      /\ op = "difference" => ph \in {"outer", "inner", "tail"}
  BY <1>1, <1>3, GoesHolds
<1>8. ph \in {"outer", "inner", "tail"}  BY <1>1, <1>7 DEF ph
<1>9. CASE out' = m /\ status' = status
  <2>1. "walking" # "done" /\ "walking" # "empty" /\ "walking" # "failed"  OBVIOUS
  <2> QED  BY <1>1, <1>2, <1>3, <1>7, <1>8, <1>9, <2>1 DEF WalkInv, i, at, l, to, ph
<1>10. CASE status' = "failed" /\ out' = EmptyMap(out.cap)
  <2>1. ChunkHolds(EmptyMap(out.cap), {}, L)  BY <1>5, <1>6, EmptyHolds
  <2>2. "failed" # "done" /\ "failed" # "empty" /\ "failed" # "walking"  OBVIOUS
  <2> QED  BY <1>1, <1>2, <1>7, <1>8, <1>10, <2>1, <2>2 DEF WalkInv, i, at, l, to, ph
<1> QED  BY <1>3, <1>9, <1>10 DEF Write

\* When the walk is over, all that is wanted has been written.
LEMMA OverHolds ==
  ASSUME NEW L, WalkInv(L), status = "walking", WalkOver
  PROVE  Written(out, Target, L)
<1> DEFINE p == PlaceIn(a, ai, acur, L)
           q == PlaceIn(b, bi, bcur, L)
           f == Edge(op, p, q)
<1>1. op \in Operations /\ Goes(op, a, ai, acur, b, bi, bcur, phase, out, L)
  BY DEF WalkInv
<1>2. Written(out, Below(Target, f), f)  BY <1>1, GoesHolds DEF Target
<1>3. /\ Side(a, ai, acur, L) /\ Side(b, bi, bcur, L) /\ p \in Nat /\ q \in Nat
      /\ p <= L /\ q <= L /\ L \in Nat
  BY WalkSides
<1>4. (ai > Len(a) => p = L) /\ (bi > Len(b) => q = L)  BY <1>3, SideOver
<1>5. /\ Bits(a) \subseteq Nat /\ \A x \in Bits(a) : x < L
      /\ Bits(b) \subseteq Nat /\ \A x \in Bits(b) : x < L
  BY <1>3, SideBits
<1>6. Below(Target, L) = Target
  <2>1. Target \subseteq Bits(a) \cup Bits(b)  BY <1>1 DEF Target, Want, Operations
  <2> QED  BY <1>5, <2>1 DEF Below
<1> HIDE DEF p, q
<1>7. f = L
  <2>1. CASE op = "union"
    <3>1. p = L /\ q = L  BY <1>4, <2>1 DEF WalkOver
    <3> QED  BY <2>1, <3>1 DEF Edge, Lesser
  <2>2. CASE op = "intersection"
    <3>1. p = L \/ q = L  BY <1>4, <2>2 DEF WalkOver
    <3> QED  BY <1>3, <2>2, <3>1 DEF Edge, Greater
  <2>3. CASE op = "difference"
    <3>1. p = L  BY <1>4, <2>3 DEF WalkOver
    <3> QED  BY <2>3, <3>1 DEF Edge
  <2> QED  BY <1>1, <2>1, <2>2, <2>3 DEF Operations
<1> QED  BY <1>2, <1>6, <1>7

\* The call ends with the set wanted, or NULL when that is empty.
LEMMA FinishKeeps ==
  ASSUME NEW L, WalkInv(L), status = "walking", UNCHANGED << operands, phase >>, Finish
  PROVE  WalkInv(L)'
<1>1. Written(out, Target, L)  BY OverHolds DEF Finish
<1>2. ChunkHolds(out, Target, L) /\ LeastResult <= out.cap  BY <1>1 DEF Written
<1>3. /\ op' = op /\ a' = a /\ b' = b /\ ai' = ai /\ bi' = bi /\ acur' = acur
      /\ bcur' = bcur /\ phase' = phase
  BY DEF operands, Finish, walk
<1>4. Target' = Target  BY <1>3 DEF Target
<1>5. CASE out.chunks = << >>
  <2>1. status' = "empty" /\ out' = out  BY <1>5 DEF Finish
  <2>2. Target = {}
    <3>1. Encodes(out.chunks, Target, out.used - 1)  BY <1>2, ChunkFields
    <3>2. Bits(<< >>) = Target  BY <1>5, <3>1 DEF Encodes
    <3>3. Bits(<< >>) = {}  BY DEF Bits
    <3> QED  BY <3>2, <3>3
  <2>3. ChunkHolds(out, {}, L)  BY <1>2, <2>2
  <2>4. "empty" # "done" /\ "empty" # "failed" /\ "empty" # "walking"  OBVIOUS
  <2> HIDE DEF Target
  <2> QED  BY <1>3, <1>4, <2>1, <2>2, <2>3, <2>4 DEF WalkInv
<1>6. CASE out.chunks # << >>
  <2> DEFINE r == TryDemote(out)
  <2>1. status' = "done" /\ out' = r  BY <1>6 DEF Finish
  <2> HIDE DEF r
  <2>2. r.cap = out.cap /\ (SmallHolds(r, Target) \/ r = out)
    BY <1>2, TryDemoteHolds DEF r
  <2>3. Stores(r, Target, L)  BY <1>2, <2>2 DEF Stores
  <2>4. "done" # "empty" /\ "done" # "failed" /\ "done" # "walking"  OBVIOUS
  <2>5. LeastResult <= r.cap  BY <1>2, <2>2
  <2> QED  BY <1>3, <1>4, <2>1, <2>3, <2>4, <2>5 DEF WalkInv
<1> QED  BY <1>5, <1>6

\* Every step keeps it.
LEMMA StepWalks ==
  ASSUME NEW L, WalkInv(L), [Next]_vars
  PROVE  WalkInv(L)'
<1>1. CASE UNCHANGED vars
  BY <1>1 DEF vars, WalkInv, Target
<1>2. CASE Next
  <2>1. status = "walking" /\ UNCHANGED operands  BY <1>2 DEF Next
  <2>2. CASE Union \/ Intersection \/ Difference
    <3>1. \E m : Turned(m, L)  BY <2>1, <2>2, WalkTurn
    <3>2. op # "difference" => phase' = phase
      BY <2>2 DEF Union, Intersection, Difference
    <3> QED  BY <2>1, <3>1, <3>2, TurnKeeps
  <2>3. CASE Finish
    <3>1. phase' = phase  BY <2>3 DEF Finish, walk
    <3> QED  BY <2>1, <2>3, <3>1, FinishKeeps
  <2> QED  BY <1>2, <2>2, <2>3 DEF Next
<1> QED  BY <1>1, <1>2

----------------------------------------------------------------------------
(* The theorems.                                                           *)

\* At every turn the walk is somewhere it can go on from: each side was taken
\* up to a boundary, only runs in part, and the result holds what is wanted
\* below the edge of what both sides have been taken to.
THEOREM WalkGoes ==
  ASSUME NEW CONSTANT L, OperandsBelow(L)
  PROVE  Spec => []WalkInv(L)
<1>1. Init => WalkInv(L)  BY InitWalks
<1>2. WalkInv(L) /\ [Next]_vars => WalkInv(L)'  BY StepWalks
<1> QED  BY <1>1, <1>2, PTL DEF Spec

\* TypeOK: the cursors stay within the chunks they are in.
THEOREM WalkTyped ==
  ASSUME NEW CONSTANT L, OperandsBelow(L)
  PROVE  Spec => []TypeOK
<1>1. WalkInv(L) => TypeOK
  <2> SUFFICES ASSUME WalkInv(L)  PROVE TypeOK
    OBVIOUS
  <2>1. Side(a, ai, acur, L) /\ Side(b, bi, bcur, L)  BY DEF WalkInv
  <2>2. Ends(AtA) = EndOf(a[ai]) /\ Ends(AtB) = EndOf(b[bi])
    BY DEF Ends, EndOf, AtA, AtB
  <2> QED  BY <2>1, <2>2 DEF TypeOK, WalkInv, Side
<1> QED  BY <1>1, WalkGoes, PTL

\* ResultIsValid: sm_validate holds of the result at every turn, through every
\* merge, every growth and every growth that fails.
THEOREM ResultStaysValid ==
  ASSUME NEW CONSTANT L, OperandsBelow(L)
  PROVE  Spec => []ResultIsValid
<1>1. WalkInv(L) => ResultIsValid
  <2> SUFFICES ASSUME WalkInv(L)  PROVE \E X, F : Stores(out, X, F)
    BY StoresIsValid DEF ResultIsValid
  <2>1. CASE status = "walking"
    <3> DEFINE f == Edge(op, PlaceIn(a, ai, acur, L), PlaceIn(b, bi, bcur, L))
               X == Below(Want(op, Bits(a), Bits(b)), f)
    <3>1. Written(out, X, f)  BY <2>1, GoesHolds DEF WalkInv
    <3> HIDE DEF f, X
    <3> QED  BY <3>1 DEF Written, Stores
  <2>2. CASE status # "walking"
    <3>1. Stores(out, Target, L) \/ ChunkHolds(out, {}, L)  BY <2>2 DEF WalkInv
    <3> QED  BY <3>1 DEF Stores
  <2> QED  BY <2>1, <2>2
<1> QED  BY <1>1, WalkGoes, PTL

\* OnlyRunsArePartial: no sparse chunk is written in two pieces.
THEOREM OnlyRunsTakenInPart ==
  ASSUME NEW CONSTANT L, OperandsBelow(L)
  PROVE  Spec => []OnlyRunsArePartial
<1>1. WalkInv(L) => OnlyRunsArePartial
  <2> SUFFICES ASSUME WalkInv(L)  PROVE OnlyRunsArePartial
    OBVIOUS
  <2>1. Side(a, ai, acur, L) /\ Side(b, bi, bcur, L) /\ Open(b, bi, bcur)
    BY DEF WalkInv
  <2>2. Ends(AtA) = EndOf(a[ai])  BY DEF Ends, EndOf, AtA
  <2>3. bi <= Len(b) /\ bcur > b[bi].start => IsRLE(b[bi])
    <3> SUFFICES ASSUME bi <= Len(b), bcur > b[bi].start  PROVE IsRLE(b[bi])
      OBVIOUS
    <3>1. IsRLE(b[bi]) \/ bcur = EndOf(b[bi])  BY <2>1 DEF Side
    <3>2. bcur < EndOf(b[bi]) /\ bcur \in Nat  BY <2>1 DEF Open, Side
    <3> QED  BY <3>1, <3>2
  <2> QED  BY <2>1, <2>2, <2>3 DEF OnlyRunsArePartial, Side, AtA, AtB
<1> QED  BY <1>1, WalkGoes, PTL

----------------------------------------------------------------------------
(* The sweep.                                                              *)

Top == RLEMax + 1

\* What the sweep sees of a walk.
Swept ==
  /\ Frontier \in 0 .. Top /\ Wanted \subseteq 0 .. RLEMax
  /\ status \in {"walking", "done", "empty", "failed"}
  /\ status # "failed" => MembersOf(out) = {x \in Wanted : x < Frontier}
  /\ status = "failed" => MembersOf(out) = {}

\* The members of what is stored.
LEMMA MembersAre ==
  ASSUME NEW m, NEW X, NEW L, Stores(m, X, L), Covers(L)
  PROVE  MembersOf(m) = X /\ X \subseteq 0 .. L - 1
<1>1. L \in Nat /\ L <= RLEMax /\ RLEMax \in Nat  BY LimitIs DEF Covers
<1>2. X \subseteq 0 .. L - 1 /\ \A i \in Nat : Holds(m, i) <=> i \in X
  BY <1>1, HoldsIs DEF Covers
<1>3. \A i \in X : i \in 0 .. RLEMax  BY <1>1, <1>2
<1>4. \A i \in 0 .. RLEMax : i \in Nat  OBVIOUS
<1> QED  BY <1>2, <1>3, <1>4 DEF MembersOf

\* What is wanted is the target, and the frontier is its edge.
LEMMA WantedIs ==
  ASSUME NEW L, OperandsBelow(L), WalkInv(L)
  PROVE  Wanted = Target /\ Target \subseteq 0 .. L - 1
<1>1. Side(a, ai, acur, L) /\ Side(b, bi, bcur, L) /\ op \in Operations  BY DEF WalkInv
<1>2. L \in Nat /\ L <= RLEMax /\ RLEMax \in Nat  BY LimitIs DEF OperandsBelow, Covers
<1>3. ASSUME NEW s, NEW j, NEW cur, Side(s, j, cur, L)
      PROVE  Members(s) = Bits(s) /\ Bits(s) \subseteq 0 .. L - 1
  <2>1. Bits(s) \subseteq Nat /\ \A x \in Bits(s) : x < L  BY <1>3, SideBits
  <2>2. StreamOK(s, 0, L)  BY <1>3 DEF Side, IsOperand
  <2>3. \A x \in Nat : HasBit(s, x) <=> x \in Bits(s)  BY <2>2, HasBitHolds
  <2>4. \A x \in Bits(s) : x \in 0 .. L - 1 /\ x \in 0 .. RLEMax  BY <1>2, <2>1
  <2>5. \A x \in 0 .. RLEMax : x \in Nat  OBVIOUS
  <2> QED  BY <2>3, <2>4, <2>5 DEF Members
<1>4. Members(a) = Bits(a) /\ Bits(a) \subseteq 0 .. L - 1  BY <1>1, <1>3
<1>5. Members(b) = Bits(b) /\ Bits(b) \subseteq 0 .. L - 1  BY <1>1, <1>3
<1> QED  BY <1>1, <1>4, <1>5 DEF Wanted, Target, Want, Operations

\* Frontier is the edge, or past every index when the edge is L.
LEMMA FrontierIs ==
  ASSUME NEW L, OperandsBelow(L), WalkInv(L), status = "walking",
         NEW f, f = Edge(op, PlaceIn(a, ai, acur, L), PlaceIn(b, bi, bcur, L))
  PROVE  f \in Nat /\ f <= L /\ (Frontier = f \/ (f = L /\ Frontier = Top))
<1> DEFINE p == PlaceIn(a, ai, acur, L)
           q == PlaceIn(b, bi, bcur, L)
<1>1. L \in Nat /\ L <= RLEMax /\ RLEMax \in Nat  BY LimitIs DEF OperandsBelow, Covers
<1>2. p \in Nat /\ q \in Nat /\ p <= L /\ q <= L  BY WalkSides
<1>3. PlaceA = p \/ (p = L /\ PlaceA = Top)
  BY WalkSides, SideOver DEF PlaceA, Top
<1>4. PlaceB = q \/ (q = L /\ PlaceB = Top)
  BY WalkSides, SideOver DEF PlaceB, Top
<1>5. op \in Operations  BY DEF WalkInv
<1> HIDE DEF p, q
<1>6. CASE op = "union"
  <2>1. f = Lesser(p, q)  BY <1>6 DEF Edge, p, q
  <2>2. Frontier = Lesser(PlaceA, PlaceB)  BY <1>6 DEF Frontier
  <2> QED  BY <1>1, <1>2, <1>3, <1>4, <2>1, <2>2 DEF Lesser, Top
<1>7. CASE op = "intersection"
  <2>1. f = Greater(p, q)  BY <1>7 DEF Edge, p, q
  <2>2. Frontier = Greater(PlaceA, PlaceB)  BY <1>7 DEF Frontier
  <2> QED  BY <1>1, <1>2, <1>3, <1>4, <2>1, <2>2 DEF Greater, Top
<1>8. CASE op = "difference"
  <2>1. f = p  BY <1>8 DEF Edge, p
  <2>2. Frontier = PlaceA  BY <1>8 DEF Frontier
  <2> QED  BY <1>2, <1>3, <2>1, <2>2
<1> QED  BY <1>5, <1>6, <1>7, <1>8 DEF Operations

\* The result is the wanted indices below the frontier.
LEMMA WalkIsSwept ==
  ASSUME NEW L, OperandsBelow(L), WalkInv(L)
  PROVE  Swept
<1>1. Covers(L) /\ L \in Nat /\ L <= RLEMax /\ RLEMax \in Nat
  BY LimitIs DEF OperandsBelow, Covers
<1>2. Wanted = Target /\ Target \subseteq 0 .. L - 1  BY WantedIs
<1>3. Wanted \subseteq 0 .. RLEMax  BY <1>1, <1>2
<1>4. status \in {"walking", "done", "empty", "failed"}  BY DEF WalkInv
<1>5. CASE status = "walking"
  <2> DEFINE f == Edge(op, PlaceIn(a, ai, acur, L), PlaceIn(b, bi, bcur, L))
  <2>1. f \in Nat /\ f <= L /\ (Frontier = f \/ (f = L /\ Frontier = Top))
    BY <1>5, FrontierIs
  <2>2. Written(out, Below(Target, f), f)  BY <1>5, GoesHolds DEF WalkInv, Target
  <2> HIDE DEF f
  <2>3. Stores(out, Below(Target, f), L)
    <3>1. Written(out, Below(Target, f), L)  BY <1>1, <2>1, <2>2, WrittenFurther
    <3> QED  BY <3>1 DEF Written, Stores
  <2>4. MembersOf(out) = Below(Target, f)  BY <1>1, <2>3, MembersAre
  <2>5. Below(Target, f) = {x \in Wanted : x < Frontier}
    <3>1. ASSUME NEW x \in Target  PROVE x < f <=> x < Frontier
      BY <1>1, <1>2, <2>1, <3>1 DEF Top
    <3> QED  BY <1>2, <3>1 DEF Below
  <2>6. Frontier \in 0 .. Top  BY <1>1, <2>1 DEF Top
  <2> QED  BY <1>3, <1>4, <1>5, <2>4, <2>5, <2>6 DEF Swept
<1>6. CASE status # "walking"
  <2>1. Frontier = Top  BY <1>6 DEF Frontier, Top
  <2>2. Frontier \in 0 .. Top  BY <1>1, <2>1 DEF Top
  <2>3. {x \in Wanted : x < Frontier} = Target
    <3>1. ASSUME NEW x \in Target  PROVE x < Frontier
      <4>1. x \in 0 .. L - 1  BY <1>2, <3>1
      <4> QED  BY <1>1, <2>1, <4>1 DEF Top
    <3> QED  BY <1>2, <3>1
  <2>4. status = "done" => MembersOf(out) = Target
    BY <1>1, MembersAre DEF WalkInv
  <2>5. status = "empty" => MembersOf(out) = Target
    BY <1>1, MembersAre DEF WalkInv, Stores
  <2>6. status = "failed" => MembersOf(out) = {}
    BY <1>1, MembersAre DEF WalkInv, Stores
  <2> QED  BY <1>3, <1>4, <1>6, <2>2, <2>3, <2>4, <2>5, <2>6 DEF Swept
<1> QED  BY <1>5, <1>6

\* A turn goes to the same chunk or the next, on each side.
LEMMA TurnGoesForward ==
  ASSUME Union \/ Intersection \/ Difference
  PROVE  ai' \in {ai, ai + 1} /\ bi' \in {bi, bi + 1}
<1>1. CASE Union
  BY <1>1 DEF Union, UnionPassA, UnionPassB, UnionSparse, UnionRuns, UnionMixed,
     UnionRestA, UnionRestB, AdvanceA, AdvanceB, NextA, NextB, StayA, StayB
<1>2. CASE Intersection
  BY <1>2 DEF Intersection, IntersectionPass, IntersectionMeet, NextA, NextB, StayA, StayB
<1>3. CASE Difference
  BY <1>3 DEF Difference, DifferenceCopy, DifferenceEnter, DifferenceLeave,
     DifferenceSkip, DifferenceMeet, DifferenceTail, NextA, NextB, StayA, StayB
<1> QED  BY <1>1, <1>2, <1>3

\* The frontier does not go back.
LEMMA FrontierAdvances ==
  ASSUME NEW L, OperandsBelow(L), WalkInv(L), WalkInv(L)', Swept, Swept', Next,
         Wanted' = Wanted
  PROVE  Frontier <= Frontier'
<1>1. Frontier \in 0 .. Top /\ Frontier' \in 0 .. Top /\ RLEMax \in Nat
      /\ status' \in {"walking", "done", "empty", "failed"}
  BY ChunkConstants DEF Swept, Top
<1>2. CASE status' # "walking"
  <2>1. Frontier' = Top  BY <1>2 DEF Frontier, Top
  <2> QED  BY <1>1, <2>1 DEF Top
<1>3. CASE status' = "walking"
  <2>1. status = "walking" /\ UNCHANGED operands /\ (Union \/ Intersection \/ Difference)
    BY <1>3 DEF Next, Finish
  <2>2. op' = op /\ a' = a /\ b' = b /\ op \in Operations  BY <2>1 DEF operands, WalkInv
  <2>3. PICK m : Turned(m, L)  BY <2>1, WalkTurn
  <2> DEFINE p == PlaceIn(a, ai, acur, L)
             q == PlaceIn(b, bi, bcur, L)
             p2 == PlaceIn(a, ai', acur', L)
             q2 == PlaceIn(b, bi', bcur', L)
  <2>4. p <= p2 /\ q <= q2  BY <2>3 DEF Turned
  <2>5. /\ p \in Nat /\ q \in Nat /\ p <= L /\ q <= L /\ L \in Nat
        /\ ai \in Nat /\ bi \in Nat /\ Len(a) \in Nat /\ Len(b) \in Nat
    BY WalkSides
  <2>6. L <= RLEMax  BY LimitIs DEF OperandsBelow, Covers
  <2>7. /\ Side(a, ai', acur', L) /\ Side(b, bi', bcur', L)  BY <2>2 DEF WalkInv
  <2>8. /\ p2 \in Nat /\ p2 <= L /\ q2 \in Nat /\ q2 <= L
    <3> DEFINE i == ai'
               at == acur'
               l == bi'
               to == bcur'
    <3>1. Side(a, i, at, L) /\ Side(b, l, to, L)  BY <2>7
    <3> HIDE DEF i, at, l, to
    <3>2. PlaceIn(a, i, at, L) \in Nat /\ PlaceIn(a, i, at, L) <= L  BY <3>1, PlaceIsNat
    <3>3. PlaceIn(b, l, to, L) \in Nat /\ PlaceIn(b, l, to, L) <= L  BY <3>1, PlaceIsNat
    <3> QED  BY <3>2, <3>3 DEF i, at, l, to
  <2>9. ai' \in {ai, ai + 1} /\ bi' \in {bi, bi + 1}  BY <2>1, TurnGoesForward
  <2>10. /\ PlaceA = IF ai > Len(a) THEN Top ELSE p
         /\ PlaceB = IF bi > Len(b) THEN Top ELSE q
    BY WalkSides DEF PlaceA, PlaceB, Top
  <2>11. PlaceA' = IF ai' > Len(a) THEN Top ELSE p2
    BY <2>2 DEF PlaceA, Top, CursorA, AtA, PlaceIn
  <2>12. PlaceB' = IF bi' > Len(b) THEN Top ELSE q2
    BY <2>2 DEF PlaceB, Top, CursorB, AtB, PlaceIn
  <2> HIDE DEF p, q, p2, q2
  <2>13. PlaceA <= PlaceA' /\ PlaceA \in Nat /\ PlaceA' \in Nat
    BY <1>1, <2>4, <2>5, <2>6, <2>8, <2>9, <2>10, <2>11 DEF Top
  <2>14. PlaceB <= PlaceB' /\ PlaceB \in Nat /\ PlaceB' \in Nat
    BY <1>1, <2>4, <2>5, <2>6, <2>8, <2>9, <2>10, <2>12 DEF Top
  <2>15. CASE op = "union"
    <3>1. Frontier = Lesser(PlaceA, PlaceB)  BY <2>1, <2>15 DEF Frontier
    <3>2. Frontier' = Lesser(PlaceA', PlaceB')
      BY <1>3, <2>2, <2>15 DEF Frontier, Lesser
    <3> QED  BY <2>13, <2>14, <3>1, <3>2 DEF Lesser
  <2>16. CASE op = "intersection"
    <3>1. Frontier = Greater(PlaceA, PlaceB)  BY <2>1, <2>16 DEF Frontier
    <3>2. Frontier' = Greater(PlaceA', PlaceB')
      BY <1>3, <2>2, <2>16 DEF Frontier, Greater
    <3> QED  BY <2>13, <2>14, <3>1, <3>2 DEF Greater
  <2>17. CASE op = "difference"
    <3>1. Frontier = PlaceA /\ Frontier' = PlaceA'
      BY <1>3, <2>1, <2>2, <2>17 DEF Frontier
    <3> QED  BY <2>13, <3>1
  <2> QED  BY <2>2, <2>15, <2>16, <2>17 DEF Operations
<1> QED  BY <1>2, <1>3

\* A step of the walk is a step of the sweep.
LEMMA StepSweeps ==
  ASSUME NEW L, OperandsBelow(L), WalkInv(L), WalkInv(L)', Swept, Swept', [Next]_vars
  PROVE  [Abstract!Next]_(Abstract!svars)
<1>1. CASE UNCHANGED vars
  <2>1. /\ op' = op /\ a' = a /\ b' = b /\ ai' = ai /\ bi' = bi /\ acur' = acur
        /\ bcur' = bcur /\ out' = out /\ status' = status
    BY <1>1 DEF vars
  <2>2. Wanted' = Wanted /\ MembersOf(out)' = MembersOf(out) /\ Frontier' = Frontier
    BY <2>1 DEF Wanted, MembersOf, Frontier, PlaceA, PlaceB, CursorA, CursorB, AtA, AtB
  <2> QED  BY <2>1, <2>2 DEF Abstract!svars
<1>2. CASE Next
  <2>1. status = "walking" /\ UNCHANGED operands  BY <1>2 DEF Next
  <2>2. Wanted' = Wanted  BY <2>1 DEF operands, Wanted
  <2>3. Frontier <= Frontier'  BY <1>2, <2>2, FrontierAdvances
  <2>4. "walking" # "failed"  OBVIOUS
  <2>5. /\ Frontier \in 0 .. Top /\ Frontier' \in 0 .. Top /\ RLEMax \in Nat
        /\ Wanted \subseteq 0 .. RLEMax
        /\ MembersOf(out) = {x \in Wanted : x < Frontier}
    BY <2>1, <2>4, ChunkConstants DEF Swept
  <2>6. CASE status' = "failed"
    <3>1. MembersOf(out)' = {}  BY <2>6 DEF Swept
    <3>2. Abstract!Fail  BY <2>2, <2>6, <3>1 DEF Abstract!Fail
    <3> QED  BY <2>1, <2>4, <3>2 DEF Abstract!Next
  <2>7. CASE status' # "failed"
    <3>1. MembersOf(out)' = {x \in Wanted : x < Frontier'}
      BY <2>2, <2>7 DEF Swept
    <3>2. MembersOf(out)' =
            MembersOf(out) \cup {x \in Wanted : Frontier <= x /\ x < Frontier'}
      <4>1. ASSUME NEW x \in Wanted
            PROVE  x < Frontier' <=> x < Frontier \/ (Frontier <= x /\ x < Frontier')
        <5> DEFINE f == Frontier
                   g == Frontier'
        <5>1. f \in Int /\ g \in Int /\ f <= g /\ x \in Int
          BY <2>3, <2>5, <4>1 DEF Top
        <5> HIDE DEF f, g
        <5>2. x < g <=> x < f \/ (f <= x /\ x < g)  BY <5>1
        <5> QED  BY <5>2 DEF f, g
      <4> QED  BY <2>5, <3>1, <4>1
    <3>3. Frontier' \in Frontier .. RLEMax + 1  BY <2>3, <2>5 DEF Top
    <3>4. Abstract!Advance
      BY <2>1, <2>2, <2>4, <2>7, <3>2, <3>3 DEF Abstract!Advance, Abstract!Between
    <3> QED  BY <2>1, <2>4, <3>4 DEF Abstract!Next
  <2> QED  BY <2>6, <2>7
<1> QED  BY <1>1, <1>2

\* A call begins as a sweep does.
LEMMA InitSweeps ==
  ASSUME NEW L, OperandsBelow(L), Init
  PROVE  Abstract!Init
<1>1. WalkInv(L)  BY InitWalks
<1>2. Swept  BY <1>1, WalkIsSwept
<1>3. PICK x \in Views, y \in Views, o \in Operations :
        /\ a = x.chunks /\ b = y.chunks /\ a # << >> /\ b # << >>
        /\ out = NewResult(FirstSize(o, x, y)) /\ status = "walking"
  BY DEF Init
<1>4. x.used \in Nat /\ y.used \in Nat  BY <1>3, ViewsAreOperands
<1>5. FirstSize(o, x, y) \in Nat  BY <1>4 DEF FirstSize, Operations, Greater
<1>6. MembersOf(out) = {}
  <2>1. Written(out, {}, 0)  BY <1>3, <1>5, NewIsWritten
  <2>2. Covers(L) /\ L \in Nat  BY LimitIs DEF OperandsBelow, Covers
  <2>3. 0 \in Nat /\ 0 <= L  BY <2>2
  <2>4. Written(out, {}, L)  BY <2>1, <2>2, <2>3, WrittenFurther
  <2>5. Stores(out, {}, L)  BY <2>4 DEF Written, Stores
  <2> QED  BY <2>2, <2>5, MembersAre
<1>7. "walking" # "failed"  OBVIOUS
<1>8. {i \in Wanted : i < Frontier} = {}  BY <1>2, <1>3, <1>6, <1>7 DEF Swept
<1>9. {i \in Wanted : 0 <= i /\ i < Frontier} = {}  BY <1>8
<1>10. Frontier \in 0 .. RLEMax + 1  BY <1>2 DEF Swept, Top
<1> QED  BY <1>3, <1>6, <1>7, <1>9, <1>10 DEF Abstract!Init, Abstract!Between

\* ImplementsSweep: the result grows from the lowest index up, holds at every
\* turn exactly the wanted indices below the frontier, and is never revised.
THEOREM WalkSweeps ==
  ASSUME NEW CONSTANT L, OperandsBelow(L)
  PROVE  Spec => ImplementsSweep
<1>1. Init => Abstract!Init  BY InitSweeps
<1>2. WalkInv(L) => Swept  BY WalkIsSwept
<1>3. WalkInv(L) /\ WalkInv(L)' /\ Swept /\ Swept' /\ [Next]_vars
        => [Abstract!Next]_(Abstract!svars)
  BY StepSweeps
<1> QED  BY <1>1, <1>2, <1>3, WalkGoes, PTL DEF Spec, ImplementsSweep, Abstract!Spec

----------------------------------------------------------------------------
(* What becomes of the result.                                             *)

\* The largest limit there is.
LEMMA WidestLimit ==
  ASSUME NEW L, Covers(L), NEW W, W = AlignedOffset(RLEMax)
  PROVE  Covers(W) /\ L <= W /\ W \in Nat /\ \A i \in 0 .. RLEMax - ChunkCap : i < W
<1>1. L \in Nat /\ Boundary(L) /\ L <= RLEMax /\ RLEMax \in Nat /\ ChunkCap <= L
  BY LimitIs DEF Covers
<1>2. /\ W \in Nat /\ Boundary(W) /\ W <= RLEMax /\ RLEMax < W + ChunkCap
      /\ ChunkCap \in Nat /\ ChunkCap >= 2
  BY <1>1, AlignedOffsetBounds, ChunkCapPositive
<1>3. L <= W
  <2> SUFFICES ASSUME ~(L <= W)  PROVE FALSE
    OBVIOUS
  <2>1. W < L  BY <1>1, <1>2
  <2>2. W + ChunkCap <= L  BY <1>1, <1>2, <2>1, BoundaryGap
  <2> QED  BY <1>1, <1>2, <2>2
<1>4. \A i \in 0 .. RLEMax - ChunkCap : i < W  BY <1>1, <1>2
<1> QED  BY <1>1, <1>2, <1>3, <1>4 DEF Covers, Limit

\* What is stored below one limit is stored below a larger one.
LEMMA StoresWider ==
  ASSUME NEW m, NEW X, NEW L \in Nat, Stores(m, X, L), NEW W \in Nat, L <= W,
         LeastResult <= m.cap
  PROVE  Stores(m, X, W)
<1>1. CASE SmallHolds(m, X)  BY <1>1 DEF Stores
<1>2. CASE ChunkHolds(m, X, L)
  <2>1. Written(m, X, L)  BY <1>2 DEF Written
  <2>2. Written(m, X, W)  BY <2>1, WrittenFurther
  <2> QED  BY <2>2 DEF Written, Stores
<1> QED  BY <1>1, <1>2 DEF Stores

\* What a client can count on when it goes on with a result: the least buffer
\* is a kilobyte, far more than a set in the smaller form and a new chunk need.
RoomToGoOn == LeastResult >= 6 /\ 2 * LeastResult >= SmallMaxWords + 9

\* ResultTakesSets: a set of any index changes that index alone.
THEOREM ResultTakesEverySet ==
  ASSUME NEW CONSTANT L, OperandsBelow(L), RoomToGoOn
  PROVE  Spec => []ResultTakesSets
<1>1. ASSUME WalkInv(L), status = "done", NEW i \in 0 .. RLEMax - ChunkCap,
             NEW m, m = [out EXCEPT !.cap = @ + LeastResult],
             NEW r, r = AddIndex(m, i)
      PROVE  r.ok /\ ValidForm(r.map) /\ MembersOf(r.map) = MembersOf(out) \cup {i}
  <2> DEFINE W == AlignedOffset(RLEMax)
             size == out.cap + LeastResult
  <2>1. Stores(out, Target, L) /\ LeastResult <= out.cap  BY <1>1 DEF WalkInv
  <2>2. Covers(L) /\ L \in Nat  BY LimitIs DEF OperandsBelow, Covers
  <2>3. Covers(W) /\ L <= W /\ W \in Nat /\ i < W  BY <1>1, <2>2, WidestLimit
  <2>4. Stores(out, Target, W)
    <3> HIDE DEF W
    <3> QED  BY <2>1, <2>2, <2>3, StoresWider
  <2>5. /\ out.cap \in Nat /\ out.used \in Nat /\ out.used <= out.cap
    BY <2>1, StoresIsMap
  <2>6. size \in Nat /\ out.used <= size /\ size >= SmallMaxWords + 9
        /\ out.used + 6 <= size
    <3>1. LeastResult \in Nat /\ LeastResult >= 6 /\ 2 * LeastResult >= SmallMaxWords + 9
          /\ SmallMaxWords \in Nat
      BY ResultConstants, SmallConstants DEF RoomToGoOn
    <3> QED  BY <2>1, <2>5, <3>1
  <2>7. m = [out EXCEPT !.cap = size]  BY <1>1
  <2> HIDE DEF W, size
  <2>8. Stores(m, Target, W) /\ m.cap = size /\ m.used = out.used
    BY <2>4, <2>6, <2>7, Recapped
  <2>9. i \in Nat  BY <1>1
  <2>10. Adds(m, Target, i, AddIndex(m, i), W)  BY <2>3, <2>8, <2>9, AddIndexHolds
  <2>11. r.ok /\ Stores(r.map, Target \cup {i}, W)
    BY <1>1, <2>6, <2>8, <2>10 DEF Adds
  <2>12. ValidForm(r.map)  BY <2>11, StoresIsValid
  <2>13. MembersOf(r.map) = Target \cup {i}  BY <2>3, <2>11, MembersAre
  <2>14. MembersOf(out) = Target  BY <2>1, <2>2, MembersAre
  <2> QED  BY <2>11, <2>12, <2>13, <2>14
<1>2. WalkInv(L) => ResultTakesSets
  BY <1>1 DEF ResultTakesSets
<1> QED  BY <1>2, WalkGoes, PTL
=============================================================================
