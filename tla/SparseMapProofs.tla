--------------------------- MODULE SparseMapProofs --------------------------
(***************************************************************************)
(* What the client of a sparsemap relies on, through every call and every  *)
(* change of form and of buffer: the map stays valid, the cardinality it   *)
(* caches and the one it counts are right, an add leaves the smaller form, *)
(* and one growth makes room.  Below two windows, where no removal joins   *)
(* across the chunk it drops, the map does what BitSet promises.           *)
(***************************************************************************)
EXTENDS SparseMap, SmallTheorems

\* The client's indices lie below L, and no map of its begins as sm_wrap leaves
\* it, without its header word counted.
CallsBelow(L) ==
  /\ Covers(L)
  /\ Indices \subseteq 0 .. L - 1
  /\ "sm_wrap" \notin Constructors

\* Below two windows there are never three chunks, and a removal is exact.
TwoChunks(L) == L <= 2 * ChunkCap

\* The client uses every index a map of its may hold.
SeesAll(L) == Indices = 0 .. L - 1 \/ TwoChunks(L)

\* GrowFloor is so many words more than small mode takes.
FloorIs(n) == GrowFloor >= SmallMaxWords + n

\* The map holds X, and counts it right if it remembers a count.
Kept(X, L) ==
  /\ Stores(map, X, L)
  /\ cardPlus1 = 0 \/ cardPlus1 = Cardinality(X) + 1
  /\ SeesAll(L) => X \subseteq Indices

\* The inductive invariant: there is such a set.
Lives(L) == \E X : Kept(X, L)

\* What the client names, in numbers.
LEMMA ClientIs ==
  ASSUME NEW L, CallsBelow(L)
  PROVE  /\ L \in Nat /\ ChunkCap \in Nat /\ ChunkCap <= L /\ ChunkCap >= 1
         /\ Covers(L) /\ Limit(L)
         /\ \A i \in Indices : i \in Nat /\ i < L
         /\ \A i \in Points : i \in Indices
         /\ \A span \in Spans : span[1] \in Nat /\ span[2] \in Nat
         /\ \A span \in Spans : \A i \in Nat :
              span[1] <= i /\ i < span[2] => i \in Indices
<1>1. L \in Nat /\ ChunkCap <= L /\ Covers(L) /\ Limit(L)
  BY DEF CallsBelow, Covers, Limit
<1>2. ChunkCap \in Nat /\ ChunkCap >= 1  BY ChunkCapPositive
<1>3. \A i \in Indices : i \in Nat /\ i < L  BY <1>1 DEF CallsBelow
<1>4. \A i \in Points : i \in Indices  BY ClientConstants
<1>5. \A span \in Spans : span[1] \in Nat /\ span[2] \in Nat  BY ClientConstants
<1>6. ASSUME NEW span \in Spans, NEW i \in Nat, span[1] <= i, i < span[2]
      PROVE  i \in Indices
  <2>1. i \in span[1] .. span[2] - 1  BY <1>5, <1>6
  <2>2. span[1] .. span[2] - 1 \subseteq Indices  BY ClientConstants
  <2> QED  BY <2>1, <2>2
<1> QED  BY <1>1, <1>2, <1>3, <1>4, <1>5, <1>6

\* What the client sees of a map.
LEMMA MembersAre ==
  ASSUME NEW L, CallsBelow(L), NEW m, NEW X, Stores(m, X, L)
  PROVE  /\ Members(m) = Indices \cap X
         /\ X \subseteq 0 .. L - 1
         /\ X \subseteq Indices => Members(m) = X
         /\ Indices = 0 .. L - 1 => X \subseteq Indices
<1>1. L \in Nat /\ ChunkCap <= L /\ \A i \in Indices : i \in Nat  BY ClientIs
<1>2. X \subseteq 0 .. L - 1 /\ \A i \in Nat : Holds(m, i) <=> i \in X  BY <1>1, HoldsIs
<1>3. Members(m) = Indices \cap X  BY <1>1, <1>2 DEF Members
<1> QED  BY <1>2, <1>3

----------------------------------------------------------------------------
(* One index.                                                              *)

\* Three chunks take three windows, so between two there is none to join across.
LEMMA NoneBetween ==
  ASSUME NEW m, NEW X, NEW L \in Nat, ChunkHolds(m, X, L), TwoChunks(L), NEW i
  PROVE  ~JoinsAcrossRemoved(m, i)
<1> DEFINE s == m.chunks
<1>1. StreamOK(s, 0, L)  BY ChunkFields
<1>2. Len(s) \in Nat /\ ChunkCap \in Nat /\ ChunkCap >= 1
  BY <1>1, LenProperties, ChunkCapPositive DEF StreamOK
<1> HIDE DEF s
<1>3. ASSUME 3 <= Len(s)  PROVE FALSE
  <2>1. 1 \in 1 .. Len(s) /\ 2 \in 1 .. Len(s) /\ 3 \in 1 .. Len(s)  BY <1>2, <1>3
  <2>2. ChunkOK(s[1]) /\ ChunkOK(s[2]) /\ ChunkOK(s[3]) /\ EndOf(s[3]) <= L
    BY <1>1, <2>1 DEF StreamOK
  <2>3. EndOf(s[1]) <= s[2].start /\ EndOf(s[2]) <= s[3].start
    BY <1>1, <2>1 DEF StreamOK
  <2>4. /\ s[1].start \in Nat /\ s[2].start \in Nat /\ s[3].start \in Nat
        /\ EndOf(s[1]) \in Nat /\ EndOf(s[2]) \in Nat /\ EndOf(s[3]) \in Nat
        /\ s[1].start + ChunkCap <= EndOf(s[1]) /\ s[2].start + ChunkCap <= EndOf(s[2])
        /\ s[3].start + ChunkCap <= EndOf(s[3])
    BY <2>2, ChunkExtent
  <2> DEFINE x == s[1].start
             y == s[2].start
             z == s[3].start
             u == EndOf(s[1])
             v == EndOf(s[2])
             w == EndOf(s[3])
  <2>5. /\ x \in Nat /\ y \in Nat /\ z \in Nat /\ u \in Nat /\ v \in Nat /\ w \in Nat
        /\ x + ChunkCap <= u /\ y + ChunkCap <= v /\ z + ChunkCap <= w
        /\ u <= y /\ v <= z /\ w <= L /\ L \in Nat
    BY <2>2, <2>3, <2>4
  <2> HIDE DEF x, y, z, u, v, w
  <2>6. u >= ChunkCap /\ v >= ChunkCap + ChunkCap  BY ONLY <1>2, <2>5
  <2>7. w >= ChunkCap + ChunkCap + ChunkCap  BY ONLY <1>2, <2>5, <2>6
  <2>8. L <= ChunkCap + ChunkCap  BY <1>2 DEF TwoChunks
  <2> QED  BY ONLY <1>2, <2>5, <2>7, <2>8
<1>4. ASSUME NEW j \in 2 .. Len(s) - 1  PROVE FALSE
  <2>1. 3 <= Len(s)  BY <1>2
  <2> QED  BY <1>3, <2>1
<1> QED  BY <1>4 DEF JoinsAcrossRemoved, s

\* The outcome r of a call on m: a map in the same buffer that stores Y.
Becomes(r, m, Y, L) == r.map.cap = m.cap /\ Stores(r.map, Y, L)

\* An index is added, or the set stays.
LEMMA AddBecomes ==
  ASSUME NEW L, CallsBelow(L), NEW m, NEW X, Stores(m, X, L), NEW i \in Nat, i < L,
         NEW r, r = AddIndex(m, i)
  PROVE  Becomes(r, m, IF r.ok THEN X \cup {i} ELSE X, L)
<1>1. Covers(L)  BY ClientIs
<1>2. Adds(m, X, i, AddIndex(m, i), L)  BY <1>1, AddIndexHolds
<1>3. Adds(m, X, i, r, L)  BY <1>2
<1> QED  BY <1>3 DEF Adds, Becomes

\* An index is removed, or the set stays; or, of three chunks and more, the map
\* is at least one of some set.
LEMMA RemoveBecomes ==
  ASSUME NEW L, CallsBelow(L), NEW m, NEW X, Stores(m, X, L), NEW i \in Nat,
         NEW r, r = RemoveIndex(m, i)
  PROVE  /\ \E Y : Becomes(r, m, Y, L)
         /\ TwoChunks(L) => Becomes(r, m, IF r.ok THEN X \ {i} ELSE X, L)
<1>1. Covers(L) /\ L \in Nat  BY ClientIs
<1>2. Removes(m, X, i, RemoveIndex(m, i), L)  BY <1>1, RemoveIndexHolds
<1>3. Removes(m, X, i, r, L)  BY <1>2
<1>4. \E Y : Becomes(r, m, Y, L)  BY <1>3 DEF Removes, Becomes
<1>5. ASSUME TwoChunks(L)  PROVE Becomes(r, m, IF r.ok THEN X \ {i} ELSE X, L)
  <2>1. IsSmall(m) \/ ~JoinsAcrossRemoved(m, i)
    <3>1. CASE SmallHolds(m, X)  BY <3>1, SmallFields
    <3>2. CASE ChunkHolds(m, X, L)  BY <1>1, <1>5, <3>2, NoneBetween
    <3> QED  BY <3>1, <3>2 DEF Stores
  <2> QED  BY <1>3, <2>1 DEF Removes, Becomes
<1> QED  BY <1>4, <1>5

\* An index is flipped, likewise.
FlippedAt(X, i) == IF i \in X THEN X \ {i} ELSE X \cup {i}

\* And so the set becomes, or stays.
LEMMA FlipBecomes ==
  ASSUME NEW L, CallsBelow(L), NEW m, NEW X, Stores(m, X, L), NEW i \in Nat, i < L,
         NEW r, r = FlipIndex(m, i)
  PROVE  /\ \E Y : Becomes(r, m, Y, L)
         /\ TwoChunks(L) =>
              Becomes(r, m, IF r.ok THEN FlippedAt(X, i) ELSE X, L)
<1>1. L \in Nat /\ ChunkCap <= L  BY ClientIs
<1>2. Holds(m, i) <=> i \in X  BY <1>1, HoldsIs
<1>3. CASE i \in X
  <2>1. r = RemoveIndex(m, i)  BY <1>2, <1>3 DEF FlipIndex
  <2>2. /\ \E Y : Becomes(r, m, Y, L)
        /\ TwoChunks(L) => Becomes(r, m, IF r.ok THEN X \ {i} ELSE X, L)
    BY <2>1, RemoveBecomes
  <2>3. FlippedAt(X, i) = X \ {i}  BY <1>3 DEF FlippedAt
  <2> QED  BY <2>2, <2>3
<1>4. CASE i \notin X
  <2>1. r = AddIndex(m, i)  BY <1>2, <1>4 DEF FlipIndex
  <2>2. Becomes(r, m, IF r.ok THEN X \cup {i} ELSE X, L)  BY <2>1, AddBecomes
  <2>3. FlippedAt(X, i) = X \cup {i}  BY <1>4 DEF FlippedAt
  <2> QED  BY <2>2, <2>3
<1> QED  BY <1>3, <1>4

----------------------------------------------------------------------------
(* Ranges.                                                                 *)

\* An outcome taken once is that outcome.
LEMMA ThenIs ==
  ASSUME NEW r, NEW lo, NEW k
  PROVE  /\ Then(r, LAMBDA q : StepOf(RemoveIndex, q, lo + k - 1)) =
              LoopBody("remove", lo, r, k)
         /\ Then(r, LAMBDA q : StepOf(FlipIndex, q, lo + k - 1)) =
              LoopBody("flip", lo, r, k)
<1> DEFINE F(q) == StepOf(RemoveIndex, q, lo + k - 1)
           G(q) == StepOf(FlipIndex, q, lo + k - 1)
<1>1. {F(z) : z \in {r}} = {F(r)} /\ {G(z) : z \in {r}} = {G(r)}  OBVIOUS
<1>2. F(r) = LoopBody("remove", lo, r, k)  BY DEF StepOf, LoopBody
<1>3. G(r) = LoopBody("flip", lo, r, k)
  <2>1. "flip" # "set" /\ "flip" # "count" /\ "flip" # "remove"  OBVIOUS
  <2> QED  BY <2>1 DEF StepOf, LoopBody, FlipIndex
<1> HIDE DEF F, G
<1>4. (CHOOSE y \in {F(z) : z \in {r}} : TRUE) = F(r)  BY <1>1
<1>5. (CHOOSE y \in {G(z) : z \in {r}} : TRUE) = G(r)  BY <1>1
<1> QED  BY <1>2, <1>3, <1>4, <1>5 DEF Then, F, G

\* How many indices a range has.
Span(lo, hi) == IF lo <= hi THEN hi - lo ELSE 0

\* The outcomes of sm_remove_range and sm_flip_range.
RangeRemoved(m, lo, hi) == Through(RemoveIndex, m, lo, hi)
RangeFlipped(m, lo, hi) == Through(FlipIndex, m, lo, hi)

\* Their loops.
LEMMA RangesLoop ==
  ASSUME NEW m, NEW lo \in Nat, NEW hi \in Nat, NEW n, n = Span(lo, hi)
  PROVE  /\ n \in Nat
         /\ RangeRemoved(m, lo, hi) = Looped("remove", lo, Done(m), n)
         /\ RangeFlipped(m, lo, hi) = Looped("flip", lo, Done(m), n)
<1> DEFINE base == Done(m)
           s == [k \in 1 .. hi - lo |-> k]
           R(it, t) == Then(it[t \ {Max(t)}],
                            LAMBDA q : StepOf(RemoveIndex, q, lo + s[Max(t)] - 1))
           F(it, t) == Then(it[t \ {Max(t)}],
                            LAMBDA q : StepOf(FlipIndex, q, lo + s[Max(t)] - 1))
           A(it) == it = [t \in SUBSET DOMAIN s |-> IF t = {} THEN base ELSE R(it, t)]
           B(it) == it = [t \in SUBSET DOMAIN s |-> IF t = {} THEN base ELSE F(it, t)]
<1>1. n \in Nat /\ 1 .. hi - lo = 1 .. n  BY DEF Span
<1>2. /\ RangeRemoved(m, lo, hi) = (CHOOSE it : A(it))[DOMAIN s]
      /\ RangeFlipped(m, lo, hi) = (CHOOSE it : B(it))[DOMAIN s]
  BY DEF RangeRemoved, RangeFlipped, Through, FoldLeft, MapThenFoldSet
<1>3. DOMAIN s = 1 .. n  BY <1>1
<1>4. ASSUME NEW it, NEW t
      PROVE  /\ R(it, t) = LoopBody("remove", lo, it[t \ {Max(t)}], s[Max(t)])
             /\ F(it, t) = LoopBody("flip", lo, it[t \ {Max(t)}], s[Max(t)])
  BY ThenIs
<1>5. \A t \in SUBSET (1 .. n) : t # {} => s[Max(t)] = Max(t)  BY <1>1, MaxOfPart
<1> HIDE DEF R, F, s, base
<1>6. ASSUME NEW it  PROVE A(it) <=> Iterates(it, "remove", lo, base, n)
  <2>1. \A t \in SUBSET (1 .. n) : t # {} =>
          LoopBody("remove", lo, it[t \ {Max(t)}], Max(t)) = R(it, t)
    BY <1>4, <1>5
  <2> QED  BY <1>3, <2>1 DEF Iterates
<1>7. ASSUME NEW it  PROVE B(it) <=> Iterates(it, "flip", lo, base, n)
  <2>1. \A t \in SUBSET (1 .. n) : t # {} =>
          LoopBody("flip", lo, it[t \ {Max(t)}], Max(t)) = F(it, t)
    BY <1>4, <1>5
  <2> QED  BY <1>3, <2>1 DEF Iterates
<1> HIDE DEF A, B
<1>8. (CHOOSE it : A(it)) = (CHOOSE it : Iterates(it, "remove", lo, base, n))
  BY <1>6, Zenon
<1>9. (CHOOSE it : B(it)) = (CHOOSE it : Iterates(it, "flip", lo, base, n))
  BY <1>7, Zenon
<1> QED  BY <1>1, <1>2, <1>3, <1>8, <1>9 DEF Looped, base

\* The set when a range has been removed or flipped up to stop.
After(loop, X, lo, stop) ==
  IF loop = "remove" THEN X \ (lo .. stop - 1)
  ELSE (X \ (lo .. stop - 1)) \cup ((lo .. stop - 1) \ X)

\* The outcome r of k turns of a loop over a range, of which none but the last
\* was refused.
Ranged(loop, r, m, X, lo, k, L) ==
  /\ \E Y : Becomes(r, m, Y, L)
  /\ TwoChunks(L) =>
       \E stop \in lo .. lo + k :
         /\ IF r.ok THEN stop = lo + k ELSE stop < lo + k
         /\ Becomes(r, m, After(loop, X, lo, stop), L)

\* One index more.
LEMMA AfterNext ==
  ASSUME NEW loop \in {"remove", "flip"}, NEW X \in SUBSET Nat, NEW lo \in Nat,
         NEW i \in Nat, lo <= i, NEW B, B = After(loop, X, lo, i)
  PROVE  /\ loop = "remove" => After(loop, X, lo, i + 1) = B \ {i}
         /\ loop = "flip" =>
              After(loop, X, lo, i + 1) = FlippedAt(B, i)
<1> DEFINE R == lo .. i - 1
           S == lo .. (i + 1) - 1
<1>1. S = R \cup {i} /\ i \notin R  OBVIOUS
<1> HIDE DEF R, S
<1>2. After(loop, X, lo, i + 1) = IF loop = "remove" THEN X \ S ELSE (X \ S) \cup (S \ X)
  BY DEF After, S
<1>3. B = IF loop = "remove" THEN X \ R ELSE (X \ R) \cup (R \ X)  BY DEF After, R
<1>4. CASE loop = "remove"
  BY <1>1, <1>2, <1>3, <1>4
<1>5. CASE loop = "flip"
  <2>1. After(loop, X, lo, i + 1) = (X \ S) \cup (S \ X) /\ B = (X \ R) \cup (R \ X)
        /\ loop # "remove"
    BY <1>2, <1>3, <1>5
  <2>2. i \in B <=> i \in X  BY <1>1, <2>1
  <2>3. CASE i \in X
    <3>1. (X \ S) \cup (S \ X) = B \ {i}  BY <1>1, <2>1, <2>3
    <3> QED  BY <2>1, <2>2, <2>3, <3>1 DEF FlippedAt
  <2>4. CASE i \notin X
    <3>1. (X \ S) \cup (S \ X) = B \cup {i}  BY <1>1, <2>1, <2>4
    <3> QED  BY <2>1, <2>2, <2>4, <3>1 DEF FlippedAt
  <2> QED  BY <2>3, <2>4
<1> QED  BY <1>4, <1>5

\* A turn of the loop.
LEMMA RangeStep ==
  ASSUME NEW L, CallsBelow(L), NEW loop \in {"remove", "flip"}, NEW m,
         NEW X \in SUBSET Nat, NEW lo \in Nat, NEW k \in Nat, k >= 1, lo + k - 1 < L,
         NEW r, Ranged(loop, r, m, X, lo, k - 1, L), NEW q, q = LoopBody(loop, lo, r, k)
  PROVE  Ranged(loop, q, m, X, lo, k, L)
<1> DEFINE i == lo + k - 1
<1>0. CallsBelow(L) /\ X \in SUBSET Nat /\ lo \in Nat  OBVIOUS
<1>1. /\ i \in Nat /\ i < L /\ lo <= i /\ lo + (k - 1) = i /\ lo + k = i + 1
      /\ lo .. lo + (k - 1) = lo .. i /\ lo .. lo + k = lo .. i + 1
      /\ i + 1 \in lo .. i + 1 /\ i \in lo .. i + 1 /\ i < i + 1
  OBVIOUS
<1>2. q = IF ~r.ok THEN r
          ELSE IF loop = "remove" THEN RemoveIndex(r.map, i) ELSE FlipIndex(r.map, i)
  BY DEF LoopBody, FlipIndex
<1> HIDE DEF i
<1>3. CASE ~r.ok
  <2>1. q = r  BY <1>2, <1>3
  <2>2. \E Y : Becomes(q, m, Y, L)  BY <2>1 DEF Ranged
  <2>3. ASSUME TwoChunks(L)
        PROVE  \E stop \in lo .. i + 1 :
                 /\ IF q.ok THEN stop = i + 1 ELSE stop < i + 1
                 /\ Becomes(q, m, After(loop, X, lo, stop), L)
    <3>1. PICK stop \in lo .. i :
                 /\ IF r.ok THEN stop = i ELSE stop < i
                 /\ Becomes(r, m, After(loop, X, lo, stop), L)
      BY <1>1, <2>3 DEF Ranged
    <3>2. stop \in lo .. i + 1 /\ stop < i + 1  BY <1>1
    <3> QED  BY <1>3, <2>1, <3>1, <3>2
  <2> QED  BY <1>1, <2>2, <2>3 DEF Ranged
<1>4. CASE r.ok
  <2>1. PICK Z : Becomes(r, m, Z, L)  BY DEF Ranged
  <2>2. q = IF loop = "remove" THEN RemoveIndex(r.map, i) ELSE FlipIndex(r.map, i)
    BY <1>2, <1>4
  <2>3. r.map.cap = m.cap /\ Stores(r.map, Z, L)  BY <2>1 DEF Becomes
  <2>4. \E Y : Becomes(q, r.map, Y, L)
    <3>1. CASE loop = "remove"  BY <1>1, <2>2, <2>3, <3>1, RemoveBecomes
    <3>2. CASE loop = "flip"
      <4>1. q = FlipIndex(r.map, i)  BY <2>2, <3>2
      <4>2. /\ \E Y : Becomes(q, r.map, Y, L)
            /\ TwoChunks(L) =>
                 Becomes(q, r.map, IF q.ok THEN FlippedAt(Z, i) ELSE Z, L)
        BY ONLY <1>0, <1>1, <2>3, <4>1, FlipBecomes
      <4> QED  BY <4>2
    <3> QED  BY <3>1, <3>2
  <2>5. \E Y : Becomes(q, m, Y, L)  BY <2>3, <2>4 DEF Becomes
  <2>6. ASSUME TwoChunks(L)
        PROVE  \E stop \in lo .. i + 1 :
                 /\ IF q.ok THEN stop = i + 1 ELSE stop < i + 1
                 /\ Becomes(q, m, After(loop, X, lo, stop), L)
    <3> DEFINE B == After(loop, X, lo, i)
               D == After(loop, X, lo, i + 1)
    <3>1. Becomes(r, m, B, L)
      <4>1. PICK stop \in lo .. i :
                   /\ IF r.ok THEN stop = i ELSE stop < i
                   /\ Becomes(r, m, After(loop, X, lo, stop), L)
        BY <1>1, <2>6 DEF Ranged
      <4> QED  BY <1>4, <4>1
    <3>2. Stores(r.map, B, L)  BY <3>1 DEF Becomes
    <3>3. /\ loop = "remove" => D = B \ {i}
          /\ loop = "flip" => D = FlippedAt(B, i)
      <4>1. B = After(loop, X, lo, i) /\ D = After(loop, X, lo, i + 1)  OBVIOUS
      <4>2. loop \in {"remove", "flip"}  OBVIOUS
      <4> HIDE DEF B, D
      <4>3. /\ loop = "remove" => After(loop, X, lo, i + 1) = B \ {i}
            /\ loop = "flip" =>
                 After(loop, X, lo, i + 1) = FlippedAt(B, i)
        BY ONLY <1>0, <1>1, <4>1, <4>2, AfterNext
      <4> QED  BY <4>1, <4>3
    <3> HIDE DEF B, D
    <3>4. Becomes(q, r.map, IF q.ok THEN D ELSE B, L)
      <4>1. CASE loop = "remove"
        <5>1. q = RemoveIndex(r.map, i)  BY <2>2, <4>1
        <5>2. TwoChunks(L) => Becomes(q, r.map, IF q.ok THEN B \ {i} ELSE B, L)
          BY <1>1, <3>2, <5>1, RemoveBecomes
        <5>3. D = B \ {i}  BY <3>3, <4>1
        <5> QED  BY <2>6, <5>2, <5>3
      <4>2. CASE loop = "flip"
        <5>1. q = FlipIndex(r.map, i)  BY <2>2, <4>2
        <5>2. TwoChunks(L) =>
                Becomes(q, r.map, IF q.ok THEN FlippedAt(B, i) ELSE B, L)
          BY <1>1, <3>2, <5>1, FlipBecomes
        <5>3. D = FlippedAt(B, i)  BY <3>3, <4>2
        <5> QED  BY <2>6, <5>2, <5>3
      <4> QED  BY <4>1, <4>2
    <3>5. Becomes(q, m, IF q.ok THEN D ELSE B, L)  BY <2>3, <3>4 DEF Becomes
    <3>6. CASE q.ok
      <4>1. Becomes(q, m, After(loop, X, lo, i + 1), L)  BY <3>5, <3>6 DEF D
      <4> QED  BY <1>1, <3>6, <4>1
    <3>7. CASE ~q.ok
      <4>1. Becomes(q, m, After(loop, X, lo, i), L)  BY <3>5, <3>7 DEF B
      <4> QED  BY <1>1, <3>7, <4>1
    <3> QED  BY <3>6, <3>7
  <2> QED  BY <1>1, <2>5, <2>6 DEF Ranged
<1> QED  BY <1>3, <1>4

\* The whole range.
LEMMA RangeHolds ==
  ASSUME NEW L, CallsBelow(L), NEW loop \in {"remove", "flip"}, NEW m, NEW X,
         Stores(m, X, L), NEW lo \in Nat, NEW hi \in Nat,
         \A i \in Nat : lo <= i /\ i < hi => i \in Indices,
         NEW n, n = Span(lo, hi), NEW r, r = Looped(loop, lo, Done(m), n)
  PROVE  Ranged(loop, r, m, X, lo, n, L)
<1> DEFINE base == Done(m)
<1>1. n \in Nat /\ \A k \in 1 .. n : lo <= lo + k - 1 /\ lo + k - 1 < hi /\ lo + k - 1 \in Nat
  BY DEF Span
<1>2. \A i \in Indices : i \in Nat /\ i < L  BY ClientIs
<1>3. X \in SUBSET Nat
  <2>1. X \subseteq 0 .. L - 1  BY MembersAre
  <2>2. L \in Nat  BY ClientIs
  <2> QED  BY <2>1, <2>2
<1>4. base.map = m /\ base.ok  BY DEF Done
<1> HIDE DEF base
<1>5. PICK f : /\ Looped(loop, lo, base, n) = f[n] /\ f[0] = base
               /\ \A k \in 1 .. n : f[k] = LoopBody(loop, lo, f[k - 1], k)
  BY <1>1, LoopUnfolds
<1> DEFINE T == {k \in 0 .. n : Ranged(loop, f[k], m, X, lo, k, L)}
<1>6. Ranged(loop, base, m, X, lo, 0, L)
  <2>1. Becomes(base, m, X, L)  BY <1>4 DEF Becomes
  <2>2. lo + 0 = lo /\ lo \in lo .. lo + 0 /\ lo .. lo - 1 = {}  OBVIOUS
  <2>3. After(loop, X, lo, lo) = X  BY <2>2 DEF After
  <2> QED  BY <1>4, <2>1, <2>2, <2>3 DEF Ranged
<1>7. 0 \in T  BY <1>1, <1>5, <1>6
<1>8. ASSUME NEW k \in 1 .. n, k - 1 \in T  PROVE k \in T
  <2>1. Ranged(loop, f[k - 1], m, X, lo, k - 1, L)  BY <1>8
  <2>2. lo + k - 1 < L  BY <1>1, <1>2
  <2>3. f[k] = LoopBody(loop, lo, f[k - 1], k)  BY <1>5
  <2>4. k \in Nat /\ k >= 1 /\ k \in 0 .. n  BY <1>1
  <2>5. Ranged(loop, f[k], m, X, lo, k, L)  BY <1>3, <2>1, <2>2, <2>3, <2>4, RangeStep
  <2> QED  BY <2>4, <2>5
<1>9. n \in 0 .. n  BY <1>1
<1>10. n \in T
  <2> HIDE DEF T
  <2> QED  BY <1>1, <1>7, <1>8, <1>9, StepByStep
<1>11. r = f[n]  BY <1>5 DEF base
<1> QED  BY <1>10, <1>11

----------------------------------------------------------------------------
(* Buffers.                                                                *)

\* sm_get_size is the count of the used words.
LEMMA WordsHeldIs ==
  ASSUME NEW m, NEW X, NEW L, Stores(m, X, L)
  PROVE  WordsHeld(m) = m.used
<1>1. CASE SmallHolds(m, X)  BY <1>1, SmallFields DEF WordsHeld
<1>2. CASE ChunkHolds(m, X, L)
  <2>1. ~IsSmall(m) /\ Encodes(m.chunks, X, m.used - 1) /\ m.used \in Nat
    BY <1>2, ChunkFields
  <2>2. StreamWords(m.chunks) = m.used - 1  BY <2>1 DEF Encodes
  <2>3. 1 + (m.used - 1) = m.used  BY <2>1
  <2> QED  BY <2>1, <2>2, <2>3 DEF WordsHeld, HeaderWords
<1> QED  BY <1>1, <1>2 DEF Stores

\* sm_set_data_size leaves the set, in whichever lineage.
LEMMA ResizedHolds ==
  ASSUME NEW m, NEW X, NEW L, Stores(m, X, L), NEW k, NEW size \in Nat, m.used <= size,
         NEW r, r = Resized(m, k, size)
  PROVE  Stores(r, X, L) /\ r.cap = size /\ r.used = m.used
<1>1. WordsHeld(m) = m.used /\ m.used \in Nat  BY WordsHeldIs, StoresIsMap
<1>2. UsedPrefix(m) = m  BY <1>1 DEF UsedPrefix
<1>3. r = [m EXCEPT !.cap = size]  BY <1>2 DEF Resized
<1> QED  BY <1>3, Recapped

\* What is written is the map, cut to its words, or a bare header.
LEMMA WrittenHolds ==
  ASSUME NEW m, NEW X, NEW L \in Nat, Stores(m, X, L), NEW r, r = Written(m)
  PROVE  /\ Stores(r, X, L)
         /\ r.cap = r.used /\ r.cap \in Nat
<1>1. CASE IsEmptyMap(m)
  <2>1. r = EmptyMap(HeaderWords)  BY <1>1 DEF Written
  <2>2. X = {}
    <3>1. CASE SmallHolds(m, X)
      <4>1. /\ IsSmall(m) /\ WordsOK(m.words) /\ X = SmallBits(m.words)
            /\ DOMAIN m.words = 1 .. Len(m.words) /\ Len(m.words) \in Nat
        BY <3>1, SmallFields DEF SmallHolds
      <4>2. \A w \in 1 .. Len(m.words) : m.words[w] = {}  BY <1>1, <4>1 DEF IsEmptyMap
      <4>3. \A i \in Nat : ~SmallHas(m.words, i)
        <5> SUFFICES ASSUME NEW i \in Nat, SmallHas(m.words, i)  PROVE FALSE  OBVIOUS
        <5>1. WordOf(i) \in Nat /\ WordOf(i) >= 1  BY SmallPlace
        <5>2. WordOf(i) \in 1 .. Len(m.words) /\ m.words[WordOf(i)] # {}
          BY <4>1, <5>1 DEF SmallHas
        <5> QED  BY <4>2, <5>2
      <4>4. \A i \in 0 .. SmallMaxBits - 1 : i \in Nat  BY SmallCovers
      <4> QED  BY <4>1, <4>3, <4>4 DEF SmallBits
    <3>2. CASE ChunkHolds(m, X, L)
      <4>1. ~IsSmall(m) /\ Encodes(m.chunks, X, m.used - 1)  BY <3>2, ChunkFields
      <4>2. m.chunks = << >>  BY <1>1, <4>1 DEF IsEmptyMap
      <4>3. Bits(m.chunks) = X /\ Len(m.chunks) = 0  BY <4>1, <4>2 DEF Encodes
      <4>4. Bits(m.chunks) = {}  BY <4>3 DEF Bits
      <4> QED  BY <4>3, <4>4
    <3> QED  BY <3>1, <3>2 DEF Stores
  <2> DEFINE one == HeaderWords
  <2>3. one \in Nat /\ one >= 1 /\ one = 1  BY DEF HeaderWords
  <2> HIDE DEF one
  <2>4. ChunkHolds(EmptyMap(one), {}, L) /\ EmptyMap(one).cap = one
    BY <2>3, EmptyHolds
  <2>5. EmptyMap(one).used = HeaderWords  BY DEF EmptyMap
  <2>6. r = EmptyMap(one)  BY <2>1 DEF one
  <2> QED  BY <2>2, <2>3, <2>4, <2>5, <2>6 DEF Stores, HeaderWords
<1>2. CASE ~IsEmptyMap(m)
  <2> DEFINE n == m.used
             t == [m EXCEPT !.cap = n]
  <2>1. n \in Nat /\ IsMap(m) /\ WordsHeld(m) = n  BY StoresIsMap, WordsHeldIs
  <2>2. r = [m EXCEPT !.used = WordsHeld(m), !.cap = WordsHeld(m)]
    BY <1>2 DEF Written
  <2>3. r = [mode |-> m.mode, words |-> m.words, chunks |-> m.chunks,
             used |-> WordsHeld(m), cap |-> WordsHeld(m)]
    BY <2>1, <2>2 DEF IsMap
  <2>4. t = [mode |-> m.mode, words |-> m.words, chunks |-> m.chunks,
             used |-> n, cap |-> n]
    BY <2>1 DEF IsMap
  <2>5. r = t  BY <2>1, <2>3, <2>4
  <2>6. n <= n /\ m.used <= n  BY <2>1
  <2>7. Stores(t, X, L) /\ t.cap = n /\ t.used = m.used
    BY <2>1, <2>6, Recapped
  <2> QED  BY <2>1, <2>5, <2>7
<1> QED  BY <1>1, <1>2

\* So what is read back, into a buffer that holds it, is the map.
LEMMA RereadHolds ==
  ASSUME NEW m, NEW X, NEW L \in Nat, Stores(m, X, L)
  PROVE  /\ Stores(Deserialized(m), X, L)
         /\ \A size \in Nat : ValidForm(Opened(m, size)) => Stores(Opened(m, size), X, L)
<1> DEFINE w == Written(m)
           more == w.cap + WireSlack
<1>1. Stores(w, X, L) /\ w.cap = w.used /\ w.cap \in Nat  BY WrittenHolds
<1>2. Deserialized(m) = [w EXCEPT !.cap = w.cap + WireSlack]  BY DEF Deserialized
<1>3. \A size : Opened(m, size) = [w EXCEPT !.cap = size]  BY DEF Opened
<1> HIDE DEF w
<1>4. Stores(Deserialized(m), X, L)
  <2>1. more \in Nat /\ w.used <= more  BY <1>1, WireConstants
  <2>2. Deserialized(m) = [w EXCEPT !.cap = more]  BY <1>2
  <2> HIDE DEF more
  <2> QED  BY <1>1, <2>1, <2>2, Recapped
<1>5. ASSUME NEW size \in Nat, ValidForm(Opened(m, size))
      PROVE  Stores(Opened(m, size), X, L)
  <2> DEFINE o == Opened(m, size)
  <2>1. o = [w EXCEPT !.cap = size]  BY <1>3
  <2>2. IsMap(w)  BY <1>1, StoresIsMap
  <2>3. o.used = w.used /\ o.cap = size  BY <2>1, <2>2 DEF IsMap
  <2>4. ValidForm(o)  BY <1>5
  <2> HIDE DEF o
  <2>5. o.used <= o.cap  BY <2>4 DEF ValidForm, Valid, Accounted
  <2>6. w.used <= size  BY <2>3, <2>5
  <2>7. Stores(o, X, L)  BY <1>1, <2>1, <2>6, Recapped
  <2> QED  BY <2>7 DEF o
<1> QED  BY <1>4, <1>5

----------------------------------------------------------------------------
(* The calls.                                                              *)

\* What a call leaves: the set Y, and a count of it or none.
Moved(Y, L) ==
  /\ Stores(map', Y, L)
  /\ cardPlus1' = 0 \/ cardPlus1' = Cardinality(Y) + 1

\* The set kept, as the client sees it.
LEMMA KeptIs ==
  ASSUME NEW L, CallsBelow(L), NEW X, Kept(X, L)
  PROVE  /\ Stores(map, X, L) /\ map.cap \in Nat /\ map.used \in Nat /\ map.used <= map.cap
         /\ SeesAll(L) => X \subseteq Indices /\ Members(map) = X
         /\ cardPlus1 = 0 \/ cardPlus1 = Cardinality(X) + 1
         /\ Count(map) = Cardinality(X) /\ Cardinality(X) \in Nat
<1>1. Stores(map, X, L) /\ (SeesAll(L) => X \subseteq Indices)
      /\ (cardPlus1 = 0 \/ cardPlus1 = Cardinality(X) + 1)
  BY DEF Kept
<1>2. X \subseteq Indices => Members(map) = X  BY <1>1, MembersAre
<1>3. Count(map) = Cardinality(X) /\ Cardinality(X) \in Nat  BY <1>1, CountIs
<1>4. map.cap \in Nat /\ map.used \in Nat /\ map.used <= map.cap  BY <1>1, StoresIsMap
<1> QED  BY <1>1, <1>2, <1>3, <1>4

\* What a call leaves is kept.
LEMMA MovedIsKept ==
  ASSUME NEW L, CallsBelow(L), NEW Y, Moved(Y, L), TwoChunks(L) => Y \subseteq Indices
  PROVE  /\ Kept(Y, L)'
         /\ TwoChunks(L) => Members(map)' = Y
<1>1. Stores(map', Y, L)  BY DEF Moved
<1>2. /\ Indices = 0 .. L - 1 => Y \subseteq Indices
      /\ Y \subseteq Indices => Members(map') = Y
  BY <1>1, MembersAre
<1>3. SeesAll(L) => Y \subseteq Indices  BY <1>2 DEF SeesAll
<1>4. Kept(Y, L)'  BY <1>1, <1>3 DEF Kept, Moved
<1> QED  BY <1>2, <1>4

\* sm_add_grow's first sm_add, refused, leaves the set; so does the growth.
LEMMA GrownHolds ==
  ASSUME NEW m, NEW X, NEW L, Stores(m, X, L)
  PROVE  /\ Stores(Grown(m), X, L)
         /\ Grown(m).cap = GrownSize(m) /\ Grown(m).used = m.used
         /\ GrownSize(m) \in Nat /\ GrownSize(m) >= GrowFloor /\ GrownSize(m) >= 2 * m.cap
<1> DEFINE size == GrownSize(m)
<1>1. m.cap \in Nat /\ m.used \in Nat /\ m.used <= m.cap /\ GrowFloor \in Nat
  BY StoresIsMap, ClientConstants
<1>2. size = Greater(2 * m.cap, GrowFloor)  BY DEF GrownSize
<1>3. size \in Nat /\ size >= GrowFloor /\ size >= 2 * m.cap /\ m.used <= size
  <2> DEFINE d == 2 * m.cap
  <2>1. d \in Nat /\ m.used <= d  BY <1>1
  <2>2. size = IF d >= GrowFloor THEN d ELSE GrowFloor  BY <1>2 DEF Greater
  <2> HIDE DEF d, size
  <2>3. size \in Nat /\ size >= GrowFloor /\ size >= d /\ m.used <= size  BY <1>1, <2>1, <2>2
  <2> QED  BY <2>3 DEF d
<1>4. Grown(m) = Resized(m, kind, size)  BY DEF Grown
<1> HIDE DEF size
<1>5. Stores(Grown(m), X, L) /\ Grown(m).cap = size /\ Grown(m).used = m.used
  BY <1>3, <1>4, ResizedHolds
<1> QED  BY <1>3, <1>5 DEF size

\* sm_add and sm_add_grow.
LEMMA AddMoves ==
  ASSUME NEW L, CallsBelow(L), NEW X, Kept(X, L), NEW i \in Points,
         SmAdd(i) \/ SmAddGrow(i)
  PROVE  \E Y : /\ Moved(Y, L)
                /\ \/ Y = X \cup {i} /\ last' = Answer("add", {i}, i)
                   \/ Y = X /\ last' = Answer("add", {i}, Refused)
<1>1. Stores(map, X, L)  BY KeptIs
<1>2. i \in Nat /\ i < L  BY ClientIs
<1>3. ASSUME NEW m, Stores(m, X, L), NEW r, r = AddIndex(m, i), UpdateOne("add", i, r)
      PROVE  \E Y : /\ Moved(Y, L)
                    /\ \/ Y = X \cup {i} /\ last' = Answer("add", {i}, i)
                       \/ Y = X /\ last' = Answer("add", {i}, Refused)
  <2>1. Becomes(r, m, IF r.ok THEN X \cup {i} ELSE X, L)  BY <1>2, <1>3, AddBecomes
  <2>2. /\ map' = r.map /\ cardPlus1' = 0
        /\ last' = Answer("add", {i}, IF r.ok THEN i ELSE Refused)
    BY <1>3 DEF UpdateOne, Update
  <2>3. CASE r.ok
    <3>1. Moved(X \cup {i}, L) /\ last' = Answer("add", {i}, i)
      BY <2>1, <2>2, <2>3 DEF Moved, Becomes
    <3> QED  BY <3>1
  <2>4. CASE ~r.ok
    <3>1. Moved(X, L) /\ last' = Answer("add", {i}, Refused)
      BY <2>1, <2>2, <2>4 DEF Moved, Becomes
    <3> QED  BY <3>1
  <2> QED  BY <2>3, <2>4
<1>4. CASE SmAdd(i)
  <2>1. UpdateOne("add", i, AddIndex(map, i))  BY <1>4 DEF SmAdd
  <2> QED  BY <1>1, <1>3, <2>1
<1>5. CASE SmAddGrow(i)
  <2> DEFINE r == AddIndex(map, i)
             g == Grown(r.map)
  <2>1. ~r.ok /\ UpdateOne("add", i, AddIndex(g, i))  BY <1>5 DEF SmAddGrow
  <2>2. Becomes(r, map, IF r.ok THEN X \cup {i} ELSE X, L)  BY <1>1, <1>2, AddBecomes
  <2>3. Stores(r.map, X, L)  BY <2>1, <2>2 DEF Becomes
  <2> HIDE DEF r
  <2>4. Stores(g, X, L)  BY <2>3, GrownHolds
  <2> HIDE DEF g
  <2> QED  BY <1>3, <2>1, <2>4
<1> QED  BY <1>4, <1>5

\* sm_remove and the pops.
LEMMA RemoveMoves ==
  ASSUME NEW L, CallsBelow(L), NEW X, Kept(X, L), NEW i \in Indices, NEW op,
         UpdateOne(op, i, RemoveIndex(map, i))
  PROVE  \E Y : /\ Moved(Y, L)
                /\ TwoChunks(L) =>
                     \/ Y = X \ {i} /\ last' = Answer(op, {i}, i)
                     \/ Y = X /\ last' = Answer(op, {i}, Refused)
<1> DEFINE r == RemoveIndex(map, i)
<1>1. Stores(map, X, L) /\ i \in Nat  BY KeptIs, ClientIs
<1>2. /\ \E Y : Becomes(r, map, Y, L)
      /\ TwoChunks(L) => Becomes(r, map, IF r.ok THEN X \ {i} ELSE X, L)
  BY <1>1, RemoveBecomes
<1>3. /\ map' = r.map /\ cardPlus1' = 0
      /\ last' = Answer(op, {i}, IF r.ok THEN i ELSE Refused)
  BY DEF UpdateOne, Update
<1> HIDE DEF r
<1>4. \A Y : Becomes(r, map, Y, L) => Moved(Y, L)  BY <1>3 DEF Becomes, Moved
<1>5. CASE ~TwoChunks(L)  BY <1>2, <1>4, <1>5
<1>6. CASE TwoChunks(L) /\ r.ok
  <2>1. Moved(X \ {i}, L) /\ last' = Answer(op, {i}, i)  BY <1>2, <1>3, <1>4, <1>6
  <2> QED  BY <2>1
<1>7. CASE TwoChunks(L) /\ ~r.ok
  <2>1. Moved(X, L) /\ last' = Answer(op, {i}, Refused)  BY <1>2, <1>3, <1>4, <1>7
  <2> QED  BY <2>1
<1> QED  BY <1>5, <1>6, <1>7

\* sm_remove_range and sm_flip_range.
LEMMA RangeMoves ==
  ASSUME NEW L, CallsBelow(L), NEW X, Kept(X, L), NEW span \in Spans,
         NEW lo, lo = span[1], NEW hi, hi = span[2], NEW loop, NEW op,
         \/ loop = "remove" /\ op = "remove_range" /\ SmRemoveRange(lo, hi)
         \/ loop = "flip" /\ op = "flip_range" /\ SmFlipRange(lo, hi)
  PROVE  \E Y : /\ Moved(Y, L)
                /\ TwoChunks(L) =>
                     \E stop \in lo .. lo + Span(lo, hi) :
                       /\ Y = After(loop, X, lo, stop)
                       /\ lo <= hi =>
                            last' = Answer(op, lo .. hi - 1, IF stop = hi THEN 0 ELSE Refused)
<1> DEFINE n == Span(lo, hi)
           r == Looped(loop, lo, Done(map), n)
<1>1. Stores(map, X, L)  BY KeptIs
<1>2. lo \in Nat /\ hi \in Nat /\ \A i \in Nat : lo <= i /\ i < hi => i \in Indices
  BY ClientIs
<1>3. loop \in {"remove", "flip"}  OBVIOUS
<1>4. /\ n \in Nat
      /\ RangeRemoved(map, lo, hi) = Looped("remove", lo, Done(map), n)
      /\ RangeFlipped(map, lo, hi) = Looped("flip", lo, Done(map), n)
  <2>1. n = Span(lo, hi)  OBVIOUS
  <2> HIDE DEF n
  <2> QED  BY ONLY <1>2, <2>1, RangesLoop
<1>5. lo <= hi => lo + n = hi  BY <1>2 DEF Span
<1>6. UpdateSpan(op, lo, hi, r)
  <2>1. CASE loop = "remove" /\ op = "remove_range" /\ SmRemoveRange(lo, hi)
    BY <1>4, <2>1 DEF SmRemoveRange, RangeRemoved
  <2>2. CASE loop = "flip" /\ op = "flip_range" /\ SmFlipRange(lo, hi)
    BY <1>4, <2>2 DEF SmFlipRange, RangeFlipped
  <2> QED  BY <2>1, <2>2
<1> HIDE DEF n
<1>7. Ranged(loop, r, map, X, lo, n, L)
  <2>1. n = Span(lo, hi) /\ CallsBelow(L)  BY DEF n
  <2> HIDE DEF r
  <2>2. r = Looped(loop, lo, Done(map), n)  BY DEF r
  <2> QED  BY ONLY <1>1, <1>2, <1>3, <2>1, <2>2, RangeHolds
<1>8. /\ map' = r.map /\ cardPlus1' = 0
      /\ last' = Answer(op, lo .. hi - 1, IF r.ok THEN 0 ELSE Refused)
  BY <1>6 DEF UpdateSpan, Update
<1> HIDE DEF r
<1>9. \A Y : Becomes(r, map, Y, L) => Moved(Y, L)  BY <1>8 DEF Becomes, Moved
<1>10. CASE ~TwoChunks(L)
  <2>1. PICK Y : Becomes(r, map, Y, L)  BY <1>7 DEF Ranged
  <2> QED  BY <1>9, <1>10, <2>1
<1>11. CASE TwoChunks(L)
  <2>1. PICK stop \in lo .. lo + n :
             /\ IF r.ok THEN stop = lo + n ELSE stop < lo + n
             /\ Becomes(r, map, After(loop, X, lo, stop), L)
    BY <1>7, <1>11 DEF Ranged
  <2> DEFINE Y == After(loop, X, lo, stop)
  <2>2. Moved(Y, L)  BY <1>9, <2>1
  <2> HIDE DEF Y
  <2>3. ASSUME lo <= hi
        PROVE  last' = Answer(op, lo .. hi - 1, IF stop = hi THEN 0 ELSE Refused)
    <3>1. lo + n = hi  BY <1>5, <2>3
    <3>2. r.ok <=> stop = hi  BY <1>2, <2>1, <3>1
    <3> QED  BY <1>8, <3>2
  <2>4. Y = After(loop, X, lo, stop)  BY DEF Y
  <2>5. stop \in lo .. lo + Span(lo, hi)  BY <2>1 DEF n
  <2> QED  BY <2>2, <2>3, <2>4, <2>5
<1> QED  BY <1>10, <1>11

----------------------------------------------------------------------------
(* Every step.  Below two windows each is one of BitSet's, or none.        *)

\* The client's ranges do not end before they begin.
Forward == \A span \in Spans : span[1] <= span[2]

\* A step that keeps the invariant, and is BitSet's where that is promised.
Good(L) ==
  /\ Lives(L)'
  /\ TwoChunks(L) /\ Forward => [Abstract!Next]_(Abstract!vars)

\* Where BitSet is not promised the set that is left will do.
LEMMA MovedIsGood ==
  ASSUME NEW L, CallsBelow(L), NEW Y, Moved(Y, L), TwoChunks(L) => Y \subseteq Indices,
         TwoChunks(L) /\ Forward => [Abstract!Next]_(Abstract!vars)
  PROVE  Good(L)
<1>1. Kept(Y, L)'  BY MovedIsKept
<1>2. Lives(L)'  BY <1>1 DEF Lives
<1> QED  BY <1>2 DEF Good

\* A step of the buffer, or of none of them: BitSet stutters.
LEMMA StutterIsGood ==
  ASSUME NEW L, CallsBelow(L), NEW X, Kept(X, L), Moved(X, L), last' = last
  PROVE  Good(L)
<1>1. SeesAll(L) => X \subseteq Indices /\ Members(map) = X  BY KeptIs
<1>2. TwoChunks(L) => X \subseteq Indices /\ Members(map) = X  BY <1>1 DEF SeesAll
<1>3. TwoChunks(L) => Members(map)' = X  BY <1>2, MovedIsKept
<1>4. TwoChunks(L) /\ Forward => [Abstract!Next]_(Abstract!vars)
  BY <1>2, <1>3 DEF Abstract!vars
<1> QED  BY <1>2, <1>4, MovedIsGood

\* An add.
LEMMA AddIsGood ==
  ASSUME NEW L, CallsBelow(L), NEW X, Kept(X, L), NEW i \in Points,
         SmAdd(i) \/ SmAddGrow(i)
  PROVE  Good(L)
<1>1. SeesAll(L) => X \subseteq Indices /\ Members(map) = X  BY KeptIs
<1>2. TwoChunks(L) => X \subseteq Indices /\ Members(map) = X  BY <1>1 DEF SeesAll
<1>3. PICK Y : /\ Moved(Y, L)
               /\ \/ Y = X \cup {i} /\ last' = Answer("add", {i}, i)
                  \/ Y = X /\ last' = Answer("add", {i}, Refused)
  BY AddMoves
<1>4. i \in Indices  BY ClientIs
<1>5. TwoChunks(L) => Y \subseteq Indices  BY <1>2, <1>3, <1>4
<1>6. TwoChunks(L) => Members(map)' = Y  BY <1>3, <1>5, MovedIsKept
<1>7. ASSUME TwoChunks(L)  PROVE Abstract!Next
  <2>1. Abstract!Add(i) \/ Abstract!Refuse("add", {i})
    BY <1>2, <1>3, <1>6, <1>7 DEF Abstract!Add, Abstract!Refuse, Abstract!Answer, Answer, Refused
  <2> QED  BY <2>1 DEF Abstract!Next
<1> QED  BY <1>3, <1>5, <1>7, MovedIsGood

\* A removal of one index, by whichever call.
LEMMA RemoveIsGood ==
  ASSUME NEW L, CallsBelow(L), NEW X, Kept(X, L), NEW i \in Indices, NEW op,
         UpdateOne(op, i, RemoveIndex(map, i)),
         Members(map) = X /\ (Abstract!Pop(op, i) \/ Abstract!Refuse(op, {i}))
           => Abstract!Next
  PROVE  Good(L)
<1>1. SeesAll(L) => X \subseteq Indices /\ Members(map) = X  BY KeptIs
<1>2. TwoChunks(L) => X \subseteq Indices /\ Members(map) = X  BY <1>1 DEF SeesAll
<1>3. PICK Y : /\ Moved(Y, L)
               /\ TwoChunks(L) =>
                    \/ Y = X \ {i} /\ last' = Answer(op, {i}, i)
                    \/ Y = X /\ last' = Answer(op, {i}, Refused)
  BY RemoveMoves
<1>4. TwoChunks(L) => Y \subseteq Indices  BY <1>2, <1>3
<1>5. TwoChunks(L) => Members(map)' = Y  BY <1>3, <1>4, MovedIsKept
<1>6. ASSUME TwoChunks(L)  PROVE Abstract!Next
  <2>1. Abstract!Pop(op, i) \/ Abstract!Refuse(op, {i})
    BY <1>2, <1>3, <1>5, <1>6 DEF Abstract!Pop, Abstract!Refuse, Abstract!Answer, Answer, Refused
  <2> QED  BY <1>2, <1>6, <2>1
<1> QED  BY <1>3, <1>4, <1>6, MovedIsGood

\* A range.
LEMMA RangeIsGood ==
  ASSUME NEW L, CallsBelow(L), NEW X, Kept(X, L), NEW span \in Spans,
         SmRemoveRange(span[1], span[2]) \/ SmFlipRange(span[1], span[2])
  PROVE  Good(L)
<1> DEFINE lo == span[1]
           hi == span[2]
<1>1. SeesAll(L) => X \subseteq Indices /\ Members(map) = X  BY KeptIs
<1>2. TwoChunks(L) => X \subseteq Indices /\ Members(map) = X  BY <1>1 DEF SeesAll
<1>3. lo \in Nat /\ hi \in Nat /\ \A i \in Nat : lo <= i /\ i < hi => i \in Indices
  BY ClientIs
<1>4. ASSUME NEW loop, NEW op,
             \/ loop = "remove" /\ op = "remove_range" /\ SmRemoveRange(lo, hi)
             \/ loop = "flip" /\ op = "flip_range" /\ SmFlipRange(lo, hi)
      PROVE  Good(L)
  <2>1. PICK Y : /\ Moved(Y, L)
                 /\ TwoChunks(L) =>
                      \E stop \in lo .. lo + Span(lo, hi) :
                        /\ Y = After(loop, X, lo, stop)
                        /\ lo <= hi =>
                             last' = Answer(op, lo .. hi - 1,
                                            IF stop = hi THEN 0 ELSE Refused)
    BY <1>4, RangeMoves
  <2> HIDE DEF lo, hi
  <2>2. ASSUME TwoChunks(L)
        PROVE  Y \subseteq Indices /\ (Forward => Abstract!Next)
    <3>1. PICK stop \in lo .. lo + Span(lo, hi) :
                 /\ Y = After(loop, X, lo, stop)
                 /\ lo <= hi =>
                      last' = Answer(op, lo .. hi - 1, IF stop = hi THEN 0 ELSE Refused)
      BY <2>1, <2>2
    <3>2. stop \in Nat /\ lo <= stop /\ (lo <= hi => stop <= hi)
          /\ (~(lo <= hi) => stop = lo)
      BY <1>3, <3>1 DEF Span
    <3>3. \A i \in lo .. stop - 1 : i \in Indices
      <4> SUFFICES ASSUME NEW i \in lo .. stop - 1  PROVE i \in Indices  OBVIOUS
      <4>1. i \in Nat /\ lo <= i /\ i < hi  BY <1>3, <3>2
      <4> QED  BY <1>3, <4>1
    <3>4. Y \subseteq Indices  BY <1>2, <2>2, <3>1, <3>3 DEF After
    <3>5. Members(map) = X /\ Members(map)' = Y
      BY <1>2, <2>1, <2>2, <3>4, MovedIsKept
    <3>6. ASSUME Forward  PROVE Abstract!Next
      <4>1. lo <= hi  BY <3>6 DEF Forward, lo, hi
      <4>2. lo <= stop /\ stop <= hi /\ stop \in Indices \cup {hi}
        <5>1. stop < hi => stop \in Indices  BY <1>3, <3>2
        <5> QED  BY <1>3, <3>2, <4>1, <5>1
      <4>3. last' = Answer(op, lo .. hi - 1, IF stop = hi THEN 0 ELSE 0 - 1)
        BY <3>1, <4>1 DEF Refused
      <4>4. Abstract!RemoveRange(lo, hi, stop) \/ Abstract!FlipRange(lo, hi, stop)
        <5>1. CASE loop = "remove" /\ op = "remove_range"
          <6>1. Y = X \ (lo .. stop - 1)  BY <3>1, <5>1 DEF After
          <6>2. Abstract!RemoveRange(lo, hi, stop)
            BY <3>5, <4>3, <5>1, <6>1
               DEF Abstract!RemoveRange, Abstract!Upto, Abstract!Answer, Answer
          <6> QED  BY <6>2
        <5>2. CASE loop = "flip" /\ op = "flip_range"
          <6>1. Y = (X \ (lo .. stop - 1)) \cup ((lo .. stop - 1) \ X)
            <7>1. loop # "remove"  BY <5>2
            <7> QED  BY <3>1, <7>1 DEF After
          <6>2. Abstract!FlipRange(lo, hi, stop)
            BY <3>5, <4>3, <5>2, <6>1
               DEF Abstract!FlipRange, Abstract!Upto, Abstract!Answer, Answer
          <6> QED  BY <6>2
        <5> QED  BY <1>4, <5>1, <5>2
      <4>5. \E sp \in Spans, end \in Indices \cup {sp2[2] : sp2 \in Spans} :
              /\ sp[1] <= end /\ end <= sp[2]
              /\ \/ Abstract!RemoveRange(sp[1], sp[2], end)
                 \/ Abstract!FlipRange(sp[1], sp[2], end)
        <5>1. stop \in Indices \cup {sp2[2] : sp2 \in Spans}  BY <4>2 DEF hi
        <5> QED  BY <4>2, <4>4, <5>1 DEF lo, hi
      <4> QED  BY <4>5 DEF Abstract!Next
    <3> QED  BY <3>4, <3>6
  <2> QED  BY <2>1, <2>2, MovedIsGood
<1>5. CASE SmRemoveRange(lo, hi)
  <2> DEFINE loop == "remove"
             op == "remove_range"
  <2>1. loop = "remove" /\ op = "remove_range" /\ SmRemoveRange(lo, hi)  BY <1>5
  <2> HIDE DEF loop, op
  <2> QED  BY <1>4, <2>1
<1>6. CASE SmFlipRange(lo, hi)
  <2> DEFINE loop == "flip"
             op == "flip_range"
  <2>1. loop = "flip" /\ op = "flip_range" /\ SmFlipRange(lo, hi)  BY <1>6
  <2> HIDE DEF loop, op
  <2> QED  BY <1>4, <2>1
<1> QED  BY <1>5, <1>6

\* The least and the greatest member, when there is one.
LEMMA EndsOfSet ==
  ASSUME NEW S \in SUBSET Nat, S # {}, NEW top \in Nat, \A y \in S : y < top
  PROVE  /\ Min(S) \in S /\ \A y \in S : Min(S) <= y
         /\ Max(S) \in S /\ \A y \in S : y <= Max(S)
<1>1. Min(S) \in S /\ \A y \in S : Min(S) <= y
  <2>1. \E x \in S : \A y \in S : x <= y  BY LeastElement
  <2> QED  BY <2>1 DEF Min
<1>2. \A y \in S : y <= top  OBVIOUS
<1>3. Max(S) \in S /\ Max(S) \in Nat /\ Max(S) <= top /\ \A y \in S : y <= Max(S)
  BY <1>2, MaxIsGreatest
<1> QED  BY <1>1, <1>3

\* A pop.
LEMMA PopIsGood ==
  ASSUME NEW L, CallsBelow(L), NEW X, Kept(X, L), SmPop
  PROVE  Good(L)
<1> DEFINE S == Members(map)
<1>1. L \in Nat /\ \A i \in Indices : i \in Nat /\ i < L  BY ClientIs
<1>2. S \subseteq Indices /\ S # {}  BY DEF Members, SmPop
<1>3. /\ Min(S) \in S /\ \A y \in S : Min(S) <= y
      /\ Max(S) \in S /\ \A y \in S : y <= Max(S)
  <2> HIDE DEF S
  <2>1. S \in SUBSET Nat /\ \A y \in S : y < L  BY <1>1, <1>2
  <2> QED  BY <1>1, <1>2, <2>1, EndsOfSet
<1>4. PopEnd("pop_first", Min(S)) \/ PopEnd("pop_last", Max(S))  BY DEF SmPop
<1>5. CASE PopEnd("pop_first", Min(S))
  <2> DEFINE i == Min(S)
             op == "pop_first"
  <2>1. i \in Indices /\ i \in S /\ \A y \in S : i <= y  BY <1>2, <1>3
  <2>2. UpdateOne(op, i, RemoveIndex(map, i))  BY <1>5 DEF PopEnd
  <2>3. Abstract!Pop(op, i) \/ Abstract!Refuse(op, {i}) => Abstract!Next
    <3>1. Abstract!IsLeast(i)  BY <2>1 DEF Abstract!IsLeast
    <3> HIDE DEF i
    <3> QED  BY <2>1, <3>1 DEF Abstract!Next
  <2> HIDE DEF i, op
  <2> QED  BY <2>1, <2>2, <2>3, RemoveIsGood
<1>6. CASE PopEnd("pop_last", Max(S))
  <2> DEFINE i == Max(S)
             op == "pop_last"
  <2>1. i \in Indices /\ i \in S /\ \A y \in S : y <= i  BY <1>2, <1>3
  <2>2. UpdateOne(op, i, RemoveIndex(map, i))  BY <1>6 DEF PopEnd
  <2>3. Abstract!Pop(op, i) \/ Abstract!Refuse(op, {i}) => Abstract!Next
    <3>1. Abstract!IsGreatest(i)  BY <2>1 DEF Abstract!IsGreatest
    <3> HIDE DEF i
    <3> QED  BY <2>1, <3>1 DEF Abstract!Next
  <2> HIDE DEF i, op
  <2> QED  BY <2>1, <2>2, <2>3, RemoveIsGood
<1> QED  BY <1>4, <1>5, <1>6

\* The calls that remove by index, clear, count, or find nothing to pop.
LEMMA WholeIsGood ==
  ASSUME NEW L, CallsBelow(L), NEW X, Kept(X, L),
         SmClear \/ SmCardinality \/ SmPopEmpty \/ \E i \in Points : SmRemove(i)
  PROVE  Good(L)
<1>1. /\ SeesAll(L) => X \subseteq Indices /\ Members(map) = X
      /\ Stores(map, X, L) /\ map.cap \in Nat /\ map.used <= map.cap
      /\ cardPlus1 = 0 \/ cardPlus1 = Cardinality(X) + 1
      /\ Count(map) = Cardinality(X) /\ Cardinality(X) \in Nat
  BY KeptIs
<1>2. TwoChunks(L) => X \subseteq Indices /\ Members(map) = X  BY <1>1 DEF SeesAll
<1>3. CASE SmClear
  <2> DEFINE Y == {}
  <2>1. /\ map' = EmptyMap(map.cap) /\ cardPlus1' = 0 /\ last' = Answer("clear", {}, 0)
    BY <1>3 DEF SmClear, Update
  <2>2. L \in Nat /\ map.cap >= 1
    <3>1. map.used \in Nat /\ map.used >= 1  BY <1>1, StoresIsMap
    <3> QED  BY <1>1, <3>1, ClientIs
  <2>3. ChunkHolds(EmptyMap(map.cap), Y, L)  BY <1>1, <2>2, EmptyHolds
  <2>4. Moved(Y, L) /\ Y \subseteq Indices  BY <2>1, <2>3 DEF Moved, Stores
  <2>5. Y = {}  OBVIOUS
  <2> HIDE DEF Y
  <2>6. TwoChunks(L) => Members(map)' = Y  BY <2>4, MovedIsKept
  <2>7. ASSUME TwoChunks(L)  PROVE Abstract!Next
    <3>1. Members(map)' = {}  BY <2>5, <2>6, <2>7
    <3>2. last' = Abstract!Answer("clear", {}, 0)  BY <2>1 DEF Abstract!Answer, Answer
    <3>3. Abstract!Clear  BY <3>1, <3>2 DEF Abstract!Clear
    <3> QED  BY <3>3 DEF Abstract!Next
  <2> QED  BY <2>4, <2>7, MovedIsGood
<1>4. CASE SmCardinality
  <2> DEFINE n == IF cardPlus1 # 0 THEN cardPlus1 - 1 ELSE Count(map)
  <2>1. /\ cardPlus1' = n + 1 /\ last' = Answer("cardinality", {}, n)
        /\ map' = map
    BY <1>4 DEF SmCardinality
  <2>2. n = Cardinality(X)  BY <1>1
  <2> HIDE DEF n
  <2>3. Moved(X, L)  BY <1>1, <2>1, <2>2 DEF Moved
  <2>4. TwoChunks(L) => Members(map)' = X  BY <1>2, <2>3, MovedIsKept
  <2>5. ASSUME TwoChunks(L)  PROVE Abstract!Next
    <3>1. Members(map) = X /\ Members(map)' = X  BY <1>2, <2>4, <2>5
    <3>2. Abstract!Cardinality(X) = Cardinality(X)
      BY DEF Abstract!Cardinality, Cardinality
    <3>3. last' = Abstract!Answer("cardinality", {}, Abstract!Cardinality(Members(map)))
      BY <2>1, <2>2, <3>1, <3>2 DEF Abstract!Answer, Answer
    <3>4. Abstract!CountMembers  BY <3>1, <3>3 DEF Abstract!CountMembers
    <3> QED  BY <3>4 DEF Abstract!Next
  <2> QED  BY <1>2, <2>3, <2>5, MovedIsGood
<1>5. CASE SmPopEmpty
  <2>1. /\ Members(map) = {} /\ last' = Answer("pop_first", {}, Refused)
        /\ map' = map /\ cardPlus1' = cardPlus1
    BY <1>5 DEF SmPopEmpty
  <2>2. Moved(X, L)  BY <1>1, <2>1 DEF Moved
  <2>3. TwoChunks(L) => Members(map)' = X  BY <1>2, <2>2, MovedIsKept
  <2>4. ASSUME TwoChunks(L)  PROVE Abstract!Next
    <3>1. Abstract!Refuse("pop_first", {}) /\ Members(map) = {}
      BY <1>2, <2>1, <2>3, <2>4 DEF Abstract!Refuse, Abstract!Answer, Answer, Refused
    <3> QED  BY <3>1 DEF Abstract!Next
  <2> QED  BY <1>2, <2>2, <2>4, MovedIsGood
<1>6. CASE \E i \in Points : SmRemove(i)
  <2> DEFINE op == "remove"
  <2>1. PICK i \in Points : SmRemove(i)  BY <1>6
  <2>2. i \in Indices  BY ClientIs
  <2>3. UpdateOne(op, i, RemoveIndex(map, i))  BY <2>1 DEF SmRemove
  <2>4. Abstract!Pop(op, i) \/ Abstract!Refuse(op, {i}) => Abstract!Next
    <3>1. Abstract!Pop(op, i) <=> Abstract!Remove(i)
      BY DEF Abstract!Pop, Abstract!Remove, op
    <3> QED  BY <3>1 DEF Abstract!Next, op
  <2> HIDE DEF op
  <2> QED  BY <2>2, <2>3, <2>4, RemoveIsGood
<1> QED  BY <1>3, <1>4, <1>5, <1>6

\* The calls that exchange the buffer.
LEMMA BufferIsGood ==
  ASSUME NEW L, CallsBelow(L), NEW X, Kept(X, L),
         \/ \E size \in Sizes : SmSetDataSize(size)
         \/ SmShrinkToFit \/ SmCopy \/ SmReread
  PROVE  Good(L)
<1>1. /\ Stores(map, X, L) /\ map.used \in Nat
      /\ cardPlus1 = 0 \/ cardPlus1 = Cardinality(X) + 1
  BY KeptIs
<1>2. \A size \in Sizes : size \in Nat  BY ClientConstants
<1>3. L \in Nat  BY ClientIs
<1>4. ASSUME NEW size \in Nat, SmSetDataSize(size)  PROVE Good(L)
  <2>1. /\ size >= map.used /\ map' = Resized(map, kind, size)
        /\ cardPlus1' = cardPlus1 /\ last' = last
    BY <1>4 DEF SmSetDataSize
  <2>2. Stores(map', X, L)  BY <1>1, <2>1, ResizedHolds
  <2>3. Moved(X, L)  BY <1>1, <2>1, <2>2 DEF Moved
  <2> QED  BY <2>1, <2>3, StutterIsGood
<1>5. ASSUME NEW m, NEW k, Reread(m, k), Stores(m, X, L)  PROVE Good(L)
  <2>1. map' = m /\ cardPlus1' = 0 /\ last' = last  BY <1>5 DEF Reread
  <2>2. Moved(X, L)  BY <1>5, <2>1 DEF Moved
  <2> QED  BY <2>1, <2>2, StutterIsGood
<1>6. CASE \E size \in Sizes : SmSetDataSize(size)  BY <1>2, <1>4, <1>6
<1>7. CASE SmShrinkToFit
  <2> DEFINE size == FittingSize(map)
  <2>1. size \in Nat  BY <1>1 DEF FittingSize, Greater, HeaderWords
  <2>2. SmSetDataSize(size)  BY <1>7 DEF SmShrinkToFit
  <2> HIDE DEF size
  <2> QED  BY <1>4, <2>1, <2>2
<1>8. CASE SmCopy
  <2>1. map' = map /\ cardPlus1' = 0 /\ last' = last  BY <1>8 DEF SmCopy
  <2>2. Moved(X, L)  BY <1>1, <2>1 DEF Moved
  <2> QED  BY <2>1, <2>2, StutterIsGood
<1>9. CASE SmReread
  <2>1. /\ Stores(Deserialized(map), X, L)
        /\ \A size \in Nat : ValidForm(Opened(map, size)) => Stores(Opened(map, size), X, L)
    BY <1>1, <1>3, RereadHolds
  <2>2. \/ Reread(Deserialized(map), "contiguous")
        \/ \E size \in Sizes : Reread(Opened(map, size), "wrapped")
    BY <1>9 DEF SmReread
  <2>3. CASE Reread(Deserialized(map), "contiguous")  BY <1>5, <2>1, <2>3
  <2>4. CASE \E size \in Sizes : Reread(Opened(map, size), "wrapped")
    <3>1. PICK size \in Sizes : Reread(Opened(map, size), "wrapped")  BY <2>4
    <3>2. ValidForm(Opened(map, size))  BY <3>1 DEF Reread
    <3> QED  BY <1>2, <1>5, <2>1, <3>1, <3>2
  <2> QED  BY <2>2, <2>3, <2>4
<1> QED  BY <1>6, <1>7, <1>8, <1>9

\* Every step.
LEMMA NextIsGood ==
  ASSUME NEW L, CallsBelow(L), Lives(L), [Next]_vars
  PROVE  Good(L)
<1>1. PICK X : Kept(X, L)  BY DEF Lives
<1>2. ASSUME NEW i \in Points, SmAdd(i) \/ SmRemove(i) \/ SmAddGrow(i)  PROVE Good(L)
  BY <1>1, <1>2, AddIsGood, WholeIsGood
<1>3. ASSUME NEW span \in Spans,
             SmRemoveRange(span[1], span[2]) \/ SmFlipRange(span[1], span[2])
      PROVE  Good(L)
  BY <1>1, <1>3, RangeIsGood
<1>4. CASE SmPop  BY <1>1, <1>4, PopIsGood
<1>5. CASE SmPopEmpty \/ SmClear \/ SmCardinality  BY <1>1, <1>5, WholeIsGood
<1>6. CASE \/ \E size \in Sizes : SmSetDataSize(size)
           \/ SmShrinkToFit \/ SmCopy \/ SmReread
  BY <1>1, <1>6, BufferIsGood
<1>7. CASE UNCHANGED vars
  <2>1. map' = map /\ cardPlus1' = cardPlus1 /\ last' = last  BY <1>7 DEF vars
  <2>2. Moved(X, L)  BY <1>1, <2>1 DEF Kept, Moved
  <2> QED  BY <1>1, <2>1, <2>2, StutterIsGood
<1> QED  BY <1>2, <1>3, <1>4, <1>5, <1>6, <1>7 DEF Next

----------------------------------------------------------------------------
(* What the client relies on.                                              *)

\* A map begins empty.
LEMMA InitLives ==
  ASSUME NEW L, CallsBelow(L), Init
  PROVE  Lives(L) /\ (TwoChunks(L) => Abstract!Init)
<1>1. PICK how \in Constructors, cap \in Buffers : map = Constructed(how, cap)
  BY DEF Init
<1>2. cardPlus1 = 0 /\ last = Answer("create", {}, 0)  BY DEF Init
<1>3. how # "sm_wrap"  BY DEF CallsBelow
<1>4. map = EmptyMap(cap)  BY <1>1, <1>3 DEF Constructed
<1>5. cap \in Nat /\ cap >= 1 /\ L \in Nat  BY ClientConstants, ClientIs
<1> DEFINE X == {}
<1>6. ChunkHolds(EmptyMap(cap), X, L)  BY <1>5, EmptyHolds
<1>7. X = {} /\ X \subseteq Indices  OBVIOUS
<1> HIDE DEF X
<1>8. Kept(X, L)  BY <1>2, <1>4, <1>6, <1>7 DEF Kept, Stores
<1>9. TwoChunks(L) => Members(map) = X  BY <1>8, KeptIs DEF SeesAll
<1>10. last = Abstract!Answer("create", {}, 0)  BY <1>2 DEF Abstract!Answer, Answer
<1>11. TwoChunks(L) => Abstract!Init  BY <1>7, <1>9, <1>10 DEF Abstract!Init
<1> QED  BY <1>8, <1>11 DEF Lives

\* Through every call, change of form and change of buffer the map stores a
\* set, every word of its buffer that is used is one of that set's, and a count
\* it remembers is the set's.
THEOREM MapLives ==
  ASSUME NEW CONSTANT L, CallsBelow(L)
  PROVE  Spec => []Lives(L)
<1>1. Init => Lives(L)  BY InitLives
<1>2. Lives(L) /\ [Next]_vars => Lives(L)'  BY NextIsGood DEF Good
<1> QED  BY <1>1, <1>2, PTL DEF Spec

\* FormIsValid: sm_validate holds after every call, refused ones included.
THEOREM FormStaysValid ==
  ASSUME NEW CONSTANT L, CallsBelow(L)
  PROVE  Spec => []FormIsValid
<1>1. Lives(L) => FormIsValid
  <2>1. ASSUME NEW X, Kept(X, L)  PROVE FormIsValid
    BY <2>1, StoresIsValid DEF Kept, FormIsValid
  <2> QED  BY <2>1 DEF Lives
<1> QED  BY <1>1, MapLives, PTL

\* CountAgrees: sm_cardinality, which adds up the descriptors, counts what
\* sm_contains answers for.
THEOREM CountStaysRight ==
  ASSUME NEW CONSTANT L, CallsBelow(L), SeesAll(L)
  PROVE  Spec => []CountAgrees
<1>1. Lives(L) => CountAgrees
  <2>1. ASSUME NEW X, Kept(X, L)  PROVE CountAgrees
    <3>1. Members(map) = X /\ Count(map) = Cardinality(X)  BY <2>1, KeptIs
    <3> QED  BY <3>1 DEF CountAgrees
  <2> QED  BY <2>1 DEF Lives
<1> QED  BY <1>1, MapLives, PTL

\* CacheIsFresh: m_card_plus1 is never the count of a set the map no longer
\* holds, though every call changes the set and only some drop the count.
THEOREM CacheStaysFresh ==
  ASSUME NEW CONSTANT L, CallsBelow(L), SeesAll(L)
  PROVE  Spec => []CacheIsFresh
<1>1. Lives(L) => CacheIsFresh
  <2>1. ASSUME NEW X, Kept(X, L)  PROVE CacheIsFresh
    <3>1. /\ Members(map) = X /\ Cardinality(X) \in Nat
          /\ cardPlus1 = 0 \/ cardPlus1 = Cardinality(X) + 1
      BY <2>1, KeptIs
    <3>2. CASE cardPlus1 = 0  BY <3>2 DEF CacheIsFresh
    <3>3. CASE cardPlus1 = Cardinality(X) + 1
      <4> DEFINE n == Cardinality(X)
      <4>1. cardPlus1 = n + 1 /\ n \in Nat  BY <3>1, <3>3
      <4> HIDE DEF n
      <4>2. cardPlus1 - 1 = n  BY <4>1
      <4> QED  BY <3>1, <4>2 DEF CacheIsFresh, n
    <3> QED  BY <3>1, <3>2, <3>3
  <2> QED  BY <2>1 DEF Lives
<1> QED  BY <1>1, MapLives, PTL

\* SmallerForm: with room to promote and to set a bit, sm_add leaves the smaller
\* of the forms it compares.
THEOREM AddsLeaveSmallerForm ==
  ASSUME NEW CONSTANT L, CallsBelow(L), SeesAll(L), FloorIs(9)
  PROVE  Spec => []SmallerForm
<1>1. ASSUME NEW X, Kept(X, L), map.cap >= GrowFloor, NEW i \in Points,
             NEW r, r = AddIndex(map, i)
      PROVE  SmallerOfTheTwo(r.map)
  <2>1. Stores(map, X, L) /\ X \subseteq Indices /\ map.cap \in Nat  BY <1>1, KeptIs
  <2>2. Covers(L) /\ i \in Nat /\ i < L /\ i \in Indices /\ L \in Nat  BY ClientIs
  <2>3. Adds(map, X, i, AddIndex(map, i), L)  BY <2>1, <2>2, AddIndexHolds
  <2>4. Adds(map, X, i, r, L)  BY <1>1, <2>3
  <2>5. map.cap >= SmallMaxWords + 9
    <3>1. SmallMaxWords \in Nat /\ GrowFloor \in Nat  BY SmallConstants, ClientConstants
    <3> QED  BY <1>1, <2>1, <3>1 DEF FloorIs
  <2> DEFINE Y == IF r.ok THEN X \cup {i} ELSE X
             q == r.map
  <2>6. Stores(q, Y, L) /\ LeanForm(map, q, Y)  BY <2>4, <2>5 DEF Adds
  <2>7. Y \subseteq Indices  BY <2>1, <2>2
  <2> HIDE DEF Y, q
  <2>8. Members(q) = Y /\ Y \subseteq 0 .. L - 1  BY <2>6, <2>7, MembersAre
  <2>9. SmallerOfTheTwo(q)
    <3>1. CASE IsSmall(q)  BY <2>6, <3>1 DEF LeanForm, SmallerOfTheTwo
    <3>2. CASE ~IsSmall(q)
      <4>1. LeanChunks(q, Y)  BY <2>6, <3>2 DEF LeanForm
      <4>2. ASSUME NEW k \in Y, k < SmallMaxBits, \A j \in Y : j <= k
            PROVE  q.used < HeaderWords + WordOf(k)
        <5>1. Y \in SUBSET Nat /\ k \in Nat  BY <2>2, <2>8
        <5>2. Max(Y) = k
          <6>1. Max(Y) \in Y /\ Max(Y) \in Nat /\ Max(Y) <= k /\ \A y \in Y : y <= Max(Y)
            BY <4>2, <5>1, MaxIsGreatest
          <6>2. k <= Max(Y)  BY <6>1
          <6> QED  BY <5>1, <6>1, <6>2
        <5>3. Y \subseteq 0 .. SmallMaxBits - 1
          <6>1. SmallMaxBits \in Nat  BY SmallCovers
          <6>2. \A y \in Y : y \in Nat /\ y <= k  BY <4>2, <5>1
          <6> QED  BY <4>2, <5>1, <6>1, <6>2
        <5> QED  BY <4>1, <5>2, <5>3 DEF LeanChunks
      <4>3. \A k \in Members(q) :
              k < SmallMaxBits /\ (\A j \in Members(q) : j <= k) =>
                q.used < HeaderWords + WordOf(k)
        BY <2>8, <4>2
      <4> QED  BY <3>2, <4>3 DEF SmallerOfTheTwo
    <3> QED  BY <3>1, <3>2
  <2> QED  BY <2>9 DEF q
<1>2. Lives(L) => SmallerForm  BY <1>1 DEF Lives, SmallerForm
<1> QED  BY <1>2, MapLives, PTL

\* GrowthSuffices: after one growth of sm_add_grow its second sm_add finds room,
\* whatever form it leaves and however little the buffer held.
THEOREM OneGrowthSuffices ==
  ASSUME NEW CONSTANT L, CallsBelow(L), FloorIs(10)
  PROVE  Spec => []GrowthSuffices
<1>1. ASSUME NEW X, Kept(X, L), NEW i \in Points, NEW r, r = AddIndex(map, i), ~r.ok
      PROVE  AddIndex(Grown(r.map), i).ok
  <2>1. Stores(map, X, L)  BY <1>1, KeptIs
  <2>2. Covers(L) /\ i \in Nat /\ i < L  BY ClientIs
  <2>3. Becomes(r, map, IF r.ok THEN X \cup {i} ELSE X, L)
    BY <1>1, <2>1, <2>2, AddBecomes
  <2> DEFINE m == r.map
             g == Grown(m)
  <2>4. Stores(m, X, L)  BY <1>1, <2>3 DEF Becomes
  <2> HIDE DEF m
  <2>5. /\ Stores(g, X, L) /\ g.cap = GrownSize(m) /\ g.used = m.used
        /\ GrownSize(m) \in Nat /\ GrownSize(m) >= GrowFloor /\ GrownSize(m) >= 2 * m.cap
    BY <2>4, GrownHolds
  <2>6. m.cap \in Nat /\ m.used \in Nat /\ m.used <= m.cap  BY <2>4, StoresIsMap
  <2> HIDE DEF g
  <2>7. g.cap >= SmallMaxWords + 9 /\ g.used + 6 <= g.cap
    <3>1. SmallMaxWords \in Nat /\ SmallMaxWords >= 1 /\ GrowFloor \in Nat
      BY SmallConstants, ClientConstants
    <3>2. GrowFloor >= SmallMaxWords + 10  BY DEF FloorIs
    <3>3. CASE m.cap >= 6  BY <2>5, <2>6, <3>1, <3>2, <3>3
    <3>4. CASE m.cap < 6  BY <2>5, <2>6, <3>1, <3>2, <3>4
    <3> QED  BY <2>6, <3>3, <3>4
  <2>8. Adds(g, X, i, AddIndex(g, i), L)  BY <2>2, <2>5, AddIndexHolds
  <2>9. AddIndex(g, i).ok  BY <2>7, <2>8 DEF Adds
  <2> QED  BY <2>9 DEF g, m
<1>2. Lives(L) => GrowthSuffices  BY <1>1 DEF Lives, GrowthSuffices
<1> QED  BY <1>2, MapLives, PTL

\* ImplementsBitSet: call by call the map does what BitSet promises.
THEOREM MapIsABitSet ==
  ASSUME NEW CONSTANT L, CallsBelow(L), TwoChunks(L), Forward
  PROVE  Spec => ImplementsBitSet
<1>1. Init => Abstract!Init  BY InitLives
<1>2. Lives(L) /\ [Next]_vars => [Abstract!Next]_(Abstract!vars)  BY NextIsGood DEF Good
<1> QED  BY <1>1, <1>2, MapLives, PTL DEF Spec, ImplementsBitSet, Abstract!Spec

\* What BitSet's last answer says of the set.
LEMMA AnswerStands ==
  ASSUME Abstract!Next
  PROVE  AnswersStand'
<1> DEFINE S == Members(map)
           T == Members(map)'
<1>1. Indices \subseteq Nat /\ Points \subseteq Indices  BY ClientConstants
<1>2. AnswersStand' =
        CASE last'.op = "add" -> last'.result # Refused => last'.about \cap T = last'.about
          [] last'.op \in {"remove", "pop_first", "pop_last", "remove_range"}
               -> last'.result # Refused => last'.about \cap T = {}
          [] last'.op \in {"create", "clear"} -> T = {}
          [] last'.op = "cardinality" -> Cardinality(T) = last'.result
          [] OTHER -> TRUE
  BY DEF AnswersStand
<1> HIDE DEF S, T
<1> USE DEF Abstract!Answer, Refused
<1>3. ASSUME NEW i \in Indices, Abstract!Add(i)  PROVE AnswersStand'
  <2>1. last' = [op |-> "add", about |-> {i}, result |-> i] /\ T = S \cup {i}
    BY <1>3 DEF Abstract!Add, S, T
  <2> QED  BY <1>2, <2>1
<1>4. ASSUME NEW i \in Indices, NEW op \in {"remove", "pop_first", "pop_last"},
             last' = [op |-> op, about |-> {i}, result |-> i], T = S \ {i}
      PROVE  AnswersStand'
  <2>1. last'.op = op /\ last'.about = {i} /\ op # "add"  BY <1>4
  <2>2. {i} \cap T = {}  BY <1>4
  <2> QED  BY <1>2, <2>1, <2>2
<1>5. ASSUME NEW op \in {"add", "remove", "pop_first", "pop_last"}, NEW about,
             Abstract!Refuse(op, about)
      PROVE  AnswersStand'
  <2>1. last'.op = op /\ last'.result = Refused  BY <1>5 DEF Abstract!Refuse
  <2> QED  BY <1>2, <2>1
<1>6. ASSUME NEW lo, NEW hi, NEW stop, Abstract!RemoveRange(lo, hi, stop)
      PROVE  AnswersStand'
  <2>1. /\ last' = [op |-> "remove_range", about |-> lo .. hi - 1,
                    result |-> IF stop = hi THEN 0 ELSE 0 - 1]
        /\ T = S \ (lo .. stop - 1)
    BY <1>6 DEF Abstract!RemoveRange, Abstract!Upto, S, T
  <2>2. last'.op = "remove_range" /\ (last'.result # Refused => stop = hi)
        /\ last'.about = lo .. hi - 1
    BY <2>1
  <2>3. last'.result # Refused => last'.about \cap T = {}  BY <2>1, <2>2
  <2> QED  BY <1>2, <2>2, <2>3
<1>7. ASSUME NEW lo, NEW hi, NEW stop, Abstract!FlipRange(lo, hi, stop)
      PROVE  AnswersStand'
  <2>1. last'.op = "flip_range"  BY <1>7 DEF Abstract!FlipRange, Abstract!Upto
  <2> QED  BY <1>2, <2>1
<1>8. CASE Abstract!Clear
  <2>1. last'.op = "clear" /\ T = {}  BY <1>8 DEF Abstract!Clear, T
  <2> QED  BY <1>2, <2>1
<1>9. CASE Abstract!CountMembers
  <2>1. Abstract!Cardinality(S) = Cardinality(S)  BY DEF Abstract!Cardinality, Cardinality
  <2>2. last' = [op |-> "cardinality", about |-> {}, result |-> Abstract!Cardinality(S)]
        /\ T = S
    BY <1>9 DEF Abstract!CountMembers, S, T
  <2>3. last'.op = "cardinality" /\ Cardinality(T) = last'.result  BY <2>1, <2>2
  <2> QED  BY <1>2, <2>3
<1>10. ASSUME NEW i \in Points, Abstract!Remove(i)  PROVE AnswersStand'
  <2>1. last' = [op |-> "remove", about |-> {i}, result |-> i] /\ T = S \ {i}
    BY <1>10 DEF Abstract!Remove, S, T
  <2> QED  BY <1>1, <1>4, <2>1
<1>11. ASSUME NEW i \in Indices, NEW op \in {"pop_first", "pop_last"}, Abstract!Pop(op, i)
       PROVE  AnswersStand'
  <2>1. last' = [op |-> op, about |-> {i}, result |-> i] /\ T = S \ {i}
    BY <1>11 DEF Abstract!Pop, S, T
  <2> QED  BY <1>1, <1>4, <2>1
<1> QED  BY <1>1, <1>3, <1>5, <1>6, <1>7, <1>8, <1>9, <1>10, <1>11 DEF Abstract!Next

\* AnswersStand: what the last call answered is so, whichever buffer the map was
\* moved to since.
THEOREM AnswersStayTrue ==
  ASSUME NEW CONSTANT L, CallsBelow(L), TwoChunks(L), Forward
  PROVE  Spec => []AnswersStand
<1>1. Init => AnswersStand
  <2>1. ASSUME Init  PROVE AnswersStand
    <3>1. Abstract!Init  BY <2>1, InitLives
    <3>2. Members(map) = {} /\ last.op = "create"
      BY <3>1 DEF Abstract!Init, Abstract!Answer
    <3> QED  BY <3>2 DEF AnswersStand
  <2> QED  BY <2>1
<1>2. AnswersStand /\ [Abstract!Next]_(Abstract!vars) => AnswersStand'
  <2>1. ASSUME AnswersStand, UNCHANGED Abstract!vars  PROVE AnswersStand'
    <3>1. last' = last /\ Members(map)' = Members(map)  BY <2>1 DEF Abstract!vars
    <3> QED  BY <2>1, <3>1 DEF AnswersStand
  <2> QED  BY <2>1, AnswerStands
<1>3. Lives(L) /\ [Next]_vars => [Abstract!Next]_(Abstract!vars)  BY NextIsGood DEF Good
<1> QED  BY <1>1, <1>2, <1>3, MapLives, PTL DEF Spec
=============================================================================
