-------------------------- MODULE EmitterTheorems --------------------------
(***************************************************************************)
(* The maps clients build hold a set, and so does what the emitter writes: *)
(* each of its steps adds to the result the indices it is given, keeps the *)
(* chunks in order and canonical, and counts their words.                  *)
(***************************************************************************)
EXTENDS Operands, SmallTheorems

----------------------------------------------------------------------------
(* Operands.                                                               *)

\* The indices the clients add all lie below a boundary that is no larger than
\* the largest run.
OperandsBelow(L) == Covers(L) /\ \A h \in Histories : h[1] \subseteq 0 .. L - 1

\* The loops that build an operand.
LEMMA EachLoops ==
  ASSUME NEW m, NEW S
  PROVE  /\ Each(AddIndex, m, S) = Looped("add each", S, m, RLEMax + 1)
         /\ Each(RemoveIndex, m, S) = Looped("remove each", S, m, RLEMax + 1)
<1> DEFINE n == RLEMax + 1
           s == [k \in 1 .. n |-> k]
           G(it, t) == IF s[Max(t)] - 1 \in S
                       THEN AddIndex(it[t \ {Max(t)}], s[Max(t)] - 1).map ELSE it[t \ {Max(t)}]
           H(it, t) == IF s[Max(t)] - 1 \in S
                       THEN RemoveIndex(it[t \ {Max(t)}], s[Max(t)] - 1).map
                       ELSE it[t \ {Max(t)}]
           A(it) == it = [t \in SUBSET DOMAIN s |-> IF t = {} THEN m ELSE G(it, t)]
           B(it) == it = [t \in SUBSET DOMAIN s |-> IF t = {} THEN m ELSE H(it, t)]
<1>0. n \in Nat  BY ChunkConstants
<1>1. Each(AddIndex, m, S) = (CHOOSE it : A(it))[DOMAIN s]
  BY DEF Each, FoldLeft, MapThenFoldSet
<1>2. Each(RemoveIndex, m, S) = (CHOOSE it : B(it))[DOMAIN s]
  BY DEF Each, FoldLeft, MapThenFoldSet
<1>3. DOMAIN s = 1 .. n  OBVIOUS
<1>4. ASSUME NEW it
      PROVE  /\ A(it) <=> Iterates(it, "add each", S, m, n)
             /\ B(it) <=> Iterates(it, "remove each", S, m, n)
  <2>1. ASSUME NEW t \in SUBSET (1 .. n), t # {}
        PROVE  /\ LoopBody("add each", S, it[t \ {Max(t)}], Max(t)) = G(it, t)
               /\ LoopBody("remove each", S, it[t \ {Max(t)}], Max(t)) = H(it, t)
    <3>1. s[Max(t)] = Max(t)  BY <1>0, <2>1, MaxOfPart
    <3> HIDE DEF s
    <3> QED  BY <3>1 DEF LoopBody
  <2> HIDE DEF s, n, G, H
  <2> QED  BY <1>3, <2>1 DEF Iterates
<1> HIDE DEF A, B, s, G, H, n
<1>5. /\ (CHOOSE it : A(it)) = (CHOOSE it : Iterates(it, "add each", S, m, n))
      /\ (CHOOSE it : B(it)) = (CHOOSE it : Iterates(it, "remove each", S, m, n))
  BY <1>4, Zenon
<1> QED  BY <1>1, <1>2, <1>3, <1>5 DEF Looped, n

\* An addition, done or refused, leaves a map that stores a set, and so does a
\* removal.
LEMMA StepStores ==
  ASSUME NEW m, NEW L, Covers(L), \E X : Stores(m, X, L), NEW i \in Nat
  PROVE  /\ i < L => \E X : Stores(AddIndex(m, i).map, X, L)
         /\ \E X : Stores(RemoveIndex(m, i).map, X, L)
<1>1. PICK X : Stores(m, X, L)  OBVIOUS
<1>2. ASSUME i < L  PROVE \E Y : Stores(AddIndex(m, i).map, Y, L)
  <2>1. Adds(m, X, i, AddIndex(m, i), L)  BY <1>1, <1>2, AddIndexHolds
  <2> QED  BY <2>1 DEF Adds
<1>3. \E Y : Stores(RemoveIndex(m, i).map, Y, L)
  <2>1. Removes(m, X, i, RemoveIndex(m, i), L)  BY <1>1, RemoveIndexHolds
  <2> QED  BY <2>1 DEF Removes
<1> QED  BY <1>2, <1>3

\* The two loops, of indices below the limit.
Loops(loop, S, L) == (loop = "add each" /\ S \subseteq 0 .. L - 1) \/ loop = "remove each"

\* One turn of either keeps that.
LEMMA TurnStores ==
  ASSUME NEW r, NEW L, Covers(L), \E X : Stores(r, X, L), NEW loop, NEW S,
         Loops(loop, S, L), NEW k \in Nat, k >= 1
  PROVE  \E X : Stores(LoopBody(loop, S, r, k), X, L)
<1> DEFINE i == k - 1
<1>1. i \in Nat /\ L \in Nat  BY DEF Covers, Limit
<1>2. /\ i < L => \E X : Stores(AddIndex(r, i).map, X, L)
      /\ \E X : Stores(RemoveIndex(r, i).map, X, L)
  <2> HIDE DEF i
  <2> QED  BY <1>1, StepStores
<1>3. CASE loop = "add each" /\ S \subseteq 0 .. L - 1
  <2>1. LoopBody(loop, S, r, k) = IF i \in S THEN AddIndex(r, i).map ELSE r
    BY <1>3 DEF LoopBody
  <2> HIDE DEF i
  <2>2. i \in S => i < L
    <3>1. S \subseteq 0 .. L - 1  BY <1>3
    <3> QED  BY <1>1, <3>1
  <2>3. CASE i \in S  BY <1>2, <2>1, <2>2, <2>3
  <2>4. CASE i \notin S  BY <2>1, <2>4
  <2> QED  BY <2>3, <2>4
<1>4. CASE loop = "remove each"
  <2>1. LoopBody(loop, S, r, k) = IF i \in S THEN RemoveIndex(r, i).map ELSE r
    BY <1>4 DEF LoopBody
  <2> HIDE DEF i
  <2>3. CASE i \in S  BY <1>2, <2>1, <2>3
  <2>4. CASE i \notin S  BY <2>1, <2>4
  <2> QED  BY <2>3, <2>4
<1> QED  BY <1>3, <1>4 DEF Loops

\* So does any number of them.
LEMMA TurnsStore ==
  ASSUME NEW m, NEW L, Covers(L), \E X : Stores(m, X, L), NEW loop, NEW S,
         Loops(loop, S, L), NEW n \in Nat
  PROVE  \E X : Stores(Looped(loop, S, m, n), X, L)
<1>1. PICK f : /\ Looped(loop, S, m, n) = f[n] /\ f[0] = m
               /\ \A k \in 1 .. n : f[k] = LoopBody(loop, S, f[k - 1], k)
  BY LoopUnfolds
<1> DEFINE Keep(r) == \E X : Stores(r, X, L)
           T == {k \in 0 .. n : Keep(f[k])}
<1>2. Keep(m)  OBVIOUS
<1>3. \A k \in 0 .. n : k \in T <=> Keep(f[k])  OBVIOUS
<1>4. ASSUME NEW r, Keep(r), NEW k \in Nat, k >= 1  PROVE Keep(LoopBody(loop, S, r, k))
  BY <1>4, TurnStores
<1> HIDE DEF T, Keep
<1>5. 0 \in T
  <2>1. 0 \in 0 .. n  OBVIOUS
  <2> QED  BY <1>1, <1>2, <1>3, <2>1
<1>6. ASSUME NEW k \in 1 .. n, k - 1 \in T  PROVE k \in T
  <2>1. k \in Nat /\ k >= 1 /\ k - 1 \in 0 .. n /\ k \in 0 .. n  OBVIOUS
  <2>2. Keep(f[k - 1])  BY <1>3, <1>6, <2>1
  <2>3. Keep(LoopBody(loop, S, f[k - 1], k))  BY <1>4, <2>1, <2>2
  <2>4. Keep(f[k])  BY <1>1, <2>3
  <2> QED  BY <1>3, <2>1, <2>4
<1>7. \A k \in 0 .. n : k \in T  BY <1>5, <1>6, StepByStep
<1>8. n \in 0 .. n  OBVIOUS
<1>9. Keep(f[n])  BY <1>3, <1>7, <1>8
<1> QED  BY <1>1, <1>9 DEF Keep

\* What the loops make of a map that stores a set.
LEMMA LoopStores ==
  ASSUME NEW m, NEW L, Covers(L), \E X : Stores(m, X, L), NEW S
  PROVE  /\ S \subseteq 0 .. L - 1 => \E X : Stores(Each(AddIndex, m, S), X, L)
         /\ \E X : Stores(Each(RemoveIndex, m, S), X, L)
<1> DEFINE n == RLEMax + 1
           add == "add each"
           remove == "remove each"
<1>1. n \in Nat  BY ChunkConstants
<1>2. /\ S \subseteq 0 .. L - 1 => Loops(add, S, L)
      /\ Loops(remove, S, L)
  BY DEF Loops
<1>3. /\ Each(AddIndex, m, S) = Looped(add, S, m, n)
      /\ Each(RemoveIndex, m, S) = Looped(remove, S, m, n)
  BY EachLoops
<1> HIDE DEF n, add, remove
<1>4. S \subseteq 0 .. L - 1 => \E X : Stores(Looped(add, S, m, n), X, L)
  BY <1>1, <1>2, TurnsStore
<1>5. \E X : Stores(Looped(remove, S, m, n), X, L)
  BY <1>1, <1>2, TurnsStore
<1> QED  BY <1>3, <1>4, <1>5

\* What clients build stores a set, and so does what an operation that builds a
\* new map sees of it.
LEMMA OperandStores ==
  ASSUME NEW L, OperandsBelow(L), NEW h \in Histories
  PROVE  /\ \E X : Stores(Built(h), X, L)
         /\ View(Built(h)).chunks # << >> => \E X : ChunkHolds(View(Built(h)), X, L)
<1> DEFINE e == EmptyMap(Room)
           b == Each(AddIndex, e, h[1])
           m == Built(h)
           c == Copied(m)
<1>1. Covers(L) /\ L \in Nat /\ h[1] \subseteq 0 .. L - 1
  BY DEF OperandsBelow, Covers, Limit
<1>2. \E X : Stores(e, X, L)
  <2>1. Room \in Nat /\ Room >= 1  BY HistoriesAssumption
  <2>2. ChunkHolds(EmptyMap(Room), {}, L)  BY <1>1, <2>1, EmptyHolds
  <2> QED  BY <2>2 DEF Stores
<1> HIDE DEF e
<1>3. \E X : Stores(b, X, L)  BY <1>1, <1>2, LoopStores
<1>4. m = Each(RemoveIndex, b, h[2])  BY DEF Built, e
<1> HIDE DEF b, m
<1>5. PICK X : Stores(m, X, L)  BY <1>1, <1>3, <1>4, LoopStores
<1>6. CASE IsSmall(m)
  <2>1. SmallBits(m.words) \subseteq 0 .. L - 1
    <3>1. SmallHolds(m, X)  BY <1>5, <1>6, ChunkFields DEF Stores
    <3>2. WordsOK(m.words)  BY <3>1, SmallFields
    <3>3. SmallBits(m.words) \subseteq 0 .. SmallMaxBits - 1  BY <3>2, SmallHasBits
    <3>4. ChunkCap <= L /\ SmallMaxBits \in Nat /\ SmallMaxBits < ChunkCap /\ ChunkCap \in Nat
      BY <1>1, SmallCovers, ChunkCapPositive DEF Covers
    <3> QED  BY <1>1, <3>3, <3>4
  <2>2. c = Each(AddIndex, e, SmallBits(m.words))  BY DEF Copied, e
  <2> HIDE DEF c
  <2>3. PICK Y : Stores(c, Y, L)  BY <1>1, <1>2, <2>1, <2>2, LoopStores
  <2>4. View(m) = Materialized(c)  BY <1>6 DEF View, c
  <2>5. CASE IsSmall(c)
    <3>1. SmallHolds(c, Y)  BY <2>3, <2>5, ChunkFields DEF Stores
    <3>2. c.chunks = << >>  BY <3>1, SmallFields
    <3>3. CASE c.words = << >>
      <4>1. Materialized(c) = c  BY <3>3 DEF Materialized
      <4> QED  BY <1>5, <2>4, <3>2, <4>1 DEF m
    <3>4. CASE c.words # << >>
      <4>1. Materialized(c) = Promote(c).map  BY <2>5, <3>4 DEF Materialized
      <4>2. /\ Promote(c).ok => ChunkHolds(Promote(c).map, Y, L)
            /\ ~Promote(c).ok => Promote(c).map = c
        BY <1>1, <3>1, PromoteHolds
      <4>3. View(m).chunks # << >> => ChunkHolds(View(m), Y, L)
        BY <2>4, <3>2, <4>1, <4>2
      <4> QED  BY <1>5, <4>3 DEF m
    <3> QED  BY <3>3, <3>4
  <2>6. CASE ~IsSmall(c)
    <3>1. ChunkHolds(c, Y, L)  BY <2>3, <2>6, SmallFields DEF Stores
    <3>2. Materialized(c) = c  BY <2>6 DEF Materialized
    <3> QED  BY <1>5, <2>4, <3>1, <3>2 DEF m
  <2> QED  BY <2>5, <2>6
<1>7. CASE ~IsSmall(m)
  <2>1. ChunkHolds(m, X, L)  BY <1>5, <1>7, SmallFields DEF Stores
  <2>2. View(m) = m  BY <1>7 DEF View
  <2> QED  BY <1>5, <2>1, <2>2 DEF m
<1> QED  BY <1>6, <1>7

----------------------------------------------------------------------------
(* What is written at the end of a result.                                 *)

ResultMap(s, w, size) ==
  [mode |-> "chunk", words |-> << >>, chunks |-> s, used |-> w, cap |-> size]

\* Other fields in such a record.
LEMMA ResultFields ==
  ASSUME NEW s, NEW w, NEW size, NEW t, NEW v, NEW more
  PROVE  /\ ResultMap(s, w, size).chunks = s /\ ResultMap(s, w, size).used = w
         /\ ResultMap(s, w, size).cap = size
         /\ Given(ResultMap(s, w, size), t, v) = ResultMap(t, v, size)
         /\ [ResultMap(s, w, size) EXCEPT !.cap = more] = ResultMap(s, w, more)
<1> DEFINE m == ResultMap(s, w, size)
           m1 == [m EXCEPT !.chunks = t]
<1>1. m1 = ResultMap(t, w, size)  BY DEF ResultMap
<1>2. [m EXCEPT !.chunks = t, !.used = v] = [m1 EXCEPT !.used = v]  BY Zenon
<1> HIDE DEF m1
<1>3. [m1 EXCEPT !.used = v] = ResultMap(t, v, size)  BY <1>1 DEF ResultMap
<1>4. [m EXCEPT !.chunks = t, !.used = v] = ResultMap(t, v, size)  BY <1>2, <1>3
<1>5. [m EXCEPT !.cap = more] = ResultMap(s, w, more)  BY DEF ResultMap
<1>6. m.chunks = s /\ m.used = w /\ m.cap = size  BY DEF ResultMap
<1> QED  BY <1>4, <1>5, <1>6 DEF m, Given

\* m is a result that holds X, and its chunks end at F or before.
Written(m, X, F) == F \in Nat /\ ChunkHolds(m, X, F) /\ LeastResult <= m.cap

\* What that says of its fields.
LEMMA WrittenFields ==
  ASSUME NEW m, NEW X, NEW F, Written(m, X, F)
  PROVE  /\ F \in Nat /\ m = ResultMap(m.chunks, m.used, m.cap)
         /\ StreamOK(m.chunks, 0, F) /\ Encodes(m.chunks, X, m.used - 1)
         /\ m.chunks \in Seq(Chunks) /\ Len(m.chunks) \in Nat
         /\ m.used \in Nat /\ 1 <= m.used /\ m.used <= m.cap
         /\ m.cap \in Nat /\ LeastResult <= m.cap
         /\ LeastResult \in Nat /\ GrowSlack \in Nat
<1>1. ChunkHolds(m, X, F) /\ F \in Nat  BY DEF Written
<1>2. /\ m = Full(Plain(m))
      /\ Plain(m).chunks = m.chunks /\ Plain(m).used = m.used /\ Plain(m).cap = m.cap
      /\ StreamOK(m.chunks, 0, F) /\ Encodes(m.chunks, X, m.used - 1)
      /\ m.used \in Nat /\ m.cap \in Nat /\ 1 <= m.used /\ m.used <= m.cap
  BY <1>1, ChunkFields
<1>3. m = ResultMap(m.chunks, m.used, m.cap)  BY <1>2 DEF Full, ResultMap
<1>4. m.chunks \in Seq(Chunks) /\ Len(m.chunks) \in Nat
  BY <1>2, LenProperties DEF StreamOK
<1> QED  BY <1>1, <1>2, <1>3, <1>4, ResultConstants DEF Written

\* And what fields make such a result.
Writable(s, w, size, X, F) ==
  /\ F \in Nat /\ StreamOK(s, 0, F) /\ Encodes(s, X, w - 1)
  /\ w \in Int /\ w <= size /\ size \in Nat /\ LeastResult <= size
\* A result of those fields is well written.
LEMMA WrittenFrom ==
  ASSUME NEW s, NEW w, NEW size, NEW X, NEW F, Writable(s, w, size, X, F)
  PROVE  /\ Written(ResultMap(s, w, size), X, F)
         /\ ResultMap(s, w, size).chunks = s /\ ResultMap(s, w, size).used = w
         /\ ResultMap(s, w, size).cap = size
<1> DEFINE q == [chunks |-> s, used |-> w, cap |-> size]
           m == ResultMap(s, w, size)
<1>1. /\ F \in Nat /\ StreamOK(s, 0, F) /\ Encodes(s, X, w - 1)
      /\ w \in Int /\ w <= size /\ size \in Nat /\ LeastResult <= size
      /\ s \in Seq(Chunks)
  BY DEF Writable, StreamOK
<1>2. /\ q.chunks = s /\ q.used = w /\ q.cap = size
      /\ q \in [chunks : Seq(Chunks), used : Int, cap : Nat]
      /\ q = [chunks |-> q.chunks, used |-> q.used, cap |-> q.cap]
  BY <1>1
<1>3. m = Full(q)  BY DEF Full, ResultMap
<1>4. /\ m.chunks = s /\ m.used = w /\ m.cap = size  BY DEF ResultMap
<1> HIDE DEF m, q
<1>5. Plain(m) = q  BY <1>2, <1>4 DEF Plain
<1>6. Fits(q, X, F)  BY <1>1, <1>2 DEF Fits, Keeps, MapOK, HeaderWords
<1>7. Written(m, X, F)  BY <1>1, <1>3, <1>4, <1>5, <1>6 DEF Written, ChunkHolds
<1> QED  BY <1>4, <1>7 DEF m

\* It is written up to any later point.
LEMMA WrittenFurther ==
  ASSUME NEW m, NEW X, NEW F, Written(m, X, F), NEW G \in Nat, F <= G
  PROVE  Written(m, X, G)
<1>1. /\ F \in Nat /\ m = ResultMap(m.chunks, m.used, m.cap)
      /\ StreamOK(m.chunks, 0, F) /\ Encodes(m.chunks, X, m.used - 1)
      /\ m.used \in Nat /\ m.used <= m.cap
      /\ m.cap \in Nat /\ LeastResult <= m.cap
  BY WrittenFields
<1>2. StreamOK(m.chunks, 0, G)
  <2>1. F \in Int /\ G \in Int /\ 0 \in Int /\ 0 <= 0  BY <1>1
  <2> QED  BY <1>1, <2>1, WiderStream
<1>3. Writable(m.chunks, m.used, m.cap, X, G)  BY <1>1, <1>2 DEF Writable
<1> QED  BY <1>1, <1>3, WrittenFrom

\* A new result, for any number of words.
LEMMA NewIsWritten ==
  ASSUME NEW words \in Nat
  PROVE  Written(NewResult(words), {}, 0) /\ NewResult(words).chunks = << >>
<1> DEFINE size == Greater(words, LeastResult)
<1>1. size \in Nat /\ size >= 1 /\ LeastResult <= size
  BY ResultConstants DEF Greater
<1>2. NewResult(words) = EmptyMap(size)  BY DEF NewResult
<1> HIDE DEF size
<1>3. 0 \in Nat  OBVIOUS
<1>4. /\ ChunkHolds(EmptyMap(size), {}, 0)
      /\ EmptyMap(size).cap = size /\ EmptyMap(size).chunks = << >>
  BY <1>1, <1>3, EmptyHolds
<1> QED  BY <1>1, <1>2, <1>3, <1>4 DEF Written

\* The room asked for is there afterwards.
LEMMA EnsuredWritten ==
  ASSUME NEW m, NEW X, NEW F, Written(m, X, F), NEW need \in Nat
  PROVE  /\ Ensured(m, need) = ResultMap(m.chunks, m.used, Ensured(m, need).cap)
         /\ Ensured(m, need).cap \in Nat /\ m.cap <= Ensured(m, need).cap
         /\ m.used + need <= Ensured(m, need).cap
<1> DEFINE size == IF m.used + need <= m.cap THEN m.cap
                   ELSE m.cap + (IF m.cap \div 2 > need THEN m.cap \div 2
                                 ELSE need + GrowSlack)
<1>1. /\ m = ResultMap(m.chunks, m.used, m.cap)
      /\ m.used \in Nat /\ m.used <= m.cap /\ m.cap \in Nat /\ GrowSlack \in Nat
  BY WrittenFields
<1>2. Ensured(m, need) = ResultMap(m.chunks, m.used, size)
  BY <1>1 DEF Ensured, ResultMap
<1>3. Ensured(m, need).cap = size  BY <1>2 DEF ResultMap
<1>4. size \in Nat /\ m.cap <= size /\ m.used + need <= size
  <2>1. m.cap \div 2 \in Nat  BY <1>1
  <2> QED  BY <1>1, <2>1
<1> QED  BY <1>2, <1>3, <1>4

\* A chunk that begins where the result ends, or later, may follow.
Follows(c, F, G) == Canonical(c) /\ F <= c.start /\ EndOf(c) <= G /\ G \in Nat
\* The result then holds the indices of both.
LEMMA AppendChunkWritten ==
  ASSUME NEW m, NEW X, NEW F, Written(m, X, F), NEW c, NEW G, Follows(c, F, G)
  PROVE  /\ Written(AppendChunk(m, c), X \cup BitsOf(c), G)
         /\ AppendChunk(m, c).chunks = Append(m.chunks, c)
<1> DEFINE need == 1 + Size(c)
           e == Ensured(m, need)
           s == m.chunks \o << c >>
           B == BitsOf(c)
<1>1. /\ F \in Nat /\ StreamOK(m.chunks, 0, F) /\ Encodes(m.chunks, X, m.used - 1)
      /\ m.chunks \in Seq(Chunks) /\ m.used \in Nat /\ m.cap \in Nat
      /\ LeastResult <= m.cap /\ LeastResult \in Nat
  BY WrittenFields
<1>2. /\ Canonical(c) /\ F <= c.start /\ EndOf(c) <= G /\ G \in Nat
      /\ ChunkOK(c) /\ c \in Chunks
  BY DEF Follows, Canonical, ChunkOK
<1>3. need \in Nat  BY SizeIsNat
<1>4. Encodes(<< c >>, B, need)  BY <1>2, HoldsOne
<1> HIDE DEF need, B
<1>5. /\ e = ResultMap(m.chunks, m.used, e.cap) /\ e.cap \in Nat
      /\ m.cap <= e.cap /\ m.used + need <= e.cap
  BY <1>3, EnsuredWritten
<1>6. Append(m.chunks, c) = s  BY <1>1, <1>2, AppendIsConcat
<1>7. AppendChunk(m, c) = [e EXCEPT !.chunks = Append(@, c), !.used = @ + need]
  BY DEF AppendChunk, AppendTo, need
<1> HIDE DEF e, s
<1>8. AppendChunk(m, c) = ResultMap(s, m.used + need, e.cap)
  <2>1. e.chunks = m.chunks /\ e.used = m.used  BY <1>5 DEF ResultMap
  <2>2. AppendChunk(m, c) = Given(e, s, m.used + need)
    BY <1>6, <1>7, <2>1 DEF Given
  <2>3. Given(ResultMap(m.chunks, m.used, e.cap), s, m.used + need)
          = ResultMap(s, m.used + need, e.cap)
    BY ResultFields
  <2> QED  BY <1>5, <2>2, <2>3
<1>9. StreamOK(s, 0, G)
  <2>1. F \in Int /\ G \in Int /\ 0 \in Int /\ 0 <= F  BY <1>1, <1>2
  <2>2. F <= G
    <3>1. c.start \in Nat /\ EndOf(c) \in Nat /\ c.start + ChunkCap <= EndOf(c)
          /\ ChunkCap \in Nat
      BY <1>2, ChunkExtent, ChunkCapPositive
    <3> QED  BY <1>1, <1>2, <3>1
  <2>3. StreamOK(<< c >>, F, G)  BY <1>2, <2>1, OneChunkStream
  <2> QED  BY <1>1, <2>1, <2>2, <2>3, ConcatStream DEF s
<1>10. Encodes(s, X \cup B, m.used - 1 + need)  BY <1>1, <1>4, HoldsConcat DEF s
<1>11. m.used - 1 + need = m.used + need - 1 /\ m.used + need \in Int
       /\ LeastResult <= e.cap
  BY <1>1, <1>3, <1>5
<1>12. Writable(s, m.used + need, e.cap, X \cup B, G)
  <2> DEFINE u == m.used + need
             v == m.used - 1 + need
             Y == X \cup B
  <2>0. v = u - 1  BY <1>1, <1>3
  <2>4. Encodes(s, Y, v)  BY <1>10
  <2>2. u \in Int /\ u <= e.cap /\ e.cap \in Nat /\ G \in Nat /\ LeastResult <= e.cap
    BY <1>2, <1>5, <1>11
  <2> HIDE DEF u, v, Y
  <2>1. Encodes(s, Y, u - 1)  BY <2>0, <2>4
  <2>3. Writable(s, u, e.cap, Y, G)  BY <1>9, <2>1, <2>2 DEF Writable
  <2> QED  BY <2>3 DEF u, Y
<1>13. /\ Written(ResultMap(s, m.used + need, e.cap), X \cup B, G)
       /\ ResultMap(s, m.used + need, e.cap).chunks = s
  BY <1>12, WrittenFrom
<1> QED  BY <1>6, <1>8, <1>13 DEF B

----------------------------------------------------------------------------
(* A piece of words becomes a sparse chunk of the same bits.               *)

\* A piece that answers for its whole window.
IsWhole(p) ==
  /\ p = Piece(p.start, p.bits, Vec)
  /\ p.start \in Nat /\ Boundary(p.start) /\ p.bits \subseteq WindowBits
PieceBits(p) == {x \in Nat : x - p.start \in p.bits}

\* The flags of a whole piece.
LEMMA WholeFlags ==
  ASSUME NEW p, IsWhole(p)
  PROVE  /\ EncodedFlags(p) \in [Vec -> Flag]
         /\ \A v \in Vec :
              LET word == {b \in Bit : v * BitsPerVector + b \in p.bits}
              IN Word(p, v) = word /\ EncodedFlags(p)[v] = FlagOf(word)
<1> DEFINE W(v) == {b \in Bit : v * BitsPerVector + b \in p.bits}
<1>1. p.slots = Vec  BY DEF IsWhole, Piece
<1>2. ASSUME NEW v \in Vec
      PROVE  Word(p, v) = W(v) /\ EncodedFlags(p)[v] = FlagOf(W(v)) /\ FlagOf(W(v)) \in Flag
  BY <1>1 DEF Word, EncodedFlags, FlagOf, Flag
<1>3. EncodedFlags(p) = [v \in Vec |-> EncodedFlags(p)[v]]  BY DEF EncodedFlags
<1>4. \A v \in Vec : EncodedFlags(p)[v] \in Flag  BY <1>2
<1>5. EncodedFlags(p) \in [Vec -> Flag]  BY <1>3, <1>4, Zenon
<1> QED  BY <1>2, <1>5

\* The mixed vectors in order: each payload word's, and each vector's word.
LEMMA MixedInOrder ==
  ASSUME NEW flag
  PROVE  LET c == [flag |-> flag]
         IN /\ \A v \in Mixed(flag) :
                 /\ Position(c, v) \in 1 .. Cardinality(Mixed(flag))
                 /\ NthMixed(flag, Position(c, v)) = v
            /\ \A n \in 1 .. Cardinality(Mixed(flag)) : NthMixed(flag, n) \in Mixed(flag)
<1> DEFINE c == [flag |-> flag]
           M == Mixed(flag)
           size == Cardinality(M)
           f == [v \in M |-> Position(c, v)]
<1>1. c.flag = flag  OBVIOUS
<1>2. M \subseteq Vec /\ IsFiniteSet(M) /\ size \in Nat  BY MixedFinite
<1> HIDE DEF c
<1>3. ASSUME NEW v \in M
      PROVE  /\ Position(c, v) \in Nat /\ Cardinality({u \in M : u < v}) \in Nat
             /\ Position(c, v) = 1 + Cardinality({u \in M : u < v})
             /\ Position(c, v) \in 1 .. size
  <2>1. /\ IsFiniteSet({u \in M : u < v})
        /\ Cardinality({u \in M : u < v}) \in Nat
        /\ Position(c, v) = 1 + Cardinality({u \in M : u < v})
    BY <1>1, <1>2, PositionCounts
  <2>2. Cardinality({u \in M : u < v}) < size
    <3>1. {u \in M : u < v} \subseteq M /\ v \in M /\ v \notin {u \in M : u < v}
      BY <1>2 DEF Vec
    <3>2. {u \in M : u < v} # M  BY <3>1
    <3> QED  BY <1>2, <2>1, <3>1, <3>2, FS_Subset
  <2> QED  BY <1>2, <2>1, <2>2
<1>4. ASSUME NEW u \in M, NEW v \in M, Position(c, u) = Position(c, v)  PROVE u = v
  <2>1. u \in Vec /\ v \in Vec /\ u \in Mixed(c.flag) /\ v \in Mixed(c.flag)
    BY <1>1, <1>2
  <2>2. Position(c, u) \in Nat /\ Position(c, v) \in Nat  BY <1>3
  <2>3. CASE u < v
    <3>1. Position(c, u) < Position(c, v)  BY <2>1, <2>3, PositionAscends
    <3> QED  BY <1>4, <2>2, <3>1
  <2>4. CASE v < u
    <3>1. Position(c, v) < Position(c, u)  BY <2>1, <2>4, PositionAscends
    <3> QED  BY <1>4, <2>2, <3>1
  <2>5. u < v \/ v < u \/ u = v  BY <2>1 DEF Vec
  <2> QED  BY <2>3, <2>4, <2>5
<1>5. \A n \in 1 .. size : \E v \in M : Position(c, v) = n
  <2>1. f \in [M -> 1 .. size]  BY <1>3
  <2>2. \A u, v \in M : f[u] = f[v] => u = v  BY <1>4
  <2> HIDE DEF f
  <2>3. f \in Injection(M, 1 .. size)  BY <2>1, <2>2 DEF Injection, IsInjective
  <2>4. IsFiniteSet(1 .. size) /\ Cardinality(1 .. size) = size
    <3>1. 1 \in Int /\ size \in Int  BY <1>2
    <3>2. /\ IsFiniteSet(1 .. size)
          /\ Cardinality(1 .. size) = IF 1 > size THEN 0 ELSE size - 1 + 1
      BY <3>1, FS_Interval
    <3> QED  BY <1>2, <3>2
  <2>5. f \in Surjection(M, 1 .. size)  BY <2>3, <2>4, FS_Injection
  <2>6. \A n \in 1 .. size : \E v \in M : f[v] = n
    BY <2>5 DEF Surjection
  <2> QED  BY <2>6 DEF f
<1> HIDE DEF f
<1>6. ASSUME NEW v \in M  PROVE NthMixed(flag, Position(c, v)) = v
  <2> DEFINE n == Position(c, v)
             At(u) == u \in M /\ Cardinality({w \in M : w < u}) = n - 1
  <2>1. At(v) /\ n \in Nat
    <3>1. /\ n \in Nat /\ Cardinality({w \in M : w < v}) \in Nat
          /\ n = 1 + Cardinality({w \in M : w < v})
      BY <1>3
    <3> HIDE DEF n
    <3>2. Cardinality({w \in M : w < v}) = n - 1  BY <3>1
    <3> QED  BY <3>1, <3>2 DEF n
  <2>2. NthMixed(flag, n) = CHOOSE u \in M : Cardinality({w \in M : w < u}) = n - 1
    BY DEF NthMixed
  <2>3. ASSUME NEW u, At(u)  PROVE u = v
    <3>1. Position(c, u) = 1 + Cardinality({w \in M : w < u})
      BY <1>3, <2>3
    <3>2. Position(c, u) = 1 + (n - 1)  BY <2>3, <3>1
    <3>3. Position(c, u) = n  BY <2>1, <3>2
    <3> QED  BY <1>4, <2>3, <3>3
  <2> HIDE DEF n
  <2> DEFINE z == CHOOSE u \in M : Cardinality({w \in M : w < u}) = n - 1
  <2>4. At(z)  BY <2>1
  <2> HIDE DEF z
  <2>5. z = v  BY <2>3, <2>4
  <2> QED  BY <2>2, <2>5 DEF z, n
<1>7. ASSUME NEW n \in 1 .. size  PROVE NthMixed(flag, n) \in M
  <2>1. PICK v \in M : Position(c, v) = n  BY <1>5
  <2> QED  BY <1>6, <2>1
<1> QED  BY <1>3, <1>6, <1>7 DEF c

\* A whole piece is encoded faithfully, and its payload has no plain word.
LEMMA EncodedIs ==
  ASSUME NEW p, IsWhole(p)
  PROVE  /\ SparseOK(Encoded(p)) /\ ProperWords(Encoded(p))
         /\ Encoded(p).start = p.start
         /\ \A k \in WindowBits : IsSet(Encoded(p), k) <=> k \in p.bits
<1> DEFINE flag == EncodedFlags(p)
           size == Cardinality(Mixed(flag))
           data == [n \in 1 .. size |-> Word(p, NthMixed(flag, n))]
           c == [kind |-> "sparse", start |-> p.start, flag |-> flag, data |-> data]
           W(v) == {b \in Bit : v * BitsPerVector + b \in p.bits}
<1>1. Encoded(p) = c
  BY DEF Encoded, Then, WithPayload, SparseChunk
<1>2. flag \in [Vec -> Flag]  BY WholeFlags
<1>3. \A v \in Vec : Word(p, v) = W(v) /\ flag[v] = FlagOf(W(v))  BY WholeFlags
<1>4. Mixed(flag) \subseteq Vec /\ size \in Nat  BY MixedFinite
<1>5. \A v \in Vec : v \in Mixed(flag) <=> W(v) \notin {{}, Bit}
  <2>1. ASSUME NEW v \in Vec
        PROVE  v \in Mixed(flag) <=> W(v) \notin {{}, Bit}
    <3>1. flag[v] = FlagOf(W(v))  BY <1>3
    <3> HIDE DEF W, flag
    <3> QED  BY <3>1 DEF FlagOf, Mixed
  <2> QED  BY <2>1
<1> HIDE DEF flag, W
<1>6. /\ \A v \in Mixed(flag) : /\ Position([flag |-> flag], v) \in 1 .. size
                                /\ NthMixed(flag, Position([flag |-> flag], v)) = v
      /\ \A n \in 1 .. size : NthMixed(flag, n) \in Mixed(flag)
  BY MixedInOrder
<1>7. /\ data \in Seq(SUBSET Bit) /\ Len(data) = size
      /\ \A n \in 1 .. size : data[n] = Word(p, NthMixed(flag, n))
  <2>1. \A n \in 1 .. size : Word(p, NthMixed(flag, n)) \in SUBSET Bit
    BY DEF Word
  <2>2. data \in [1 .. size -> SUBSET Bit]  BY <2>1
  <2> QED  BY <1>4, <2>2, SeqDef, LenProperties
<1> HIDE DEF data
<1>8. /\ c.kind = "sparse" /\ c.start = p.start /\ c.flag = flag /\ c.data = data
      /\ c \in SparseChunks
  BY <1>2, <1>7 DEF SparseChunks, IsWhole
<1> HIDE DEF c
<1>9. SparseOK(c)  BY <1>7, <1>8 DEF SparseOK, InStep, IsWhole
<1>10. ProperWords(c)
  <2>1. ASSUME NEW n \in 1 .. size  PROVE data[n] \notin {{}, Bit}
    <3>1. NthMixed(flag, n) \in Mixed(flag)  BY <1>6
    <3>2. NthMixed(flag, n) \in Vec  BY <1>4, <3>1
    <3>3. Word(p, NthMixed(flag, n)) = W(NthMixed(flag, n))  BY <1>3, <3>2
    <3> QED  BY <1>5, <1>7, <3>1, <3>2, <3>3
  <2> QED  BY <1>7, <1>8, <2>1 DEF ProperWords
<1>11. ASSUME NEW v \in Vec  PROVE VectorBits(c, v) = W(v)
  <2>1. flag[v] = FlagOf(W(v)) /\ Word(p, v) = W(v)  BY <1>3
  <2>2. CASE v \in Mixed(flag)
    <3>1. Position(c, v) = Position([flag |-> flag], v)  BY <1>8 DEF Position
    <3>2. Position(c, v) \in 1 .. size /\ NthMixed(flag, Position(c, v)) = v
      BY <1>6, <2>2, <3>1
    <3>3. data[Position(c, v)] = W(v)  BY <1>7, <2>1, <3>2
    <3>4. c.flag[v] = "mixed"  BY <1>8, <2>2 DEF Mixed
    <3> QED  BY <1>8, <3>3, <3>4 DEF VectorBits
  <2>3. CASE v \notin Mixed(flag)
    <3>1. W(v) = {} \/ W(v) = Bit  BY <1>5, <2>3
    <3>2. CASE W(v) = {}
      <4>1. c.flag[v] = "zeros"  BY <1>8, <2>1, <3>2 DEF FlagOf
      <4> QED  BY <3>2, <4>1 DEF VectorBits
    <3>3. CASE W(v) = Bit
      <4>1. Bit # {}  BY ChunkConstants DEF Bit
      <4>2. c.flag[v] = "ones"  BY <1>8, <2>1, <3>3, <4>1 DEF FlagOf
      <4> QED  BY <3>3, <4>2 DEF VectorBits
    <3> QED  BY <3>1, <3>2, <3>3
  <2> QED  BY <2>2, <2>3
<1>12. ASSUME NEW k \in WindowBits  PROVE IsSet(c, k) <=> k \in p.bits
  <2>1. k \in 0 .. ChunkCap - 1 /\ k \in Nat  BY DEF WindowBits
  <2>2. k \div BitsPerVector \in Vec /\ k % BitsPerVector \in Bit  BY <2>1, BitOfIndex
  <2>3. k = (k \div BitsPerVector) * BitsPerVector + (k % BitsPerVector)
    BY <2>1, WordSplit
  <2>4. IsSet(c, k) <=> k % BitsPerVector \in VectorBits(c, k \div BitsPerVector)
    BY <1>9, <2>1, IsSetVector
  <2> DEFINE v == k \div BitsPerVector
             b == k % BitsPerVector
  <2> HIDE DEF v, b
  <2>5. VectorBits(c, v) = W(v)  BY <1>11, <2>2 DEF v
  <2>6. b \in W(v) <=> v * BitsPerVector + b \in p.bits
    BY <2>2 DEF W, v, b
  <2> QED  BY <2>3, <2>4, <2>5, <2>6 DEF v, b
<1> QED  BY <1>1, <1>8, <1>9, <1>10, <1>12

\* And appended when it has a bit.
LEMMA AppendSparseWritten ==
  ASSUME NEW m, NEW X, NEW F, Written(m, X, F), NEW p, IsWhole(p),
         NEW G \in Nat, F <= p.start, p.start + ChunkCap <= G
  PROVE  Written(AppendSparse(m, p), X \cup PieceBits(p), G)
<1> DEFINE c == Encoded(p)
<1>1. /\ SparseOK(c) /\ ProperWords(c) /\ c.start = p.start
      /\ \A k \in WindowBits : IsSet(c, k) <=> k \in p.bits
  BY EncodedIs
<1>2. AppendSparse(m, p) = AppendEncoded(m, c)  BY DEF AppendSparse, Then
<1> HIDE DEF c
<1>3. /\ p.start \in Nat /\ p.bits \subseteq 0 .. ChunkCap - 1
      /\ WindowBits = 0 .. ChunkCap - 1
  BY DEF IsWhole, WindowBits
<1>4. IsEmptyChunk(c) <=> \A k \in 0 .. ChunkCap - 1 : ~IsSet(c, k)
  BY <1>1, EmptyHoldsNothing
<1>5. IsEmptyChunk(c) <=> p.bits = {}  BY <1>1, <1>3, <1>4
<1>6. CASE p.bits = {}
  <2>1. PieceBits(p) = {}  BY <1>6 DEF PieceBits
  <2>2. AppendSparse(m, p) = m  BY <1>2, <1>5, <1>6 DEF AppendEncoded
  <2>3. F \in Nat /\ ChunkCap \in Nat  BY ChunkCapPositive DEF Written
  <2>4. F <= G  BY <1>3, <2>3
  <2>5. Written(m, X, G)  BY <2>4, WrittenFurther
  <2> QED  BY <2>1, <2>2, <2>5
<1>7. CASE p.bits # {}
  <2>1. AppendSparse(m, p) = AppendChunk(m, c)  BY <1>2, <1>5, <1>7 DEF AppendEncoded
  <2>2. Canonical(c)
    <3>1. PICK k \in 0 .. ChunkCap - 1 : IsSet(c, k)  BY <1>4, <1>5, <1>7
    <3> QED  BY <1>1, <3>1, SparseIsCanonical
  <2>3. /\ EndOf(c) = c.start + ChunkCap
        /\ \A x \in Nat : x \in BitsOf(c) <=>
             x - c.start \in 0 .. ChunkCap - 1 /\ IsSet(c, x - c.start)
    BY <1>1, HeldSparse
  <2>4. BitsOf(c) = PieceBits(p)
    <3>1. ASSUME NEW x \in Nat  PROVE x \in BitsOf(c) <=> x \in PieceBits(p)
      BY <1>1, <1>3, <2>3 DEF PieceBits
    <3>2. BitsOf(c) \subseteq Nat /\ PieceBits(p) \subseteq Nat  BY DEF BitsOf, PieceBits
    <3> QED  BY <3>1, <3>2
  <2>5. Follows(c, F, G)  BY <1>1, <2>2, <2>3 DEF Follows
  <2>6. Written(AppendChunk(m, c), X \cup BitsOf(c), G)  BY <2>5, AppendChunkWritten
  <2> QED  BY <2>1, <2>4, <2>6
<1> QED  BY <1>6, <1>7

----------------------------------------------------------------------------
(* Runs of whole windows.                                                  *)

\* A run of the first len indices of cap, in whole windows within a limit.
RunFits(start, cap, len, G) ==
  /\ start \in Nat /\ Boundary(start) /\ cap \in Nat /\ Boundary(cap)
  /\ len \in 1 .. cap /\ Limit(G) /\ start + cap <= G

\* It is one canonical chunk.
LEMMA RunFollows ==
  ASSUME NEW start, NEW cap, NEW len, NEW G, RunFits(start, cap, len, G)
  PROVE  /\ Canonical(RLEChunk(start, len, cap)) /\ Size(RLEChunk(start, len, cap)) = 1
         /\ ChunkOK(RLEChunk(start, len, cap))
         /\ RLEChunk(start, len, cap).start = start
         /\ EndOf(RLEChunk(start, len, cap)) = start + cap
         /\ BitsOf(RLEChunk(start, len, cap)) = start .. start + len - 1
<1> DEFINE t == RLEChunk(start, len, cap)
<1>1. /\ start \in Nat /\ Boundary(start) /\ cap \in Nat /\ Boundary(cap)
      /\ len \in 1 .. cap /\ start + cap <= G /\ G \in Nat /\ G <= RLEMax /\ RLEMax \in Nat
  BY ChunkConstants DEF RunFits, Limit
<1>2. cap <= RLEMax  BY <1>1
<1>3. ChunkOK(t) /\ t = [kind |-> "rle", start |-> start, len |-> len, cap |-> cap]
  BY <1>1, <1>2, RLEChunkOK
<1> HIDE DEF t
<1>4. IsRLE(t) /\ t.start = start /\ t.len = len /\ t.cap = cap  BY <1>3 DEF IsRLE
<1>5. EndOf(t) = start + cap /\ Canonical(t) /\ Size(t) = 1
      /\ BitsOf(t) = start .. start + len - 1
  BY <1>3, <1>4, RunFields
<1> QED  BY <1>3, <1>4, <1>5 DEF t

\* One chunk rewritten in place.
LEMMA OneReplaced ==
  ASSUME NEW s \in Seq(Chunks), NEW j \in 1 .. Len(s), NEW t \in Chunks
  PROVE  Splice(s, j, 1, << t >>) = [s EXCEPT ![j] = t]
<1> DEFINE S == Chunks
           k == 1
           one == << t >>
           u == Splice(s, j, k, one)
           q == [s EXCEPT ![j] = t]
           n == Len(s)
<1>1. n \in Nat /\ j \in Nat /\ 1 <= j /\ j <= n  BY LenProperties
<1>2. /\ j \in 1 .. Len(s) + 1 /\ k \in Nat /\ j + k <= Len(s) + 1
      /\ s \in Seq(S) /\ one \in Seq(S) /\ Len(one) = 1 /\ one[1] = t
  BY <1>1
<1>3. q \in Seq(S) /\ Len(q) = n /\ q[j] = t /\ \A x \in 1 .. n : x # j => q[x] = s[x]
  OBVIOUS
<1> HIDE DEF S, one, u, q
<1>4. /\ u \in Seq(S)
      /\ Len(u) = Len(s) - k + Len(one)
      /\ \A x \in 1 .. j - 1 : u[x] = s[x]
      /\ \A x \in 1 .. Len(one) : u[j - 1 + x] = one[x]
      /\ \A x \in j + k .. Len(s) : u[x - k + Len(one)] = s[x]
  <2> HIDE DEF k, n
  <2>1. /\ Splice(s, j, k, one) \in Seq(S)
        /\ Len(Splice(s, j, k, one)) = Len(s) - k + Len(one)
        /\ \A x \in 1 .. j - 1 : Splice(s, j, k, one)[x] = s[x]
        /\ \A x \in 1 .. Len(one) : Splice(s, j, k, one)[j - 1 + x] = one[x]
        /\ \A x \in j + k .. Len(s) : Splice(s, j, k, one)[x - k + Len(one)] = s[x]
    BY ONLY <1>2, SplicePlaces
  <2> QED  BY <2>1 DEF u
<1>5. Len(u) = n  BY <1>1, <1>2, <1>4
<1>6. ASSUME NEW x \in 1 .. n  PROVE u[x] = q[x]
  <2>1. CASE x < j
    <3>1. x \in 1 .. j - 1 /\ x # j  BY <1>1, <2>1
    <3> QED  BY <1>3, <1>4, <3>1
  <2>2. CASE x = j
    <3>1. 1 \in 1 .. Len(one) /\ j - 1 + 1 = j  BY <1>1, <1>2
    <3> QED  BY <1>2, <1>3, <1>4, <2>2, <3>1
  <2>3. CASE x > j
    <3>1. x \in j + k .. Len(s) /\ x - k + Len(one) = x /\ x # j  BY <1>1, <1>2, <2>3
    <3> QED  BY <1>3, <1>4, <3>1
  <2> QED  BY <1>1, <2>1, <2>2, <2>3
<1> HIDE DEF n
<1>7. u = q
  <2>1. u \in Seq(S) /\ q \in Seq(S) /\ Len(u) = Len(q)
        /\ \A x \in 1 .. Len(u) : u[x] = q[x]
    BY <1>3, <1>4, <1>5, <1>6
  <2> QED  BY ONLY <2>1, SeqEqual
<1> QED  BY <1>7 DEF u, q, k, one

\* The last chunk of a result, and another one in its place.
LastGoesOn(m, X, F, t, G) ==
  /\ Written(m, X, F) /\ F <= G /\ Limit(G) /\ m.chunks # << >>
  /\ Canonical(t) /\ t.start = m.chunks[Len(m.chunks)].start /\ EndOf(t) <= G
  /\ Size(t) = Size(m.chunks[Len(m.chunks)])
  /\ BitsOf(m.chunks[Len(m.chunks)]) \subseteq BitsOf(t)
\* The result keeps its form, and gains what that chunk gains.
LEMMA LastRewritten ==
  ASSUME NEW m, NEW X, NEW F, NEW t, NEW G, LastGoesOn(m, X, F, t, G)
  PROVE  Written(ResultMap([m.chunks EXCEPT ![Len(m.chunks)] = t], m.used, m.cap),
                 X \cup BitsOf(t), G)
<1> DEFINE n == Len(m.chunks)
           c == m.chunks[n]
           q == Plain(m)
           B == BitsOf(t)
           r == Replace(q, n, 1, << t >>, 0)
<1>1. /\ Written(m, X, F) /\ F <= G /\ Limit(G) /\ m.chunks # << >>
      /\ Canonical(t) /\ t.start = c.start /\ EndOf(t) <= G /\ Size(t) = Size(c)
      /\ BitsOf(c) \subseteq B /\ G \in Nat /\ ChunkOK(t) /\ t \in Chunks
  BY DEF LastGoesOn, Limit, Canonical, ChunkOK
<1>2. Written(m, X, G)  BY <1>1, WrittenFurther
<1>3. /\ m.chunks \in Seq(Chunks) /\ n \in Nat /\ m.used \in Nat /\ m.cap \in Nat
      /\ m.used <= m.cap /\ LeastResult <= m.cap /\ StreamOK(m.chunks, 0, G)
  BY <1>2, WrittenFields
<1>4. n > 0 /\ n \in 1 .. n  BY <1>1, <1>3, EmptySeq
<1>5. ChunkHolds(m, X, G)  BY <1>2 DEF Written
<1>6. /\ Keeps(q, X, G) /\ MapOK(q, G)
      /\ q.chunks = m.chunks /\ q.used = m.used /\ q.cap = m.cap
  BY <1>5, ChunkFields DEF Fits, Keeps
<1>7. /\ ChunkOK(c) /\ c.start \in Nat
      /\ \A p \in 1 .. n - 1 : EndOf(m.chunks[p]) <= c.start
  <2>1. ChunkOK(c)  BY <1>3, <1>4 DEF StreamOK
  <2>2. c.start \in Nat  BY <2>1, ChunkExtent
  <2> QED  BY <1>3, <1>4, <2>1, <2>2 DEF StreamOK
<1>8. Size(c) \in Nat /\ Size(t) \in Nat  BY SizeIsNat
<1>9. Encodes(<< t >>, B, 1 + Size(t))  BY <1>1, HoldsOne
<1> HIDE DEF n, c, B, q
<1>10. ReplacedAt(r, q, n, 1, << t >>, G)
  <2> DEFINE a == c.start
             one == << t >>
  <2>1. a \in Int /\ G \in Int /\ 0 <= a /\ a <= G /\ G <= G /\ 0 \in Int /\ 1 \in Nat
    <3>1. t.start \in Nat /\ EndOf(t) \in Nat /\ t.start + ChunkCap <= EndOf(t)
          /\ ChunkCap \in Nat
      BY <1>1, ChunkExtent, ChunkCapPositive
    <3> QED  BY <1>1, <1>7, <3>1
  <2>2. StreamOK(one, a, G)
    <3>1. a <= t.start  BY <1>1, <2>1
    <3> QED  BY <1>1, <2>1, <3>1, OneChunkStream
  <2>3. /\ n \in 1 .. Len(q.chunks) + 1 /\ n + 1 <= Len(q.chunks) + 1
        /\ \A p \in 1 .. n - 1 : EndOf(q.chunks[p]) <= a
        /\ \A p \in n + 1 .. Len(q.chunks) : G <= q.chunks[p].start
    <3>1. Len(q.chunks) = n  BY <1>6 DEF n
    <3> QED  BY <1>3, <1>4, <1>6, <1>7, <3>1
  <2> HIDE DEF a, one
  <2>4. ReplacedAt(Replace(q, n, 1, one, 0), q, n, 1, one, G)
    BY <1>1, <1>6, <2>1, <2>2, <2>3, ReplaceStream
  <2> QED  BY <2>4 DEF one
<1>11. Rewrites(q, X, n, << t >>, B, 1 + Size(t), 0, G)
  <2>1. 0 = (1 + Size(t)) - (1 + Size(q.chunks[n])) /\ 1 + Size(t) \in Int
    <3>1. q.chunks[n] = c  BY <1>6 DEF c
    <3> QED  BY <1>1, <1>8, <3>1
  <2>2. n \in 1 .. Len(q.chunks)  BY <1>4, <1>6 DEF n
  <2>3. MapOK(r, G)  BY <1>10 DEF ReplacedAt
  <2> QED  BY <1>1, <1>6, <1>9, <2>1, <2>2, <2>3 DEF Rewrites
<1>12. Keeps(r, (X \ BitsOf(q.chunks[n])) \cup B, G) /\ r.used = q.used + 0
  BY <1>11, RewriteKeeps
<1>13. (X \ BitsOf(q.chunks[n])) \cup B = X \cup B
  BY <1>1, <1>6 DEF c
<1>14. r.chunks = [m.chunks EXCEPT ![n] = t]
  <2>1. r.chunks = Splice(q.chunks, n, 1, << t >>)
    BY <1>6 DEF Replace, MapOK
  <2>2. Splice(m.chunks, n, 1, << t >>) = [m.chunks EXCEPT ![n] = t]
    BY <1>1, <1>3, <1>4, OneReplaced DEF n
  <2> QED  BY <1>6, <2>1, <2>2
<1> DEFINE s == [m.chunks EXCEPT ![n] = t]
<1>15. StreamOK(s, 0, G) /\ Encodes(s, X \cup B, m.used - 1)
  <2>1. MapOK(r, G) /\ Encodes(r.chunks, X \cup B, r.used - HeaderWords)
    BY <1>12, <1>13 DEF Keeps
  <2>2. r.used - HeaderWords = m.used - 1  BY <1>3, <1>6, <1>12 DEF HeaderWords
  <2> QED  BY <1>14, <2>1, <2>2 DEF MapOK
<1> HIDE DEF s
<1>16. Writable(s, m.used, m.cap, X \cup B, G)
  BY <1>1, <1>3, <1>15 DEF Writable
<1> QED  BY <1>16, WrittenFrom DEF s, n, B

\* A run is appended, or the last chunk is lengthened by it.
LEMMA AppendRLEWritten ==
  ASSUME NEW m, NEW X, NEW F, Written(m, X, F), NEW start, NEW cap, NEW len, NEW G,
         RunFits(start, cap, len, G), F <= start
  PROVE  Written(AppendRLE(m, start, cap, len), X \cup (start .. start + len - 1), G)
<1> DEFINE R == start .. start + len - 1
           c == Last(m.chunks)
<1>1. /\ start \in Nat /\ Boundary(start) /\ cap \in Nat /\ Boundary(cap)
      /\ len \in Nat /\ 1 <= len /\ len <= cap
      /\ Limit(G) /\ start + cap <= G /\ G \in Nat /\ G <= RLEMax /\ RLEMax \in Nat
  BY ChunkConstants DEF RunFits, Limit
<1>2. CASE ~(m.chunks # << >> /\ Continues(c, start, cap, len))
  <2> DEFINE t == RLEChunk(start, len, cap)
  <2>1. AppendRLE(m, start, cap, len) = AppendChunk(m, t)
    BY <1>2 DEF AppendRLE, AppendRLERaw
  <2>2. Canonical(t) /\ t.start = start /\ EndOf(t) = start + cap /\ BitsOf(t) = R
    BY RunFollows
  <2> HIDE DEF t
  <2>3. Follows(t, F, G)  BY <1>1, <2>2 DEF Follows
  <2>4. Written(AppendChunk(m, t), X \cup BitsOf(t), G)  BY <2>3, AppendChunkWritten
  <2> QED  BY <2>1, <2>2, <2>4
<1>3. CASE m.chunks # << >> /\ Continues(c, start, cap, len)
  <2> DEFINE n == Len(m.chunks)
             t == RLEChunk(c.start, RunLength(c) + len, start + cap - c.start)
  <2>1. /\ F \in Nat /\ m = ResultMap(m.chunks, m.used, m.cap)
        /\ StreamOK(m.chunks, 0, F) /\ Encodes(m.chunks, X, m.used - 1)
        /\ m.chunks \in Seq(Chunks) /\ n \in Nat /\ m.used \in Nat
    BY WrittenFields
  <2>2. n > 0 /\ n \in 1 .. n /\ c = m.chunks[n]  BY <1>3, <2>1, EmptySeq DEF Last
  <2>3. ChunkOK(c) /\ EndOf(c) <= F /\ Canonical(c)
    <3>1. ChunkOK(m.chunks[n]) /\ EndOf(m.chunks[n]) <= F
      BY <2>1, <2>2 DEF StreamOK
    <3>2. Canonical(m.chunks[n])  BY <2>1, <2>2 DEF Encodes
    <3> QED  BY <2>2, <3>1, <3>2
  <2>4. /\ c.start + RunLength(c) = start
        /\ IsRLE(c) \/ (RunLength(c) = Capacity(c) /\ RunLength(c) > 0)
        /\ start + cap - c.start <= RLEMax
    BY <1>3 DEF Continues
  <2>5. c.start \in Nat /\ Boundary(c.start) /\ RunLength(c) \in Nat  BY <2>3, ChunkExtent
  <2>6. RunLength(c) > 0 /\ Size(c) = 1
    <3>1. CASE IsRLE(c)
      <4>1. c.len \in Nat /\ c.len >= 1 /\ Size(c) = 1  BY <2>3, <3>1, RunFields
      <4>2. RunLength(c) = c.len  BY <3>1 DEF RunLength
      <4> QED  BY <4>1, <4>2
    <3>2. CASE ~IsRLE(c)
      <4>1. InShape({}, c)  BY <2>3, NoneWithout
      <4> QED  BY <2>4, <3>2, <4>1, FullRunSize
    <3> QED  BY <3>1, <3>2
  <2>7. BitsOf(c) = c.start .. start - 1
    <3>1. BitsOf(c) = c.start .. c.start + RunLength(c) - 1  BY <2>3, <2>6, HeldRun
    <3>2. c.start + RunLength(c) - 1 = start - 1  BY <2>4, <2>5
    <3> QED  BY <3>1, <3>2
  <2>8. AppendRLE(m, start, cap, len) = Lengthened(m, c, start, cap, len)
    BY <1>3 DEF AppendRLE
  <2>9. Boundary(start + cap) /\ Boundary(start + cap - c.start)
    <3>1. Boundary(start + cap)  BY <1>1, BoundarySum
    <3>2. Boundary((start + cap) - c.start)  BY <2>5, <3>1, BoundarySum
    <3>3. (start + cap) - c.start = start + cap - c.start  BY <1>1, <2>5
    <3> QED  BY <3>1, <3>2, <3>3
  <2>10. RunFits(c.start, start + cap - c.start, RunLength(c) + len, G)
    <3>1. /\ start + cap - c.start \in Nat
          /\ RunLength(c) + len \in 1 .. start + cap - c.start
          /\ c.start + (start + cap - c.start) <= G
      BY <1>1, <2>4, <2>5
    <3> QED  BY <1>1, <2>5, <2>9, <3>1 DEF RunFits
  <2>11. /\ Canonical(t) /\ Size(t) = 1 /\ t.start = c.start
         /\ EndOf(t) = c.start + (start + cap - c.start)
         /\ BitsOf(t) = c.start .. c.start + (RunLength(c) + len) - 1
    BY <2>10, RunFollows
  <2>12. EndOf(t) = start + cap /\ BitsOf(t) = c.start .. start + len - 1
    <3>1. c.start + (start + cap - c.start) = start + cap  BY <1>1, <2>5
    <3>2. c.start + (RunLength(c) + len) - 1 = start + len - 1  BY <1>1, <2>4, <2>5
    <3> QED  BY <2>11, <3>1, <3>2
  <2> DEFINE e == [m.chunks EXCEPT ![n] = t]
  <2>13. Lengthened(m, c, start, cap, len) = ResultMap(e, m.used, m.cap)
    <3>1. Lengthened(m, c, start, cap, len) = Given(m, e, m.used - (Size(c) - 1))
      BY DEF Lengthened, Given
    <3>2. m.used - (Size(c) - 1) = m.used  BY <2>1, <2>6
    <3>3. Given(ResultMap(m.chunks, m.used, m.cap), e, m.used) = ResultMap(e, m.used, m.cap)
      BY ResultFields
    <3> HIDE DEF e
    <3> QED  BY <2>1, <3>1, <3>2, <3>3
  <2> HIDE DEF t
  <2>14. LastGoesOn(m, X, F, t, G)
    <3>1. F <= G  BY <1>1, <2>1
    <3>2. BitsOf(c) \subseteq BitsOf(t)  BY <1>1, <2>5, <2>7, <2>12
    <3> QED  BY <1>1, <1>3, <2>2, <2>6, <2>11, <2>12, <3>1, <3>2 DEF LastGoesOn
  <2>15. Written(ResultMap(e, m.used, m.cap), X \cup BitsOf(t), G)
    BY <2>14, LastRewritten
  <2>16. X \cup BitsOf(t) = X \cup R
    <3>1. BitsOf(c) \subseteq X
      BY <2>1, <2>2 DEF Encodes, Bits
    <3>2. BitsOf(t) = BitsOf(c) \cup R  BY <1>1, <2>4, <2>5, <2>7, <2>12
    <3> QED  BY <3>1, <3>2
  <2> QED  BY <2>8, <2>13, <2>15, <2>16
<1> QED  BY <1>2, <1>3

----------------------------------------------------------------------------
(* A run of any length that begins with a window.                          *)

\* A place for a window: after F, and before G.
Place(start, F, G) ==
  /\ start \in Nat /\ Boundary(start) /\ F \in Nat /\ F <= start
  /\ Limit(G) /\ start + ChunkCap <= G

\* A window is appended as a run when it is full, and else as a piece.
LEMMA AppendWindowWritten ==
  ASSUME NEW m, NEW X, NEW F, Written(m, X, F), NEW start, NEW G, Place(start, F, G),
         NEW bits, bits \subseteq WindowBits
  PROVE  Written(AppendWindow(m, start, bits), X \cup {x \in Nat : x - start \in bits}, G)
<1> DEFINE B == {x \in Nat : x - start \in bits}
           p == Piece(start, bits, Vec)
<1>1. /\ start \in Nat /\ Boundary(start) /\ F <= start /\ Limit(G) /\ G \in Nat
      /\ start + ChunkCap <= G /\ ChunkCap \in Nat /\ ChunkCap >= 2
  BY ChunkCapPositive DEF Place, Limit
<1>2. CASE bits = WindowBits
  <2>1. RunFits(start, ChunkCap, ChunkCap, G)  BY <1>1, BoundaryZero DEF RunFits
  <2>2. B = start .. start + ChunkCap - 1  BY <1>1, <1>2 DEF WindowBits
  <2>3. AppendWindow(m, start, bits) = AppendRLE(m, start, ChunkCap, ChunkCap)
    BY <1>2 DEF AppendWindow
  <2> HIDE DEF B
  <2>4. Written(AppendRLE(m, start, ChunkCap, ChunkCap),
                X \cup (start .. start + ChunkCap - 1), G)
    BY <1>1, <2>1, AppendRLEWritten
  <2> QED  BY <2>2, <2>3, <2>4 DEF B
<1>3. CASE bits # WindowBits
  <2>1. AppendWindow(m, start, bits) = AppendSparse(m, p)  BY <1>3 DEF AppendWindow
  <2>2. p.start = start /\ p.bits = bits /\ IsWhole(p)  BY <1>1 DEF IsWhole, Piece
  <2> HIDE DEF p
  <2>3. Written(AppendSparse(m, p), X \cup PieceBits(p), G)
    BY <1>1, <2>2, AppendSparseWritten
  <2>4. PieceBits(p) = B  BY <2>2 DEF PieceBits
  <2> QED  BY <2>1, <2>3, <2>4
<1> QED  BY <1>2, <1>3

\* A quotient of 0 or 1.
LEMMA SmallQuotient ==
  ASSUME NEW a \in Nat, NEW b \in Nat, b > 0
  PROVE  /\ a < b => a \div b = 0
         /\ b <= a /\ a < b + b => a \div b = 1
<1> DEFINE q == a \div b
<1>1. q \in Int /\ q * b <= a /\ a < q * b + b  OBVIOUS
<1> HIDE DEF q
<1>2. q >= 0
  <2>1. SUFFICES ASSUME q <= -1  PROVE FALSE  BY <1>1
  <2>2. q * b <= -1 * b  BY <1>1, <2>1
  <2> QED  BY <1>1, <2>2
<1>3. q >= 1 => q * b >= b  BY <1>1
<1>4. q >= 2 => q * b >= b + b
  <2>1. SUFFICES ASSUME q >= 2  PROVE q * b >= b + b  OBVIOUS
  <2>2. q * b >= 2 * b  BY <1>1, <2>1
  <2> QED  BY <1>1, <2>2
<1>5. q = 0 => q * b = 0  OBVIOUS
<1>6. a < b => q = 0  BY <1>1, <1>2, <1>3
<1>7. b <= a /\ a < b + b => q = 1  BY <1>1, <1>2, <1>4, <1>5
<1> QED  BY <1>6, <1>7 DEF q

\* What fits the largest run's field is one body.
LEMMA OneBody ==
  ASSUME NEW n \in Nat, n * ChunkCap <= RLEMax
  PROVE  /\ n = 0 => DOMAIN Bodies(n) = {}
         /\ n > 0 => DOMAIN Bodies(n) = {1} /\ Bodies(n)[1] = n * ChunkCap
<1> DEFINE c == ChunkCap
           k == RLEMax \div c
           a == n * c
<1>1. c \in Nat /\ c >= 2 /\ RLEMax \in Nat /\ c <= RLEMax
  BY ChunkCapPositive, ChunkConstants, SmallConstants
<1>2. MaxBody = k * c  BY DEF MaxBody
<1>3. k \in Nat /\ k * c <= RLEMax /\ RLEMax < k * c + c
  <2> HIDE DEF c
  <2>1. k \in Int /\ k * c <= RLEMax /\ RLEMax < k * c + c  BY <1>1
  <2> HIDE DEF k
  <2>2. k >= 0
    <3>1. SUFFICES ASSUME k <= -1  PROVE FALSE  BY <2>1
    <3>2. k * c <= -1 * c  BY <1>1, <2>1, <3>1
    <3> QED  BY <1>1, <2>1, <3>2
  <2> QED  BY <2>1, <2>2
<1> HIDE DEF k, c
<1>4. k * c \in Nat /\ k * c >= c
  <2>1. k # 0  BY <1>1, <1>3
  <2>2. k >= 1  BY <1>3, <2>1
  <2> QED  BY <1>1, <1>3, <2>2
<1>5. n <= k
  <2>1. SUFFICES ASSUME k + 1 <= n  PROVE FALSE  BY <1>3
  <2>2. (k + 1) * c <= n * c  BY <1>1, <1>3, <2>1
  <2>3. (k + 1) * c = k * c + c  BY <1>1, <1>3
  <2>4. n * c <= RLEMax  BY DEF c
  <2> QED  BY <1>1, <1>3, <2>2, <2>3, <2>4
<1>6. a \in Nat /\ a <= k * c  BY <1>1, <1>3, <1>5
<1>7. n > 0 => a >= 1
  <2>1. SUFFICES ASSUME n > 0  PROVE a >= 1  OBVIOUS
  <2>2. n >= 1  BY <2>1
  <2>3. n * c >= 1 * c  BY <1>1, <2>2
  <2> QED  BY <1>1, <2>3
<1>8. n = 0 => a = 0  BY <1>1
<1> DEFINE M == MaxBody
           q == (a + M - 1) \div M
<1>9. M \in Nat /\ M > 0 /\ M = k * c  BY <1>1, <1>2, <1>4
<1>10. Bodies(n) = [i \in 1 .. q |-> Lesser(M, a - (i - 1) * M)]
  BY DEF Bodies, a, c
<1> HIDE DEF M, a
<1>11. ASSUME n = 0  PROVE q = 0
  <2>1. a + M - 1 \in Nat /\ a + M - 1 < M  BY <1>8, <1>9, <1>11
  <2> QED  BY <1>9, <2>1, SmallQuotient
<1>12. ASSUME n > 0  PROVE q = 1
  <2>1. a + M - 1 \in Nat /\ M <= a + M - 1 /\ a + M - 1 < M + M
    BY <1>6, <1>7, <1>9, <1>12
  <2> QED  BY <1>9, <2>1, SmallQuotient
<1> HIDE DEF q
<1>13. ASSUME n = 0  PROVE DOMAIN Bodies(n) = {}
  <2>1. 1 .. q = {}  BY <1>11, <1>13
  <2> QED  BY <1>10, <2>1
<1>14. ASSUME n > 0  PROVE DOMAIN Bodies(n) = {1} /\ Bodies(n)[1] = a
  <2>1. 1 .. q = {1}  BY <1>12, <1>14
  <2>2. Bodies(n)[1] = Lesser(M, a - (1 - 1) * M)  BY <1>10, <2>1
  <2>3. (1 - 1) * M = 0 /\ a - 0 = a  BY <1>6, <1>9
  <2>4. Lesser(M, a) = a  BY <1>6, <1>9 DEF Lesser
  <2> QED  BY <1>10, <2>1, <2>2, <2>3, <2>4
<1> QED  BY <1>13, <1>14 DEF a, c

\* So the body of a run that fits is nothing, or one run.
LEMMA AppendBodyIs ==
  ASSUME NEW m, NEW start, NEW n \in Nat, n * ChunkCap <= RLEMax
  PROVE  /\ n = 0 => AppendBody(m, start, n) = m
         /\ n > 0 => AppendBody(m, start, n) =
                       AppendRLE(m, start, n * ChunkCap, n * ChunkCap)
<1> DEFINE D == DOMAIN Bodies(n)
           s == [k \in D |-> k]
           P(r, k) == IF k = 1 THEN AppendRLE(r, start, Bodies(n)[1], Bodies(n)[1])
                      ELSE AppendRLERaw(r, start + (k - 1) * MaxBody, Bodies(n)[k],
                                        Bodies(n)[k])
           G(it, t) == P(it[t \ {Max(t)}], s[Max(t)])
           A(it) == it = [t \in SUBSET DOMAIN s |-> IF t = {} THEN m ELSE G(it, t)]
           f == CHOOSE it : A(it)
<1>1. AppendBody(m, start, n) = f[DOMAIN s]
  BY DEF AppendBody, FoldLeft, MapThenFoldSet
<1>2. DOMAIN s = D  OBVIOUS
<1>3. ASSUME n = 0  PROVE AppendBody(m, start, n) = m
  <2>1. D = {}  BY <1>3, OneBody
  <2> DEFINE it == [t \in SUBSET DOMAIN s |-> m]
  <2>2. A(it)
    <3>1. \A t \in SUBSET DOMAIN s : t = {}  BY <1>2, <2>1
    <3> HIDE DEF G, s
    <3> QED  BY <3>1
  <2> HIDE DEF it
  <2>3. A(f)  BY <2>2
  <2> HIDE DEF f
  <2>4. f[{}] = m
    <3>1. {} \in SUBSET DOMAIN s  OBVIOUS
    <3> HIDE DEF G, s
    <3> QED  BY <2>3, <3>1
  <2> QED  BY <1>1, <1>2, <2>1, <2>4
<1>4. ASSUME n > 0
      PROVE  AppendBody(m, start, n) = AppendRLE(m, start, n * ChunkCap, n * ChunkCap)
  <2>1. D = {1} /\ Bodies(n)[1] = n * ChunkCap  BY <1>4, OneBody
  <2> DEFINE one == {1}
             result == P(m, 1)
             it == [t \in SUBSET one |-> IF t = {} THEN m ELSE result]
  <2>2. result = AppendRLE(m, start, n * ChunkCap, n * ChunkCap)  BY <2>1
  <2>3. Max(one) = 1 /\ one \ {1} = {} /\ s[1] = 1
    <3>1. one \in SUBSET (1 .. 1) /\ one # {} /\ 1 \in Nat  OBVIOUS
    <3>2. Max(one) \in one  BY ONLY <3>1, MaxOfPart, ChunkConstants, SmallConstants
    <3> QED  BY <2>1, <3>2
  <2>4. \A t \in SUBSET one : t = {} \/ t = one  OBVIOUS
  <2>5. \A g : g[{}] = m => G(g, one) = result  BY <2>3
  <2> HIDE DEF G, P, s, result, one
  <2>6. {} \in SUBSET one /\ one \in SUBSET one /\ one # {}  BY DEF one
  <2>7. DOMAIN s = one  BY <1>2, <2>1 DEF one
  <2>8. A(it)
    <3>1. it[{}] = m  BY <2>6
    <3>2. G(it, one) = result  BY <2>5, <3>1
    <3>3. it = [t \in SUBSET one |-> IF t = {} THEN m ELSE G(it, t)]
      <4>1. \A t \in SUBSET one : t # {} => G(it, t) = result  BY <2>4, <3>2
      <4> DEFINE g == [t \in SUBSET one |-> IF t = {} THEN m ELSE G(it, t)]
      <4>2. \A t \in SUBSET one : it[t] = g[t]  BY <4>1
      <4> QED  BY <4>2
    <3> QED  BY <2>7, <3>3
  <2> HIDE DEF it
  <2>9. A(f)  BY <2>8
  <2> HIDE DEF f
  <2>10. f[{}] = m  BY <2>6, <2>7, <2>9
  <2>11. f[one] = result  BY <2>5, <2>6, <2>7, <2>9, <2>10
  <2> QED  BY <1>1, <2>2, <2>7, <2>11
<1> QED  BY <1>3, <1>4

\* The rest of a run after its whole windows: the beginning of a last one.
LEMMA AppendTailWritten ==
  ASSUME NEW m, NEW X, NEW F, Written(m, X, F), NEW hi \in Nat, NEW G, Limit(G),
         F <= AlignedOffset(hi), RoundUp(hi) <= G
  PROVE  Written(AppendTail(m, AlignedOffset(hi), hi),
                 X \cup (AlignedOffset(hi) .. hi - 1), G)
<1> DEFINE a == AlignedOffset(hi)
           bits == OffsetsIn(a, a, hi)
<1>1. a \in Nat /\ Boundary(a) /\ a <= hi /\ hi < a + ChunkCap /\ ChunkCap \in Nat
  BY AlignedOffsetBounds, ChunkCapPositive
<1>2. RoundUp(hi) \in Nat /\ Boundary(RoundUp(hi)) /\ hi <= RoundUp(hi)
  BY RoundUpBounds
<1>3. F \in Nat /\ G \in Nat  BY DEF Written, Limit
<1> HIDE DEF a
<1>4. CASE a >= hi
  <2>1. AppendTail(m, a, hi) = m  BY <1>4 DEF AppendTail
  <2>2. a .. hi - 1 = {}  BY <1>1, <1>4
  <2>3. F <= G  BY <1>1, <1>2, <1>3 DEF a
  <2>4. Written(m, X, G)  BY <1>3, <2>3, WrittenFurther
  <2>5. X \cup (a .. hi - 1) = X  BY <2>2
  <2> QED  BY <2>1, <2>4, <2>5 DEF a
<1>5. CASE ~(a >= hi)
  <2>1. AppendTail(m, a, hi) = AppendWindow(m, a, bits)  BY <1>5 DEF AppendTail
  <2>2. a + ChunkCap <= G
    <3>1. a < RoundUp(hi)  BY <1>1, <1>2, <1>5
    <3>2. a + ChunkCap <= RoundUp(hi)  BY <1>1, <1>2, <3>1, BoundaryGap
    <3> QED  BY <1>1, <1>2, <1>3, <3>2
  <2>3. Place(a, F, G)  BY <1>1, <1>3, <2>2 DEF Place, a
  <2>4. bits \subseteq WindowBits /\ {x \in Nat : x - a \in bits} = a .. hi - 1
    <3>1. bits = {b \in WindowBits : a <= a + b /\ a + b < hi}  BY DEF OffsetsIn
    <3> HIDE DEF bits
    <3>2. ASSUME NEW x \in Nat  PROVE x - a \in bits <=> x \in a .. hi - 1
      BY <1>1, <3>1 DEF WindowBits
    <3>3. a .. hi - 1 \subseteq Nat  BY <1>1
    <3> QED  BY <3>1, <3>2, <3>3
  <2> HIDE DEF bits
  <2>5. Written(AppendWindow(m, a, bits), X \cup {x \in Nat : x - a \in bits}, G)
    BY <2>3, <2>4, AppendWindowWritten
  <2> QED  BY <2>1, <2>4, <2>5 DEF a
<1> QED  BY <1>4, <1>5

\* A run from a boundary on.
LEMMA AppendRunWritten ==
  ASSUME NEW m, NEW X, NEW F, Written(m, X, F), NEW lo \in Nat, Boundary(lo),
         NEW hi \in Nat, NEW G, Limit(G), F <= lo, F <= G, RoundUp(hi) <= G
  PROVE  Written(AppendRun(m, lo, hi), X \cup (lo .. hi - 1), G)
<1>1. F \in Nat /\ G \in Nat /\ G <= RLEMax /\ RLEMax \in Nat
  BY ChunkConstants DEF Written, Limit
<1>2. CASE lo >= hi
  <2>1. AppendRun(m, lo, hi) = m  BY <1>2 DEF AppendRun
  <2>2. lo .. hi - 1 = {}  BY <1>2
  <2>3. X \cup (lo .. hi - 1) = X  BY <2>2
  <2>4. Written(m, X, G)  BY <1>1, WrittenFurther
  <2> QED  BY <2>1, <2>3, <2>4
<1>3. CASE ~(lo >= hi)
  <2> DEFINE c == ChunkCap
             n == (hi - lo) \div c
             a == AlignedOffset(hi)
             b == AppendBody(m, lo, n)
  <2>1. RoundUp(lo) = lo /\ AppendHead(m, lo, hi) = m
    <3>1. lo % ChunkCap = 0  BY DEF Boundary
    <3>2. AppendHead(m, lo, hi) = m  BY <3>1 DEF AppendHead
    <3>3. RoundUp(lo) <= lo /\ RoundUp(lo) \in Nat /\ lo <= RoundUp(lo)
      BY RoundUpLeast, RoundUpBounds
    <3> QED  BY <3>2, <3>3
  <2>2. AppendRun(m, lo, hi) = AppendTail(b, a, hi)
    BY <1>3, <2>1 DEF AppendRun, AppendFrom
  <2>3. c \in Nat /\ c >= 2  BY ChunkCapPositive
  <2>4. n \in Nat /\ lo + n * c <= hi /\ hi < lo + n * c + c
    <3>1. hi - lo \in Nat  BY <1>3
    <3>2. n \in Nat /\ n * c <= hi - lo /\ hi - lo < n * c + c
      BY <3>1, DivBounds
    <3> HIDE DEF n, c
    <3> QED  BY <1>3, <2>3, <3>2
  <2>5. a \in Nat /\ Boundary(a) /\ a <= hi /\ hi < a + c  BY AlignedOffsetBounds
  <2>6. Boundary(n * c)
    <3>1. n \in Int  BY <2>4
    <3> HIDE DEF n
    <3> QED  BY <3>1, BoundaryMultiple DEF c
  <2> HIDE DEF a, n, c, b
  <2>7. n * c \in Nat /\ lo + n * c \in Nat  BY <2>3, <2>4
  <2>8. Boundary(lo + n * c)  BY <2>6, BoundarySum
  <2>9. a = lo + n * c
    <3>1. CASE a < lo + n * c
      <4>1. a + c <= lo + n * c  BY <2>5, <2>8, <3>1, BoundaryGap DEF c
      <4> QED  BY <2>3, <2>4, <2>5, <2>7, <4>1
    <3>2. CASE lo + n * c < a
      <4>1. lo + n * c + c <= a  BY <2>5, <2>8, <3>2, BoundaryGap DEF c
      <4> QED  BY <2>3, <2>4, <2>5, <2>7, <4>1
    <3> QED  BY <2>5, <2>7, <3>1, <3>2
  <2>10. RoundUp(hi) \in Nat /\ hi <= RoundUp(hi) /\ n * c <= RLEMax /\ lo + n * c <= G
    <3>1. RoundUp(hi) \in Nat /\ hi <= RoundUp(hi)  BY RoundUpBounds
    <3> QED  BY <1>1, <2>4, <2>7, <3>1
  <2>11. /\ n = 0 => b = m
         /\ n > 0 => b = AppendRLE(m, lo, n * c, n * c)
    BY <2>4, <2>10, AppendBodyIs DEF b, c
  <2>12. Written(b, X \cup (lo .. a - 1), a)
    <3>1. CASE n = 0
      <4>1. a = lo  BY <2>3, <2>9, <3>1
      <4>2. lo .. a - 1 = {}  BY <4>1
      <4>3. X \cup (lo .. a - 1) = X  BY <4>2
      <4>4. Written(m, X, a)  BY <4>1, WrittenFurther
      <4> QED  BY <2>11, <3>1, <4>3, <4>4
    <3>2. CASE n > 0
      <4> DEFINE w == n * c
      <4>1. w >= 1 /\ w \in Nat /\ a = lo + w
        <5>1. n * c >= 1 * c  BY <2>3, <2>4, <3>2
        <5> QED  BY <2>3, <2>7, <2>9, <5>1
      <4>2. Boundary(w) /\ Limit(a)
        <5>1. a <= RLEMax  BY <1>1, <2>9, <2>10
        <5> QED  BY <2>5, <2>6, <5>1 DEF Limit
      <4> HIDE DEF w
      <4>3. RunFits(lo, w, w, a)  BY <4>1, <4>2 DEF RunFits
      <4>4. Written(AppendRLE(m, lo, w, w), X \cup (lo .. lo + w - 1), a)
        BY <4>3, AppendRLEWritten
      <4>5. lo + w - 1 = a - 1  BY <4>1
      <4> QED  BY <2>11, <3>2, <4>4, <4>5 DEF w
    <3> QED  BY <2>4, <3>1, <3>2
  <2>13. Written(AppendTail(b, a, hi), (X \cup (lo .. a - 1)) \cup (a .. hi - 1), G)
    <3> DEFINE Y == X \cup (lo .. a - 1)
    <3>1. a <= AlignedOffset(hi)  BY <2>5 DEF a
    <3> HIDE DEF Y
    <3>2. Written(AppendTail(b, AlignedOffset(hi), hi),
                  Y \cup (AlignedOffset(hi) .. hi - 1), G)
      BY <2>12, <3>1, AppendTailWritten DEF Y
    <3> QED  BY <3>2 DEF Y, a
  <2>14. (X \cup (lo .. a - 1)) \cup (a .. hi - 1) = X \cup (lo .. hi - 1)
    <3>1. (lo .. a - 1) \cup (a .. hi - 1) = lo .. hi - 1
      BY <2>5, <2>7, <2>9, <2>4
    <3> QED  BY <3>1
  <2> QED  BY <2>2, <2>13, <2>14
<1> QED  BY <1>2, <1>3

----------------------------------------------------------------------------
(* The emitter.                                                            *)

\* What e has written and what it holds back are X together, below F.
Emits(e, X, F) ==
  /\ e = [out |-> e.out, pending |-> e.pending]
  /\ Written(Flush(e).out, X, F)
  /\ e.pending # << >> => e.pending[1].start \in Nat /\ e.pending[1].start < F

\* An emitter that holds nothing back.
LEMMA EmitToEmits ==
  ASSUME NEW m, NEW X, NEW F, Written(m, X, F)
  PROVE  Emits(EmitTo(m), X, F) /\ Flush(EmitTo(m)).out = m
<1>1. EmitTo(m).out = m /\ EmitTo(m).pending = << >> /\ Flush(EmitTo(m)) = EmitTo(m)
  BY DEF EmitTo, Flush
<1>2. EmitTo(m) = [out |-> EmitTo(m).out, pending |-> EmitTo(m).pending]  BY DEF EmitTo
<1> QED  BY <1>1, <1>2 DEF Emits

\* What is emitted may end anywhere further on.
LEMMA EmitsFurther ==
  ASSUME NEW e, NEW X, NEW F, Emits(e, X, F), NEW G \in Nat, F <= G
  PROVE  Emits(e, X, G)
<1> DEFINE m == Flush(e).out
<1>1. Written(m, X, F) /\ F \in Nat  BY DEF Emits, Written
<1> HIDE DEF m
<1>2. Written(m, X, G)  BY <1>1, WrittenFurther
<1>3. e.pending # << >> => e.pending[1].start \in Nat /\ e.pending[1].start < F
  BY DEF Emits
<1>4. e.pending # << >> => e.pending[1].start \in Nat /\ e.pending[1].start < G
  <2> SUFFICES ASSUME e.pending # << >>
               PROVE  e.pending[1].start \in Nat /\ e.pending[1].start < G
    OBVIOUS
  <2> DEFINE x == e.pending[1].start
  <2>1. x \in Nat /\ x < F  BY <1>3
  <2> HIDE DEF x
  <2>2. x < G  BY <1>1, <2>1
  <2> QED  BY <2>1, <2>2 DEF x
<1> QED  BY <1>2, <1>4 DEF Emits, m

\* A flush leaves nothing held back.
LEMMA FlushEmpties ==
  ASSUME NEW e, NEW X, NEW F, Emits(e, X, F)
  PROVE  Flush(e) = EmitTo(Flush(e).out) /\ Written(Flush(e).out, X, F)
<1>1. e = [out |-> e.out, pending |-> e.pending]  BY DEF Emits
<1>2. CASE e.pending = << >>
  <2>1. Flush(e) = e  BY <1>2 DEF Flush
  <2>2. e = EmitTo(e.out)  BY <1>1, <1>2 DEF EmitTo
  <2> QED  BY <2>1, <2>2 DEF Emits
<1>3. CASE e.pending # << >>
  <2> DEFINE m == AppendSparse(e.out, e.pending[1])
  <2>1. Flush(e) = EmitTo(m)  BY <1>3 DEF Flush
  <2> HIDE DEF m
  <2>2. EmitTo(m).out = m  BY DEF EmitTo
  <2> QED  BY <2>1, <2>2 DEF Emits
<1> QED  BY <1>2, <1>3

\* A whole window after the last.
LEMMA EmitWordsEmits ==
  ASSUME NEW e, NEW X, NEW F, Emits(e, X, F), NEW p, IsWhole(p),
         NEW G \in Nat, F <= p.start, p.start + ChunkCap <= G
  PROVE  Emits(EmitWords(e, p), X \cup PieceBits(p), G)
<1> DEFINE m == Flush(e).out
           w == EmitWords(e, p)
<1>1. Flush(e) = EmitTo(m) /\ Written(m, X, F) /\ F \in Nat
  BY FlushEmpties DEF Written
<1>2. p.start \in Nat /\ ChunkCap \in Nat /\ ChunkCap >= 2  BY ChunkCapPositive DEF IsWhole
<1>3. e.pending # << >> => e.pending[1].start # p.start
  <2>1. SUFFICES ASSUME e.pending # << >>, e.pending[1].start = p.start  PROVE FALSE
    OBVIOUS
  <2>2. p.start < F  BY <2>1 DEF Emits
  <2> QED  BY <1>1, <1>2, <2>2
<1>4. w = Held(EmitTo(m), p)  BY <1>1, <1>3 DEF EmitWords
<1> HIDE DEF m, w
<1>5. w = [out |-> m, pending |-> << p >>]  BY <1>4 DEF Held, EmitTo
<1>6. w.out = m /\ w.pending = << p >> /\ << p >>[1] = p /\ << p >> # << >>  BY <1>5
<1>7. Flush(w) = EmitTo(AppendSparse(m, p))  BY <1>6 DEF Flush
<1>8. Flush(w).out = AppendSparse(m, p)  BY <1>7 DEF EmitTo
<1>9. Written(AppendSparse(m, p), X \cup PieceBits(p), G)  BY <1>1, AppendSparseWritten
<1>10. p.start < G  BY <1>2
<1>11. w = [out |-> w.out, pending |-> w.pending]  BY <1>5
<1>12. w.pending[1].start = p.start  BY <1>6
<1>13. w.pending[1].start \in Nat /\ w.pending[1].start < G  BY <1>2, <1>10, <1>12
<1>14. Written(Flush(w).out, X \cup PieceBits(p), G)  BY <1>8, <1>9
<1>15. Emits(w, X \cup PieceBits(p), G)  BY <1>11, <1>13, <1>14 DEF Emits
<1> QED  BY <1>15 DEF w

\* The whole windows of a run.
LEMMA EmitWholeEmits ==
  ASSUME NEW e, NEW X, NEW F, Emits(e, X, F), NEW start \in Nat, Boundary(start),
         NEW full \in Nat, Boundary(full), Limit(start + full), F <= start
  PROVE  Emits(EmitWhole(e, start, full), X \cup (start .. start + full - 1), start + full)
<1>1. F \in Nat  BY DEF Emits, Written
<1>2. CASE full = 0
  <2>1. EmitWhole(e, start, full) = e  BY <1>2 DEF EmitWhole
  <2>2. start + full = start /\ start .. start + full - 1 = {}  BY <1>2
  <2>3. Emits(e, X, start)  BY <1>1, EmitsFurther
  <2> QED  BY <2>1, <2>2, <2>3
<1>3. CASE full # 0
  <2> DEFINE m == Flush(e).out
             r == AppendRLE(m, start, full, full)
             Y == X \cup (start .. start + full - 1)
             G == start + full
  <2>1. EmitWhole(e, start, full) = EmitTo(r)  BY <1>3 DEF EmitWhole, Then
  <2>2. Written(m, X, F)  BY DEF Emits
  <2> HIDE DEF m
  <2>3. G \in Nat /\ Limit(G) /\ full \in 1 .. full /\ start + full <= G  BY <1>3
  <2>4. RunFits(start, full, full, G)  BY <2>3 DEF RunFits
  <2> HIDE DEF G
  <2>5. Written(r, Y, G)  BY <2>2, <2>4, AppendRLEWritten
  <2> HIDE DEF r, Y
  <2>6. Emits(EmitTo(r), Y, G)  BY <2>5, EmitToEmits
  <2> QED  BY <2>1, <2>6 DEF Y, G
<1> QED  BY <1>2, <1>3

\* A run from a boundary on.
LEMMA EmitRLEEmits ==
  ASSUME NEW e, NEW X, NEW F, Emits(e, X, F), NEW start \in Nat, Boundary(start),
         NEW len \in Nat, NEW G, Limit(G), RoundUp(start + len) <= G, F <= start
  PROVE  Emits(EmitRLE(e, start, len), X \cup (start .. start + len - 1), G)
<1> DEFINE full == AlignedOffset(len)
           rest == len % ChunkCap
           mid == start + full
           w == EmitWhole(e, start, full)
           Y == X \cup (start .. mid - 1)
<1>1. EmitRLE(e, start, len) = EmitRest(w, mid, rest)  BY DEF EmitRLE, Then
<1>2. /\ full \in Nat /\ Boundary(full) /\ full <= len /\ len < full + ChunkCap
      /\ ChunkCap \in Nat /\ ChunkCap >= 2
  BY AlignedOffsetBounds, ChunkCapPositive
<1>3. rest = len - full /\ rest \in 0 .. ChunkCap - 1
  <2>1. full = (len \div ChunkCap) * ChunkCap  BY DEF AlignedOffset
  <2>2. rest \in 0 .. ChunkCap - 1 /\ len = (len \div ChunkCap) * ChunkCap + rest
    BY <1>2
  <2> HIDE DEF full, rest
  <2> QED  BY <1>2, <2>1, <2>2
<1> HIDE DEF full, rest
<1>4. /\ RoundUp(start + len) \in Nat /\ Boundary(RoundUp(start + len))
      /\ start + len <= RoundUp(start + len)
  BY RoundUpBounds
<1>5. G \in Nat /\ G <= RLEMax /\ RLEMax \in Nat  BY ChunkConstants DEF Limit
<1>6. mid \in Nat /\ Boundary(mid) /\ mid <= G
  <2>1. Boundary(start + full)  BY <1>2, BoundarySum
  <2> QED  BY <1>2, <1>4, <1>5, <2>1
<1>7. Limit(mid)  BY <1>5, <1>6 DEF Limit
<1>8. Emits(w, Y, mid)  BY <1>2, <1>7, EmitWholeEmits
<1> HIDE DEF w, Y
<1>9. CASE rest = 0
  <2>1. EmitRest(w, mid, rest) = w  BY <1>9 DEF EmitRest
  <2>2. mid = start + len  BY <1>2, <1>3, <1>9
  <2>3. Y = X \cup (start .. start + len - 1)  BY <2>2 DEF Y
  <2> HIDE DEF mid
  <2>4. Emits(w, Y, G)  BY <1>5, <1>6, <1>8, EmitsFurther
  <2> QED  BY <1>1, <2>1, <2>3, <2>4 DEF mid
<1>10. CASE rest # 0
  <2> DEFINE p == Piece(mid, 0 .. rest - 1, Vec)
  <2>1. EmitRest(w, mid, rest) = EmitWords(w, p)  BY <1>10 DEF EmitRest
  <2>2. p.start = mid /\ p.bits = 0 .. rest - 1  BY DEF Piece
  <2>3. p.bits \subseteq WindowBits  BY <1>2, <1>3, <2>2 DEF WindowBits
  <2>4. IsWhole(p)  BY <1>6, <2>2, <2>3 DEF IsWhole, Piece
  <2>5. mid + ChunkCap <= G
    <3>1. mid < RoundUp(start + len)  BY <1>2, <1>3, <1>4, <1>10
    <3>2. mid + ChunkCap <= RoundUp(start + len)
      BY <1>4, <1>6, <3>1, BoundaryGap
    <3> QED  BY <1>2, <1>4, <1>5, <1>6, <3>2
  <2>6. PieceBits(p) = mid .. start + len - 1
    <3>1. ASSUME NEW x \in Nat  PROVE x \in PieceBits(p) <=> x \in mid .. start + len - 1
      BY <1>2, <1>3, <2>2 DEF PieceBits
    <3>2. PieceBits(p) \subseteq Nat  BY DEF PieceBits
    <3>3. mid .. start + len - 1 \subseteq Nat  BY <1>6
    <3> QED  BY <3>1, <3>2, <3>3
  <2>7. Y \cup PieceBits(p) = X \cup (start .. start + len - 1)
    <3>1. (start .. mid - 1) \cup (mid .. start + len - 1) = start .. start + len - 1
      BY <1>2, <1>3
    <3> QED  BY <2>6, <3>1 DEF Y
  <2> HIDE DEF p, mid
  <2>8. mid <= p.start /\ p.start + ChunkCap <= G  BY <1>6, <2>2, <2>5
  <2>9. Emits(EmitWords(w, p), Y \cup PieceBits(p), G)
    BY <1>5, <1>8, <2>4, <2>8, EmitWordsEmits
  <2> QED  BY <1>1, <2>1, <2>7, <2>9
<1> QED  BY <1>9, <1>10

\* The beginning of a run, up to the first boundary.
LEMMA EmitHeadEmits ==
  ASSUME NEW e, NEW X, NEW F, Emits(e, X, F), NEW lo \in Nat, NEW hi \in Nat,
         F <= AlignedOffset(lo)
  PROVE  Emits(EmitHead(e, lo, hi), X \cup (lo .. Lesser(hi, RoundUp(lo)) - 1), RoundUp(lo))
<1> DEFINE a == AlignedOffset(lo)
           r == RoundUp(lo)
           top == Lesser(hi, r)
<1>1. /\ a \in Nat /\ Boundary(a) /\ a <= lo /\ lo < a + ChunkCap
      /\ ChunkCap \in Nat /\ ChunkCap >= 2
  BY AlignedOffsetBounds, ChunkCapPositive
<1>2. r \in Nat /\ Boundary(r) /\ lo <= r /\ r < lo + ChunkCap  BY RoundUpBounds
<1>3. F \in Nat  BY DEF Emits, Written
<1>4. CASE Boundary(lo)
  <2>1. EmitHead(e, lo, hi) = e  BY <1>4 DEF EmitHead, Boundary
  <2>2. r = lo
    <3>1. r <= lo  BY <1>4, RoundUpLeast
    <3> QED  BY <1>2, <3>1
  <2> HIDE DEF r
  <2>3. lo .. top - 1 = {}  BY <2>2 DEF Lesser
  <2>4. F <= lo  BY <1>1, <1>3
  <2>5. Emits(e, X, lo)  BY <1>3, <2>4, EmitsFurther
  <2>6. X \cup (lo .. top - 1) = X  BY <2>3
  <2> QED  BY <2>1, <2>2, <2>5, <2>6 DEF r
<1>5. CASE ~Boundary(lo)
  <2> DEFINE p == Piece(a, OffsetsIn(a, lo, hi), Vec)
  <2>1. EmitHead(e, lo, hi) = EmitWords(e, p)  BY <1>5 DEF EmitHead, Boundary
  <2>2. p.start = a /\ p.bits = OffsetsIn(a, lo, hi)  BY DEF Piece
  <2>3. OffsetsIn(a, lo, hi) = {b \in WindowBits : lo <= a + b /\ a + b < hi}
    BY DEF OffsetsIn
  <2> HIDE DEF a, r
  <2>4. IsWhole(p)  BY <1>1, <2>2, <2>3 DEF IsWhole, Piece
  <2>5. r = a + ChunkCap
    <3>1. a < lo  BY <1>1, <1>5
    <3>2. a + ChunkCap <= r  BY <1>1, <1>2, <3>1, BoundaryGap
    <3>3. Boundary(a + ChunkCap)  BY <1>1, BoundaryZero, BoundarySum
    <3>4. r <= a + ChunkCap
      <4>1. lo <= a + ChunkCap  BY <1>1
      <4> QED  BY <3>3, <4>1, RoundUpLeast DEF r
    <3> QED  BY <1>1, <1>2, <3>2, <3>4
  <2>6. PieceBits(p) = lo .. top - 1
    <3>1. ASSUME NEW x \in Nat  PROVE x \in PieceBits(p) <=> x \in lo .. top - 1
      BY <1>1, <1>2, <2>2, <2>3, <2>5 DEF PieceBits, Lesser, WindowBits
    <3>2. PieceBits(p) \subseteq Nat  BY DEF PieceBits
    <3>3. lo .. top - 1 \subseteq Nat  OBVIOUS
    <3> QED  BY <3>1, <3>2, <3>3
  <2> HIDE DEF p
  <2>7. F <= p.start /\ p.start + ChunkCap <= r  BY <1>1, <1>2, <2>2, <2>5 DEF a
  <2>8. Emits(EmitWords(e, p), X \cup PieceBits(p), r)
    BY <1>2, <2>4, <2>7, EmitWordsEmits
  <2> QED  BY <2>1, <2>6, <2>8 DEF r
<1> QED  BY <1>4, <1>5

\* A run that begins anywhere.
LEMMA EmitRunEmits ==
  ASSUME NEW e, NEW X, NEW F, Emits(e, X, F), NEW lo \in Nat, NEW hi \in Nat, NEW G,
         Limit(G), F <= AlignedOffset(lo), F <= G, RoundUp(hi) <= G
  PROVE  Emits(EmitRun(e, lo, hi), X \cup (lo .. hi - 1), G)
<1> DEFINE r == RoundUp(lo)
           h == EmitHead(e, lo, hi)
           Y == X \cup (lo .. Lesser(hi, r) - 1)
<1>1. r \in Nat /\ Boundary(r) /\ lo <= r /\ r < lo + ChunkCap  BY RoundUpBounds
<1>2. RoundUp(hi) \in Nat /\ Boundary(RoundUp(hi)) /\ hi <= RoundUp(hi)
  BY RoundUpBounds
<1>3. F \in Nat /\ G \in Nat  BY DEF Emits, Written, Limit
<1>4. Emits(h, Y, r)  BY EmitHeadEmits
<1>5. CASE lo >= hi
  <2>1. EmitRun(e, lo, hi) = e  BY <1>5 DEF EmitRun
  <2>2. lo .. hi - 1 = {}  BY <1>5
  <2>3. Emits(e, X, G)  BY <1>3, EmitsFurther
  <2>4. X \cup (lo .. hi - 1) = X  BY <2>2
  <2> QED  BY <2>1, <2>3, <2>4
<1>6. CASE ~(lo >= hi) /\ r >= hi
  <2>1. EmitRun(e, lo, hi) = h  BY <1>6 DEF EmitRun
  <2>2. r <= RoundUp(hi)
    <3>1. lo <= RoundUp(hi)  BY <1>2, <1>6
    <3> QED  BY <1>2, <3>1, RoundUpLeast
  <2> HIDE DEF h, r
  <2>3. Lesser(hi, r) = hi  BY <1>1, <1>6 DEF Lesser
  <2>4. r <= G  BY <1>1, <1>2, <1>3, <2>2
  <2>5. Y = X \cup (lo .. hi - 1)  BY <2>3
  <2> HIDE DEF Y
  <2>6. Emits(h, Y, G)  BY <1>3, <1>4, <2>4, EmitsFurther
  <2> QED  BY <2>1, <2>5, <2>6
<1>7. CASE ~(lo >= hi) /\ ~(r >= hi)
  <2> DEFINE len == hi - r
  <2>1. EmitRun(e, lo, hi) = EmitRLE(h, r, len)  BY <1>7 DEF EmitRun, Then
  <2> HIDE DEF h, r
  <2>2. len \in Nat /\ r + len = hi  BY <1>1, <1>7
  <2>3. Lesser(hi, r) = r  BY <1>1, <1>7 DEF Lesser
  <2>4. Y \cup (r .. r + len - 1) = X \cup (lo .. hi - 1)
    <3>1. (lo .. r - 1) \cup (r .. hi - 1) = lo .. hi - 1  BY <1>1, <1>7
    <3>2. Y = X \cup (lo .. r - 1)  BY <2>3
    <3> HIDE DEF Y
    <3>3. Y \cup (r .. hi - 1) = X \cup ((lo .. r - 1) \cup (r .. hi - 1))  BY <3>2
    <3>4. r + len - 1 = hi - 1  BY <1>1, <2>2
    <3> HIDE DEF len
    <3> QED  BY <3>1, <3>3, <3>4
  <2>5. RoundUp(r + len) <= G /\ r <= r  BY <1>1, <2>2
  <2> HIDE DEF Y, len
  <2>6. Emits(EmitRLE(h, r, len), Y \cup (r .. r + len - 1), G)
    BY <1>1, <1>4, <2>2, <2>5, EmitRLEEmits
  <2> QED  BY <2>1, <2>4, <2>6
<1> QED  BY <1>5, <1>6, <1>7

----------------------------------------------------------------------------
(* A part of a chunk.                                                      *)

\* A sparse chunk's words answer for all of its window.
LEMMA SparseWords ==
  ASSUME NEW c, Canonical(c), ~IsRLE(c)
  PROVE  /\ SlotsOf(c) = Vec /\ SparseBits(c) \subseteq WindowBits
         /\ EndOf(c) = c.start + ChunkCap /\ c.start \in Nat /\ Boundary(c.start)
         /\ \A x \in Nat : x - c.start \in SparseBits(c) <=> x \in BitsOf(c)
<1>1. SparseOK(c)  BY SparseIsOK DEF Canonical
<1>2. c.flag \in [Vec -> Flag]  BY <1>1, SparseFields
<1>3. SlotsOf(c) = Vec
  <2>1. \A v \in Vec : c.flag[v] # "none"  BY <1>2 DEF Flag
  <2> QED  BY <2>1 DEF SlotsOf, Absent
<1>4. /\ c.start \in Nat /\ EndOf(c) = c.start + ChunkCap
      /\ \A x \in Nat : x \in BitsOf(c) <=>
           x - c.start \in 0 .. ChunkCap - 1 /\ IsSet(c, x - c.start)
  BY <1>1, HeldSparse
<1>5. SparseBits(c) = {b \in 0 .. ChunkCap - 1 : IsSet(c, b)}
  BY DEF SparseBits, WindowBits
<1>6. Boundary(c.start)  BY <1>1 DEF SparseOK
<1> QED  BY <1>3, <1>4, <1>5, <1>6 DEF WindowBits

\* A whole sparse chunk is a piece that answers for its window.
LEMMA ClippedIsWhole ==
  ASSUME NEW c, Canonical(c), ~IsRLE(c), NEW from \in Nat, NEW to \in Nat,
         from <= c.start, EndOf(c) <= to
  PROVE  /\ Clipped(c, from, to) = Piece(c.start, SparseBits(c), Vec)
         /\ IsWhole(Clipped(c, from, to)) /\ PieceBits(Clipped(c, from, to)) = BitsOf(c)
         /\ Clipped(c, from, to).start = c.start
         /\ Clipped(c, from, to).bits = SparseBits(c)
         /\ Clipped(c, from, to).slots = Vec
<1>1. /\ SlotsOf(c) = Vec /\ SparseBits(c) \subseteq WindowBits
      /\ EndOf(c) = c.start + ChunkCap /\ c.start \in Nat /\ Boundary(c.start)
      /\ \A x \in Nat : x - c.start \in SparseBits(c) <=> x \in BitsOf(c)
  BY SparseWords
<1>2. ChunkCap \in Nat /\ ChunkCap >= 2  BY ChunkCapPositive
<1>3. {b \in SparseBits(c) : from <= c.start + b /\ c.start + b < to} = SparseBits(c)
  <2>1. ASSUME NEW b \in SparseBits(c)  PROVE from <= c.start + b /\ c.start + b < to
    <3>1. b \in 0 .. ChunkCap - 1  BY <1>1 DEF WindowBits
    <3> QED  BY <1>1, <1>2, <3>1
  <2> QED  BY <2>1
<1>4. ASSUME NEW v \in Vec
      PROVE  c.start + (v + 1) * BitsPerVector > from /\ c.start + v * BitsPerVector < to
  <2>1. /\ v \in Nat /\ v < FlagsPerIndex /\ FlagsPerIndex \in Nat
        /\ BitsPerVector \in Nat /\ BitsPerVector >= 1
    BY ChunkConstants DEF Vec
  <2>2. /\ v * BitsPerVector \in Nat /\ FlagsPerIndex * BitsPerVector \in Nat
        /\ v * BitsPerVector + BitsPerVector <= FlagsPerIndex * BitsPerVector
    BY <2>1, WordGap
  <2>3. FlagsPerIndex * BitsPerVector = ChunkCap  BY <2>1 DEF ChunkCap
  <2>4. (v + 1) * BitsPerVector = v * BitsPerVector + BitsPerVector  BY <2>1
  <2> DEFINE k == v * BitsPerVector
  <2> HIDE DEF k
  <2>5. k \in Nat /\ k + BitsPerVector <= ChunkCap  BY <2>2, <2>3 DEF k
  <2>6. c.start + (k + BitsPerVector) > from /\ c.start + k < to
    BY <1>1, <1>2, <2>1, <2>5
  <2> QED  BY <2>4, <2>6 DEF k
<1>5. {v \in Vec : /\ c.start + (v + 1) * BitsPerVector > from
                   /\ c.start + v * BitsPerVector < to} = Vec
  BY <1>4
<1> DEFINE p == Piece(c.start, SparseBits(c), Vec)
<1>6. Clipped(c, from, to) = p  BY <1>1, <1>3, <1>5 DEF Clipped
<1>7. p.start = c.start /\ p.bits = SparseBits(c) /\ p.slots = Vec  BY DEF Piece
<1>8. IsWhole(p)  BY <1>1, <1>7 DEF IsWhole, Piece
<1> HIDE DEF p
<1>9. PieceBits(p) = BitsOf(c)  BY <1>1, <1>7 DEF PieceBits, BitsOf
<1> QED  BY <1>6, <1>7, <1>8, <1>9 DEF p

\* What c holds in [from, to).
Within(c, from, to) == {x \in BitsOf(c) : from <= x /\ x < to}

\* The part of c in [from, to) can be written after F and below G.  A sparse
\* chunk goes out whole.
Clips(c, from, to, F, G) ==
  /\ Canonical(c) /\ from \in Nat /\ to \in Nat /\ Boundary(to)
  /\ to <= EndOf(c) /\ to <= G /\ Limit(G) /\ F <= G
  /\ from < to => /\ F <= AlignedOffset(Greater(from, c.start))
                  /\ ~IsRLE(c) => from <= c.start /\ to = EndOf(c)

\* The part of a chunk, written.
LEMMA EmitChunkBitsWritten ==
  ASSUME NEW m, NEW X, NEW F, Written(m, X, F), NEW c, NEW from, NEW to, NEW G,
         Clips(c, from, to, F, G)
  PROVE  Written(EmitChunkBits(m, c, from, to), X \cup Within(c, from, to), G)
<1>1. /\ Canonical(c) /\ from \in Nat /\ to \in Nat /\ Boundary(to)
      /\ to <= EndOf(c) /\ to <= G /\ Limit(G) /\ F <= G /\ G \in Nat
  BY DEF Clips, Limit
<1>2. F \in Nat  BY DEF Written
<1>3. CASE from >= to
  <2>1. EmitChunkBits(m, c, from, to) = m  BY <1>3 DEF EmitChunkBits
  <2>2. Within(c, from, to) = {}
    <3>1. BitsOf(c) \subseteq Nat  BY DEF BitsOf
    <3> QED  BY <1>1, <1>3, <3>1 DEF Within
  <2>3. X \cup Within(c, from, to) = X  BY <2>2
  <2>4. Written(m, X, G)  BY <1>1, WrittenFurther
  <2> QED  BY <2>1, <2>3, <2>4
<1>4. CASE ~(from >= to) /\ IsRLE(c)
  <2> DEFINE lo == Greater(from, c.start)
             hi == Lesser(to, c.start + c.len)
             e == EmitTo(m)
             r == EmitRun(e, lo, hi)
             Y == X \cup (lo .. hi - 1)
  <2>1. F <= AlignedOffset(lo)  BY <1>1, <1>4 DEF Clips
  <2>2. /\ c.start \in Nat /\ c.len \in Nat
        /\ BitsOf(c) = c.start .. c.start + c.len - 1
    BY <1>1, <1>4, RunFields DEF Canonical
  <2>3. lo \in Nat /\ hi \in Nat /\ hi <= to  BY <1>1, <2>2 DEF Lesser, Greater
  <2>4. EmitChunkBits(m, c, from, to) = Flush(r).out  BY <1>4 DEF EmitChunkBits
  <2>5. lo .. hi - 1 = Within(c, from, to)
    <3>1. ASSUME NEW x \in Nat
          PROVE  x \in lo .. hi - 1 <=> x \in Within(c, from, to)
      BY <1>1, <2>2 DEF Within, Lesser, Greater
    <3>2. Within(c, from, to) \subseteq Nat  BY DEF Within, BitsOf
    <3>3. lo .. hi - 1 \subseteq Nat  BY <2>3
    <3> HIDE DEF lo, hi
    <3> QED  BY <3>1, <3>2, <3>3
  <2> HIDE DEF lo, hi
  <2>6. RoundUp(hi) <= G
    <3>1. RoundUp(hi) <= to /\ RoundUp(hi) \in Nat
      BY <1>1, <2>3, RoundUpLeast, RoundUpBounds
    <3> QED  BY <1>1, <3>1
  <2>7. Emits(e, X, F)  BY EmitToEmits
  <2> HIDE DEF e
  <2>8. Emits(r, Y, G)  BY <1>1, <2>1, <2>3, <2>6, <2>7, EmitRunEmits
  <2> HIDE DEF r, Y
  <2>9. Written(Flush(r).out, Y, G)  BY <2>8 DEF Emits
  <2> QED  BY <2>4, <2>5, <2>9 DEF Y
<1>5. CASE ~(from >= to) /\ ~IsRLE(c)
  <2> DEFINE p == Clipped(c, from, to)
  <2>1. F <= AlignedOffset(Greater(from, c.start)) /\ from <= c.start /\ to = EndOf(c)
    BY <1>1, <1>5 DEF Clips
  <2>2. c.start \in Nat /\ EndOf(c) = c.start + ChunkCap /\ ChunkCap \in Nat
    BY <1>1, <1>5, SparseWords, ChunkCapPositive
  <2>3. F <= c.start
    <3>1. Greater(from, c.start) = c.start
      BY <1>1, <2>1, <2>2 DEF Greater
    <3>2. AlignedOffset(c.start) <= c.start /\ AlignedOffset(c.start) \in Nat
      BY <2>2, AlignedOffsetBounds
    <3> QED  BY <1>2, <2>1, <2>2, <3>1, <3>2
  <2>4. EmitChunkBits(m, c, from, to) = AppendSparse(m, p)
    BY <1>5 DEF EmitChunkBits
  <2>5. IsWhole(p) /\ PieceBits(p) = BitsOf(c) /\ p.start = c.start
    <3>1. EndOf(c) <= to  BY <1>1, <2>1
    <3> QED  BY <1>1, <1>5, <2>1, <3>1, ClippedIsWhole
  <2>6. BitsOf(c) = Within(c, from, to)
    <3>1. ASSUME NEW x \in BitsOf(c)  PROVE from <= x /\ x < to
      <4>1. x \in Nat /\ c.start <= x /\ x < EndOf(c)  BY DEF BitsOf
      <4> QED  BY <1>1, <2>1, <2>2, <4>1
    <3> QED  BY <3>1 DEF Within
  <2> HIDE DEF p
  <2>7. F <= p.start /\ p.start + ChunkCap <= G  BY <1>1, <2>1, <2>2, <2>3, <2>5
  <2>8. Written(AppendSparse(m, p), X \cup PieceBits(p), G)
    BY <1>1, <2>5, <2>7, AppendSparseWritten
  <2> QED  BY <2>4, <2>5, <2>6, <2>8
<1> QED  BY <1>3, <1>4, <1>5
=============================================================================
