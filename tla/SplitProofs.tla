---------------------------- MODULE SplitProofs -----------------------------
(***************************************************************************)
(* sm_split, proved: no index is lost, what is moved is what lies at or     *)
(* above the point, and both maps are valid at every step.                 *)
(***************************************************************************)
EXTENDS Split, EmitterTheorems

----------------------------------------------------------------------------
(* Maps of chunks, of which some may be without indices.                   *)

\* m, in the chunk form, is in order, its words are counted, and it holds X.
InChunks(m, X, L) ==
  /\ Limit(L) /\ m = Full(Plain(m)) /\ Bears(Chunks, Plain(m), X, L) /\ m.used <= m.cap

\* What that says of its fields.
LEMMA InChunksFields ==
  ASSUME NEW m, NEW X, NEW L, InChunks(m, X, L)
  PROVE  /\ ~IsSmall(m) /\ m.words = << >> /\ L \in Nat
         /\ m = ResultMap(m.chunks, m.used, m.cap)
         /\ IsPlain(Plain(m), m.cap) /\ m = Full(Plain(m)) /\ Bears(Chunks, Plain(m), X, L)
         /\ Plain(m).chunks = m.chunks /\ Plain(m).used = m.used /\ Plain(m).cap = m.cap
         /\ StreamOK(m.chunks, 0, L) /\ Codes(Chunks, m.chunks, X, m.used - 1)
         /\ m.chunks \in Seq(Chunks) /\ Len(m.chunks) \in Nat
         /\ DOMAIN m.chunks = 1 .. Len(m.chunks)
         /\ m.used \in Nat /\ m.cap \in Nat /\ m.used <= m.cap /\ 1 <= m.used
         /\ m.used = 1 + StreamWords(m.chunks)
<1> DEFINE q == Plain(m)
<1>1. /\ q.chunks = m.chunks /\ q.used = m.used /\ q.cap = m.cap /\ IsPlain(q, m.cap)
  BY DEF Plain, IsPlain
<1>2. /\ m = Full(q) /\ Bears(Chunks, q, X, L) /\ m.used <= m.cap /\ L \in Nat
  BY DEF InChunks, Limit
<1> HIDE DEF q
<1>3. m = ResultMap(m.chunks, m.used, m.cap)  BY <1>1, <1>2 DEF Full, ResultMap
<1>4. ~IsSmall(m) /\ m.words = << >>  BY <1>2, FullFields
<1>5. /\ MapOK(q, L) /\ Codes(Chunks, m.chunks, X, m.used - 1)
  BY <1>1, <1>2 DEF Bears, HeaderWords
<1>6. /\ StreamOK(m.chunks, 0, L) /\ m.used \in Int /\ m.cap \in Nat
      /\ m.chunks \in Seq(Chunks)
  BY <1>1, <1>5 DEF MapOK
<1>7. Len(m.chunks) \in Nat /\ DOMAIN m.chunks = 1 .. Len(m.chunks)  BY <1>6, LenProperties
<1>8. StreamWords(m.chunks) \in Nat  BY <1>6, StreamWordsIsNat
<1>9. m.used - 1 = StreamWords(m.chunks)  BY <1>5 DEF Codes
<1>10. m.used \in Nat /\ 1 <= m.used /\ m.used = 1 + StreamWords(m.chunks)
  BY <1>6, <1>8, <1>9
<1> QED  BY <1>1, <1>2, <1>3, <1>4, <1>5, <1>6, <1>7, <1>10 DEF q

\* The same of one of its chunks.
LEMMA ChunkOfChunks ==
  ASSUME NEW m, NEW X, NEW L, InChunks(m, X, L), NEW j \in 1 .. Len(m.chunks)
  PROVE  /\ ChunkOK(m.chunks[j]) /\ BitsOf(m.chunks[j]) \subseteq X
         /\ ~IsRLE(m.chunks[j]) => SparseOK(m.chunks[j]) /\ ProperWords(m.chunks[j])
         /\ m.chunks[j] \in Chunks
         /\ m.chunks[j].start \in Nat /\ Boundary(m.chunks[j].start)
         /\ EndOf(m.chunks[j]) \in Nat /\ Boundary(EndOf(m.chunks[j]))
         /\ m.chunks[j].start + ChunkCap <= EndOf(m.chunks[j]) /\ EndOf(m.chunks[j]) <= L
         /\ InShape(Chunks, m.chunks[j]) /\ Size(m.chunks[j]) \in Nat
<1> DEFINE c == m.chunks[j]
<1>1. StreamOK(m.chunks, 0, L) /\ Codes(Chunks, m.chunks, X, m.used - 1)
  BY InChunksFields
<1>2. ChunkOK(c) /\ EndOf(c) <= L  BY <1>1 DEF StreamOK
<1>3. InShape(Chunks, c) /\ BitsOf(c) \subseteq X  BY <1>1 DEF Codes, Bits
<1> HIDE DEF c
<1>4. ~IsRLE(c) => SparseOK(c) /\ ProperWords(c)  BY <1>2, <1>3, SparseIsOK DEF InShape
<1>5. /\ c \in Chunks /\ c.start \in Nat /\ Boundary(c.start)
      /\ EndOf(c) \in Nat /\ Boundary(EndOf(c)) /\ c.start + ChunkCap <= EndOf(c)
  BY <1>2, ChunkExtent
<1> QED  BY <1>2, <1>3, <1>4, <1>5, SizeIsNat DEF c

\* What fields make such a map.
Chunked(s, w, size, X, L) ==
  /\ Limit(L) /\ StreamOK(s, 0, L) /\ Codes(Chunks, s, X, w - 1)
  /\ w \in Int /\ size \in Nat /\ w <= size

\* A map of those fields.
LEMMA InChunksFrom ==
  ASSUME NEW s, NEW w, NEW size, NEW X, NEW L, Chunked(s, w, size, X, L)
  PROVE  InChunks(ResultMap(s, w, size), X, L)
<1> DEFINE m == ResultMap(s, w, size)
<1>1. m.chunks = s /\ m.used = w /\ m.cap = size  BY DEF ResultMap
<1>2. m = Full(Plain(m))  BY DEF Full, Plain, ResultMap
<1>3. Plain(m) = [chunks |-> s, used |-> w, cap |-> size]  BY <1>1 DEF Plain
<1>4. s \in Seq(Chunks)  BY DEF Chunked, StreamOK
<1> HIDE DEF m
<1>5. MapOK(Plain(m), L)
  BY <1>3, <1>4 DEF MapOK, Chunked
<1>6. Bears(Chunks, Plain(m), X, L)  BY <1>3, <1>5 DEF Bears, HeaderWords, Chunked
<1> QED  BY <1>1, <1>2, <1>6 DEF InChunks, Chunked, m

\* A map of canonical chunks is one.
LEMMA ChunkHoldsInChunks ==
  ASSUME NEW m, NEW X, NEW L, Limit(L), ChunkHolds(m, X, L)
  PROVE  InChunks(m, X, L)
<1>1. m = Full(Plain(m)) /\ Keeps(Plain(m), X, L) /\ Plain(m).used <= Plain(m).cap
  BY DEF ChunkHolds, Fits
<1>2. Plain(m).used = m.used /\ Plain(m).cap = m.cap  BY DEF Plain
<1>3. \A c : Canonical(c) => InShape(Chunks, c)
  BY DEF Canonical, InShape
<1>4. Bears(Chunks, Plain(m), X, L)
  BY <1>1, <1>3 DEF Keeps, Bears, Encodes, Codes
<1> QED  BY <1>1, <1>2, <1>4 DEF InChunks

\* And a map of chunks that all hold an index is one of canonical chunks.
LEMMA InChunksHold ==
  ASSUME NEW m, NEW X, NEW L, InChunks(m, X, L),
         \A j \in 1 .. Len(m.chunks) : BitsOf(m.chunks[j]) # {}
  PROVE  ChunkHolds(m, X, L)
<1> DEFINE q == Plain(m)
<1>1. /\ m = Full(q) /\ Bears(Chunks, q, X, L) /\ q.chunks = m.chunks
      /\ q.used = m.used /\ q.cap = m.cap /\ m.used <= m.cap
  BY InChunksFields
<1> HIDE DEF q
<1>2. Codes(Chunks, q.chunks, X, q.used - HeaderWords) /\ MapOK(q, L)  BY <1>1 DEF Bears
<1>3. \A j \in 1 .. Len(q.chunks) : Canonical(q.chunks[j])
  BY <1>1, <1>2 DEF Codes, InShape, Canonical
<1>4. Fits(q, X, L)  BY <1>1, <1>2, <1>3 DEF Fits, Keeps, Encodes, Codes
<1> QED  BY <1>1, <1>4 DEF ChunkHolds, q

\* Such a map is valid.
LEMMA InChunksIsValid ==
  ASSUME NEW m, NEW X, NEW L, InChunks(m, X, L)
  PROVE  ValidForm(m)
<1>1. /\ ~IsSmall(m) /\ StreamOK(m.chunks, 0, L) /\ m.used <= m.cap
      /\ m.used = 1 + StreamWords(m.chunks)
  BY InChunksFields
<1>2. WellFormed(m.chunks)  BY <1>1, StreamIsWellFormed
<1> QED  BY <1>1, <1>2 DEF ValidForm, Valid, Accounted, HeaderWords

\* m, in whichever form, is valid and holds X.
Carries(m, X, L) == SmallHolds(m, X) \/ InChunks(m, X, L)

\* What sm_contains finds in it is X.
LEMMA CarriesMembers ==
  ASSUME NEW m, NEW X, NEW L, Covers(L), Carries(m, X, L)
  PROVE  /\ MembersOf(m) = X /\ X \subseteq 0 .. L - 1 /\ X \subseteq Nat
         /\ \A i \in Nat : Holds(m, i) <=> i \in X
         /\ ValidForm(m)
<1>1. L \in Nat /\ ChunkCap <= L /\ L <= RLEMax /\ RLEMax \in Nat
  BY ChunkConstants DEF Covers, Limit
<1>2. /\ X \subseteq 0 .. L - 1 /\ \A i \in Nat : Holds(m, i) <=> i \in X
      /\ ValidForm(m)
  <2>1. CASE SmallHolds(m, X)
    <3>1. Stores(m, X, L)  BY <2>1 DEF Stores
    <3>2. /\ X \subseteq 0 .. L - 1
          /\ \A i \in Nat : Holds(m, i) <=> i \in X
      BY <1>1, <3>1, HoldsIs
    <3> QED  BY <3>1, <3>2, StoresIsValid
  <2>2. CASE InChunks(m, X, L)
    <3>1. /\ ~IsSmall(m) /\ StreamOK(m.chunks, 0, L) /\ Codes(Chunks, m.chunks, X, m.used - 1)
      BY <2>2, InChunksFields
    <3>2. X = Bits(m.chunks)  BY <3>1 DEF Codes
    <3>3. ASSUME NEW i \in Nat  PROVE Holds(m, i) <=> i \in X
      BY <3>1, <3>2, HasBitHolds DEF Holds
    <3>4. ASSUME NEW x \in X  PROVE x \in 0 .. L - 1
      <4>1. PICK j \in 1 .. Len(m.chunks) : x \in BitsOf(m.chunks[j])  BY <3>2 DEF Bits
      <4>2. /\ x \in Nat /\ x < EndOf(m.chunks[j]) /\ EndOf(m.chunks[j]) \in Nat
        BY <3>1, <4>1, HeldWithin
      <4>3. EndOf(m.chunks[j]) <= L  BY <3>1, <4>1 DEF StreamOK
      <4> QED  BY <1>1, <4>2, <4>3
    <3> QED  BY <2>2, <3>3, <3>4, InChunksIsValid
  <2> QED  BY <2>1, <2>2 DEF Carries
<1>3. MembersOf(m) = X
  <2>1. ASSUME NEW i \in MembersOf(m)  PROVE i \in X
    BY <1>1, <1>2 DEF MembersOf, MembersBelow, Top
  <2>2. ASSUME NEW i \in X  PROVE i \in MembersOf(m)
    <3>1. i \in 0 .. L - 1 /\ i \in Nat  BY <1>1, <1>2
    <3>2. i \in 0 .. (RLEMax + 1) - 1  BY <1>1, <3>1
    <3> QED  BY <1>2, <3>1, <3>2 DEF MembersOf, MembersBelow, Top
  <2> QED  BY <2>1, <2>2
<1>4. X \subseteq Nat  BY <1>1, <1>2
<1> QED  BY <1>2, <1>3, <1>4

\* Chunk j of m gives way to t, which holds B in w words, between a and b.
PutIn(m, X, j, t, B, w, words, b, L) ==
  /\ InChunks(m, X, L) /\ j \in 1 .. Len(m.chunks)
  /\ Codes(Chunks, t, B, w) /\ w \in Int /\ words = w - (1 + Size(m.chunks[j]))
  /\ b \in Int /\ StreamOK(t, m.chunks[j].start, b) /\ m.chunks[j].start <= b /\ b <= L
  /\ j < Len(m.chunks) => b <= m.chunks[j + 1].start
  /\ m.used + words <= m.cap

\* The map then holds B in place of what the chunk held.
LEMMA PutHolds ==
  ASSUME NEW m, NEW X, NEW j, NEW t, NEW B, NEW w, NEW words, NEW b, NEW L,
         PutIn(m, X, j, t, B, w, words, b, L),
         NEW r, r = Replace(m, j, 1, t, words)
  PROVE  /\ InChunks(r, (X \ BitsOf(m.chunks[j])) \cup B, L) /\ r.cap = m.cap
         /\ r.chunks = Splice(m.chunks, j, 1, t) /\ r.used = m.used + words
<1> DEFINE q == Plain(m)
           p == Replace(q, j, 1, t, words)
           Y == (X \ BitsOf(m.chunks[j])) \cup B
<1>1. /\ IsPlain(q, m.cap) /\ m = Full(q) /\ Bears(Chunks, q, X, L) /\ Limit(L)
      /\ q.chunks = m.chunks /\ q.used = m.used /\ q.cap = m.cap
      /\ j \in 1 .. Len(m.chunks)
  BY InChunksFields DEF PutIn, InChunks
<1>2. words \in Int  BY SizeIsNat DEF PutIn
<1> HIDE DEF q
<1>3. r = Full(p) /\ IsPlain(p, m.cap)  BY <1>1, FullReplace
<1>4. MapOK(p, L)
  <2>1. MapOK(q, L)  BY <1>1 DEF Bears
  <2>2. /\ b \in Int /\ StreamOK(t, q.chunks[j].start, b) /\ q.chunks[j].start <= b /\ b <= L
        /\ j < Len(q.chunks) => b <= q.chunks[j + 1].start
    BY <1>1 DEF PutIn
  <2> QED  BY <1>1, <1>2, <2>1, <2>2, ReplaceOne
<1>5. RewritesIn(Chunks, q, X, j, t, B, w, words, L)
  BY <1>1, <1>4 DEF PutIn, RewritesIn
<1>6. /\ Bears(Chunks, p, (X \ BitsOf(q.chunks[j])) \cup B, L)
      /\ p.used = q.used + words
  BY <1>5, RewriteBears
<1>7. Bears(Chunks, p, Y, L) /\ p.used = m.used + words /\ p.cap = m.cap
  BY <1>1, <1>3, <1>6 DEF IsPlain
<1>8. p.chunks = Splice(m.chunks, j, 1, t)
  <2>1. q \in [chunks : Seq(Chunks), used : Int, cap : Nat]  BY <1>1 DEF Bears, MapOK
  <2> DEFINE u == Splice(m.chunks, j, 1, t)
  <2>2. p = [q EXCEPT !.chunks = u, !.used = q.used + words]  BY <1>1 DEF Replace
  <2> HIDE DEF u, p
  <2> QED  BY <2>1, <2>2, TwoFields DEF u
<1> HIDE DEF p, Y
<1>9. r.chunks = p.chunks /\ r.used = p.used /\ r.cap = p.cap  BY <1>3, FullFields
<1>10. Plain(r) = p  BY <1>3, <1>9 DEF Plain, IsPlain
<1>11. r.used <= r.cap  BY <1>7, <1>9 DEF PutIn
<1>12. InChunks(r, Y, L)  BY <1>1, <1>3, <1>7, <1>10, <1>11 DEF InChunks
<1> QED  BY <1>7, <1>8, <1>9, <1>12 DEF Y

\* __sm_coalesce_chunk at a chunk, told its own start, as sm_split calls it.
JoinsAt(m, j) == Coalesce(m, j, m.chunks[j].start, 0, FALSE)

\* It keeps what the map holds.
LEMMA CoalesceInChunks ==
  ASSUME NEW m, NEW X, NEW L, InChunks(m, X, L), NEW j \in 1 .. Len(m.chunks)
  PROVE  InChunks(JoinsAt(m, j), X, L) /\ JoinsAt(m, j).cap = m.cap
<1> DEFINE r == JoinsAt(m, j)
           q == Plain(m)
           start == m.chunks[j].start
           p == Coalesce(q, j, start, 0, FALSE)
<1>1. /\ IsPlain(q, m.cap) /\ m = Full(q) /\ Bears(Chunks, q, X, L) /\ Limit(L)
      /\ q.chunks = m.chunks /\ q.used = m.used /\ q.cap = m.cap
      /\ StreamOK(m.chunks, 0, L) /\ m.used <= m.cap /\ m.used \in Nat /\ m.cap \in Nat
  BY InChunksFields DEF InChunks
<1>2. StartOK(q.chunks, j, start)  BY <1>1, OwnStart
<1> HIDE DEF q
<1>3. r = Full(p) /\ IsPlain(p, m.cap)
  <2>1. r = Coalesce(Full(q), j, start, 0, FALSE)  BY <1>1 DEF JoinsAt
  <2> HIDE DEF start, r
  <2>2. /\ Coalesce(Full(q), j, start, 0, FALSE) = Full(p)
        /\ IsPlain(p, m.cap)
    BY <1>1, FullCoalesce
  <2> QED  BY ONLY <2>1, <2>2
<1>4. CoalescesIn(Chunks, q, X, j, start, 0, L)
  BY <1>1, <1>2 DEF CoalescesIn
<1>5. StillBears(Chunks, p, q, X, CoalesceExact(q, j, start, 0, FALSE), L)
  BY <1>4, CoalesceBears
<1>6. CoalesceExact(q, j, start, 0, FALSE)
  BY <1>1 DEF CoalesceExact, LeftExact, RightExact
<1>7. Bears(Chunks, p, X, L) /\ p.used <= q.used  BY <1>5, <1>6 DEF StillBears
<1> HIDE DEF p, r
<1>8. p.used \in Int /\ p.cap = m.cap
  <2>1. p.used \in Int  BY <1>7 DEF Bears, MapOK
  <2>2. p.cap = m.cap  BY <1>3 DEF IsPlain
  <2> QED  BY <2>1, <2>2
<1>9. r.chunks = p.chunks /\ r.used = p.used /\ r.cap = p.cap  BY <1>3, FullFields
<1>10. Plain(r) = p  BY <1>3, <1>9 DEF Plain, IsPlain
<1>11. r.used <= r.cap
  <2>1. r.used <= m.used /\ r.cap = m.cap /\ r.used \in Int  BY <1>1, <1>7, <1>8, <1>9
  <2> QED  BY ONLY <1>1, <2>1
<1> QED  BY <1>1, <1>3, <1>7, <1>8, <1>9, <1>10, <1>11 DEF InChunks, r

\* And it leaves no more chunks than there were.
LEMMA JoinsFewer ==
  ASSUME NEW m, NEW X, NEW L, InChunks(m, X, L), NEW j \in 1 .. Len(m.chunks)
  PROVE  Len(JoinsAt(m, j).chunks) <= Len(m.chunks)
<1> DEFINE r == JoinsAt(m, j)
           q == Plain(m)
           start == m.chunks[j].start
           p == Coalesce(q, j, start, 0, FALSE)
<1>1. /\ IsPlain(q, m.cap) /\ m = Full(q) /\ Bears(Chunks, q, X, L) /\ Limit(L)
      /\ q.chunks = m.chunks /\ StreamOK(m.chunks, 0, L)
  BY InChunksFields DEF InChunks
<1>2. StartOK(q.chunks, j, start)  BY <1>1, OwnStart
<1>3. MapOK(q, L)  BY <1>1 DEF Bears
<1> HIDE DEF q
<1>4. r = Full(p)
  <2>1. r = Coalesce(Full(q), j, start, 0, FALSE)  BY <1>1 DEF JoinsAt
  <2> HIDE DEF start, r
  <2>2. /\ Coalesce(Full(q), j, start, 0, FALSE) = Full(p)
        /\ IsPlain(p, m.cap)
    BY <1>1, FullCoalesce
  <2> QED  BY ONLY <2>1, <2>2
<1> HIDE DEF start
<1>5. Len(p.chunks) <= Len(q.chunks)
  <2>1. j \in 1 .. Len(q.chunks) /\ 0 \in Nat  BY <1>1
  <2> QED  BY <1>1, <1>2, <1>3, <2>1, CoalesceShrinks
<1> HIDE DEF p, r
<1>6. r.chunks = p.chunks  BY <1>4, FullFields
<1> QED  BY <1>1, <1>5, <1>6 DEF r

----------------------------------------------------------------------------
(* All of the adjacent runs are joined.                                    *)

\* The loop of __sm_coalesce_map.
LEMMA CoalesceWalkLoops ==
  ASSUME NEW m, Len(m.chunks) \in Nat
  PROVE  CoalesceWalk(m) =
           Looped("join", m, Joining(m, 1, Len(m.chunks)), 2 * Len(m.chunks))
<1> DEFINE n == 2 * Len(m.chunks)
           base == Joining(m, 1, Len(m.chunks))
           s == [k \in 1 .. n |-> k]
           G(it, t) == Then(it[t \ {Max(t)}], JoinOn)
           I(it) == it = [t \in SUBSET DOMAIN s |-> IF t = {} THEN base ELSE G(it, t)]
<1>0. n \in Nat  OBVIOUS
<1>1. CoalesceWalk(m) = (CHOOSE it : I(it))[DOMAIN s]
  BY DEF CoalesceWalk, FoldLeft, MapThenFoldSet
<1>3. DOMAIN s = 1 .. n  OBVIOUS
<1>4. ASSUME NEW it  PROVE I(it) <=> Iterates(it, "join", m, base, n)
  <2>1. \A t \in SUBSET (1 .. n) : t # {} =>
          LoopBody("join", m, it[t \ {Max(t)}], Max(t)) = G(it, t)
    BY DEF LoopBody
  <2> HIDE DEF s, base, G, n
  <2> QED  BY <1>3, <2>1 DEF Iterates
<1> HIDE DEF I, s, G, n, base
<1>5. (CHOOSE it : I(it)) = (CHOOSE it : Iterates(it, "join", m, base, n))
  BY <1>4, Zenon
<1> QED  BY <1>1, <1>3, <1>5 DEF Looped, n, base

\* What is left of the walk: a join takes a chunk away, and a turn without one
\* goes on to the next chunk.
Left(w) == 2 * Len(w.map.chunks) - w.at

\* Where that loop is after k turns: what the map holds has not changed, and if
\* the walk goes on each turn has left less of it.
Walking(w, k, m, X, L) ==
  /\ w = Joining(w.map, w.at, w.left)
  /\ InChunks(w.map, X, L) /\ w.map.cap = m.cap
  /\ w.at \in Nat /\ w.at >= 1 /\ w.left \in Int
  /\ Stopped(w) \/ Left(w) + k <= 2 * Len(m.chunks) - 1

\* The numbers of a turn: x chunks become y, and the place p becomes q.
LEMMA TurnLeavesLess ==
  ASSUME NEW x \in Nat, NEW y \in Nat, NEW p \in Nat, NEW q \in Nat, NEW k \in Nat,
         NEW n \in Nat, 2 * x - p + k <= 2 * n - 1,
         (y < x /\ q = p) \/ (y <= x /\ q = p + 1)
  PROVE  2 * y - q + (k + 1) <= 2 * n - 1
  OBVIOUS

\* One turn of it.
LEMMA JoinOnWalks ==
  ASSUME NEW w, NEW k \in Nat, NEW m, NEW X, NEW L, Walking(w, k, m, X, L),
         Len(m.chunks) \in Nat
  PROVE  Walking(Then(w, JoinOn), k + 1, m, X, L)
<1>1. Then(w, JoinOn) = JoinOn(w)
  <2>1. {JoinOn(z) : z \in {w}} = {JoinOn(w)}  OBVIOUS
  <2>2. Then(w, JoinOn) = CHOOSE y \in {JoinOn(z) : z \in {w}} : TRUE  BY DEF Then
  <2> QED  BY <2>1, <2>2
<1> DEFINE c == Coalesce(w.map, w.at, w.map.chunks[w.at].start, 0, FALSE)
<1>2. CASE Stopped(w)
  BY <1>1, <1>2 DEF JoinOn, Walking
<1>3. CASE ~Stopped(w)
  <2>1. JoinOn(w) = Then(c, LAMBDA z : JoinedAt(w, z))  BY <1>3 DEF JoinOn
  <2>2. Then(c, LAMBDA z : JoinedAt(w, z)) = JoinedAt(w, c)
    <3>1. {JoinedAt(w, z) : z \in {c}} = {JoinedAt(w, c)}  OBVIOUS
    <3>2. Then(c, LAMBDA z : JoinedAt(w, z))
            = CHOOSE y \in {JoinedAt(w, z) : z \in {c}} : TRUE
      BY DEF Then
    <3> QED  BY <3>1, <3>2
  <2>3. InChunks(w.map, X, L) /\ Len(w.map.chunks) \in Nat  BY InChunksFields DEF Walking
  <2>0. w.at \in Nat /\ w.at + 1 \in Nat  BY DEF Walking
  <2>4. w.at \in 1 .. Len(w.map.chunks)  BY <1>3, <2>3 DEF Walking, Stopped
  <2>5. InChunks(c, X, L) /\ c.cap = w.map.cap
    BY <2>3, <2>4, CoalesceInChunks DEF JoinsAt
  <2>6. Len(c.chunks) <= Len(w.map.chunks)
    BY <2>3, <2>4, JoinsFewer DEF JoinsAt
  <2> HIDE DEF c
  <2>7. Len(c.chunks) \in Nat  BY <2>5, InChunksFields
  <2>8. Left(w) + k <= 2 * Len(m.chunks) - 1  BY <1>3 DEF Walking
  <2>9. CASE Len(c.chunks) < Len(w.map.chunks)
    <3> DEFINE v == Joining(c, w.at, Len(c.chunks))
    <3>1. Left(v) + (k + 1) <= 2 * Len(m.chunks) - 1
      <4>1. Left(v) = 2 * Len(c.chunks) - w.at  BY DEF Left, Joining
      <4>2. 2 * Len(c.chunks) - w.at + (k + 1) <= 2 * Len(m.chunks) - 1
        BY <2>0, <2>3, <2>7, <2>8, <2>9, TurnLeavesLess DEF Left
      <4> QED  BY ONLY <4>1, <4>2
    <3>2. Walking(v, k + 1, m, X, L)  BY <2>5, <2>7, <3>1 DEF Walking, Joining
    <3> QED  BY <1>1, <2>1, <2>2, <2>9, <3>2 DEF JoinedAt
  <2>10. CASE ~(Len(c.chunks) < Len(w.map.chunks))
    <3> DEFINE v == Joining(c, w.at + 1, w.left - 1)
    <3>1. Left(v) + (k + 1) <= 2 * Len(m.chunks) - 1
      <4>1. Left(v) = 2 * Len(c.chunks) - (w.at + 1)  BY DEF Left, Joining
      <4>2. 2 * Len(c.chunks) - (w.at + 1) + (k + 1) <= 2 * Len(m.chunks) - 1
        BY <2>0, <2>3, <2>6, <2>7, <2>8, TurnLeavesLess DEF Left
      <4> QED  BY ONLY <4>1, <4>2
    <3>2. Walking(v, k + 1, m, X, L)  BY <2>5, <3>1 DEF Walking, Joining
    <3> QED  BY <1>1, <2>1, <2>2, <2>10, <3>2 DEF JoinedAt
  <2> QED  BY <2>9, <2>10
<1> QED  BY <1>2, <1>3

\* And all of it: two turns for each chunk are enough.
LEMMA CoalesceWalkHolds ==
  ASSUME NEW m, NEW X, NEW L, InChunks(m, X, L)
  PROVE  /\ InChunks(CoalesceMap(m), X, L) /\ CoalesceMap(m).cap = m.cap
         /\ CoalesceEnds(m)
<1> DEFINE n == 2 * Len(m.chunks)
           base == Joining(m, 1, Len(m.chunks))
<1>1. Len(m.chunks) \in Nat /\ n \in Nat  BY InChunksFields
<1>2. CoalesceWalk(m) = Looped("join", m, base, n)  BY <1>1, CoalesceWalkLoops
<1>3. Walking(base, 0, m, X, L)
  <2>1. Left(base) = 2 * Len(m.chunks) - 1  BY DEF Left, Joining
  <2> QED  BY <1>1, <2>1 DEF Walking, Joining
<1>a. n = 2 * Len(m.chunks)  OBVIOUS
<1> HIDE DEF n, base
<1> DEFINE loop == "join"
<1> HIDE DEF loop
<1>4. PICK f : /\ Looped(loop, m, base, n) = f[n] /\ f[0] = base
               /\ \A k \in 1 .. n : f[k] = LoopBody(loop, m, f[k - 1], k)
  <2>1. n \in Nat  BY <1>1
  <2> QED  BY ONLY <2>1, LoopUnfolds
<1> DEFINE T == {k \in 0 .. n : Walking(f[k], k, m, X, L)}
<1>5. \A k \in 0 .. n : k \in T <=> Walking(f[k], k, m, X, L)  OBVIOUS
<1> HIDE DEF T
<1>6. 0 \in T
  <2>1. 0 \in 0 .. n  BY <1>1
  <2> QED  BY <1>3, <1>4, <1>5, <2>1
<1>7. ASSUME NEW k \in 1 .. n, k - 1 \in T  PROVE k \in T
  <2>1. k - 1 \in 0 .. n /\ k \in 0 .. n /\ k - 1 \in Nat /\ (k - 1) + 1 = k  BY <1>1
  <2>2. Walking(f[k - 1], k - 1, m, X, L)  BY <1>5, <1>7, <2>1
  <2>3. f[k] = LoopBody("join", m, f[k - 1], k)  BY <1>4 DEF loop
  <2>4. f[k] = Then(f[k - 1], JoinOn)  BY <2>3 DEF LoopBody
  <2>5. Walking(f[k], (k - 1) + 1, m, X, L)  BY <1>1, <2>1, <2>2, <2>4, JoinOnWalks
  <2> QED  BY <1>5, <2>1, <2>5
<1>8. \A k \in 0 .. n : k \in T  BY <1>1, <1>6, <1>7, StepByStep
<1>9. n \in 0 .. n  BY <1>1
<1>10. Walking(f[n], n, m, X, L)  BY <1>5, <1>8, <1>9
<1> DEFINE w == f[n]
<1> HIDE DEF w
<1>11. Walking(w, n, m, X, L) /\ CoalesceWalk(m) = w  BY <1>2, <1>4, <1>10 DEF w, loop
<1>12. Stopped(w)
  <2> SUFFICES ASSUME ~Stopped(w)  PROVE FALSE
    OBVIOUS
  <2>1. InChunks(w.map, X, L)  BY <1>11 DEF Walking
  <2>2. Len(w.map.chunks) \in Nat  BY <2>1, InChunksFields
  <2>3. w.at \in Nat /\ w.at >= 1 /\ w.at <= Len(w.map.chunks)
    BY <1>11, <2>2 DEF Walking, Stopped
  <2>4. Left(w) + n <= 2 * Len(m.chunks) - 1  BY <1>11 DEF Walking
  <2> QED  BY <1>1, <1>a, <2>2, <2>3, <2>4 DEF Left
<1> QED  BY <1>11, <1>12 DEF Walking, CoalesceMap, CoalesceEnds

----------------------------------------------------------------------------
(* The form the maps end in.                                               *)

\* Without chunks a map holds nothing.
LEMMA NoneInChunks ==
  ASSUME NEW L, Limit(L), NEW size \in Nat, size >= 1
  PROVE  InChunks(ResultMap(<< >>, HeaderWords, size), {}, L)
<1>1. StreamOK(<< >>, 0, L)  BY EmptyStream
<1>2. Codes(Chunks, << >>, {}, 0)  BY CodesNone
<1>3. HeaderWords = 1 /\ 1 - 1 = 0  BY DEF HeaderWords
<1>4. Codes(Chunks, << >>, {}, HeaderWords - 1)  BY <1>2, <1>3
<1>5. Chunked(<< >>, HeaderWords, size, {}, L)  BY <1>1, <1>3, <1>4 DEF Chunked
<1> QED  BY <1>5, InChunksFrom

\* __sm_try_demote keeps what the map holds; a chunk without indices it drops.
LEMMA DemoteCarries ==
  ASSUME NEW m, NEW X, NEW L, InChunks(m, X, L), NEW r, r = TryDemote(m)
  PROVE  Carries(r, X, L) /\ r.cap = m.cap
<1>1. /\ ~IsSmall(m) /\ m = ResultMap(m.chunks, m.used, m.cap) /\ m.cap \in Nat
      /\ 1 <= m.used /\ m.used <= m.cap /\ m.used \in Nat /\ Limit(L)
      /\ Codes(Chunks, m.chunks, X, m.used - 1)
  BY InChunksFields DEF InChunks
<1>2. CASE ~LowChunk(m)
  BY <1>2 DEF TryDemote, Carries
<1>3. CASE LowChunk(m)
  <2> DEFINE c == m.chunks[1]
             bits == ChunkBits(c)
  <2>1. 1 \in 1 .. Len(m.chunks) /\ Len(m.chunks) = 1  BY <1>3 DEF LowChunk
  <2>2. X = BitsOf(c)
    <3>1. Bits(m.chunks) = BitsOf(c)  BY ONLY <2>1 DEF Bits
    <3> QED  BY <1>1, <3>1 DEF Codes
  <2>3. /\ ChunkOK(c) /\ c.start = 0
        /\ ~IsRLE(c) => SparseOK(c) /\ ProperWords(c)
    BY <1>3, <2>1, ChunkOfChunks DEF LowChunk
  <2>4. CASE BitsOf(c) # {}
    <3>1. \A j \in 1 .. Len(m.chunks) : BitsOf(m.chunks[j]) # {}  BY <2>1, <2>4
    <3>2. ChunkHolds(m, X, L)  BY <3>1, InChunksHold
    <3>3. r.cap = m.cap /\ (SmallHolds(r, X) \/ r = m)  BY <3>2, TryDemoteHolds
    <3> QED  BY <3>3 DEF Carries
  <2>5. CASE BitsOf(c) = {}
    <3>1. ~IsRLE(c)  BY <2>3, <2>5, RunIsCanonical DEF Canonical
    <3> HIDE DEF c
    <3>2. bits = {}
      <4>1. ASSUME NEW x \in 0 .. ChunkCap - 1, IsSet(c, x)  PROVE FALSE
        <5>1. x \in Nat /\ x - c.start = x  BY <2>3, ChunkCapPositive
        <5>2. x \in BitsOf(c)  BY <2>3, <3>1, <4>1, <5>1, HeldSparse
        <5> QED  BY <2>5, <5>2
      <4> QED  BY <4>1 DEF ChunkBits
    <3>3. TryDemote(m) = FewestWords(m, {})
      <4>1. {FewestWords(m, z) : z \in {bits}} = {FewestWords(m, {})}  BY <3>2
      <4>2. TryDemote(m) = (CHOOSE y \in {FewestWords(m, z) : z \in {bits}} : TRUE)
        BY <1>3 DEF TryDemote, Then, c
      <4> QED  BY <4>1, <4>2
    <3>4. r = ChunkForm(m, << >>, HeaderWords)  BY <3>1, <3>3 DEF FewestWords, c
    <3>5. r = ResultMap(<< >>, HeaderWords, m.cap)
      <4> DEFINE u == m.chunks
                 w == m.used
                 size == m.cap
      <4>1. m = ResultMap(u, w, size)  BY <1>1
      <4> HIDE DEF u, w, size
      <4>2. IsMap(m)  BY <4>1 DEF IsMap, ResultMap
      <4>3. r = Full([chunks |-> << >>, used |-> HeaderWords, cap |-> m.cap])
        BY <3>4, <4>2, FormsAre
      <4> QED  BY <4>3 DEF Full, ResultMap
    <3>6. InChunks(r, X, L)  BY <1>1, <2>2, <2>5, <3>5, NoneInChunks
    <3> QED  BY <3>5, <3>6 DEF Carries, ResultMap
  <2> QED  BY <2>4, <2>5
<1> QED  BY <1>2, <1>3

\* How sm_split leaves a map.
LEMMA TidiedCarries ==
  ASSUME NEW m, NEW X, NEW L, InChunks(m, X, L)
  PROVE  Carries(Tidied(m), X, L) /\ CoalesceEnds(m)
<1> DEFINE c == CoalesceMap(m)
<1>1. InChunks(c, X, L) /\ CoalesceEnds(m)  BY CoalesceWalkHolds
<1>2. Tidied(m) = TryDemote(c)  BY DEF Tidied
<1> HIDE DEF c
<1> QED  BY <1>1, <1>2, DemoteCarries

----------------------------------------------------------------------------
(* The parts of a run.                                                     *)

\* A part of a stream, between lo and hi, that holds B.
Part(s, lo, hi, B) == StreamOK(s, lo, hi) /\ Codes(Chunks, s, B, StreamWords(s))

\* Nothing.
LEMMA PieceNone == ASSUME NEW lo, NEW hi  PROVE Part(<< >>, lo, hi, {})
  BY EmptyStream, CodesNone, WordsNone DEF Part

\* One chunk.
LEMMA PieceOne ==
  ASSUME NEW c, InShape(Chunks, c), NEW lo \in Int, NEW hi \in Int,
         lo <= c.start, EndOf(c) <= hi
  PROVE  Part(<< c >>, lo, hi, BitsOf(c))
<1>1. ChunkOK(c)  BY DEF InShape
<1>2. StreamOK(<< c >>, lo, hi)  BY <1>1, OneChunkStream
<1>3. Codes(Chunks, << c >>, BitsOf(c), 1 + Size(c))  BY CodesOne
<1>4. Codes(Chunks, << c >>, BitsOf(c), StreamWords(<< c >>))  BY <1>3 DEF Codes
<1> QED  BY <1>2, <1>4 DEF Part

\* One part after the other.
LEMMA PieceAfterPiece ==
  ASSUME NEW s, NEW t, NEW lo \in Int, NEW mid \in Int, NEW hi \in Int,
         lo <= mid, mid <= hi, NEW B, NEW C, Part(s, lo, mid, B), Part(t, mid, hi, C)
  PROVE  /\ Part(s \o t, lo, hi, B \cup C)
         /\ StreamWords(s \o t) = StreamWords(s) + StreamWords(t)
<1>1. StreamOK(s \o t, lo, hi)  BY ConcatStream DEF Part
<1>2. Codes(Chunks, s \o t, B \cup C, StreamWords(s) + StreamWords(t))
  BY CodesConcat DEF Part
<1>3. StreamWords(s \o t) = StreamWords(s) + StreamWords(t)  BY <1>2 DEF Codes
<1> QED  BY <1>1, <1>2, <1>3 DEF Part

\* A run with a window at a.
RunAt(t, a) ==
  /\ ChunkOK(t) /\ IsRLE(t) /\ EndOf(t) <= RLEMax
  /\ a \in Nat /\ Boundary(a) /\ t.start <= a /\ a < EndOf(t)

\* The window, as a sparse chunk, holds the run's indices of it.
LEMMA PivotPart ==
  ASSUME NEW t, NEW a, RunAt(t, a)
  PROVE  /\ InShape(Chunks, Pivot(t, a)) /\ Pivot(t, a).start = a
         /\ EndOf(Pivot(t, a)) = a + ChunkCap
         /\ \A x \in Nat : x \in BitsOf(Pivot(t, a)) <=>
              a <= x /\ x < a + ChunkCap /\ x < t.start + t.len
<1> DEFINE end == t.start + t.len
           ones == OnesChunk(a)
           pivot == Pivot(t, a)
           n == end - a
           v == 0 \div BitsPerVector
<1>1. ChunkOK(t) /\ IsRLE(t) /\ a \in Nat /\ Boundary(a) /\ end \in Nat
  BY RunFields DEF RunAt
<1>2. pivot = IF a >= end THEN ZerosChunk(a) ELSE MaskTail(ones, n)
  <2>1. t.start \in Nat /\ t.len \in Nat  BY RunFields DEF RunAt
  <2>2. t.start + t.len - a = n  BY <1>1, <2>1
  <2> HIDE DEF n
  <2> QED  BY <2>2 DEF Pivot
<1>3. /\ SparseOK(ones) /\ ones.start = a /\ ProperWords(ones)
      /\ SparseOK(ZerosChunk(a)) /\ ZerosChunk(a).start = a /\ ProperWords(ZerosChunk(a))
      /\ \A k \in 0 .. ChunkCap - 1 : IsSet(ones, k) /\ ~IsSet(ZerosChunk(a), k)
  BY <1>1, PlainChunksOK, PlainChunksBits
<1>4. v \in Vec /\ Mixed(ones.flag) = {} /\ \A u \in Vec : ones.flag[u] \in {"ones", "mixed"}
  <2>1. 0 \in 0 .. ChunkCap - 1  BY ChunkCapPositive
  <2>2. v \in Vec  BY <2>1, BitOfIndex
  <2>3. Mixed(ones.flag) = {}  BY <2>1, OneBitCleared
  <2>4. ones.flag = [u \in Vec |-> "ones"]  BY DEF OnesChunk, SparseChunk
  <2> QED  BY <2>2, <2>3, <2>4
<1> HIDE DEF end, ones, pivot, v
<1>5. /\ SparseOK(pivot) /\ pivot.start = a /\ ProperWords(pivot)
      /\ \A k \in 0 .. ChunkCap - 1 : IsSet(pivot, k) <=> a + k < end
  <2>1. CASE a >= end
    <3>1. \A k \in 0 .. ChunkCap - 1 : ~(a + k < end)  BY <1>1, <2>1, ChunkCapPositive
    <3> QED  BY <1>2, <1>3, <2>1, <3>1
  <2>2. CASE ~(a >= end)
    <3>1. n \in Nat /\ n >= 1 /\ \A k \in 0 .. ChunkCap - 1 : k < n <=> a + k < end
      BY <1>1, <2>2, ChunkCapPositive
    <3>2. n <= ChunkCap => IsSet(ones, n - 1)  BY <1>3, <3>1, ChunkCapPositive
    <3>3. pivot = MaskTail(ones, n)  BY <1>2, <2>2
    <3> HIDE DEF n
    <3>4. SparseOK(MaskTail(ones, n)) /\ MaskTail(ones, n).start = ones.start
      BY <1>3, <1>4, <3>1, MaskTailOK
    <3>5. /\ ProperWords(MaskTail(ones, n))
          /\ \A k \in 0 .. ChunkCap - 1 :
               IsSet(MaskTail(ones, n), k) <=> IsSet(ones, k) /\ k < n
      BY <1>3, <1>4, <3>1, <3>2, MaskTailBits
    <3> QED  BY <1>3, <3>1, <3>3, <3>4, <3>5
  <2> QED  BY <2>1, <2>2
<1>6. ASSUME NEW x \in Nat
      PROVE  x \in BitsOf(pivot) <=> a <= x /\ x < a + ChunkCap /\ x < end
  <2>1. x \in BitsOf(pivot) <=> x - a \in 0 .. ChunkCap - 1 /\ IsSet(pivot, x - a)
    BY <1>5, HeldSparse
  <2>2. x - a \in 0 .. ChunkCap - 1 <=> a <= x /\ x < a + ChunkCap
    BY <1>1, ChunkCapPositive
  <2>3. a + (x - a) = x  BY <1>1
  <2> QED  BY <1>5, <2>1, <2>2, <2>3
<1>7. InShape(Chunks, pivot) /\ EndOf(pivot) = a + ChunkCap
  <2>1. ChunkOK(pivot) /\ EndOf(pivot) = pivot.start + ChunkCap  BY <1>5, HeldSparse
  <2> QED  BY <1>5, <2>1 DEF InShape, ChunkOK
<1> QED  BY <1>5, <1>6, <1>7 DEF end, pivot

\* The parts hold what the run held.
LEMMA PartedIs ==
  ASSUME NEW t, NEW a, RunAt(t, a)
  PROVE  Part(Parted(t, a), t.start, EndOf(t), BitsOf(t))
<1> DEFINE end == t.start + t.len
           hi == a + ChunkCap
           left == IF a = t.start THEN << >>
                   ELSE << LeftRemainder(t.start, Lesser(a, end) - t.start, a) >>
           right == IF hi < end THEN << RightRemainder(hi, end - hi, t.start + t.cap) >>
                    ELSE << >>
           pivot == Pivot(t, a)
           P == {x \in Nat : t.start <= x /\ x < a /\ x < end}
           R == {x \in Nat : hi <= x /\ x < end}
<1>1. /\ t.start \in Nat /\ Boundary(t.start) /\ t.len \in Nat /\ t.len >= 1
      /\ t.len <= t.cap /\ t.cap \in Nat /\ EndOf(t) = t.start + t.cap
      /\ EndOf(t) \in Nat /\ Boundary(EndOf(t)) /\ EndOf(t) <= RLEMax
      /\ BitsOf(t) = t.start .. t.start + t.len - 1
  BY RunFields DEF RunAt
<1>2. a \in Nat /\ Boundary(a) /\ t.start <= a /\ a < EndOf(t)  BY DEF RunAt
<1>3. Parted(t, a) = left \o << pivot >> \o right  BY DEF Parted
<1>4. /\ InShape(Chunks, pivot) /\ pivot.start = a /\ EndOf(pivot) = hi
      /\ \A x \in Nat : x \in BitsOf(pivot) <=> a <= x /\ x < hi /\ x < end
  BY PivotPart
<1>5. /\ hi \in Nat /\ Boundary(hi) /\ a <= hi /\ hi <= EndOf(t) /\ t.start <= hi
      /\ end \in Nat /\ t.start < end /\ end <= EndOf(t)
  <2>1. Boundary(a + ChunkCap)  BY <1>2, BoundarySum, BoundaryZero
  <2>2. a + ChunkCap <= EndOf(t)  BY <1>1, <1>2, BoundaryGap
  <2> QED  BY <1>1, <1>2, <2>1, <2>2, ChunkCapPositive
<1> HIDE DEF end, hi, pivot
<1>6. Part(left, t.start, a, P)
  <2>1. CASE a = t.start
    <3>1. left = << >>  BY <2>1
    <3>2. P = {}  BY <1>1, <1>2, <2>1
    <3> QED  BY <3>1, <3>2, PieceNone
  <2>2. CASE a # t.start
    <3> DEFINE n == Lesser(a, end) - t.start
               c == LeftRemainder(t.start, n, a)
    <3>1. left = << c >>  BY <2>2
    <3>2. /\ n \in Nat /\ n >= 1 /\ n <= a - t.start /\ t.start < a /\ a <= RLEMax
          /\ t.start + n - 1 = Lesser(a, end) - 1
      BY <1>1, <1>2, <1>5, <2>2, ChunkConstants DEF Lesser
    <3>3. t.start .. t.start + n - 1 = P
      <4>1. ASSUME NEW x \in Nat  PROVE x <= t.start + n - 1 <=> x < a /\ x < end
        BY <1>1, <1>2, <1>5, <3>2 DEF Lesser
      <4> HIDE DEF n
      <4> QED  BY <1>1, <3>2, <4>1
    <3> HIDE DEF n
    <3>4. StreamOK(<< c >>, t.start, a)
      BY <1>1, <1>2, <3>2, LeftRemainderOK
    <3>5. Canonical(c) /\ BitsOf(c) = t.start .. t.start + n - 1
      BY <1>1, <1>2, <3>2, LeftRemainderHolds
    <3> HIDE DEF c, P
    <3>6. InShape(Chunks, c) /\ BitsOf(c) = P  BY <3>3, <3>5 DEF Canonical, InShape
    <3>7. Codes(Chunks, << c >>, P, 1 + Size(c))  BY <3>6, CodesOne
    <3>8. Codes(Chunks, << c >>, P, StreamWords(<< c >>))  BY <3>7 DEF Codes
    <3> QED  BY <3>1, <3>4, <3>8 DEF Part
  <2> QED  BY <2>1, <2>2
<1>7. Part(right, hi, EndOf(t), R)
  <2>1. CASE hi < end
    <3> DEFINE n == end - hi
               c == RightRemainder(hi, n, EndOf(t))
    <3>1. right = << c >>  BY <1>1, <2>1
    <3>2. n \in Nat /\ n >= 1 /\ n <= EndOf(t) - hi /\ hi < EndOf(t)
      BY <1>1, <1>5, <2>1
    <3>3. hi .. hi + n - 1 = R
      <4>1. hi + n - 1 = end - 1  BY <1>5
      <4> HIDE DEF n
      <4> QED  BY <1>5, <4>1
    <3> HIDE DEF n
    <3>4. StreamOK(<< c >>, hi, EndOf(t))
      BY <1>1, <1>5, <3>2, RightRemainderOK
    <3>5. Canonical(c) /\ BitsOf(c) = hi .. hi + n - 1
      BY <1>1, <1>5, <3>2, RightRemainderHolds
    <3> HIDE DEF c, R
    <3>6. InShape(Chunks, c) /\ BitsOf(c) = R  BY <3>3, <3>5 DEF Canonical, InShape
    <3>7. Codes(Chunks, << c >>, R, 1 + Size(c))  BY <3>6, CodesOne
    <3>8. Codes(Chunks, << c >>, R, StreamWords(<< c >>))  BY <3>7 DEF Codes
    <3> QED  BY <3>1, <3>4, <3>8 DEF Part
  <2>2. CASE ~(hi < end)
    <3>1. right = << >>  BY <2>2
    <3>2. R = {}  BY <1>5, <2>2
    <3> QED  BY <3>1, <3>2, PieceNone
  <2> QED  BY <2>1, <2>2
<1>8. Part(<< pivot >>, a, hi, BitsOf(pivot))
  <2>1. a <= pivot.start /\ EndOf(pivot) <= hi  BY <1>2, <1>4, <1>5
  <2> QED  BY <1>2, <1>4, <1>5, <2>1, PieceOne
<1> HIDE DEF left, right
<1>9. P \cup BitsOf(pivot) \cup R = BitsOf(t)
  <2>1. \A x \in BitsOf(pivot) : x \in Nat  BY DEF BitsOf
  <2>2. ASSUME NEW x \in Nat
        PROVE  x \in P \cup BitsOf(pivot) \cup R <=> x \in BitsOf(t)
    <3>1. x \in BitsOf(t) <=> t.start <= x /\ x < end  BY <1>1, <1>5 DEF end
    <3> QED  BY <1>1, <1>2, <1>4, <1>5, <3>1
  <2>3. \A x \in BitsOf(t) : x \in Nat  BY DEF BitsOf
  <2> QED  BY <2>1, <2>2, <2>3
<1> HIDE DEF P, R
<1>10. Part(left \o << pivot >>, t.start, hi, P \cup BitsOf(pivot))
  BY <1>1, <1>2, <1>5, <1>6, <1>8, PieceAfterPiece
<1> DEFINE s == left \o << pivot >>
           Q == P \cup BitsOf(pivot)
<1>11. Part(s, t.start, hi, Q)  BY <1>10
<1> HIDE DEF s, Q
<1>12. Part(s \o right, t.start, EndOf(t), Q \cup R)
  BY <1>1, <1>5, <1>7, <1>11, PieceAfterPiece
<1>13. Q \cup R = BitsOf(t) /\ Parted(t, a) = s \o right  BY <1>3, <1>9 DEF Q, s
<1> QED  BY <1>12, <1>13

----------------------------------------------------------------------------
(* What one of the steps does to a map.                                    *)

\* The chunks of a map of which one gives way to t: those of t, and the others.
MadeOf(r, s, t) ==
  /\ Len(r) = Len(s) - 1 + Len(t) /\ Len(r) \in Nat
  /\ \A x \in 1 .. Len(r) : \/ \E p \in 1 .. Len(s) : r[x] = s[p]
                            \/ \E p \in 1 .. Len(t) : r[x] = t[p]

\* It is of those.
LEMMA ChunksAfterPut ==
  ASSUME NEW s \in Seq(Chunks), NEW t \in Seq(Chunks), NEW j \in 1 .. Len(s)
  PROVE  MadeOf(Splice(s, j, 1, t), s, t)
<1> DEFINE n == 1
           r == Splice(s, j, 1, t)
<1>1. /\ Len(s) \in Nat /\ Len(t) \in Nat /\ j \in 1 .. Len(s) + 1 /\ n \in Nat
      /\ j + n <= Len(s) + 1 /\ r = Splice(s, j, n, t) /\ n = 1
  BY LenProperties
<1> DEFINE S == Chunks
<1>a. /\ s \in Seq(S) /\ t \in Seq(S) /\ j \in 1 .. Len(s) + 1 /\ n \in Nat
      /\ j + n <= Len(s) + 1
  BY <1>1
<1> HIDE DEF n, r, S
<1>b. /\ Splice(s, j, n, t) \in Seq(S)
      /\ Len(Splice(s, j, n, t)) = Len(s) - n + Len(t)
      /\ \A x \in 1 .. j - 1 : Splice(s, j, n, t)[x] = s[x]
      /\ \A x \in 1 .. Len(t) : Splice(s, j, n, t)[j - 1 + x] = t[x]
      /\ \A x \in j + n .. Len(s) : Splice(s, j, n, t)[x - n + Len(t)] = s[x]
  BY ONLY <1>a, SplicePlaces
<1>2. /\ Len(r) = Len(s) - 1 + Len(t)
      /\ \A k \in 1 .. j - 1 : r[k] = s[k]
      /\ \A k \in 1 .. Len(t) : r[j - 1 + k] = t[k]
      /\ \A k \in j + 1 .. Len(s) : r[k - 1 + Len(t)] = s[k]
  BY <1>1, <1>b
<1>3. ASSUME NEW x \in 1 .. Len(r)
      PROVE  (\E p \in 1 .. Len(s) : r[x] = s[p]) \/ (\E p \in 1 .. Len(t) : r[x] = t[p])
  <2>3. CASE x <= j - 1
    <3>1. x \in 1 .. j - 1 /\ x \in 1 .. Len(s)  BY <1>1, <2>3
    <3> QED  BY <1>2, <3>1
  <2>4. CASE j - 1 < x /\ x <= j - 1 + Len(t)
    <3> DEFINE k == x - (j - 1)
    <3>1. k \in 1 .. Len(t) /\ j - 1 + k = x  BY <1>1, <1>2, <2>4
    <3> QED  BY <1>2, <3>1
  <2>5. CASE j - 1 + Len(t) < x
    <3> DEFINE k == x + 1 - Len(t)
    <3>1. k \in j + 1 .. Len(s) /\ k - 1 + Len(t) = x /\ k \in 1 .. Len(s)
      BY <1>1, <1>2, <2>5
    <3> QED  BY <1>2, <3>1
  <2>6. x \in Int  OBVIOUS
  <2> QED  BY <1>1, <2>3, <2>4, <2>5, <2>6
<1>4. Len(r) \in Nat  BY <1>1, <1>2
<1> QED  BY <1>2, <1>3, <1>4 DEF MadeOf, r

\* A sparse chunk is written again with other indices of its window, in no more
\* than one more word; there is room for two.
Rewritable(m, X, j, d, L) ==
  /\ InChunks(m, X, L) /\ j \in 1 .. Len(m.chunks) /\ ~IsRLE(m.chunks[j])
  /\ SparseOK(d) /\ ProperWords(d) /\ d.start = m.chunks[j].start
  /\ Len(d.data) <= Len(m.chunks[j].data) + 1

\* Put does that, or refuses and changes nothing.
LEMMA PutRewrites ==
  ASSUME NEW m, NEW X, NEW j, NEW d, NEW L, Rewritable(m, X, j, d, L),
         NEW p, p = Put(m, j, d)
  PROVE  /\ p.ok \in BOOLEAN /\ (~p.ok => p.map = m)
         /\ p.ok => /\ InChunks(p.map, (X \ BitsOf(m.chunks[j])) \cup BitsOf(d), L)
                    /\ p.map.chunks = Splice(m.chunks, j, 1, << d >>)
<1> DEFINE c == m.chunks[j]
           r == Replace(m, j, 1, << d >>, Size(d) - Size(c))
           w == 1 + Size(d)
<1>1. /\ InChunks(m, X, L) /\ j \in 1 .. Len(m.chunks) /\ ~IsRLE(c)
      /\ SparseOK(d) /\ ProperWords(d) /\ d.start = c.start
      /\ Len(d.data) <= Len(c.data) + 1
  BY DEF Rewritable
<1>2. /\ SparseOK(c) /\ c.start \in Nat /\ EndOf(c) \in Nat /\ EndOf(c) <= L
      /\ c.start + ChunkCap <= EndOf(c)
  BY <1>1, ChunkOfChunks
<1>3. /\ ChunkOK(d) /\ ~IsRLE(d) /\ EndOf(d) = c.start + ChunkCap
      /\ EndOf(c) = c.start + ChunkCap
  BY <1>1, <1>2, HeldSparse
<1>4. /\ Size(d) = 1 + Len(d.data) /\ Len(d.data) \in Nat
      /\ Size(c) = 1 + Len(c.data) /\ Len(c.data) \in Nat
  BY <1>1, <1>2, SparseSize
<1>5. InShape(Chunks, d)  BY <1>1, <1>3 DEF InShape, ChunkOK
<1>6. Codes(Chunks, << d >>, BitsOf(d), w)  BY <1>5, CodesOne
<1>7. StreamOK(<< d >>, c.start, EndOf(c))
  BY <1>1, <1>2, <1>3, OneChunkStream
<1>8. /\ m.used \in Nat /\ m.cap \in Nat /\ StreamOK(m.chunks, 0, L) /\ Len(m.chunks) \in Nat
  BY <1>1, InChunksFields
<1>9. j < Len(m.chunks) => EndOf(c) <= m.chunks[j + 1].start
  <2>1. ASSUME j < Len(m.chunks)  PROVE EndOf(c) <= m.chunks[j + 1].start
    <3>1. j + 1 \in 1 .. Len(m.chunks) /\ j < j + 1  BY <1>1, <1>8, <2>1
    <3> QED  BY <1>1, <1>8, <3>1 DEF StreamOK
  <2> QED  BY <2>1
<1>10. Put(m, j, d) = IF HasRoom(m, 2) THEN Done(r) ELSE Failed(m)  BY DEF Put
<1>11. ASSUME HasRoom(m, 2)
       PROVE  /\ InChunks(r, (X \ BitsOf(c)) \cup BitsOf(d), L)
              /\ r.chunks = Splice(m.chunks, j, 1, << d >>)
  <2> DEFINE words == Size(d) - Size(c)
  <2>1. words = w - (1 + Size(c)) /\ words \in Int /\ words <= 1 /\ w \in Int
    BY <1>1, <1>4
  <2>2. m.used + 3 <= m.cap  BY <1>8, <1>11 DEF HasRoom, HeaderWords
  <2>3. m.used + words <= m.cap
    <3> HIDE DEF words
    <3> QED  BY <1>8, <2>1, <2>2
  <2>4. c.start <= EndOf(c) /\ EndOf(c) \in Int  BY <1>2, ChunkCapPositive
  <2> HIDE DEF w, words
  <2>5. PutIn(m, X, j, << d >>, BitsOf(d), w, words, EndOf(c), L)
    BY <1>1, <1>2, <1>6, <1>7, <1>9, <2>1, <2>3, <2>4 DEF PutIn
  <2>6. r = Replace(m, j, 1, << d >>, words)  BY DEF words
  <2> HIDE DEF r
  <2>7. /\ InChunks(r, (X \ BitsOf(m.chunks[j])) \cup BitsOf(d), L)
        /\ r.chunks = Splice(m.chunks, j, 1, << d >>)
    BY <2>5, <2>6, PutHolds
  <2> QED  BY <2>7
<1> HIDE DEF r
<1>12. CASE HasRoom(m, 2)
  <2>1. p = [map |-> r, ok |-> TRUE]  BY <1>10, <1>12 DEF Done
  <2>2. p.ok = TRUE /\ p.map = r  BY <2>1
  <2> QED  BY <1>11, <1>12, <2>2
<1>13. CASE ~HasRoom(m, 2)
  <2>1. p = [map |-> m, ok |-> FALSE]  BY <1>10, <1>13 DEF Failed
  <2>2. p.ok = FALSE /\ p.map = m  BY <2>1
  <2> QED  BY <2>2
<1> QED  BY <1>12, <1>13

\* A map with one sparse chunk, at a.
OneWindow(m, a) ==
  /\ Len(m.chunks) = 1 /\ ~IsRLE(m.chunks[1]) /\ m.chunks[1].start = a

\* The set of an index of that window.
LEMMA PutSets ==
  ASSUME NEW m, NEW B, NEW L, InChunks(m, B, L), NEW a, OneWindow(m, a),
         NEW i \in Nat, a <= i, i < a + ChunkCap,
         NEW p, p = Put(m, 1, SetBit(m.chunks[1], i - a))
  PROVE  /\ p.ok \in BOOLEAN /\ (~p.ok => p.map = m)
         /\ p.ok => InChunks(p.map, B \cup {i}, L) /\ OneWindow(p.map, a)
<1> DEFINE c == m.chunks[1]
           d == SetBit(c, i - a)
<1>1. 1 \in 1 .. Len(m.chunks) /\ Len(m.chunks) = 1 /\ ~IsRLE(c) /\ c.start = a
  BY DEF OneWindow
<1>2. /\ SparseOK(c) /\ ProperWords(c) /\ BitsOf(c) \subseteq B /\ a \in Nat
  BY <1>1, ChunkOfChunks
<1>3. i - c.start \in 0 .. ChunkCap - 1 /\ d = SetBit(c, i - c.start)
  BY <1>1, <1>2, ChunkCapPositive
<1> HIDE DEF d
<1>4. /\ SparseOK(d) /\ d.start = c.start /\ Canonical(d)
      /\ BitsOf(d) = BitsOf(c) \cup {i} /\ Len(d.data) <= Len(c.data) + 1
  BY <1>2, <1>3, SetBitHolds
<1>5. ChunkOK(d) /\ ~IsRLE(d) /\ ProperWords(d) /\ d \in Chunks
  BY <1>4, SparseIsOK DEF Canonical, ChunkOK
<1>6. Rewritable(m, B, 1, d, L)  BY <1>1, <1>4, <1>5 DEF Rewritable
<1>7. p = Put(m, 1, d)  BY DEF d
<1>8. /\ p.ok \in BOOLEAN /\ (~p.ok => p.map = m)
      /\ p.ok => /\ InChunks(p.map, (B \ BitsOf(c)) \cup BitsOf(d), L)
                 /\ p.map.chunks = Splice(m.chunks, 1, 1, << d >>)
  BY <1>6, <1>7, PutRewrites
<1>9. (B \ BitsOf(c)) \cup BitsOf(d) = B \cup {i}  BY <1>2, <1>4
<1>10. ASSUME p.ok  PROVE OneWindow(p.map, a)
  <2>1. m.chunks \in Seq(Chunks)  BY InChunksFields
  <2>2. << d >> \in Seq(Chunks) /\ Len(<< d >>) = 1 /\ << d >>[1] = d  BY <1>5
  <2> DEFINE t == << d >>
             s == m.chunks
             r == p.map.chunks
             j == 1
  <2>3. s \in Seq(Chunks) /\ t \in Seq(Chunks) /\ Len(s) = 1 /\ Len(t) = 1 /\ t[1] = d
        /\ r = Splice(s, j, 1, t) /\ j \in 1 .. Len(s)
    BY <1>1, <1>8, <1>10, <2>1, <2>2
  <2>4. s[1] = c  OBVIOUS
  <2> HIDE DEF s, t, r, j
  <2>5. MadeOf(r, s, t)  BY <2>3, ChunksAfterPut
  <2>6. Len(r) = 1 /\ (r[1] = c \/ r[1] = d)  BY <2>3, <2>4, <2>5 DEF MadeOf
  <2> QED  BY <1>1, <1>4, <1>5, <2>6 DEF OneWindow, r
<1> QED  BY <1>8, <1>9, <1>10

\* The window at a is a sparse chunk of the map, or no chunk has a part in it.
OutsideOrAt(c, a) ==
  EndOf(c) <= a \/ a + ChunkCap <= c.start \/ (c.start = a /\ ~IsRLE(c))
Windowed(m, a) == \A j \in 1 .. Len(m.chunks) : OutsideOrAt(m.chunks[j], a)

\* The chunk that holds an index is the one that is located.
LEMMA HolderIsLocated ==
  ASSUME NEW m, NEW X, NEW L, InChunks(m, X, L), NEW i \in X
  PROVE  /\ Locate(m.chunks, i) \in 1 .. Len(m.chunks)
         /\ i \in BitsOf(m.chunks[Locate(m.chunks, i)]) /\ i \in Nat
<1> DEFINE s == m.chunks
           j == Locate(s, i)
<1>1. StreamOK(s, 0, L) /\ X = Bits(s) /\ Len(s) \in Nat
  BY InChunksFields DEF Codes
<1> HIDE DEF s
<1>2. PICK k \in 1 .. Len(s) : i \in BitsOf(s[k])  BY <1>1 DEF Bits
<1>3. s # << >>
  <2>1. Len(s) # 0  BY <1>1, <1>2
  <2> QED  BY <2>1, EmptySeq
<1>4. i \in Nat /\ s[k].start <= i /\ i < EndOf(s[k])  BY <1>1, <1>2, HeldWithin
<1>5. /\ j \in 1 .. Len(s) /\ \A p \in 1 .. j - 1 : EndOf(s[p]) <= i
      /\ j < Len(s) => i < EndOf(s[j])
  BY <1>1, <1>3, <1>4, LocateProperties
<1> HIDE DEF j
<1>6. /\ EndOf(s[k]) \in Nat /\ s[k].start \in Nat /\ EndOf(s[j]) \in Nat
  BY <1>1, <1>2, <1>5, ChunkExtent DEF StreamOK
<1>7. ~(k < j)
  <2>1. k < j => k \in 1 .. j - 1  BY <1>1, <1>2, <1>5
  <2> QED  BY <1>4, <1>5, <1>6, <2>1
<1>8. ~(j < k)
  <2>1. ASSUME j < k  PROVE FALSE
    <3>1. EndOf(s[j]) <= s[k].start  BY <1>1, <1>2, <1>5, <2>1 DEF StreamOK
    <3>2. j < Len(s)  BY <1>1, <1>2, <1>5, <2>1
    <3> QED  BY <1>4, <1>5, <1>6, <3>1, <3>2
  <2> QED  BY <2>1
<1>9. j = k  BY <1>1, <1>2, <1>5, <1>7, <1>8
<1> QED  BY <1>2, <1>4, <1>5, <1>9 DEF j, s

\* The unset of an index of the window: the chunk goes with its last bit.
LEMMA WithoutClears ==
  ASSUME NEW m, NEW X, NEW L, InChunks(m, X, L), NEW a, a \in Nat, Windowed(m, a),
         NEW i \in X, a <= i, i < a + ChunkCap,
         NEW p, p = Without(m, Locate(m.chunks, i),
                            ClrBit(m.chunks[Locate(m.chunks, i)], i - a))
  PROVE  /\ p.ok \in BOOLEAN /\ (~p.ok => p.map = m)
         /\ p.ok => InChunks(p.map, X \ {i}, L) /\ Windowed(p.map, a)
<1> DEFINE j == Locate(m.chunks, i)
           c == m.chunks[j]
           d == ClrBit(c, i - a)
<1>1. j \in 1 .. Len(m.chunks) /\ i \in BitsOf(c) /\ i \in Nat  BY HolderIsLocated
<1>2. p = Without(m, j, d)  OBVIOUS
<1>3. /\ StreamOK(m.chunks, 0, L) /\ Len(m.chunks) \in Nat /\ m.chunks \in Seq(Chunks)
      /\ m.used \in Nat /\ m.cap \in Nat /\ m.used <= m.cap
  BY InChunksFields
<1> HIDE DEF j
<1>4. /\ c.start \in Nat /\ EndOf(c) \in Nat /\ EndOf(c) <= L /\ BitsOf(c) \subseteq X
      /\ c.start <= i /\ i < EndOf(c)
      /\ ~IsRLE(c) => SparseOK(c) /\ ProperWords(c)
  BY <1>1, <1>3, ChunkOfChunks, HeldWithin
<1>5. c.start = a /\ ~IsRLE(c)
  <2>1. OutsideOrAt(c, a)  BY <1>1 DEF Windowed
  <2> HIDE DEF c
  <2> QED  BY <1>1, <1>4, <2>1, ChunkCapPositive DEF OutsideOrAt
<1>6. i - c.start \in 0 .. ChunkCap - 1 /\ d = ClrBit(c, i - c.start)
      /\ IsSet(c, i - c.start)
  <2>1. i - c.start \in 0 .. ChunkCap - 1  BY <1>1, <1>4, <1>5, ChunkCapPositive
  <2>2. IsSet(c, i - c.start)  BY <1>1, <1>4, <1>5, HeldSparse
  <2> QED  BY <1>5, <2>1, <2>2
<1> HIDE DEF d, c
<1>7. /\ SparseOK(d) /\ d.start = c.start /\ BitsOf(d) = BitsOf(c) \ {i}
      /\ Len(d.data) \in Nat /\ Len(d.data) <= Len(c.data) + 1
  BY <1>1, <1>4, <1>5, <1>6, ClrBitHolds
<1>8. ProperWords(d) /\ (IsEmptyChunk(d) <=> BitsOf(d) = {})
  <2> DEFINE k == i - c.start
  <2>1. k \in 0 .. ChunkCap - 1 /\ d = ClrBit(c, k)  BY <1>6
  <2> HIDE DEF k
  <2> QED  BY <1>4, <1>5, <2>1, ClrBitClears, ClearedIsEmpty
<1>9. ~IsRLE(d) /\ d \in Chunks  BY <1>7, SparseIsOK DEF ChunkOK
<1>10. CASE HasRoom(m, 2) /\ IsEmptyChunk(d)
  <2> DEFINE none == << >>
             r == Replace(m, j, 1, none, -3)
             words == 0 - (1 + Size(c))
  <2>1. p = [map |-> r, ok |-> TRUE]  BY <1>2, <1>10 DEF Without, Done
  <2>2. p.ok = TRUE /\ p.map = r  BY <2>1
  <2>3. Size(c) = 2
    <3> DEFINE k == i - c.start
    <3>1. k \in 0 .. ChunkCap - 1 /\ d = ClrBit(c, k) /\ IsSet(c, k)  BY <1>6
    <3> HIDE DEF k
    <3>2. Len(c.data) = 1  BY <1>4, <1>5, <1>10, <3>1, LastBitOneWord
    <3>3. Size(c) = 1 + Len(c.data)  BY <1>4, <1>5, SparseSize
    <3> QED  BY ONLY <3>2, <3>3
  <2>4. words = -3  BY <2>3
  <2>5. Codes(Chunks, none, {}, 0) /\ StreamOK(none, c.start, c.start)
        /\ none \in Seq(Chunks) /\ Len(none) = 0
    BY CodesNone, EmptyStream, EmptySeq
  <2>6. c.start <= EndOf(c) /\ c.start <= L /\ c.start \in Int
    <3>1. L \in Nat  BY InChunksFields
    <3>2. c.start <= EndOf(c)  BY <1>1, <1>4
    <3> QED  BY ONLY <1>4, <3>1, <3>2
  <2>7. j < Len(m.chunks) => c.start <= m.chunks[j + 1].start
    <3>1. ASSUME j < Len(m.chunks)  PROVE c.start <= m.chunks[j + 1].start
      <4>1. j + 1 \in 1 .. Len(m.chunks) /\ j < j + 1  BY <1>1, <1>3, <3>1
      <4>2. EndOf(c) <= m.chunks[j + 1].start  BY <1>1, <1>3, <4>1 DEF StreamOK, c
      <4>3. m.chunks[j + 1].start \in Nat  BY <4>1, ChunkOfChunks
      <4> QED  BY ONLY <1>4, <2>6, <4>2, <4>3
    <3> QED  BY <3>1
  <2>8. m.used + words <= m.cap /\ words \in Int  BY <1>3, <2>4
  <2>9. r = Replace(m, j, 1, none, words)  BY <2>4
  <2> HIDE DEF r, none, words
  <2>10. PutIn(m, X, j, none, {}, 0, words, c.start, L)
    BY <1>1, <2>5, <2>6, <2>7, <2>8 DEF PutIn, words, c
  <2>11. /\ InChunks(r, (X \ BitsOf(m.chunks[j])) \cup {}, L)
         /\ r.chunks = Splice(m.chunks, j, 1, none)
    BY <2>9, <2>10, PutHolds
  <2>12. (X \ BitsOf(c)) \cup {} = X \ {i}
    <3>1. BitsOf(c) = {i}  BY <1>1, <1>7, <1>8, <1>10
    <3> QED  BY <3>1
  <2>13. InChunks(r, X \ {i}, L)  BY <2>11, <2>12 DEF c
  <2>14. Windowed(r, a)
    <3>1. MadeOf(r.chunks, m.chunks, none)  BY <1>1, <1>3, <2>5, <2>11, ChunksAfterPut
    <3> QED  BY <2>5, <3>1 DEF MadeOf, Windowed
  <2> QED  BY <2>2, <2>13, <2>14
<1>11. CASE ~(HasRoom(m, 2) /\ IsEmptyChunk(d))
  <2>1. p = Put(m, j, d)  BY <1>2, <1>11 DEF Without
  <2>2. Rewritable(m, X, j, d, L)
    BY <1>1, <1>5, <1>7, <1>8 DEF Rewritable, c
  <2>3. /\ p.ok \in BOOLEAN /\ (~p.ok => p.map = m)
        /\ p.ok => /\ InChunks(p.map, (X \ BitsOf(m.chunks[j])) \cup BitsOf(d), L)
                   /\ p.map.chunks = Splice(m.chunks, j, 1, << d >>)
    BY <2>1, <2>2, PutRewrites
  <2>4. (X \ BitsOf(c)) \cup BitsOf(d) = X \ {i}  BY <1>1, <1>4, <1>7
  <2>5. ASSUME p.ok  PROVE Windowed(p.map, a)
    <3> DEFINE t == << d >>
    <3>1. t \in Seq(Chunks) /\ Len(t) = 1 /\ t[1] = d  BY <1>9
    <3> HIDE DEF t
    <3>2. p.map.chunks = Splice(m.chunks, j, 1, t)  BY <2>3, <2>5 DEF t
    <3>3. MadeOf(p.map.chunks, m.chunks, t)  BY <1>1, <1>3, <3>1, <3>2, ChunksAfterPut
    <3>4. OutsideOrAt(d, a)  BY <1>5, <1>7, <1>9 DEF OutsideOrAt
    <3> QED  BY <3>1, <3>3, <3>4 DEF MadeOf, Windowed
  <2> QED  BY <2>3, <2>4, <2>5 DEF c
<1> QED  BY <1>10, <1>11

----------------------------------------------------------------------------
(* The chunks that stay and the chunks that go.                            *)

\* The members from i on.
UpperPart(S, i) == {k \in S : i <= k}

\* c is where m is cut: its first n chunks end there or before, and the others
\* begin there or after.
CutAt(m, n, c, L) ==
  /\ n \in 0 .. Len(m.chunks) /\ c \in 0 .. L
  /\ \A j \in 1 .. n : EndOf(m.chunks[j]) <= c
  /\ \A j \in n + 1 .. Len(m.chunks) : c <= m.chunks[j].start

\* The parts that makes of its chunks.
AreParts(m, n, s, t) ==
  s = SubSeq(m.chunks, 1, n) /\ t = SubSeq(m.chunks, n + 1, Len(m.chunks))

\* The first part is what m holds below c, and the second what it holds above.
LEMMA CutParts ==
  ASSUME NEW m, NEW X, NEW L, InChunks(m, X, L), NEW n, NEW c, CutAt(m, n, c, L),
         NEW s, NEW t, AreParts(m, n, s, t)
  PROVE  /\ Part(s, 0, c, LowerPart(X, c)) /\ Len(s) = n
         /\ Part(t, c, L, UpperPart(X, c))
         /\ StreamWords(s) \in Nat /\ StreamWords(t) \in Nat
         /\ m.used = 1 + StreamWords(s) + StreamWords(t)
<1> DEFINE r == m.chunks
           e == Len(r)
           k == n + 1
           one == 1
<1>1. /\ StreamOK(r, 0, L) /\ Codes(Chunks, r, X, m.used - 1) /\ L \in Nat
      /\ r \in Seq(Chunks) /\ e \in Nat /\ m.used = 1 + StreamWords(r) /\ e = Len(r)
      /\ s = SubSeq(r, one, n) /\ t = SubSeq(r, k, e)
  BY InChunksFields DEF AreParts
<1>2. /\ n \in 0 .. e /\ c \in 0 .. L /\ k \in 1 .. e + 1 /\ k - 1 = n /\ one = 1
      /\ one \in 1 .. e + 1 /\ n \in one - 1 .. e /\ e \in k - 1 .. e /\ e \in 0 .. e
      /\ c \in Int /\ L \in Int /\ k \in Int /\ n \in Nat
  BY <1>1 DEF CutAt
<1>3. /\ \A j \in one .. n : 0 <= r[j].start /\ EndOf(r[j]) <= c
      /\ \A j \in k .. e : c <= r[j].start /\ EndOf(r[j]) <= L
  <2>1. ASSUME NEW j \in one .. n  PROVE 0 <= r[j].start /\ EndOf(r[j]) <= c
    <3>1. j \in 1 .. n /\ j \in 1 .. Len(r)  BY <1>1, <1>2
    <3> QED  BY <1>1, <3>1 DEF CutAt, StreamOK
  <2>2. ASSUME NEW j \in k .. e  PROVE c <= r[j].start /\ EndOf(r[j]) <= L
    <3>1. j \in n + 1 .. Len(r) /\ j \in 1 .. Len(r)  BY <1>1, <1>2
    <3> QED  BY <1>1, <3>1 DEF CutAt, StreamOK
  <2> QED  BY <2>1, <2>2
<1> HIDE DEF r, e, k, one
<1>4. StreamOK(SubSeq(r, one, n), 0, c)
  <2> DEFINE lo == 0
  <2>1. /\ StreamOK(r, lo, L) /\ one \in 1 .. Len(r) + 1 /\ n \in 0 .. Len(r)
        /\ lo \in Int /\ L \in Int /\ c \in Int
        /\ \A j \in one .. n : lo <= r[j].start /\ EndOf(r[j]) <= c
    BY <1>1, <1>2, <1>3
  <2> HIDE DEF lo
  <2>2. StreamOK(SubSeq(r, one, n), lo, c)  BY ONLY <2>1, SubStream
  <2> QED  BY <2>2 DEF lo
<1>5. StreamOK(SubSeq(r, k, e), c, L)
  <2> DEFINE lo == 0
  <2>1. /\ StreamOK(r, lo, L) /\ k \in 1 .. Len(r) + 1 /\ e \in 0 .. Len(r)
        /\ lo \in Int /\ L \in Int /\ c \in Int
        /\ \A j \in k .. e : c <= r[j].start /\ EndOf(r[j]) <= L
    BY <1>1, <1>2, <1>3
  <2> HIDE DEF lo
  <2> QED  BY ONLY <2>1, SubStream
<1>6. StreamOK(s, 0, c) /\ StreamOK(t, c, L)  BY <1>1, <1>4, <1>5
<1>7. \A j \in 1 .. e : InShape(Chunks, r[j])  BY <1>1 DEF Codes
<1>8. Codes(Chunks, s, Bits(s), StreamWords(s)) /\ Codes(Chunks, t, Bits(t), StreamWords(t))
  <2>1. Codes(Chunks, SubSeq(r, one, n), Bits(SubSeq(r, one, n)),
              StreamWords(SubSeq(r, one, n)))
    BY <1>1, <1>2, <1>7, CodesPart
  <2>2. Codes(Chunks, SubSeq(r, k, e), Bits(SubSeq(r, k, e)), StreamWords(SubSeq(r, k, e)))
    BY <1>1, <1>2, <1>7, CodesPart
  <2> QED  BY <1>1, <2>1, <2>2
<1>9. s \in Seq(Chunks) /\ t \in Seq(Chunks)  BY <1>6 DEF StreamOK
<1>10. s \o t = r /\ Len(s) = n
  <2>1. /\ s \in Seq(Chunks) /\ Len(s) = n /\ \A j \in 1 .. n : s[j] = r[j]
    <3>1. \A j \in 1 .. n : r[j] \in Chunks
      <4>1. \A j \in 1 .. Len(r) : r[j] \in Chunks  BY <1>1, LenProperties
      <4> QED  BY <1>1, <1>2, <4>1
    <3>2. /\ Len(SubSeq(r, 1, n)) = IF 1 <= n THEN n - 1 + 1 ELSE 0
          /\ \A j \in 1 .. n - 1 + 1 : SubSeq(r, 1, n)[j] = r[1 + j - 1]
      BY <1>2, <3>1, SubSeqProperties
    <3>3. s = SubSeq(r, 1, n)  BY <1>1 DEF one
    <3>4. Len(s) = n  BY <1>2, <3>2, <3>3
    <3>5. ASSUME NEW j \in 1 .. n  PROVE s[j] = r[j]
      <4>1. j \in 1 .. n - 1 + 1 /\ 1 + j - 1 = j  BY <1>2
      <4> QED  BY <3>2, <3>3, <4>1
    <3> QED  BY <1>9, <3>4, <3>5
  <2>2. /\ Len(t) = e - n /\ \A j \in 1 .. e - n : t[j] = r[n + j]
    <3>1. \A j \in k .. e : r[j] \in Chunks
      <4>1. \A j \in 1 .. Len(r) : r[j] \in Chunks  BY <1>1, LenProperties
      <4> QED  BY <1>1, <1>2, <4>1
    <3>2. /\ Len(SubSeq(r, k, e)) = IF k <= e THEN e - k + 1 ELSE 0
          /\ \A j \in 1 .. e - k + 1 : SubSeq(r, k, e)[j] = r[k + j - 1]
      BY <1>1, <1>2, <3>1, SubSeqProperties
    <3>3. k = n + 1  BY <1>2
    <3>4. Len(t) = e - n  BY <1>1, <1>2, <3>2, <3>3
    <3>5. ASSUME NEW j \in 1 .. e - n  PROVE t[j] = r[n + j]
      <4>1. j \in 1 .. e - k + 1 /\ k + j - 1 = n + j  BY <1>1, <1>2, <3>3
      <4> QED  BY <1>1, <3>2, <4>1
    <3> QED  BY <3>4, <3>5
  <2> DEFINE u == s \o t
  <2>3. /\ u \in Seq(Chunks) /\ Len(u) = Len(s) + Len(t)
        /\ \A j \in 1 .. Len(s) + Len(t) : u[j] = IF j <= Len(s) THEN s[j] ELSE t[j - Len(s)]
    BY <1>9, ConcatProperties
  <2> HIDE DEF u
  <2>4. /\ Len(s) = n /\ Len(t) = e - n /\ n \in 0 .. e /\ n \in Nat /\ e \in Nat
        /\ Len(u) = e
    <3>1. Len(s) = n /\ Len(t) = e - n /\ Len(u) = Len(s) + Len(t)  BY <2>1, <2>2, <2>3
    <3> QED  BY ONLY <1>1, <1>2, <3>1
  <2>5. ASSUME NEW j \in 1 .. Len(u)  PROVE u[j] = r[j]
    <3>0. j \in Nat /\ 1 <= j /\ j <= e  BY ONLY <2>4, <2>5
    <3>1. CASE j <= n
      <4>1. j \in 1 .. n /\ j \in 1 .. Len(s) + Len(t)  BY ONLY <2>4, <3>0, <3>1
      <4> QED  BY <2>1, <2>3, <3>1, <4>1
    <3>2. CASE ~(j <= n)
      <4>1. /\ j \in 1 .. Len(s) + Len(t) /\ j - Len(s) \in 1 .. e - n
            /\ n + (j - Len(s)) = j
        BY ONLY <2>4, <3>0, <3>2
      <4>2. u[j] = t[j - Len(s)]  BY <2>4, <2>3, <3>2, <4>1
      <4>3. t[j - Len(s)] = r[n + (j - Len(s))]  BY <2>2, <4>1
      <4> QED  BY <4>1, <4>2, <4>3
    <3> QED  BY <3>1, <3>2
  <2>6. u = r
    <3>1. Len(u) = Len(r) /\ r \in Seq(Chunks) /\ u \in Seq(Chunks)  BY <1>1, <2>3, <2>4
    <3> QED  BY <2>5, <3>1, SeqEqual
  <2> QED  BY <2>1, <2>6 DEF u
<1>11. /\ StreamWords(r) = StreamWords(s) + StreamWords(t)
       /\ StreamWords(s) \in Nat /\ StreamWords(t) \in Nat
  <2>1. StreamWords(s \o t) = StreamWords(s) + StreamWords(t)  BY <1>9, WordsConcat
  <2> QED  BY <1>9, <1>10, <2>1, StreamWordsIsNat
<1>12. /\ \A x \in Bits(s) : x \in Nat /\ x < c
       /\ \A x \in Bits(t) : x \in Nat /\ c <= x
  <2>1. ASSUME NEW x \in Bits(s)  PROVE x \in Nat /\ x < c
    <3>1. PICK j \in 1 .. Len(s) : x \in BitsOf(s[j])  BY DEF Bits
    <3>2. x \in Nat /\ x < EndOf(s[j]) /\ EndOf(s[j]) \in Nat
      BY <1>6, <3>1, HeldWithin
    <3>3. EndOf(s[j]) <= c  BY <1>6, <3>1 DEF StreamOK
    <3> QED  BY <1>2, <3>2, <3>3
  <2>2. ASSUME NEW x \in Bits(t)  PROVE x \in Nat /\ c <= x
    <3>1. PICK j \in 1 .. Len(t) : x \in BitsOf(t[j])  BY DEF Bits
    <3>2. ChunkOK(t[j]) /\ c <= t[j].start  BY <1>6, <3>1 DEF StreamOK
    <3>3. t[j].start \in Nat /\ EndOf(t[j]) \in Nat  BY <3>2, ChunkExtent
    <3>4. x \in Nat /\ t[j].start <= x  BY <3>1 DEF BitsOf
    <3> QED  BY ONLY <1>2, <3>2, <3>3, <3>4
  <2> QED  BY <2>1, <2>2
<1>13. X = Bits(s) \cup Bits(t)
  <2>1. Codes(Chunks, s \o t, Bits(s) \cup Bits(t), StreamWords(s) + StreamWords(t))
    BY <1>8, CodesConcat
  <2>2. Bits(r) = Bits(s) \cup Bits(t)  BY <1>10, <2>1 DEF Codes
  <2> QED  BY <1>1, <2>2 DEF Codes
<1>14. Bits(s) = LowerPart(X, c) /\ Bits(t) = UpperPart(X, c)
  <2>1. \A x \in Bits(s) : ~(c <= x)  BY <1>2, <1>12
  <2>2. \A x \in Bits(t) : ~(x < c)  BY <1>2, <1>12
  <2> QED  BY <1>12, <1>13, <2>1, <2>2 DEF LowerPart, UpperPart
<1>15. Part(s, 0, c, LowerPart(X, c))  BY <1>6, <1>8, <1>14 DEF Part
<1>16. Part(t, c, L, UpperPart(X, c))  BY <1>6, <1>8, <1>14 DEF Part
<1>17. m.used = 1 + StreamWords(s) + StreamWords(t)  BY ONLY <1>1, <1>11
<1> QED  BY <1>10, <1>11, <1>15, <1>16, <1>17

----------------------------------------------------------------------------
(* Where the map is divided.                                               *)

\* The window of an index is the one it lies in.
LEMMA WindowIs ==
  ASSUME NEW a \in Nat, Boundary(a), NEW i \in Nat, a <= i, i < a + ChunkCap
  PROVE  AlignedOffset(i) = a
<1> DEFINE w == AlignedOffset(i)
<1>1. w \in Nat /\ Boundary(w) /\ w <= i /\ i < w + ChunkCap  BY AlignedOffsetBounds
<1> HIDE DEF w
<1>2. ~(a < w)
  <2>1. a < w => a + ChunkCap <= w  BY <1>1, BoundaryGap
  <2> QED  BY <1>1, <2>1, ChunkCapPositive
<1>3. ~(w < a)
  <2>1. w < a => w + ChunkCap <= a  BY <1>1, BoundaryGap
  <2> QED  BY <1>1, <2>1, ChunkCapPositive
<1> QED  BY <1>1, <1>2, <1>3 DEF w

\* The first of the chunks s that ends above i.
FirstPast(s, i) ==
  CHOOSE j \in DOMAIN s : /\ s[j].start + Capacity(s[j]) > i
                          /\ \A k \in 1 .. j - 1 : s[k].start + Capacity(s[k]) <= i

\* There is one, when the map holds an index from i on.
LEMMA FirstPastIs ==
  ASSUME NEW m, NEW X, NEW L, InChunks(m, X, L), NEW i \in Nat, NEW g \in X, i <= g,
         NEW h, h = FirstPast(m.chunks, i)
  PROVE  /\ h \in 1 .. Len(m.chunks) /\ i < EndOf(m.chunks[h])
         /\ \A k \in 1 .. h - 1 : EndOf(m.chunks[k]) <= i
<1> DEFINE s == m.chunks
           T == {j \in 1 .. Len(s) : i < EndOf(s[j])}
           Past(j) == /\ s[j].start + Capacity(s[j]) > i
                      /\ \A k \in 1 .. j - 1 : s[k].start + Capacity(s[k]) <= i
<1>1. /\ StreamOK(s, 0, L) /\ X = Bits(s) /\ Len(s) \in Nat /\ DOMAIN s = 1 .. Len(s)
  BY InChunksFields DEF Codes
<1>2. \A j \in 1 .. Len(s) : /\ EndOf(s[j]) \in Nat
                             /\ EndOf(s[j]) = s[j].start + Capacity(s[j])
  BY ChunkOfChunks DEF EndOf
<1>3. h = CHOOSE j \in DOMAIN s : Past(j)  BY DEF FirstPast
<1> HIDE DEF s
<1>4. PICK p \in 1 .. Len(s) : g \in BitsOf(s[p])  BY <1>1 DEF Bits
<1>5. g \in Nat /\ g < EndOf(s[p])  BY <1>1, <1>4, HeldWithin
<1>6. p \in T /\ T \in SUBSET Nat  BY <1>1, <1>2, <1>4, <1>5
<1>7. PICK j \in T : \A k \in T : j <= k  BY <1>6, LeastElement
<1>8. j \in DOMAIN s /\ Past(j)
  <2>1. ASSUME NEW k \in 1 .. j - 1  PROVE s[k].start + Capacity(s[k]) <= i
    <3>1. k \in 1 .. Len(s) /\ ~(j <= k)  BY <1>1, <1>7
    <3>2. ~(i < EndOf(s[k]))  BY <1>7, <3>1
    <3> QED  BY <1>2, <3>1, <3>2
  <2>2. s[j].start + Capacity(s[j]) > i  BY <1>2, <1>7
  <2> QED  BY <1>1, <1>7, <2>1, <2>2
<1>9. h \in DOMAIN s /\ Past(h)
  <2> HIDE DEF Past
  <2> QED  BY <1>3, <1>8
<1>10. h \in 1 .. Len(s) /\ i < EndOf(s[h])  BY <1>1, <1>2, <1>9
<1>11. ASSUME NEW k \in 1 .. h - 1  PROVE EndOf(s[k]) <= i
  <2>1. k \in 1 .. Len(s)  BY <1>1, <1>10
  <2> QED  BY <1>2, <1>9, <2>1
<1> QED  BY <1>10, <1>11 DEF s

\* How many of the chunks s begin below i.
Cutoff(s, i) ==
  CHOOSE n \in 0 .. Len(s) : \A j \in DOMAIN s : s[j].start < i <=> j <= n

\* They are the first ones.
LEMMA CutoffIs ==
  ASSUME NEW m, NEW X, NEW L, InChunks(m, X, L), NEW i \in Nat,
         NEW n, n = Cutoff(m.chunks, i)
  PROVE  /\ n \in 0 .. Len(m.chunks)
         /\ \A j \in 1 .. Len(m.chunks) : m.chunks[j].start < i <=> j <= n
<1> DEFINE s == m.chunks
           e == Len(s)
           T == {j \in 1 .. e : i <= s[j].start}
           Marks(k) == \A j \in DOMAIN s : s[j].start < i <=> j <= k
<1>1. /\ StreamOK(s, 0, L) /\ e \in Nat /\ DOMAIN s = 1 .. e
      /\ n = CHOOSE k \in 0 .. e : Marks(k)
  BY InChunksFields DEF Cutoff
<1>2. \A j \in 1 .. e : s[j].start \in Nat /\ EndOf(s[j]) \in Nat /\ s[j].start < EndOf(s[j])
  BY ChunkOfChunks, ChunkCapPositive
<1>3. \A j, k \in 1 .. e : j < k => EndOf(s[j]) <= s[k].start
  BY <1>1 DEF StreamOK
<1> HIDE DEF s, e
<1>4. \E k \in 0 .. e : Marks(k)
  <2>1. CASE T = {}
    <3>1. \A j \in 1 .. e : s[j].start < i /\ j <= e  BY <1>2, <2>1
    <3> QED  BY <1>1, <3>1
  <2>2. CASE T # {}
    <3>1. T \in SUBSET Nat  OBVIOUS
    <3>2. PICK k \in T : \A j \in T : k <= j  BY <2>2, <3>1, LeastElement
    <3> DEFINE b == k - 1
    <3>3. b \in 0 .. e /\ k \in 1 .. e /\ i <= s[k].start  BY <1>1, <3>2
    <3>4. ASSUME NEW j \in 1 .. e  PROVE s[j].start < i <=> j <= b
      <4>1. CASE j <= b
        <5>1. ~(k <= j)  BY <3>3, <4>1
        <5>2. ~(i <= s[j].start)  BY <3>2, <5>1
        <5> QED  BY <1>2, <4>1, <5>2
      <4>2. CASE j = k
        BY <1>2, <3>3, <4>2
      <4>3. CASE k < j
        <5>1. EndOf(s[k]) <= s[j].start  BY <1>3, <3>3, <4>3
        <5>2. ~(s[j].start < i)  BY <1>2, <3>3, <5>1
        <5> QED  BY <3>3, <4>3, <5>2
      <4> QED  BY <3>3, <4>1, <4>2, <4>3
    <3> QED  BY <1>1, <3>3, <3>4
  <2> QED  BY <2>1, <2>2
<1>5. n \in 0 .. e /\ Marks(n)
  <2> HIDE DEF Marks
  <2> QED  BY <1>1, <1>4
<1> QED  BY <1>1, <1>5 DEF s, e

\* sm_maximum finds the last index.
LEMMA MaximumIs ==
  ASSUME NEW m, NEW X, NEW L, ChunkHolds(m, X, L), X # {}
  PROVE  Maximum(m) \in X /\ \A g \in X : g <= Maximum(m)
<1> DEFINE s == m.chunks
           e == Len(s)
           c == s[e]
<1>1. /\ ~IsSmall(m) /\ StreamOK(s, 0, L) /\ Bits(s) = X /\ s \in Seq(Chunks)
      /\ \A j \in 1 .. Len(s) : Canonical(s[j])
  BY ChunkFields DEF Encodes
<1>2. e \in Nat  BY <1>1, LenProperties
<1>3. s # << >> /\ e \in 1 .. Len(s)
  <2>1. Bits(<< >>) = {}  BY DEF Bits
  <2>2. s # << >>  BY <1>1, <2>1
  <2>3. e # 0  BY <1>1, <2>2, EmptySeq
  <2> QED  BY <1>2, <2>2, <2>3
<1>4. /\ Maximum(m) = IF IsRLE(c) THEN c.start + c.len - 1
                      ELSE IF IndicesOf(c) = {} THEN 0 ELSE Max(IndicesOf(c))
  BY <1>1, <1>3 DEF Maximum, Last
<1> HIDE DEF s
<1>5. Canonical(c) /\ ChunkOK(c) /\ BitsOf(c) \subseteq X  BY <1>1, <1>3 DEF Canonical, Bits
<1>6. c.start \in Nat  BY <1>5, ChunkExtent
<1>7. /\ Maximum(m) \in BitsOf(c) /\ Maximum(m) \in Nat
      /\ \A x \in BitsOf(c) : x <= Maximum(m)
  <2>1. CASE IsRLE(c)
    <3>1. c.len \in Nat /\ c.len >= 1 /\ BitsOf(c) = c.start .. c.start + c.len - 1
      BY <1>5, <2>1, RunIsCanonical
    <3>2. Maximum(m) = c.start + c.len - 1  BY <1>4, <2>1
    <3> QED  BY <1>6, <3>1, <3>2
  <2>2. CASE ~IsRLE(c)
    <3>1. SparseOK(c)  BY <1>5, <2>2, SparseIsOK
    <3> DEFINE T == IndicesOf(c)
    <3>2. BitsOf(c) = T
      <4>1. ASSUME NEW x \in BitsOf(c)  PROVE x \in T
        <5>1. x \in Nat  BY DEF BitsOf
        <5>2. x - c.start \in 0 .. ChunkCap - 1 /\ IsSet(c, x - c.start)
          BY <3>1, <5>1, HeldSparse
        <5>3. x = c.start + (x - c.start)  BY <1>6, <5>1
        <5> QED  BY <5>2, <5>3 DEF IndicesOf
      <4>2. ASSUME NEW x \in T  PROVE x \in BitsOf(c)
        <5>1. PICK b \in 0 .. ChunkCap - 1 : IsSet(c, b) /\ x = c.start + b
          BY DEF IndicesOf
        <5>2. x \in Nat /\ x - c.start = b  BY <1>6, <5>1, ChunkCapPositive
        <5> QED  BY <3>1, <5>1, <5>2, HeldSparse
      <4> QED  BY <4>1, <4>2
    <3>3. T # {} /\ T \in SUBSET Nat  BY <1>5, <3>2 DEF Canonical, BitsOf
    <3>4. /\ EndOf(c) \in Nat /\ \A x \in T : x <= EndOf(c)
      <4>1. EndOf(c) \in Nat  BY <1>5, ChunkExtent
      <4> QED  BY <3>2, <4>1 DEF BitsOf
    <3>5. Maximum(m) = Max(T)  BY <1>4, <2>2, <3>3
    <3> HIDE DEF T
    <3>6. Max(T) \in T /\ Max(T) \in Nat /\ \A y \in T : y <= Max(T)
      BY <3>3, <3>4, MaxIsGreatest
    <3> QED  BY <3>2, <3>5, <3>6
  <2> QED  BY <2>1, <2>2
<1> HIDE DEF c, e
<1>8. ASSUME NEW g \in X  PROVE g <= Maximum(m)
  <2>1. PICK p \in 1 .. Len(s) : g \in BitsOf(s[p])  BY <1>1 DEF Bits
  <2>2. CASE p = e
    BY <1>7, <2>1, <2>2 DEF c
  <2>3. CASE p # e
    <3>1. p < e /\ e \in 1 .. Len(s)  BY <1>2, <1>3, <2>1, <2>3 DEF e
    <3>2. g < s[e].start  BY <1>1, <2>1, <3>1, HeldAscends
    <3>3. g \in Nat  BY <2>1 DEF BitsOf
    <3>4. c.start <= Maximum(m)  BY <1>7 DEF BitsOf
    <3> QED  BY <1>6, <1>7, <3>2, <3>3, <3>4 DEF c
  <2> QED  BY <2>2, <2>3
<1> QED  BY <1>5, <1>7, <1>8

\* Half of the members are below the middle one.
LEMMA MiddleIs ==
  ASSUME NEW S, NEW top, Low(S, top), S # {}
  PROVE  /\ MiddleOf(S) \in S /\ MiddleOf(S) \in Nat /\ IsFiniteSet(S)
         /\ Cardinality(LowerPart(S, MiddleOf(S))) = Cardinality(S) \div 2
<1> DEFINE n == Cardinality(S)
           half == n \div 2
<1>1. IsFiniteSet(S) /\ n \in Nat  BY LowerIsFinite
<1>2. n # 0  BY <1>1, FS_EmptySet
<1>3. half \in Nat /\ half < n  BY <1>1, <1>2
<1>4. MiddleOf(S) = CHOOSE i \in S : Cardinality(LowerPart(S, i)) = half
  BY DEF MiddleOf, LowerPart
<1> HIDE DEF half
<1>5. PICK i \in S : i \in Nat /\ Cardinality(LowerPart(S, i)) = half
  BY <1>3, HasSoManyBelow
<1>6. MiddleOf(S) \in S /\ Cardinality(LowerPart(S, MiddleOf(S))) = half
  BY <1>4, <1>5
<1>7. MiddleOf(S) \in Nat  BY <1>6, LowerAtTheEnds
<1> QED  BY <1>1, <1>6, <1>7 DEF half

\* Two fields of a map in the chunk form are written.
LEMMA TwoOfFields ==
  ASSUME NEW m, m = ResultMap(m.chunks, m.used, m.cap), NEW t, NEW v
  PROVE  [m EXCEPT !.chunks = t, !.used = v] = ResultMap(t, v, m.cap)
<1> DEFINE m1 == [m EXCEPT !.chunks = t]
           r == [m EXCEPT !.chunks = t, !.used = v]
<1>1. m1 = ResultMap(t, m.used, m.cap)
  <2> DEFINE s == m.chunks
             w == m.used
             size == m.cap
  <2>1. m = ResultMap(s, w, size)  OBVIOUS
  <2> HIDE DEF s, w, size
  <2>2. m1 = ResultMap(t, w, size)  BY <2>1 DEF ResultMap
  <2> QED  BY <2>2 DEF w, size
<1>2. r = [m1 EXCEPT !.used = v]  BY Zenon
<1> HIDE DEF m1, r
<1>3. r = ResultMap(t, v, m.cap)  BY <1>1, <1>2 DEF ResultMap
<1> QED  BY <1>3 DEF r

\* The part below the cut stays, and the part above it goes to the end of what
\* the other map holds, all of it below the cut.
LEMMA ChunksMove ==
  ASSUME NEW m, NEW X, NEW L, InChunks(m, X, L), NEW n, NEW c, CutAt(m, n, c, L),
         NEW o, NEW B, InChunks(o, B, L), StreamOK(o.chunks, 0, c),
         NEW s, NEW t, AreParts(m, n, s, t),
         o.used + StreamWords(t) <= o.cap
  PROVE  /\ Carries(Tidied(Cut(m, s)), LowerPart(X, c), L) /\ CoalesceEnds(Cut(m, s))
         /\ Carries(Tidied(Extended(o, t)), B \cup UpperPart(X, c), L)
         /\ CoalesceEnds(Extended(o, t))
<1> DEFINE low == LowerPart(X, c)
           high == UpperPart(X, c)
<1> HIDE DEF low, high
<1>0. low = LowerPart(X, c) /\ high = UpperPart(X, c)  BY DEF low, high
<1>1. /\ Part(s, 0, c, low) /\ Part(t, c, L, high)
      /\ StreamWords(s) \in Nat /\ StreamWords(t) \in Nat
      /\ m.used = 1 + StreamWords(s) + StreamWords(t)
  <2>1. /\ Part(s, 0, c, LowerPart(X, c)) /\ Len(s) = n
        /\ Part(t, c, L, UpperPart(X, c))
        /\ StreamWords(s) \in Nat /\ StreamWords(t) \in Nat
        /\ m.used = 1 + StreamWords(s) + StreamWords(t)
    BY CutParts
  <2> QED  BY <1>0, <2>1
<1>2. /\ m = ResultMap(m.chunks, m.used, m.cap) /\ m.used \in Nat /\ m.cap \in Nat
      /\ m.used <= m.cap /\ L \in Nat
  BY InChunksFields
<1>3. /\ o = ResultMap(o.chunks, o.used, o.cap) /\ o.used \in Nat /\ o.cap \in Nat
      /\ o.used <= o.cap /\ Codes(Chunks, o.chunks, B, o.used - 1)
      /\ o.used = 1 + StreamWords(o.chunks)
  BY InChunksFields
<1>4. Limit(L) /\ c \in Nat /\ c <= L  BY <1>2 DEF InChunks, CutAt
<1>5. InChunks(Cut(m, s), low, L)
  <2> DEFINE w == HeaderWords + StreamWords(s)
  <2>1. w \in Int /\ w <= m.cap /\ w - 1 = StreamWords(s)
    BY ONLY <1>1, <1>2 DEF HeaderWords
  <2>2. StreamOK(s, 0, L) /\ Codes(Chunks, s, low, StreamWords(s))
    <3> DEFINE lo == 0
    <3>1. /\ StreamOK(s, lo, c) /\ Codes(Chunks, s, low, StreamWords(s))
          /\ lo \in Int /\ c \in Int /\ L \in Int /\ c <= L /\ lo <= lo
      BY <1>1, <1>2, <1>4 DEF Part
    <3> HIDE DEF lo
    <3>2. StreamOK(s, lo, L)  BY <3>1, WiderStream
    <3> QED  BY <3>1, <3>2 DEF lo
  <2> HIDE DEF w
  <2>3. Chunked(s, w, m.cap, low, L)  BY <1>2, <1>4, <2>1, <2>2 DEF Chunked
  <2>4. InChunks(ResultMap(s, w, m.cap), low, L)  BY <2>3, InChunksFrom
  <2>5. Cut(m, s) = ResultMap(s, w, m.cap)
    <3>1. [m EXCEPT !.chunks = s, !.used = w] = ResultMap(s, w, m.cap)
      BY <1>2, TwoOfFields
    <3> QED  BY <3>1 DEF Cut, w
  <2> QED  BY <2>4, <2>5
<1>6. InChunks(Extended(o, t), B \cup high, L)
  <2> DEFINE u == o.chunks \o t
             w == o.used + StreamWords(t)
  <2>1. w \in Int /\ w <= o.cap /\ w - 1 = StreamWords(o.chunks) + StreamWords(t)
    <3> DEFINE x == StreamWords(o.chunks)
               y == StreamWords(t)
    <3>1. /\ o.used \in Nat /\ o.used = 1 + x /\ y \in Nat /\ o.used + y <= o.cap
          /\ w = o.used + y
      BY <1>1, <1>3
    <3> HIDE DEF x, y, w
    <3>3. x \in Nat  BY <1>3, StreamWordsIsNat DEF Codes, x
    <3>4. w \in Int /\ w <= o.cap /\ w - 1 = x + y  BY ONLY <3>1, <3>3
    <3> QED  BY <3>4 DEF x, y
  <2>2. Part(u, 0, L, B \cup high) /\ StreamWords(u) = StreamWords(o.chunks) + StreamWords(t)
    <3> DEFINE lo == 0
               q == o.chunks
    <3>1. /\ Part(t, c, L, high) /\ lo \in Int /\ c \in Int
          /\ L \in Int /\ lo <= c /\ c <= L
      BY <1>1, <1>2, <1>4
    <3>0. Part(q, lo, c, B)  BY <1>3 DEF Part, Codes
    <3> HIDE DEF lo, q
    <3>2. Part(q \o t, lo, L, B \cup high) /\ StreamWords(q \o t) = StreamWords(q) + StreamWords(t)
      BY <3>0, <3>1, PieceAfterPiece
    <3> QED  BY <3>2 DEF lo, q
  <2> HIDE DEF w, u
  <2>3. Codes(Chunks, u, B \cup high, w - 1)  BY <2>1, <2>2 DEF Part
  <2>4. Chunked(u, w, o.cap, B \cup high, L)
    BY <1>3, <1>4, <2>1, <2>2, <2>3 DEF Chunked, Part
  <2>5. InChunks(ResultMap(u, w, o.cap), B \cup high, L)  BY <2>4, InChunksFrom
  <2>6. [o EXCEPT !.chunks = u, !.used = w] = ResultMap(u, w, o.cap)
    BY <1>3, TwoOfFields
  <2> QED  BY <2>5, <2>6 DEF u, w, Extended
<1>7. Carries(Tidied(Cut(m, s)), low, L) /\ CoalesceEnds(Cut(m, s))
  BY <1>5, TidiedCarries
<1>8. Carries(Tidied(Extended(o, t)), B \cup high, L) /\ CoalesceEnds(Extended(o, t))
  BY <1>6, TidiedCarries
<1> QED  BY <1>7, <1>8 DEF low, high

\* When the first chunk that ends above the point begins there or after, the
\* cut is the point.
LEMMA CutBeforeChunk ==
  ASSUME NEW m, NEW X, NEW L, InChunks(m, X, L), NEW i \in Nat, NEW g \in X, i <= g,
         NEW h, h = FirstPast(m.chunks, i), ~(m.chunks[h].start < i),
         NEW n, n = Cutoff(m.chunks, i), Covers(L)
  PROVE  CutAt(m, n, i, L)
<1> DEFINE s == m.chunks
<1>1. /\ h \in 1 .. Len(s) /\ \A k \in 1 .. h - 1 : EndOf(s[k]) <= i
      /\ n \in 0 .. Len(s) /\ \A j \in 1 .. Len(s) : s[j].start < i <=> j <= n
      /\ Len(s) \in Nat
  <2>1. h \in 1 .. Len(s) /\ \A k \in 1 .. h - 1 : EndOf(s[k]) <= i  BY FirstPastIs
  <2>2. n \in 0 .. Len(s) /\ \A j \in 1 .. Len(s) : s[j].start < i <=> j <= n
    BY CutoffIs
  <2>3. Len(s) \in Nat  BY InChunksFields
  <2> QED  BY <2>1, <2>2, <2>3
<1>2. \A j \in 1 .. Len(s) : s[j].start \in Nat  BY ChunkOfChunks
<1>3. i \in 0 .. L
  <2>1. X \subseteq 0 .. L - 1  BY CarriesMembers DEF Carries
  <2>2. g \in 0 .. L - 1 /\ L \in Nat  BY <2>1, InChunksFields
  <2> QED  BY <2>2
<1> HIDE DEF s
<1>4. n < h
  <2>1. h <= n => s[h].start < i  BY <1>1
  <2> QED  BY <1>1, <2>1 DEF s
<1>5. \A j \in 1 .. n : EndOf(s[j]) <= i
  <2>1. \A j \in 1 .. n : j \in 1 .. h - 1  BY <1>1, <1>4
  <2> QED  BY <1>1, <2>1
<1>6. ASSUME NEW j \in n + 1 .. Len(s)  PROVE i <= s[j].start
  <2>1. j \in 1 .. Len(s) /\ ~(j <= n)  BY <1>1
  <2> QED  BY <1>1, <1>2, <2>1
<1> QED  BY <1>1, <1>3, <1>5, <1>6 DEF CutAt, s

\* And when its window is a sparse chunk, the cut is the end of the window.
LEMMA CutAfterWindow ==
  ASSUME NEW m, NEW X, NEW L, InChunks(m, X, L), NEW i \in Nat, NEW a \in Nat,
         Windowed(m, a), a < i, i < a + ChunkCap, a + ChunkCap <= L,
         NEW n, n = Cutoff(m.chunks, i)
  PROVE  CutAt(m, n, a + ChunkCap, L)
<1> DEFINE s == m.chunks
           c == a + ChunkCap
<1>1. /\ n \in 0 .. Len(s) /\ \A j \in 1 .. Len(s) : s[j].start < i <=> j <= n
      /\ Len(s) \in Nat /\ L \in Nat
  <2>1. n \in 0 .. Len(s) /\ \A j \in 1 .. Len(s) : s[j].start < i <=> j <= n
    BY CutoffIs
  <2>2. Len(s) \in Nat /\ L \in Nat  BY InChunksFields
  <2> QED  BY <2>1, <2>2
<1>2. ASSUME NEW j \in 1 .. Len(s)
      PROVE  /\ s[j].start \in Nat /\ EndOf(s[j]) \in Nat
             /\ s[j].start + ChunkCap <= EndOf(s[j])
             /\ ~IsRLE(s[j]) => EndOf(s[j]) = s[j].start + ChunkCap
  <2>1. /\ ~IsRLE(s[j]) => SparseOK(s[j])
        /\ s[j].start \in Nat /\ EndOf(s[j]) \in Nat
        /\ s[j].start + ChunkCap <= EndOf(s[j])
    BY <1>2, ChunkOfChunks
  <2>2. ~IsRLE(s[j]) => EndOf(s[j]) = s[j].start + ChunkCap  BY <2>1, HeldSparse
  <2> QED  BY <2>1, <2>2
<1>3. c \in 0 .. L  BY <1>1, ChunkCapPositive
<1>4. ASSUME NEW j \in 1 .. n  PROVE EndOf(s[j]) <= c
  <2>1. j \in 1 .. Len(s) /\ s[j].start < i  BY <1>1
  <2>2. OutsideOrAt(s[j], a)  BY <2>1 DEF Windowed
  <2> QED  BY <1>2, <2>1, <2>2, ChunkCapPositive DEF OutsideOrAt
<1>5. ASSUME NEW j \in n + 1 .. Len(s)  PROVE c <= s[j].start
  <2>1. j \in 1 .. Len(s) /\ ~(s[j].start < i)  BY <1>1
  <2>2. OutsideOrAt(s[j], a)  BY <2>1 DEF Windowed
  <2> QED  BY <1>2, <2>1, <2>2, ChunkCapPositive DEF OutsideOrAt
<1> QED  BY <1>1, <1>3, <1>4, <1>5 DEF CutAt

----------------------------------------------------------------------------
(* The inductive invariant.                                                *)

\* A destination as sm_split gets it: without indices, in whichever form.
Vacant(o) ==
  /\ o.cap \in Nat /\ o.cap >= 1
  /\ o \in {EmptyMap(o.cap), SmallForm(EmptyMap(o.cap), << >>)}

\* In halves, a map of G is divided at its middle member.
AtMiddle(G, p, i) == p = Median => i = MiddleOf(G)

\* Before the first step.
Called(G, p, m, o, i, n, bad, L) == Stores(m, G, L) /\ Vacant(o) /\ i = p /\ ~bad

\* While the chunk with the point inside is looked for, and made a sparse one:
\* nothing has been moved, and there is something to move.
Parting(G, p, m, o, i, n, bad, L) ==
  /\ InChunks(m, G, L) /\ Vacant(o) /\ o = EmptyMap(o.cap) /\ ~bad
  /\ i \in Nat /\ (\E g \in G : i <= g) /\ AtMiddle(G, p, i)

\* While the indices of the window at a are moved: those from i to n have been.
FromTo(G, i, n) == {x \in G : i <= x /\ x < n}
Moving(A, B, G, i, n, bad) ==
  /\ A \subseteq G /\ B \subseteq FromTo(G, i, n)
  /\ ~bad => B = FromTo(G, i, n) /\ A = G \ B
Windows(m, o, i, n, a) ==
  /\ OneWindow(o, a) /\ Windowed(m, a) /\ a \in Nat /\ a = AlignedOffset(i)
  /\ i \in Nat /\ a < i /\ n \in i .. a + ChunkCap
Dividing(G, p, m, o, i, n, bad, L) ==
  /\ \E A, B : InChunks(m, A, L) /\ InChunks(o, B, L) /\ Moving(A, B, G, i, n, bad)
  /\ Windows(m, o, i, n, AlignedOffset(i)) /\ AtMiddle(G, p, i)

\* And in the end.
Ended(G, p, m, o, i, bad, st, L) ==
  /\ \E A, B : /\ Carries(m, A, L) /\ Carries(o, B, L)
               /\ A \subseteq G /\ B \subseteq UpperPart(G, i)
               /\ ~bad => A = G \ B /\ (st = "done" => B = UpperPart(G, i))
  /\ st = "done" => AtMiddle(G, p, i)

\* Wherever it is.
Goes(G, p, m, o, i, n, bad, st, L) ==
  \/ st = "called" /\ Called(G, p, m, o, i, n, bad, L)
  \/ st = "parting" /\ Parting(G, p, m, o, i, n, bad, L)
  \/ st = "bits" /\ Dividing(G, p, m, o, i, n, bad, L)
  \/ st \in {"done", "undivided", "refused"} /\ Ended(G, p, m, o, i, bad, st, L)

\* The invariant.
SplitInv(L) ==
  /\ point \in Points \cup {Median}
  /\ Stores(given, MembersOf(given), L) /\ MembersOf(given) # {}
  /\ Goes(MembersOf(given), point, map, other, idx, next, ignored, status, L)

----------------------------------------------------------------------------
(* Each step keeps it.                                                     *)

\* A map that stores a set carries it.
LEMMA StoresCarries ==
  ASSUME NEW m, NEW X, NEW L, Limit(L), Stores(m, X, L)
  PROVE  Carries(m, X, L)
  BY ChunkHoldsInChunks DEF Stores, Carries

\* An empty destination carries nothing.
LEMMA VacantCarries ==
  ASSUME NEW o, NEW L, Limit(L), Vacant(o)
  PROVE  Carries(o, {}, L) /\ (o = EmptyMap(o.cap) => InChunks(o, {}, L) /\ o.chunks = << >>)
<1> DEFINE size == o.cap
           z == EmptyMap(size)
<1>1. size \in Nat /\ size >= 1 /\ o \in {z, SmallForm(z, << >>)}  BY DEF Vacant
<1>2. L \in Nat  BY DEF Limit
<1> HIDE DEF size
<1>3. ChunkHolds(z, {}, L) /\ z.cap = size /\ z.chunks = << >>  BY <1>1, <1>2, EmptyHolds
<1>4. InChunks(z, {}, L)  BY <1>3, ChunkHoldsInChunks
<1>5. SmallHolds(SmallForm(z, << >>), {})
  <2>1. IsMap(z)  BY DEF EmptyMap, IsMap
  <2>2. WordsOK(<< >>) /\ SmallBits(<< >>) = {} /\ Len(<< >>) = 0  BY NoWords
  <2> DEFINE words == << >>
  <2>3. /\ IsMap(z) /\ z.cap \in Nat /\ WordsOK(words) /\ 1 + Len(words) <= z.cap
        /\ SmallBits(words) = {}
    BY <1>1, <1>3, <2>1, <2>2
  <2> HIDE DEF words, z
  <2>4. SmallHolds(SmallForm(z, words), SmallBits(words))  BY <2>3, SmallFormHolds
  <2> QED  BY <2>3, <2>4 DEF words
<1> QED  BY <1>1, <1>3, <1>4, <1>5 DEF Carries, size

\* A call that ends with nothing moved.
LEMMA NothingMoved ==
  ASSUME NEW G, NEW p, NEW m, NEW o, NEW i, NEW bad, NEW st, NEW L,
         Carries(m, G, L), Carries(o, {}, L), st \in {"done", "undivided", "refused"},
         st = "done" => UpperPart(G, i) = {} /\ AtMiddle(G, p, i)
  PROVE  Ended(G, p, m, o, i, bad, st, L)
<1> DEFINE B == {}
<1>1. /\ Carries(m, G, L) /\ Carries(o, B, L) /\ G \subseteq G /\ B \subseteq UpperPart(G, i)
      /\ G = G \ B /\ (st = "done" => B = UpperPart(G, i))
  OBVIOUS
<1> HIDE DEF B
<1> QED  BY <1>1 DEF Ended

\* sm_split begins.
LEMMA StartGoes ==
  ASSUME NEW L, Covers(L), SplitInv(L), Start, NEW G, G = MembersOf(given)
  PROVE  Goes(G, point, map', other', idx', next', ignored', status', L)
<1>1. /\ status = "called" /\ Stores(map, G, L) /\ Vacant(other) /\ ~ignored
      /\ point \in Points \cup {Median} /\ G # {} /\ ignored' = ignored
  BY DEF SplitInv, Goes, Called, Start
<1> DEFINE r == IF IsSmall(map) THEN Promote(map) ELSE Done(map)
<1>2. /\ map' = r.map
      /\ IF ~r.ok THEN End("refused") /\ UNCHANGED << other, idx >>
         ELSE /\ other' = EmptyMap(other.cap)
              /\ idx' = IF point = Median THEN MiddleOf(MembersOf(r.map)) ELSE point
              /\ End(IF point = Median /\ Minimum(r.map) = Maximum(r.map) THEN "undivided"
                     ELSE IF idx' > Maximum(r.map) THEN "done" ELSE "parting")
  BY DEF Start
<1>3. (r.ok => ChunkHolds(r.map, G, L)) /\ (~r.ok => r.map = map)
  <2>1. CASE IsSmall(map)
    <3>1. SmallHolds(map, G)  BY <1>1, <2>1, ChunkFields DEF Stores
    <3> QED  BY <2>1, <3>1, PromoteHolds
  <2>2. CASE ~IsSmall(map)
    <3>1. ChunkHolds(map, G, L)  BY <1>1, <2>2, SmallFields DEF Stores
    <3> QED  BY <2>2, <3>1 DEF Done
  <2> QED  BY <2>1, <2>2
<1> HIDE DEF r
<1>4. Limit(L) /\ ~ignored' /\ L \in Nat  BY <1>1 DEF Covers, Limit
<1>5. Carries(other, {}, L)  BY <1>1, <1>4, VacantCarries
<1>6. CASE ~r.ok
  <2>1. map' = map /\ other' = other /\ status' = "refused"  BY <1>2, <1>3, <1>6 DEF End
  <2>2. Carries(map', G, L) /\ Carries(other', {}, L)  BY <1>1, <1>4, <1>5, <2>1, StoresCarries
  <2>3. Ended(G, point, map', other', idx', ignored', status', L)
    BY <1>4, <2>1, <2>2, NothingMoved
  <2> QED  BY <1>4, <2>1, <2>3 DEF Goes
<1>7. CASE r.ok
  <2>1. /\ ChunkHolds(map', G, L) /\ InChunks(map', G, L) /\ MembersOf(map') = G
        /\ G \subseteq 0 .. L - 1 /\ Carries(map', G, L)
    <3>1. ChunkHolds(map', G, L)  BY <1>2, <1>3, <1>7
    <3>2. InChunks(map', G, L)  BY <1>4, <3>1, ChunkHoldsInChunks
    <3>3. Carries(map', G, L)  BY <3>2 DEF Carries
    <3> QED  BY <3>1, <3>2, <3>3, CarriesMembers
  <2>2. /\ other' = EmptyMap(other.cap)
        /\ idx' = IF point = Median THEN MiddleOf(G) ELSE point
        /\ status' = IF point = Median /\ Minimum(map') = Maximum(map') THEN "undivided"
                     ELSE IF idx' > Maximum(map') THEN "done" ELSE "parting"
    BY <1>2, <1>7, <2>1 DEF End
  <2>3. idx' \in Nat /\ AtMiddle(G, point, idx')
    <3>1. Low(G, L)  BY <1>4, <2>1 DEF Low
    <3>2. MiddleOf(G) \in Nat  BY <1>1, <3>1, MiddleIs
    <3> QED  BY <1>1, <2>2, <3>2, SplitAssumption DEF AtMiddle
  <2>4. Vacant(other') /\ other' = EmptyMap(other'.cap)
    <3>1. other'.cap = other.cap  BY <2>2 DEF EmptyMap
    <3> QED  BY <1>1, <2>2, <3>1 DEF Vacant
  <2>5. Carries(other', {}, L)  BY <1>4, <2>4, VacantCarries
  <2>6. Maximum(map') \in G /\ \A g \in G : g <= Maximum(map')
    BY <1>1, <2>1, MaximumIs
  <2>7. CASE status' = "parting"
    <3>1. ~(idx' > Maximum(map'))  BY <2>2, <2>7
    <3>2. Maximum(map') \in Nat  BY <1>4, <2>1, <2>6
    <3>3. idx' <= Maximum(map')  BY <2>3, <3>1, <3>2
    <3>4. \E g \in G : idx' <= g  BY <2>6, <3>3
    <3> QED  BY <1>4, <2>1, <2>3, <2>4, <2>7, <3>4 DEF Goes, Parting
  <2>8. CASE status' # "parting"
    <3>1. status' \in {"done", "undivided"}  BY <2>2, <2>8
    <3>2. ASSUME status' = "done"  PROVE UpperPart(G, idx') = {}
      <4>1. idx' > Maximum(map')  BY <2>2, <3>2
      <4>2. ASSUME NEW g \in G  PROVE ~(idx' <= g)
        <5>1. g <= Maximum(map') /\ g \in Nat /\ Maximum(map') \in Nat
          BY <1>4, <2>1, <2>6
        <5> QED  BY <2>3, <4>1, <5>1
      <4> QED  BY <4>2 DEF UpperPart
    <3>3. Ended(G, point, map', other', idx', ignored', status', L)
      BY <1>4, <2>1, <2>3, <2>5, <3>1, <3>2, NothingMoved
    <3> QED  BY <1>4, <3>1, <3>3 DEF Goes
  <2> QED  BY <2>7, <2>8
<1> QED  BY <1>6, <1>7

\* The chunk that has the point inside it.
Inside(m, h, i) ==
  /\ h \in 1 .. Len(m.chunks) /\ i \in Nat
  /\ m.chunks[h].start < i /\ i < EndOf(m.chunks[h])
  /\ \A k \in 1 .. h - 1 : EndOf(m.chunks[k]) <= i

\* It has the window of the point, too.
LEMMA InsideIs ==
  ASSUME NEW m, NEW X, NEW L, InChunks(m, X, L), NEW h, NEW i, Inside(m, h, i),
         NEW c, c = m.chunks[h], NEW a, a = AlignedOffset(i)
  PROVE  /\ a \in Nat /\ Boundary(a) /\ a <= i /\ i < a + ChunkCap
         /\ c.start <= a /\ a + ChunkCap <= EndOf(c) /\ a < EndOf(c)
         /\ EndOf(c) <= L /\ ChunkOK(c) /\ BitsOf(c) \subseteq X
         /\ ~IsRLE(c) => c.start = a
<1>1. /\ ChunkOK(c) /\ c.start \in Nat /\ Boundary(c.start) /\ EndOf(c) \in Nat
      /\ Boundary(EndOf(c)) /\ EndOf(c) <= L /\ BitsOf(c) \subseteq X
      /\ ~IsRLE(c) => SparseOK(c)
  BY ChunkOfChunks DEF Inside
<1>2. i \in Nat /\ c.start < i /\ i < EndOf(c)  BY DEF Inside
<1>3. a \in Nat /\ Boundary(a) /\ a <= i /\ i < a + ChunkCap  BY <1>2, AlignedOffsetBounds
<1>4. c.start <= a
  <2>1. a < c.start => a + ChunkCap <= c.start  BY <1>1, <1>3, BoundaryGap
  <2> QED  BY <1>1, <1>2, <1>3, <2>1, ChunkCapPositive
<1>5. a < EndOf(c)  BY <1>1, <1>2, <1>3
<1>6. a + ChunkCap <= EndOf(c)  BY <1>1, <1>3, <1>5, BoundaryGap
<1>7. ~IsRLE(c) => c.start = a
  <2>1. ASSUME ~IsRLE(c)  PROVE c.start = a
    <3>1. EndOf(c) = c.start + ChunkCap  BY <1>1, <2>1, HeldSparse
    <3>2. AlignedOffset(i) = c.start  BY <1>1, <1>2, <3>1, WindowIs
    <3> QED  BY <3>2
  <2> QED  BY <2>1
<1> QED  BY <1>1, <1>3, <1>4, <1>5, <1>6, <1>7

\* What the code looks for is there, and either begins below the point or not.
LEMMA HereIs ==
  ASSUME NEW L, NEW G, Parting(G, point, map, other, idx, next, ignored, L)
  PROVE  /\ Here = FirstPast(map.chunks, idx) /\ Here \in 1 .. Len(map.chunks)
         /\ InMiddle <=> map.chunks[Here].start < idx
         /\ InMiddle => Inside(map, Here, idx)
<1>1. InChunks(map, G, L) /\ idx \in Nat /\ \E g \in G : idx <= g  BY DEF Parting
<1>2. Here = FirstPast(map.chunks, idx)  BY DEF Here, FirstPast
<1>3. PICK g \in G : idx <= g  BY <1>1
<1>4. /\ Here \in 1 .. Len(map.chunks) /\ idx < EndOf(map.chunks[Here])
      /\ \A k \in 1 .. Here - 1 : EndOf(map.chunks[k]) <= idx
  BY <1>1, <1>2, <1>3, FirstPastIs
<1>5. InMiddle <=> map.chunks[Here].start < idx  BY DEF InMiddle
<1> QED  BY <1>1, <1>2, <1>4, <1>5 DEF Inside

\* The run is separated: the map holds what it did.
LEMMA PartKeeps ==
  ASSUME NEW m, NEW X, NEW L, InChunks(m, X, L), NEW h, NEW i, Inside(m, h, i),
         IsRLE(m.chunks[h]),
         NEW r, r = SeparateInto(m, h, Parted(m.chunks[h], AlignedOffset(i)))
  PROVE  /\ r.ok \in BOOLEAN /\ (~r.ok => r.map = m)
         /\ r.ok => InChunks(r.map, X, L)
<1> DEFINE c == m.chunks[h]
           a == AlignedOffset(i)
           t == Parted(c, a)
           w == StreamWords(t)
           words == w - 2
           b == EndOf(c)
           q == Replace(m, h, 1, t, words)
<1>1. /\ a \in Nat /\ Boundary(a) /\ c.start <= a /\ a < b /\ b <= L /\ ChunkOK(c)
      /\ IsRLE(c) /\ BitsOf(c) \subseteq X
  BY InsideIs
<1>2. /\ h \in 1 .. Len(m.chunks) /\ StreamOK(m.chunks, 0, L) /\ L \in Nat /\ L <= RLEMax
      /\ m.used \in Nat /\ m.cap \in Nat /\ RLEMax \in Nat /\ Len(m.chunks) \in Nat
  BY InChunksFields, ChunkConstants DEF Inside, InChunks, Limit
<1>3. /\ b \in Nat /\ c.start \in Nat /\ Size(c) = 1  BY <1>1, ChunkExtent, RunIsCanonical
<1>4. RunAt(c, a)  BY <1>1, <1>2, <1>3 DEF RunAt
<1>5. Part(t, c.start, b, BitsOf(c))  BY <1>4, PartedIs
<1>6. w \in Nat  BY <1>5, StreamWordsIsNat DEF Part, StreamOK
<1>7. r = IF m.used + words + HeaderWords <= m.cap THEN Done(q) ELSE Failed(m)
  BY DEF SeparateInto, HasRoom
<1>8. h < Len(m.chunks) => b <= m.chunks[h + 1].start
  BY <1>2 DEF StreamOK
<1> HIDE DEF t, w, words, b, q
<1>9. CASE m.used + words + HeaderWords <= m.cap
  <2>1. /\ words \in Int /\ words = w - (1 + Size(c))  BY <1>3, <1>6 DEF words
  <2>2. m.used + words <= m.cap  BY ONLY <1>2, <1>9, <2>1 DEF HeaderWords
  <2>3. Codes(Chunks, t, BitsOf(c), w) /\ StreamOK(t, c.start, b)  BY <1>5 DEF Part, w
  <2>4. PutIn(m, X, h, t, BitsOf(c), w, words, b, L)
    BY <1>1, <1>2, <1>3, <1>6, <1>8, <2>1, <2>2, <2>3 DEF PutIn
  <2>5. q = Replace(m, h, 1, t, words)  BY DEF q
  <2>6. InChunks(q, (X \ BitsOf(c)) \cup BitsOf(c), L)  BY <2>4, <2>5, PutHolds
  <2>7. (X \ BitsOf(c)) \cup BitsOf(c) = X  BY <1>1
  <2>8. InChunks(q, X, L)  BY <2>6, <2>7
  <2>9. r = [map |-> q, ok |-> TRUE]  BY <1>7, <1>9 DEF Done
  <2>10. r.ok = TRUE /\ r.map = q  BY <2>9
  <2> QED  BY <2>8, <2>10
<1>10. CASE ~(m.used + words + HeaderWords <= m.cap)
  <2>1. r = [map |-> m, ok |-> FALSE]  BY <1>7, <1>10 DEF Failed
  <2>2. r.ok = FALSE /\ r.map = m  BY <2>1
  <2> QED  BY <2>2
<1> QED  BY <1>9, <1>10

\* PartRun.
LEMMA PartRunGoes ==
  ASSUME NEW L, Covers(L), SplitInv(L), PartRun, NEW G, G = MembersOf(given)
  PROVE  Goes(G, point, map', other', idx', next', ignored', status', L)
<1>1. /\ Parting(G, point, map, other, idx, next, ignored, L) /\ InMiddle
      /\ IsRLE(map.chunks[Here]) /\ UNCHANGED << given, point, other, idx, next, ignored >>
  BY DEF SplitInv, Goes, PartRun
<1> DEFINE r == SeparateInto(map, Here, Parted(map.chunks[Here], AlignedOffset(idx)))
<1>2. map' = r.map /\ status' = IF r.ok THEN "parting" ELSE "refused"
  BY DEF PartRun, Window, End
<1>3. InChunks(map, G, L) /\ Vacant(other) /\ Limit(L)  BY <1>1 DEF Parting, Covers
<1>4. Inside(map, Here, idx)  BY <1>1, HereIs
<1>5. r.ok \in BOOLEAN /\ (~r.ok => r.map = map) /\ (r.ok => InChunks(r.map, G, L))
  BY <1>1, <1>3, <1>4, PartKeeps
<1> HIDE DEF r
<1>6. CASE r.ok
  BY <1>1, <1>2, <1>5, <1>6 DEF Parting, Goes
<1>7. CASE ~r.ok
  <2>1. Carries(map', G, L) /\ Carries(other', {}, L) /\ status' = "refused"
    BY <1>1, <1>2, <1>3, <1>5, <1>7, VacantCarries DEF Carries
  <2>2. Ended(G, point, map', other', idx', ignored', status', L)  BY <2>1, NothingMoved
  <2> QED  BY <2>1, <2>2 DEF Goes
<1> QED  BY <1>6, <1>7

\* The counterpart of the window: one sparse chunk, without indices.
LEMMA WindowOpens ==
  ASSUME NEW o, NEW L, Limit(L), Vacant(o), o = EmptyMap(o.cap), NEW a \in Nat, Boundary(a),
         a + ChunkCap <= L, ~(o.used + LargestChunk > o.cap),
         NEW r, r = Replace(o, 1, 0, << ZerosChunk(a) >>, 2)
  PROVE  InChunks(r, {}, L) /\ OneWindow(r, a)
<1> DEFINE z == ZerosChunk(a)
           t == << z >>
           size == o.cap
           none == << >>
<1>1. /\ SparseOK(z) /\ z.start = a /\ ProperWords(z) /\ \A k \in 0 .. ChunkCap - 1 : ~IsSet(z, k)
  BY PlainChunksOK, PlainChunksBits
<1>2. Size(z) = 1
  <2>1. z.data = << >>  BY DEF ZerosChunk, SparseChunk
  <2>2. Size(z) = 1 + Len(z.data)  BY <1>1, SparseSize
  <2> QED  BY <2>1, <2>2
<1>3. size \in Nat /\ o = EmptyMap(size) /\ L \in Nat  BY DEF Vacant, Limit
<1> HIDE DEF z, size
<1>4. ~IsRLE(z) /\ EndOf(z) = a + ChunkCap /\ ChunkOK(z) /\ BitsOf(z) = {} /\ z \in Chunks
  <2>1. /\ ChunkOK(z) /\ ~IsRLE(z) /\ EndOf(z) = a + ChunkCap
        /\ \A x \in Nat : x \in BitsOf(z) <=> x - a \in 0 .. ChunkCap - 1 /\ IsSet(z, x - a)
    BY <1>1, HeldSparse
  <2>2. BitsOf(z) = {}  BY <1>1, <2>1 DEF BitsOf
  <2>3. z \in Chunks  BY <2>1, ChunkExtent
  <2> QED  BY <2>1, <2>2, <2>3
<1>5. InShape(Chunks, z)  BY <1>1, <1>4 DEF InShape
<1>6. t \in Seq(Chunks) /\ Len(t) = 1 /\ t[1] = z  BY <1>4
<1>7. StreamOK(t, 0, L) /\ Codes(Chunks, t, {}, 2)
  <2> DEFINE lo == 0
  <2>1. lo \in Int /\ L \in Int /\ lo <= z.start /\ EndOf(z) <= L  BY <1>1, <1>3, <1>4
  <2> HIDE DEF lo
  <2>2. Part(<< z >>, lo, L, BitsOf(z))  BY <1>5, <2>1, PieceOne
  <2>3. Codes(Chunks, << z >>, BitsOf(z), 1 + Size(z))  BY <1>5, CodesOne
  <2> QED  BY <1>2, <1>4, <2>2, <2>3 DEF Part, lo
<1>8. 3 <= size
  <2>1. o.used = HeaderWords  BY <1>3 DEF EmptyMap
  <2>2. FlagsPerIndex \in Nat  BY ChunkConstants
  <2> QED  BY <1>3, <2>1, <2>2 DEF LargestChunk, HeaderWords, size
<1>9. r = ResultMap(t, 3, size)
  <2>1. o = ResultMap(none, HeaderWords, size)  BY <1>3 DEF EmptyMap, ResultMap
  <2>2. o.chunks = none /\ o.used = 1 /\ o.cap = size  BY <2>1 DEF ResultMap, HeaderWords
  <2>3. Splice(none, 1, 0, t) = t
    <3>1. SubSeq(none, 1, 1 - 1) = none /\ SubSeq(none, 1 + 0, Len(none)) = none  OBVIOUS
    <3>2. Splice(none, 1, 0, t) = none \o t \o none  BY <3>1 DEF Splice
    <3> HIDE DEF t
    <3>3. none \o t = t /\ t \o none = t  BY <1>6, ConcatEmptySeq
    <3> QED  BY <3>2, <3>3
  <2>4. r = [o EXCEPT !.chunks = t, !.used = 3]
    <3> DEFINE u == Splice(o.chunks, 1, 0, t)
               v == o.used + 2
    <3>1. r = [o EXCEPT !.chunks = u, !.used = v]  BY DEF Replace, z
    <3>2. u = t /\ v = 3  BY <2>2, <2>3
    <3> HIDE DEF u, v
    <3> QED  BY <3>1, <3>2
  <2>5. o = ResultMap(o.chunks, o.used, o.cap)  BY <2>1, <2>2 DEF HeaderWords
  <2> HIDE DEF t
  <2>6. r = ResultMap(t, 3, o.cap)  BY <2>4, <2>5, TwoOfFields
  <2> QED  BY <2>2, <2>6
<1> DEFINE w == 3
<1> HIDE DEF t
<1>10. Chunked(t, w, size, {}, L)  BY <1>3, <1>7, <1>8 DEF Chunked
<1>11. InChunks(ResultMap(t, w, size), {}, L)
  <2> HIDE DEF w
  <2> QED  BY <1>10, InChunksFrom
<1>12. r.chunks = t  BY <1>9 DEF ResultMap
<1> QED  BY <1>1, <1>4, <1>6, <1>9, <1>11, <1>12 DEF OneWindow

\* The window of a sparse chunk is that chunk and no other.
LEMMA SparseIsWindow ==
  ASSUME NEW m, NEW X, NEW L, InChunks(m, X, L), NEW h, NEW i, Inside(m, h, i),
         ~IsRLE(m.chunks[h]), NEW a, a = AlignedOffset(i)
  PROVE  Windowed(m, a) /\ a \in Nat /\ Boundary(a) /\ a < i /\ i < a + ChunkCap /\ a + ChunkCap <= L
<1> DEFINE s == m.chunks
           c == s[h]
<1>1. /\ a \in Nat /\ Boundary(a) /\ a <= i /\ i < a + ChunkCap /\ a + ChunkCap <= EndOf(c)
      /\ EndOf(c) <= L /\ c.start = a /\ ~IsRLE(c) /\ ChunkOK(c)
  BY InsideIs
<1>2. c.start < i /\ i \in Nat /\ h \in 1 .. Len(s)  BY DEF Inside
<1>3. /\ StreamOK(s, 0, L) /\ L \in Nat /\ Len(s) \in Nat  BY InChunksFields
<1>4. EndOf(c) \in Nat  BY <1>1, ChunkExtent
<1>5. ASSUME NEW j \in 1 .. Len(s)  PROVE OutsideOrAt(s[j], a)
  <2>1. CASE j < h
    <3>1. EndOf(s[j]) <= a  BY <1>1, <1>2, <1>3, <2>1 DEF StreamOK
    <3> QED  BY <3>1 DEF OutsideOrAt
  <2>2. CASE j = h
    BY <1>1, <2>2 DEF OutsideOrAt
  <2>3. CASE h < j
    <3>1. EndOf(c) <= s[j].start  BY <1>2, <1>3, <2>3 DEF StreamOK
    <3>2. s[j].start \in Nat
      <4>1. ChunkOK(s[j])  BY <1>3 DEF StreamOK
      <4> QED  BY <4>1, ChunkExtent
    <3>3. a + ChunkCap <= s[j].start
      <4> HIDE DEF c
      <4> QED  BY <1>1, <1>4, <3>1, <3>2, ChunkCapPositive
    <3> QED  BY <3>3 DEF OutsideOrAt
  <2> QED  BY <1>2, <2>1, <2>2, <2>3
<1> HIDE DEF c
<1>6. a + ChunkCap <= L  BY <1>1, <1>3, <1>4, ChunkCapPositive
<1> QED  BY <1>1, <1>2, <1>5, <1>6 DEF Windowed, c

\* OpenWindow.
LEMMA OpenWindowGoes ==
  ASSUME NEW L, Covers(L), SplitInv(L), OpenWindow, NEW G, G = MembersOf(given)
  PROVE  Goes(G, point, map', other', idx', next', ignored', status', L)
<1> DEFINE a == AlignedOffset(idx)
<1>1. /\ Parting(G, point, map, other, idx, next, ignored, L) /\ InMiddle
      /\ ~IsRLE(map.chunks[Here]) /\ UNCHANGED << given, point, map, idx, ignored >>
  BY DEF SplitInv, Goes, OpenWindow
<1>2. /\ InChunks(map, G, L) /\ Vacant(other) /\ other = EmptyMap(other.cap) /\ Limit(L)
      /\ idx \in Nat /\ AtMiddle(G, point, idx) /\ ~ignored
  BY <1>1 DEF Parting, Covers
<1>3. Inside(map, Here, idx)  BY <1>1, HereIs
<1>4. /\ Windowed(map, a) /\ a \in Nat /\ Boundary(a) /\ a < idx /\ idx < a + ChunkCap
      /\ a + ChunkCap <= L
  BY <1>1, <1>2, <1>3, SparseIsWindow
<1>5. CASE other.used + LargestChunk > other.cap
  <2>1. Carries(map', G, L) /\ Carries(other', {}, L) /\ status' = "refused"
    BY <1>1, <1>2, <1>5, VacantCarries DEF Carries, OpenWindow, End
  <2>2. Ended(G, point, map', other', idx', ignored', status', L)  BY <2>1, NothingMoved
  <2> QED  BY <2>1, <2>2 DEF Goes
<1>6. CASE ~(other.used + LargestChunk > other.cap)
  <2>1. /\ other' = Replace(other, 1, 0, << ZerosChunk(a) >>, 2) /\ next' = idx
        /\ status' = "bits"
    BY <1>6 DEF OpenWindow, Window, End
  <2> DEFINE B == {}
  <2>2. InChunks(other', B, L) /\ OneWindow(other', a)  BY <1>2, <1>4, <1>6, <2>1, WindowOpens
  <2>3. Windows(map', other', idx', next', AlignedOffset(idx'))
    <3>1. idx \in idx .. a + ChunkCap
      <4> HIDE DEF a
      <4> QED  BY <1>2, <1>4, ChunkCapPositive
    <3> QED  BY <1>1, <1>2, <1>4, <2>1, <2>2, <3>1 DEF Windows
  <2>4. Moving(G, B, G, idx', next', ignored')
    <3>1. \A x \in G : ~(idx <= x /\ x < idx)
      <4>1. \A x \in G : x \in Nat  BY <1>2, CarriesMembers DEF Carries
      <4> QED  BY <1>2, <4>1
    <3>2. FromTo(G, idx, idx) = B  BY <3>1 DEF FromTo
    <3> QED  BY <1>1, <2>1, <3>2 DEF Moving
  <2>5. InChunks(map', G, L) /\ AtMiddle(G, point, idx')  BY <1>1, <1>2
  <2> HIDE DEF B
  <2>6. Dividing(G, point, map', other', idx', next', ignored', L)
    BY <2>2, <2>3, <2>4, <2>5 DEF Dividing
  <2> QED  BY <2>1, <2>6 DEF Goes
<1> QED  BY <1>5, <1>6

\* The next index of the window, held or not.
LEMMA FromToNext ==
  ASSUME NEW G, G \subseteq Nat, NEW i \in Nat, NEW n \in Nat, i <= n
  PROVE  FromTo(G, i, n + 1) = FromTo(G, i, n) \cup (G \cap {n}) /\ n \notin FromTo(G, i, n)
<1>1. \A x \in G : i <= x /\ x < n + 1 <=> (i <= x /\ x < n) \/ x = n  OBVIOUS
<1>2. ~(n < n)  OBVIOUS
<1> QED  BY <1>1, <1>2 DEF FromTo

\* What the two calls of the loop make of the two sets, failures and all.
LEMMA MovingOn ==
  ASSUME NEW A, NEW B, NEW G, NEW i \in Nat, NEW n \in Nat, i <= n, NEW bad, NEW worse,
         G \subseteq Nat, Moving(A, B, G, i, n, bad), NEW C, NEW D,
         ~worse => ~bad /\ (n \in A => C = A \ {n} /\ D = B \cup {n}),
         n \in A => C \in {A, A \ {n}} /\ D \in {B, B \cup {n}},
         n \notin A => C = A /\ D = B
  PROVE  Moving(C, D, G, i, n + 1, worse)
<1> DEFINE F == FromTo(G, i, n)
           H == FromTo(G, i, n + 1)
<1>1. H = F \cup (G \cap {n}) /\ n \notin F  BY FromToNext
<1>2. /\ A \subseteq G /\ B \subseteq F /\ (~bad => B = F /\ A = G \ B)  BY DEF Moving
<1> HIDE DEF F, H
<1>3. C \subseteq G /\ D \subseteq H  BY <1>1, <1>2
<1>4. ASSUME ~worse  PROVE D = H /\ C = G \ D
  <2>1. B = F /\ A = G \ F  BY <1>2, <1>4
  <2>2. n \in A <=> n \in G  BY <1>1, <2>1
  <2>3. CASE n \in A
    <3>1. D = F \cup {n} /\ C = (G \ F) \ {n}  BY <1>4, <2>1, <2>3
    <3>2. G \cap {n} = {n}  BY <2>2, <2>3
    <3> QED  BY <1>1, <3>1, <3>2
  <2>4. CASE n \notin A
    <3>1. D = F /\ C = G \ F  BY <1>4, <2>1, <2>4
    <3>2. G \cap {n} = {}  BY <2>2, <2>4
    <3> QED  BY <1>1, <3>1, <3>2
  <2> QED  BY <2>3, <2>4
<1> QED  BY <1>3, <1>4 DEF Moving, H

\* MoveBit.
LEMMA MoveBitGoes ==
  ASSUME NEW L, Covers(L), SplitInv(L), MoveBit, NEW G, G = MembersOf(given)
  PROVE  Goes(G, point, map', other', idx', next', ignored', status', L)
<1> DEFINE a == AlignedOffset(idx)
<1>1. /\ Dividing(G, point, map, other, idx, next, ignored, L) /\ next < a + ChunkCap
      /\ next' = next + 1 /\ status = "bits" /\ UNCHANGED << given, point, idx, status >>
  BY DEF SplitInv, Goes, MoveBit, Window
<1>2. PICK A, B : /\ InChunks(map, A, L) /\ InChunks(other, B, L)
                  /\ Moving(A, B, G, idx, next, ignored)
  BY <1>1 DEF Dividing
<1>3. Windows(map, other, idx, next, a) /\ AtMiddle(G, point, idx)  BY <1>1 DEF Dividing
<1>4. /\ OneWindow(other, a) /\ Windowed(map, a) /\ a \in Nat /\ idx \in Nat /\ a < idx
      /\ next \in idx .. a + ChunkCap
  BY <1>3 DEF Windows
<1> HIDE DEF a
<1>5. /\ next \in Nat /\ idx <= next /\ a <= next /\ next < a + ChunkCap
      /\ next + 1 \in idx .. a + ChunkCap
  BY <1>1, <1>4, ChunkCapPositive
<1>6. G \subseteq Nat /\ Limit(L)
  <2>1. Stores(given, MembersOf(given), L) /\ Limit(L)  BY DEF SplitInv, Covers
  <2>2. Carries(given, MembersOf(given), L)  BY <2>1, StoresCarries
  <2> QED  BY <2>1, <2>2, CarriesMembers
<1>7. Holds(map, next) <=> next \in A
  <2>1. Carries(map, A, L)  BY <1>2 DEF Carries
  <2> QED  BY <1>5, <2>1, CarriesMembers
<1>8. \E C, D : /\ InChunks(map', C, L) /\ Windowed(map', a)
                /\ InChunks(other', D, L) /\ OneWindow(other', a)
                /\ Moving(C, D, G, idx, next + 1, ignored')
  <2>1. CASE next \notin A
    <3>1. map' = map /\ other' = other /\ ignored' = ignored  BY <1>7, <2>1 DEF MoveBit
    <3>2. ~ignored' => ~ignored  BY <3>1
    <3>3. Moving(A, B, G, idx, next + 1, ignored')
      BY <1>2, <1>4, <1>5, <1>6, <2>1, <3>2, MovingOn
    <3> QED  BY <1>2, <1>4, <3>1, <3>3
  <2>2. CASE next \in A
    <3> DEFINE p == Put(other, 1, SetBit(other.chunks[1], next - a))
               q == Without(map, Locate(map.chunks, next),
                            ClrBit(map.chunks[Locate(map.chunks, next)], next - a))
               C == IF q.ok THEN A \ {next} ELSE A
               D == IF p.ok THEN B \cup {next} ELSE B
    <3>1. /\ other' = p.map /\ map' = q.map /\ ignored' = (ignored \/ ~p.ok \/ ~q.ok)
      BY <1>7, <2>2 DEF MoveBit, SetHere, UnsetHere, Window, a
    <3>2. /\ p.ok \in BOOLEAN /\ (~p.ok => p.map = other)
          /\ p.ok => InChunks(p.map, B \cup {next}, L) /\ OneWindow(p.map, a)
      BY <1>2, <1>4, <1>5, PutSets
    <3>3. /\ q.ok \in BOOLEAN /\ (~q.ok => q.map = map)
          /\ q.ok => InChunks(q.map, A \ {next}, L) /\ Windowed(q.map, a)
      BY <1>2, <1>4, <1>5, <2>2, WithoutClears
    <3> HIDE DEF p, q
    <3>4. InChunks(map', C, L) /\ Windowed(map', a)
      BY <1>2, <1>4, <3>1, <3>3
    <3>5. InChunks(other', D, L) /\ OneWindow(other', a)
      BY <1>2, <1>4, <3>1, <3>2
    <3>6. /\ ~ignored' => ~ignored /\ (next \in A => C = A \ {next} /\ D = B \cup {next})
          /\ next \in A => C \in {A, A \ {next}} /\ D \in {B, B \cup {next}}
          /\ next \notin A => C = A /\ D = B
      BY <2>2, <3>1
    <3> HIDE DEF C, D
    <3>7. Moving(C, D, G, idx, next + 1, ignored')
      BY <1>2, <1>4, <1>5, <1>6, <3>6, MovingOn
    <3> QED  BY <3>4, <3>5, <3>7
  <2> QED  BY <2>1, <2>2
<1>9. PICK C, D : /\ InChunks(map', C, L) /\ Windowed(map', a)
                  /\ InChunks(other', D, L) /\ OneWindow(other', a)
                  /\ Moving(C, D, G, idx, next + 1, ignored')
  BY <1>8
<1>10. Windows(map', other', idx', next', AlignedOffset(idx'))
  <2>1. AlignedOffset(idx') = a  BY <1>1 DEF a
  <2> QED  BY <1>1, <1>4, <1>5, <1>9, <2>1 DEF Windows, a
<1>11. Moving(C, D, G, idx', next', ignored')  BY <1>1, <1>9
<1>12. Dividing(G, point, map', other', idx', next', ignored', L)
  BY <1>1, <1>3, <1>9, <1>10, <1>11 DEF Dividing
<1> QED  BY <1>1, <1>12 DEF Goes

\* Before the chunks are moved: where the map is to be cut, and what has been
\* moved so far.
ReadyToCut(A, B, c, G, i, bad, L) ==
  /\ i \in Nat /\ G \subseteq Nat /\ i <= c /\ c \in Nat
  /\ A \subseteq G /\ B \subseteq FromTo(G, i, c)
  /\ ~bad => B = FromTo(G, i, c) /\ A = G \ B

\* The cut leaves what is below the point, and takes what is not.
LEMMA CutDivides ==
  ASSUME NEW A, NEW B, NEW c, NEW G, NEW i, NEW bad, NEW L, ReadyToCut(A, B, c, G, i, bad, L),
         NEW C, C = LowerPart(A, c), NEW D, D = B \cup UpperPart(A, c)
  PROVE  /\ C \subseteq G /\ D \subseteq UpperPart(G, i)
         /\ ~bad => D = UpperPart(G, i) /\ C = G \ D
<1>1. /\ i \in Nat /\ c \in Nat /\ i <= c /\ \A x \in G : x \in Nat
      /\ A \subseteq G /\ \A x \in B : x \in G /\ i <= x /\ x < c
      /\ ~bad => A = G \ B /\ \A x \in G : i <= x /\ x < c => x \in B
  BY DEF ReadyToCut, FromTo
<1>2. /\ \A x \in G : i <= x \/ x < i
      /\ \A x \in G : c <= x <=> ~(x < c)
      /\ \A x \in G : c <= x => i <= x
  BY ONLY <1>1
<1>3. /\ \A x : x \in C <=> x \in A /\ x < c
      /\ \A x : x \in D <=> x \in B \/ (x \in A /\ c <= x)
      /\ \A x : x \in UpperPart(G, i) <=> x \in G /\ i <= x
  BY DEF LowerPart, UpperPart
<1>4. C \subseteq G /\ D \subseteq UpperPart(G, i)
  BY ONLY <1>1, <1>2, <1>3
<1>5. ASSUME ~bad  PROVE D = UpperPart(G, i) /\ C = G \ D
  <2>1. \A x \in UpperPart(G, i) : x \in D
    BY ONLY <1>1, <1>2, <1>3, <1>5
  <2>2. \A x \in C : x \notin D
    BY ONLY <1>1, <1>2, <1>3, <1>5
  <2>3. \A x \in G : x \notin D => x \in C
    BY ONLY <1>1, <1>2, <1>3, <1>5
  <2> QED  BY ONLY <1>4, <2>1, <2>2, <2>3
<1> QED  BY <1>4, <1>5

\* Where the map is cut, in either case.
LEMMA CutIs ==
  ASSUME NEW L, Covers(L), SplitInv(L), NEW G, G = MembersOf(given),
         \/ status = "parting" /\ ~InMiddle
         \/ status = "bits" /\ next = Window + ChunkCap
  PROVE  \E A, B, c : /\ InChunks(map, A, L) /\ InChunks(other, B, L)
                      /\ CutAt(map, Cutoff(map.chunks, idx), c, L)
                      /\ StreamOK(other.chunks, 0, c)
                      /\ ReadyToCut(A, B, c, G, idx, ignored, L)
                      /\ AtMiddle(G, point, idx)
<1> DEFINE n == Cutoff(map.chunks, idx)
<1>1. Limit(L) /\ L \in Nat  BY DEF Covers, Limit
<1>2. G \subseteq Nat
  <2>1. Stores(given, MembersOf(given), L)  BY DEF SplitInv
  <2>2. Carries(given, MembersOf(given), L)  BY <1>1, <2>1, StoresCarries
  <2> QED  BY <2>2, CarriesMembers
<1> HIDE DEF n
<1>3. CASE status = "parting" /\ ~InMiddle
  <2>1. Parting(G, point, map, other, idx, next, ignored, L)
    BY <1>3 DEF SplitInv, Goes
  <2>2. /\ InChunks(map, G, L) /\ Vacant(other) /\ other = EmptyMap(other.cap) /\ ~ignored
        /\ idx \in Nat /\ AtMiddle(G, point, idx) /\ \E g \in G : idx <= g
    BY <2>1 DEF Parting
  <2> DEFINE B == {}
  <2>3. InChunks(other, B, L) /\ other.chunks = << >>  BY <1>1, <2>2, VacantCarries
  <2>4. StreamOK(other.chunks, 0, idx)  BY <2>3, EmptyStream
  <2>5. ~(map.chunks[Here].start < idx) /\ Here = FirstPast(map.chunks, idx)
    BY <1>3, <2>1, HereIs
  <2>6. PICK g \in G : idx <= g  BY <2>2
  <2>7. CutAt(map, n, idx, L)  BY <2>2, <2>5, <2>6, CutBeforeChunk DEF n
  <2>8. ReadyToCut(G, B, idx, G, idx, ignored, L)
    <3>1. \A x \in G : ~(idx <= x /\ x < idx)  BY <1>2, <2>2
    <3>2. FromTo(G, idx, idx) = B  BY <3>1 DEF FromTo
    <3>3. idx <= idx /\ G = G \ B  BY <2>2
    <3> QED  BY <1>2, <2>2, <3>2, <3>3 DEF ReadyToCut
  <2> HIDE DEF B
  <2> QED  BY <2>2, <2>3, <2>4, <2>7, <2>8 DEF n
<1>4. CASE status = "bits" /\ next = Window + ChunkCap
  <2> DEFINE a == AlignedOffset(idx)
             c == a + ChunkCap
  <2>1. Dividing(G, point, map, other, idx, next, ignored, L) /\ next = c
    BY <1>4 DEF SplitInv, Goes, Window
  <2>2. PICK A, B : /\ InChunks(map, A, L) /\ InChunks(other, B, L)
                    /\ Moving(A, B, G, idx, next, ignored)
    BY <2>1 DEF Dividing
  <2>3. Windows(map, other, idx, next, a) /\ AtMiddle(G, point, idx)  BY <2>1 DEF Dividing
  <2>4. /\ OneWindow(other, a) /\ Windowed(map, a) /\ a \in Nat /\ idx \in Nat /\ a < idx
        /\ idx <= c /\ idx < a + ChunkCap
    <3>1. idx < a + ChunkCap /\ idx \in Nat /\ a \in Nat
      BY <2>3, AlignedOffsetBounds DEF Windows
    <3> QED  BY <2>3, <3>1, ChunkCapPositive DEF Windows
  <2>5. /\ ~IsRLE(other.chunks[1]) /\ other.chunks[1].start = a /\ Len(other.chunks) = 1
        /\ 1 \in 1 .. Len(other.chunks)
    BY <2>4 DEF OneWindow
  <2>6. EndOf(other.chunks[1]) = c /\ c <= L
    <3>1. SparseOK(other.chunks[1]) /\ EndOf(other.chunks[1]) <= L
      BY <2>2, <2>5, ChunkOfChunks
    <3> QED  BY <2>5, <3>1, HeldSparse
  <2>7. StreamOK(other.chunks, 0, c)
    <3>1. StreamOK(other.chunks, 0, L)  BY <2>2, InChunksFields
    <3> HIDE DEF c
    <3>2. \A j \in 1 .. Len(other.chunks) : EndOf(other.chunks[j]) <= c
      <4>1. c <= c
        <5>1. c \in Nat  BY <2>4, ChunkCapPositive DEF c
        <5> QED  BY <5>1
      <4>2. \A j \in 1 .. Len(other.chunks) : j = 1  BY <2>5
      <4> QED  BY <2>6, <4>1, <4>2
    <3> QED  BY <3>1, <3>2 DEF StreamOK
  <2>8. CutAt(map, n, c, L)
    <3> HIDE DEF a
    <3> QED  BY <2>2, <2>4, <2>6, CutAfterWindow DEF n
  <2>9. ReadyToCut(A, B, c, G, idx, ignored, L)
    <3>1. c \in Nat  BY <2>4, ChunkCapPositive
    <3> QED  BY <1>2, <2>1, <2>2, <2>4, <3>1 DEF ReadyToCut, Moving
  <2> HIDE DEF c
  <2> QED  BY <2>2, <2>3, <2>7, <2>8, <2>9 DEF n
<1> QED  BY <1>3, <1>4

\* MoveChunks.
LEMMA MoveChunksGoes ==
  ASSUME NEW L, Covers(L), SplitInv(L), MoveChunks, NEW G, G = MembersOf(given)
  PROVE  Goes(G, point, map', other', idx', next', ignored', status', L)
<1> DEFINE n == Cutoff(map.chunks, idx)
           low == UpTo(map.chunks)
           up == SubSeq(map.chunks, Len(low) + 1, Len(map.chunks))
           t == SubSeq(map.chunks, n + 1, Len(map.chunks))
<1>1. /\ \/ status = "parting" /\ ~InMiddle
         \/ status = "bits" /\ next = Window + ChunkCap
      /\ UNCHANGED << given, point, idx, next, ignored >>
      /\ IF other.used + StreamWords(up) > other.cap
         THEN End("refused") /\ UNCHANGED << map, other >>
         ELSE /\ CoalesceEnds(Cut(map, low)) /\ map' = Tidied(Cut(map, low))
              /\ CoalesceEnds(Extended(other, up)) /\ other' = Tidied(Extended(other, up))
              /\ End("done")
  BY DEF MoveChunks, AtCut
<1>2. PICK A, B, c : /\ InChunks(map, A, L) /\ InChunks(other, B, L)
                     /\ CutAt(map, n, c, L) /\ StreamOK(other.chunks, 0, c)
                     /\ ReadyToCut(A, B, c, G, idx, ignored, L) /\ AtMiddle(G, point, idx)
  BY <1>1, CutIs
<1>3. low = SubSeq(map.chunks, 1, n)  BY DEF UpTo, Below, Cutoff
<1> HIDE DEF n, low
<1>4. AreParts(map, n, low, t)  BY <1>3 DEF AreParts
<1> HIDE DEF t
<1>5. Len(low) = n /\ StreamWords(t) \in Nat  BY <1>2, <1>4, CutParts
<1>6. up = t  BY <1>5 DEF t
<1> HIDE DEF up
<1> DEFINE C == LowerPart(A, c)
           D == B \cup UpperPart(A, c)
<1> HIDE DEF C, D
<1>0. C = LowerPart(A, c) /\ D = B \cup UpperPart(A, c)  BY DEF C, D
<1>7. /\ C \subseteq G /\ D \subseteq UpperPart(G, idx)
      /\ ~ignored => D = UpperPart(G, idx) /\ C = G \ D
  BY <1>0, <1>2, CutDivides
<1>8. other.used \in Nat /\ other.cap \in Nat  BY <1>2, InChunksFields
<1>9. CASE other.used + StreamWords(up) > other.cap
  <2>1. map' = map /\ other' = other /\ status' = "refused"  BY <1>1, <1>9 DEF End
  <2>2. Carries(map', A, L) /\ Carries(other', B, L)  BY <1>2, <2>1 DEF Carries
  <2>3. /\ A \subseteq G /\ B \subseteq UpperPart(G, idx) /\ (~ignored => A = G \ B)
    BY <1>2 DEF ReadyToCut, FromTo, UpperPart
  <2>4. Ended(G, point, map', other', idx', ignored', status', L)
    BY <1>1, <2>1, <2>2, <2>3 DEF Ended
  <2> QED  BY <2>1, <2>4 DEF Goes
<1>10. CASE ~(other.used + StreamWords(up) > other.cap)
  <2>1. other.used + StreamWords(t) <= other.cap  BY <1>5, <1>6, <1>8, <1>10
  <2>2. /\ Carries(Tidied(Cut(map, low)), C, L)
        /\ Carries(Tidied(Extended(other, t)), D, L)
    BY <1>2, <1>4, <2>1, ChunksMove DEF C, D
  <2>3. /\ Carries(map', C, L) /\ Carries(other', D, L) /\ status' = "done"
    BY <1>1, <1>6, <1>10, <2>2 DEF End
  <2>4. Ended(G, point, map', other', idx', ignored', status', L)
    BY <1>1, <1>2, <1>7, <2>3 DEF Ended
  <2> QED  BY <2>3, <2>4 DEF Goes
<1> QED  BY <1>9, <1>10

\* It holds when a call begins.
LEMMA InitSplits ==
  ASSUME NEW L, OperandsBelow(L), Init
  PROVE  SplitInv(L)
<1>1. /\ given \in Sources /\ MembersOf(given) # {} /\ point \in Points \cup {Median}
      /\ map = given /\ idx = point /\ ignored = FALSE /\ status = "called"
      /\ \E w \in Rooms : other \in {EmptyMap(w), SmallForm(EmptyMap(w), << >>)}
  BY DEF Init
<1>2. Stores(given, MembersOf(given), L)
  <2>1. PICK h \in Histories, k \in Spare :
          given = [Built(h) EXCEPT !.cap = Built(h).used + k]
    BY <1>1 DEF Sources
  <2> DEFINE b == Built(h)
             size == b.used + k
  <2>2. PICK X : Stores(b, X, L)  BY OperandStores
  <2> HIDE DEF b
  <2>3. b.used \in Nat  BY <2>2, StoresIsMap
  <2>4. size \in Nat /\ b.used <= size  BY <2>3, SplitAssumption
  <2>5. given = [b EXCEPT !.cap = size]  BY <2>1 DEF b
  <2> HIDE DEF size
  <2>6. Stores(given, X, L)  BY <2>2, <2>4, <2>5, Recapped
  <2>7. MembersOf(given) = X
    <3>1. Covers(L) /\ Limit(L)  BY DEF OperandsBelow, Covers
    <3>2. Carries(given, X, L)  BY <2>6, <3>1, StoresCarries
    <3> QED  BY <3>1, <3>2, CarriesMembers
  <2> QED  BY <2>6, <2>7
<1>3. Vacant(other)
  <2>1. PICK w \in Rooms : other \in {EmptyMap(w), SmallForm(EmptyMap(w), << >>)}  BY <1>1
  <2>2. w \in Nat /\ w >= 1  BY SplitAssumption
  <2>3. EmptyMap(w).cap = w /\ SmallForm(EmptyMap(w), << >>).cap = w
    BY DEF EmptyMap, SmallForm
  <2>4. other.cap = w  BY <2>1, <2>3
  <2> QED  BY <2>1, <2>2, <2>4 DEF Vacant
<1>4. Called(MembersOf(given), point, map, other, idx, next, ignored, L)
  BY <1>1, <1>2, <1>3 DEF Called
<1> QED  BY <1>1, <1>2, <1>4 DEF SplitInv, Goes

\* And every step keeps it.
LEMMA StepSplits ==
  ASSUME NEW L, Covers(L), SplitInv(L), [Next]_vars
  PROVE  SplitInv(L)'
<1> DEFINE G == MembersOf(given)
<1>1. given' = given /\ point' = point
  BY DEF Next, Start, PartRun, OpenWindow, MoveBit, MoveChunks, vars
<1>2. G' = G  BY <1>1 DEF MembersOf, MembersBelow
<1>3. Goes(G, point, map', other', idx', next', ignored', status', L)
  <2>1. CASE Start  BY <2>1, StartGoes
  <2>2. CASE PartRun  BY <2>2, PartRunGoes
  <2>3. CASE OpenWindow  BY <2>3, OpenWindowGoes
  <2>4. CASE MoveBit  BY <2>4, MoveBitGoes
  <2>5. CASE MoveChunks  BY <2>5, MoveChunksGoes
  <2>6. CASE UNCHANGED vars
    <3>1. /\ map' = map /\ other' = other /\ idx' = idx /\ next' = next
          /\ ignored' = ignored /\ status' = status
      BY <2>6 DEF vars
    <3>2. Goes(G, point, map, other, idx, next, ignored, status, L)  BY DEF SplitInv
    <3> QED  BY <3>1, <3>2
  <2> QED  BY <2>1, <2>2, <2>3, <2>4, <2>5, <2>6 DEF Next
<1>4. point \in Points \cup {Median} /\ Stores(given, G, L) /\ G # {}  BY DEF SplitInv
<1> QED  BY <1>1, <1>2, <1>3, <1>4 DEF SplitInv

----------------------------------------------------------------------------
(* The theorems.                                                           *)

\* At every step the two maps hold, between them, what the source held when the
\* call began, as far as the call has come.
THEOREM SplitGoes ==
  ASSUME NEW CONSTANT L, OperandsBelow(L)
  PROVE  Spec => []SplitInv(L)
<1>1. Covers(L)  BY DEF OperandsBelow
<1>2. Init => SplitInv(L)  BY InitSplits
<1>3. SplitInv(L) /\ [Next]_vars => SplitInv(L)'  BY <1>1, StepSplits
<1> QED  BY <1>2, <1>3, PTL DEF Spec

\* What the invariant says of the two maps, wherever the call is.
Halves(A, B, G, L) ==
  /\ Carries(map, A, L) /\ Carries(other, B, L)
  /\ A \subseteq G /\ B \subseteq UpperPart(G, idx)
  /\ ~ignored => A = G \ B
  /\ status = "done" => AtMiddle(G, point, idx) /\ (~ignored => B = UpperPart(G, idx))

\* There are two sets of which it says that.
LEMMA HalvesAre ==
  ASSUME NEW L, Covers(L), SplitInv(L), NEW G, G = MembersOf(given)
  PROVE  \E A, B : Halves(A, B, G, L)
<1>1. /\ Goes(G, point, map, other, idx, next, ignored, status, L) /\ Limit(L)
  BY DEF SplitInv, Covers
<1> DEFINE N == {}
<1>2. N \subseteq UpperPart(G, idx) /\ G \subseteq G /\ G = G \ N  OBVIOUS
<1> HIDE DEF N
<1>3. CASE status = "called"
  <2>1. Stores(map, G, L) /\ Vacant(other)  BY <1>1, <1>3 DEF Goes, Called
  <2>2. Carries(map, G, L) /\ Carries(other, N, L)
    BY <1>1, <2>1, StoresCarries, VacantCarries DEF N
  <2> QED  BY <1>2, <1>3, <2>2 DEF Halves
<1>4. CASE status = "parting"
  <2>1. InChunks(map, G, L) /\ Vacant(other)  BY <1>1, <1>4 DEF Goes, Parting
  <2>2. Carries(map, G, L) /\ Carries(other, N, L)
    BY <1>1, <2>1, VacantCarries DEF N, Carries
  <2> QED  BY <1>2, <1>4, <2>2 DEF Halves
<1>5. CASE status = "bits"
  <2>1. Dividing(G, point, map, other, idx, next, ignored, L)  BY <1>1, <1>5 DEF Goes
  <2>2. PICK A, B : /\ InChunks(map, A, L) /\ InChunks(other, B, L)
                    /\ Moving(A, B, G, idx, next, ignored)
    BY <2>1 DEF Dividing
  <2>3. Carries(map, A, L) /\ Carries(other, B, L)  BY <2>2 DEF Carries
  <2>4. /\ A \subseteq G /\ B \subseteq UpperPart(G, idx) /\ (~ignored => A = G \ B)
    BY <2>2 DEF Moving, FromTo, UpperPart
  <2> QED  BY <1>5, <2>3, <2>4 DEF Halves
<1>6. CASE status \in {"done", "undivided", "refused"}
  <2>1. Ended(G, point, map, other, idx, ignored, status, L)  BY <1>1, <1>6 DEF Goes
  <2> QED  BY <2>1 DEF Ended, Halves
<1> QED  BY <1>1, <1>3, <1>4, <1>5, <1>6 DEF Goes

\* NothingLost: at every step, and however the call ends, each index is in one
\* of the two maps, as long as no set or unset of the window has failed.
THEOREM NothingIsLost ==
  ASSUME NEW CONSTANT L, OperandsBelow(L)
  PROVE  Spec => []NothingLost
<1>1. SplitInv(L) => NothingLost
  <2> SUFFICES ASSUME SplitInv(L), ~ignored
               PROVE  /\ MembersOf(map) \cup MembersOf(other) = MembersOf(given)
                      /\ MembersOf(map) \cap MembersOf(other) = {}
    BY DEF NothingLost
  <2> DEFINE G == MembersOf(given)
  <2>1. Covers(L)  BY DEF OperandsBelow
  <2>2. PICK A, B : Halves(A, B, G, L)  BY <2>1, HalvesAre
  <2>3. MembersOf(map) = A /\ MembersOf(other) = B
    BY <2>1, <2>2, CarriesMembers DEF Halves
  <2>4. A = G \ B /\ \A x \in B : x \in G  BY <2>2 DEF Halves, UpperPart
  <2> HIDE DEF G
  <2>5. A \cup B = G /\ A \cap B = {}  BY ONLY <2>4
  <2> QED  BY <2>3, <2>5 DEF G
<1> QED  BY <1>1, SplitGoes, PTL

\* BothValid: sm_validate holds of both maps at every step, failures passed
\* over or not.
THEOREM BothStayValid ==
  ASSUME NEW CONSTANT L, OperandsBelow(L)
  PROVE  Spec => []BothValid
<1>1. SplitInv(L) => BothValid
  <2> SUFFICES ASSUME SplitInv(L)  PROVE BothValid
    OBVIOUS
  <2> DEFINE G == MembersOf(given)
  <2>1. Covers(L)  BY DEF OperandsBelow
  <2>2. PICK A, B : Halves(A, B, G, L)  BY <2>1, HalvesAre
  <2> QED  BY <2>1, <2>2, CarriesMembers DEF Halves, BothValid
<1> QED  BY <1>1, SplitGoes, PTL

\* When the chunks can be moved, the joining of the runs ends in both maps: no
\* place is tried again at which nothing was joined.
JoiningEnds ==
  LET low == UpTo(map.chunks)
      up == SubSeq(map.chunks, Len(low) + 1, Len(map.chunks))
  IN AtCut /\ other.used + StreamWords(up) <= other.cap =>
       CoalesceEnds(Cut(map, low)) /\ CoalesceEnds(Extended(other, up))

\* So MoveChunks, which goes on only from joins that have ended, is never held
\* up by them: the loop of __sm_coalesce_map ends, in two turns for each chunk.
THEOREM JoiningAlwaysEnds ==
  ASSUME NEW CONSTANT L, OperandsBelow(L)
  PROVE  Spec => []JoiningEnds
<1>1. SplitInv(L) => JoiningEnds
  <2> DEFINE G == MembersOf(given)
             n == Cutoff(map.chunks, idx)
             low == UpTo(map.chunks)
             up == SubSeq(map.chunks, Len(low) + 1, Len(map.chunks))
             t == SubSeq(map.chunks, n + 1, Len(map.chunks))
  <2> SUFFICES ASSUME SplitInv(L), AtCut, other.used + StreamWords(up) <= other.cap
               PROVE  CoalesceEnds(Cut(map, low)) /\ CoalesceEnds(Extended(other, up))
    BY DEF JoiningEnds
  <2>1. Covers(L)  BY DEF OperandsBelow
  <2>2. PICK A, B, c : /\ InChunks(map, A, L) /\ InChunks(other, B, L)
                       /\ CutAt(map, n, c, L) /\ StreamOK(other.chunks, 0, c)
                       /\ ReadyToCut(A, B, c, G, idx, ignored, L) /\ AtMiddle(G, point, idx)
    BY <2>1, CutIs DEF AtCut
  <2>3. low = SubSeq(map.chunks, 1, n)  BY DEF UpTo, Below, Cutoff
  <2> HIDE DEF n, low, G
  <2>4. AreParts(map, n, low, t)  BY <2>3 DEF AreParts
  <2> HIDE DEF t
  <2>5. Len(low) = n  BY <2>2, <2>4, CutParts
  <2>6. up = t  BY <2>5 DEF t
  <2> HIDE DEF up
  <2>7. other.used + StreamWords(t) <= other.cap  BY <2>6
  <2>8. CoalesceEnds(Cut(map, low)) /\ CoalesceEnds(Extended(other, t))
    BY <2>2, <2>4, <2>7, ChunksMove
  <2> QED  BY <2>6, <2>8
<1> QED  BY <1>1, SplitGoes, PTL

\* Of a set divided at its middle member, the upper part has as many members as
\* the lower one, or one more.
LEMMA MiddleHalves ==
  ASSUME NEW S, NEW top, Low(S, top), S # {}, NEW i, i = MiddleOf(S),
         NEW D, D = UpperPart(S, i), NEW C, C = S \ D
  PROVE  Cardinality(D) - Cardinality(C) \in {0, 1}
<1>1. /\ i \in S /\ i \in Nat /\ IsFiniteSet(S)
      /\ Cardinality(LowerPart(S, i)) = Cardinality(S) \div 2
  BY MiddleIs
<1>2. \A x \in S : x \in Nat  BY LowerAtTheEnds
<1>3. /\ C = LowerPart(S, i)
      /\ IsFiniteSet(S) /\ S = C \cup D /\ C \cap D = {}
  <2>1. i \in Nat /\ \A x \in S : x \in Nat  BY <1>1, <1>2
  <2>2. \A x \in S : x < i <=> ~(i <= x)  BY ONLY <2>1
  <2>3. \A x : x \in D <=> x \in S /\ i <= x  BY DEF UpperPart
  <2>4. \A x : x \in C <=> x \in S /\ x < i  BY <2>2, <2>3
  <2>5. \A x : x \in LowerPart(S, i) <=> x \in S /\ x < i  BY DEF LowerPart
  <2>6. C = LowerPart(S, i)  BY ONLY <2>4, <2>5
  <2>7. S = C \cup D /\ C \cap D = {}  BY <2>3
  <2> QED  BY <1>1, <2>6, <2>7
<1>4. /\ IsFiniteSet(C) /\ IsFiniteSet(D)
      /\ Cardinality(S) \in Nat /\ Cardinality(C) \in Nat /\ Cardinality(D) \in Nat
      /\ Cardinality(S) = Cardinality(C) + Cardinality(D)
  BY ONLY <1>3, CountParts
<1>5. Cardinality(C) = Cardinality(S) \div 2  BY <1>1, <1>3
<1> DEFINE n == Cardinality(S)
           k == Cardinality(C)
           d == Cardinality(D)
<1>6. n \in Nat /\ k \in Nat /\ d \in Nat /\ n = k + d /\ k = n \div 2  BY <1>4, <1>5
<1> HIDE DEF n, k, d
<1>7. d - k \in {0, 1}  BY ONLY <1>6
<1> QED  BY <1>7 DEF k, d

\* PartitionExact: only what lies at or above the point is moved, and all of it
\* when the call succeeds; a split in halves is one.
THEOREM PartitionIsExact ==
  ASSUME NEW CONSTANT L, OperandsBelow(L)
  PROVE  Spec => []PartitionExact
<1>1. SplitInv(L) => PartitionExact
  <2> SUFFICES ASSUME SplitInv(L)  PROVE PartitionExact
    OBVIOUS
  <2> DEFINE G == MembersOf(given)
  <2>1. Covers(L) /\ L \in Nat  BY DEF OperandsBelow, Covers, Limit
  <2>2. PICK A, B : Halves(A, B, G, L)  BY <2>1, HalvesAre
  <2>3. MembersOf(map) = A /\ MembersOf(other) = B
    BY <2>1, <2>2, CarriesMembers DEF Halves
  <2>4. Low(G, L) /\ G # {}
    <3>1. Stores(given, G, L) /\ Limit(L) /\ G # {}  BY <2>1 DEF SplitInv, Covers
    <3>2. Carries(given, G, L)  BY <3>1, StoresCarries
    <3>3. G \subseteq 0 .. L - 1  BY <2>1, <3>2, CarriesMembers
    <3> QED  BY <2>1, <3>1, <3>3 DEF Low
  <2>5. ASSUME status \in {"parting", "bits", "done"} \/ B # {}
        PROVE  Upper = UpperPart(G, idx)
    BY DEF Upper, UpperPart
  <2> HIDE DEF G
  <2>6. B \subseteq Upper  BY <2>2, <2>5 DEF Halves
  <2>7. ASSUME status = "done", ~ignored
        PROVE  /\ B = Upper
               /\ point = Median => Cardinality(B) - Cardinality(A) \in {0, 1}
    <3>1. B = UpperPart(G, idx) /\ A = G \ B /\ AtMiddle(G, point, idx)
      BY <2>2, <2>7 DEF Halves
    <3>2. ASSUME point = Median  PROVE Cardinality(B) - Cardinality(A) \in {0, 1}
      <4>1. idx = MiddleOf(G)  BY <3>1, <3>2 DEF AtMiddle
      <4> QED  BY <2>4, <3>1, <4>1, MiddleHalves
    <3> QED  BY <2>5, <2>7, <3>1, <3>2
  <2> QED  BY <2>3, <2>6, <2>7 DEF PartitionExact
<1> QED  BY <1>1, SplitGoes, PTL

=============================================================================
