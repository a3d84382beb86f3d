---------------------------- MODULE SmallTheorems ---------------------------
(***************************************************************************)
(* What sm_add and sm_remove do to a map in either of its two forms, with  *)
(* the promotions and demotions between them: the form stays valid and     *)
(* the set is the one the call is for.                                     *)
(***************************************************************************)
EXTENDS SmallSet, CallTheorems

----------------------------------------------------------------------------
(* A chunk-mode map is a chunk map with two more fields that no call for   *)
(* one index touches.                                                      *)

Plain(m) == [chunks |-> m.chunks, used |-> m.used, cap |-> m.cap]
Full(q) == [mode |-> "chunk", words |-> << >>, chunks |-> q.chunks,
            used |-> q.used, cap |-> q.cap]
IsPlain(q, size) == q = [chunks |-> q.chunks, used |-> q.used, cap |-> size]

\* The fields of the fuller map.
LEMMA FullFields ==
  ASSUME NEW q
  PROVE  /\ Full(q).chunks = q.chunks /\ Full(q).used = q.used /\ Full(q).cap = q.cap
         /\ Full(q).mode = "chunk" /\ Full(q).words = << >> /\ ~IsSmall(Full(q))
  BY DEF Full, IsSmall

\* A new stream of chunks and a new count of words, in either record.
Given(m, s, w) == [m EXCEPT !.chunks = s, !.used = w]

\* They are the same in both.
LEMMA TwoExcepts ==
  ASSUME NEW size, NEW q, IsPlain(q, size), NEW s, NEW w
  PROVE  IsPlain(Given(q, s, w), size) /\ Given(Full(q), s, w) = Full(Given(q, s, w))
<1> DEFINE q1 == [q EXCEPT !.chunks = s]
           q2 == [q EXCEPT !.chunks = s, !.used = w]
           f1 == [Full(q) EXCEPT !.chunks = s]
           f2 == [Full(q) EXCEPT !.chunks = s, !.used = w]
<1>1. q1 = [chunks |-> s, used |-> q.used, cap |-> q.cap]  BY DEF IsPlain
<1>2. q2 = [q1 EXCEPT !.used = w]  BY Zenon
<1>3. f1 = [mode |-> "chunk", words |-> << >>, chunks |-> s, used |-> q.used, cap |-> q.cap]
  BY DEF Full
<1>4. f2 = [f1 EXCEPT !.used = w]  BY Zenon
<1> HIDE DEF q1, q2, f1, f2
<1>5. q2 = [chunks |-> s, used |-> w, cap |-> q.cap]  BY <1>1, <1>2
<1>6. f2 = [mode |-> "chunk", words |-> << >>, chunks |-> s, used |-> w, cap |-> q.cap]
  BY <1>3, <1>4
<1>7. IsPlain(q2, size) /\ f2 = Full(q2)  BY <1>5, <1>6 DEF Full, IsPlain
<1> QED  BY <1>7 DEF q2, f2, Given

\* Chunks that give way to others.
LEMMA FullReplace ==
  ASSUME NEW size, NEW q, IsPlain(q, size), NEW j, NEW n, NEW t, NEW words
  PROVE  /\ Replace(Full(q), j, n, t, words) = Full(Replace(q, j, n, t, words))
         /\ IsPlain(Replace(q, j, n, t, words), size)
<1> DEFINE s == Splice(q.chunks, j, n, t)
           w == q.used + words
<1>1. /\ Replace(q, j, n, t, words) = Given(q, s, w)
      /\ Replace(Full(q), j, n, t, words) = Given(Full(q), s, w)
  BY FullFields DEF Replace, Given
<1> HIDE DEF s, w
<1> QED  BY <1>1, TwoExcepts

\* The join on the left.
LEMMA FullJoinLeft ==
  ASSUME NEW size, NEW q, IsPlain(q, size), NEW j, NEW start
  PROVE  /\ JoinLeft(Full(q), j, start) = Full(JoinLeft(q, j, start))
         /\ IsPlain(JoinLeft(q, j, start), size)
         /\ CanJoinLeft(Full(q), j, start) <=> CanJoinLeft(q, j, start)
<1> DEFINE c == q.chunks
           k == Locate(c, start - 1)
           len == start + RunLength(c[j]) - c[k].start
           joined == RLEChunk(c[k].start, len, RunCapacity(c, j, c[k].start, len))
           s == RemoveAt([c EXCEPT ![k] = joined], j)
           w == q.used - (1 + Size(c[j]))
<1>1. /\ JoinLeft(q, j, start) = Given(q, s, w)
      /\ JoinLeft(Full(q), j, start) = Given(Full(q), s, w)
  BY FullFields DEF JoinLeft, Given
<1>2. CanJoinLeft(Full(q), j, start) <=> CanJoinLeft(q, j, start)
  BY FullFields DEF CanJoinLeft
<1> HIDE DEF s, w
<1> QED  BY <1>1, <1>2, TwoExcepts

\* The join on the right.
LEMMA FullJoinRight ==
  ASSUME NEW size, NEW q, IsPlain(q, size), NEW j, NEW start, NEW i, NEW isSet
  PROVE  /\ JoinRight(Full(q), j, start, i, isSet) = Full(JoinRight(q, j, start, i, isSet))
         /\ IsPlain(JoinRight(q, j, start, i, isSet), size)
         /\ CanJoinRight(Full(q), j, start, i, isSet) <=> CanJoinRight(q, j, start, i, isSet)
<1>1. RightRun(Full(q), j, i, isSet) = RightRun(q, j, i, isSet)
  BY FullFields DEF RightRun
<1>2. CanJoinRight(Full(q), j, start, i, isSet) <=> CanJoinRight(q, j, start, i, isSet)
  BY <1>1, FullFields DEF CanJoinRight
<1> DEFINE c == q.chunks
           len == c[j + 1].start + RightRun(q, j, i, isSet) - start
           t == << RLEChunk(c[j].start, len, RunCapacity(c, j + 1, start, len)) >>
           w == -(Size(c[j]) + Size(c[j + 1]))
<1>3. /\ JoinRight(q, j, start, i, isSet) = Replace(q, j, 2, t, w)
      /\ JoinRight(Full(q), j, start, i, isSet) = Replace(Full(q), j, 2, t, w)
  BY <1>1, FullFields DEF JoinRight
<1> HIDE DEF t, w
<1>4. /\ Replace(Full(q), j, 2, t, w) = Full(Replace(q, j, 2, t, w))
      /\ IsPlain(Replace(q, j, 2, t, w), size)
  BY FullReplace
<1> QED  BY ONLY <1>2, <1>3, <1>4

\* A map coalesced at a chunk.
LEMMA FullCoalesce ==
  ASSUME NEW size, NEW q, IsPlain(q, size), NEW j, NEW start, NEW i, NEW isSet
  PROVE  /\ Coalesce(Full(q), j, start, i, isSet) = Full(Coalesce(q, j, start, i, isSet))
         /\ IsPlain(Coalesce(q, j, start, i, isSet), size)
<1>1. Full(q).chunks = q.chunks  BY FullFields
<1> DEFINE k == Locate(q.chunks, start - 1)
           l == JoinedLeft(q, j, start)
           f == JoinedLeft(Full(q), j, start)
<1>2. /\ IsPlain(l.map, size) /\ f.map = Full(l.map) /\ f.at = l.at /\ f.start = l.start
  <2>1. CASE CanJoinLeft(q, j, start)
    <3>1. l = AtChunk(JoinLeft(q, j, start), k, q.chunks[k].start)
      BY <2>1 DEF JoinedLeft
    <3>2. f = AtChunk(JoinLeft(Full(q), j, start), k, q.chunks[k].start)
      BY <1>1, <2>1, FullJoinLeft DEF JoinedLeft
    <3>3. JoinLeft(Full(q), j, start) = Full(JoinLeft(q, j, start))
          /\ IsPlain(JoinLeft(q, j, start), size)
      BY FullJoinLeft
    <3> HIDE DEF l, f, k
    <3> QED  BY ONLY <3>1, <3>2, <3>3 DEF AtChunk
  <2>2. CASE ~CanJoinLeft(q, j, start)
    <3>1. l = AtChunk(q, j, start)  BY <2>2 DEF JoinedLeft
    <3>2. f = AtChunk(Full(q), j, start)  BY <1>1, <2>2, FullJoinLeft DEF JoinedLeft
    <3> HIDE DEF l, f, k
    <3> QED  BY <3>1, <3>2 DEF AtChunk
  <2> QED  BY <2>1, <2>2
<1> HIDE DEF l, f
<1>3. /\ JoinedRight(f, i, isSet) = Full(JoinedRight(l, i, isSet))
      /\ IsPlain(JoinedRight(l, i, isSet), size)
  <2>1. /\ JoinRight(f.map, f.at, f.start, i, isSet)
             = Full(JoinRight(l.map, l.at, l.start, i, isSet))
        /\ IsPlain(JoinRight(l.map, l.at, l.start, i, isSet), size)
        /\ CanJoinRight(f.map, f.at, f.start, i, isSet)
             <=> CanJoinRight(l.map, l.at, l.start, i, isSet)
    BY <1>2, FullJoinRight
  <2> QED  BY <1>2, <2>1 DEF JoinedRight
<1>4. CASE RunLength(q.chunks[j]) = 0
           \/ (IsRLE(q.chunks[j]) /\ q.chunks[j].len > q.chunks[j].cap)
  BY <1>1, <1>4 DEF Coalesce
<1>5. CASE ~(RunLength(q.chunks[j]) = 0
             \/ (IsRLE(q.chunks[j]) /\ q.chunks[j].len > q.chunks[j].cap))
  <2>1. /\ Coalesce(q, j, start, i, isSet) = JoinedRight(l, i, isSet)
        /\ Coalesce(Full(q), j, start, i, isSet) = JoinedRight(f, i, isSet)
    BY <1>1, <1>5 DEF Coalesce, l, f
  <2> QED  BY ONLY <1>3, <2>1
<1> QED  BY <1>4, <1>5

\* The outcome of a call, of the fuller map.
FullResult(r) == [map |-> Full(r.map), ok |-> r.ok]
IsOutcome(r, size) == r = [map |-> r.map, ok |-> r.ok] /\ IsPlain(r.map, size)

\* Room is the same, and so is a refusal and a success.
LEMMA FullOutcomes ==
  ASSUME NEW size, NEW q, IsPlain(q, size)
  PROVE  /\ \A need : HasRoom(Full(q), need) <=> HasRoom(q, need)
         /\ Done(Full(q)) = FullResult(Done(q)) /\ IsOutcome(Done(q), size)
         /\ Failed(Full(q)) = FullResult(Failed(q)) /\ IsOutcome(Failed(q), size)
<1>1. \A need : HasRoom(Full(q), need) <=> HasRoom(q, need)
  BY FullFields DEF HasRoom
<1>2. Done(q) = [map |-> q, ok |-> TRUE] /\ Failed(q) = [map |-> q, ok |-> FALSE]
  BY DEF Done, Failed
<1>3. Done(q).map = q /\ Done(q).ok = TRUE /\ Failed(q).map = q /\ Failed(q).ok = FALSE
  BY <1>2
<1>4. /\ Done(Full(q)) = [map |-> Full(q), ok |-> TRUE]
      /\ Failed(Full(q)) = [map |-> Full(q), ok |-> FALSE]
  BY DEF Done, Failed
<1> QED  BY <1>1, <1>2, <1>3, <1>4 DEF FullResult, IsOutcome

\* A map with some chunks replaced and then coalesced.
LEMMA FullRewritten ==
  ASSUME NEW size, NEW q, IsPlain(q, size), NEW j, NEW n, NEW t, NEW words,
         NEW k, NEW start, NEW i, NEW isSet
  PROVE  /\ Coalesce(Replace(Full(q), j, n, t, words), k, start, i, isSet) =
              Full(Coalesce(Replace(q, j, n, t, words), k, start, i, isSet))
         /\ Done(Coalesce(Replace(Full(q), j, n, t, words), k, start, i, isSet)) =
              FullResult(Done(Coalesce(Replace(q, j, n, t, words), k, start, i, isSet)))
         /\ IsPlain(Coalesce(Replace(q, j, n, t, words), k, start, i, isSet), size)
         /\ IsOutcome(Done(Coalesce(Replace(q, j, n, t, words), k, start, i, isSet)), size)
<1> DEFINE p == Replace(q, j, n, t, words)
           o == Coalesce(p, k, start, i, isSet)
<1>1. Replace(Full(q), j, n, t, words) = Full(p) /\ IsPlain(p, size)  BY FullReplace
<1> HIDE DEF p
<1>2. Coalesce(Full(p), k, start, i, isSet) = Full(o) /\ IsPlain(o, size)
  BY <1>1, FullCoalesce
<1> HIDE DEF o
<1>3. Done(Full(o)) = FullResult(Done(o)) /\ IsOutcome(Done(o), size)  BY <1>2, FullOutcomes
<1> QED  BY <1>1, <1>2, <1>3 DEF o, p

\* A chunk with the one bit is inserted.
LEMMA FullInsertNew ==
  ASSUME NEW size, NEW q, IsPlain(q, size), NEW j, NEW i, NEW start
  PROVE  /\ InsertNew(Full(q), j, i, start) = FullResult(InsertNew(q, j, i, start))
         /\ IsOutcome(InsertNew(q, j, i, start), size)
<1> DEFINE a == AlignedOffset(i)
           t == << SetBit(ZerosChunk(a), i - a) >>
           added == TRUE
<1>1. HasRoom(Full(q), 3) <=> HasRoom(q, 3)  BY FullOutcomes
<1>2. CASE q.chunks # << >> /\ ~HasRoom(q, 3)
  <2>1. InsertNew(q, j, i, start) = Failed(q)  BY <1>2 DEF InsertNew
  <2>2. InsertNew(Full(q), j, i, start) = Failed(Full(q))
    BY <1>1, <1>2, FullFields DEF InsertNew
  <2> QED  BY ONLY <2>1, <2>2, FullOutcomes, IsPlain(q, size)
<1>3. CASE ~(q.chunks # << >> /\ ~HasRoom(q, 3))
  <2>1. InsertNew(q, j, i, start) = Done(Coalesce(Replace(q, j, 0, t, 3), j, start, i, added))
    BY <1>3 DEF InsertNew
  <2>2. InsertNew(Full(q), j, i, start) =
          Done(Coalesce(Replace(Full(q), j, 0, t, 3), j, start, i, added))
    BY <1>1, <1>3, FullFields DEF InsertNew
  <2> HIDE DEF t, added
  <2>3. IsPlain(q, size)  OBVIOUS
  <2> QED  BY ONLY <2>1, <2>2, <2>3, FullRewritten
<1> QED  BY <1>2, <1>3

\* A chunk becomes a run.
LEMMA FullSetRun ==
  ASSUME NEW size, NEW q, IsPlain(q, size), NEW j, NEW len, NEW cap, NEW i
  PROVE  /\ SetRun(Full(q), j, len, cap, i) = FullResult(SetRun(q, j, len, cap, i))
         /\ IsOutcome(SetRun(q, j, len, cap, i), size)
<1> DEFINE start == q.chunks[j].start
           t == << RLEChunk(start, len, cap) >>
           added == TRUE
<1>1. /\ SetRun(q, j, len, cap, i) =
           Done(Coalesce(Replace(q, j, 1, t, 0), j, start, i, added))
      /\ SetRun(Full(q), j, len, cap, i) =
           Done(Coalesce(Replace(Full(q), j, 1, t, 0), j, start, i, added))
  BY FullFields DEF SetRun
<1> HIDE DEF t, start, added
<1>2. IsPlain(q, size)  OBVIOUS
<1> QED  BY ONLY <1>1, <1>2, FullRewritten

\* A run is separated.
LEMMA FullSeparate ==
  ASSUME NEW size, NEW q, IsPlain(q, size), NEW j, NEW i, NEW isSet
  PROVE  /\ Separate(Full(q), j, i, isSet) = FullResult(Separate(q, j, i, isSet))
         /\ IsOutcome(Separate(q, j, i, isSet), size)
<1> DEFINE t == Separated(q.chunks[j], i, isSet)
           w == StreamWords(t) - 2
<1>1. HasRoom(Full(q), w) <=> HasRoom(q, w)  BY FullOutcomes
<1>2. /\ Separate(q, j, i, isSet) =
           IF HasRoom(q, w) THEN Done(Replace(q, j, 1, t, w)) ELSE Failed(q)
      /\ Separate(Full(q), j, i, isSet) =
           IF HasRoom(q, w) THEN Done(Replace(Full(q), j, 1, t, w)) ELSE Failed(Full(q))
  BY <1>1, FullFields DEF Separate, SeparateInto
<1> HIDE DEF t, w
<1> DEFINE p == Replace(q, j, 1, t, w)
<1>3. Replace(Full(q), j, 1, t, w) = Full(p) /\ IsPlain(p, size)  BY FullReplace
<1> HIDE DEF p
<1>4. Done(Full(p)) = FullResult(Done(p)) /\ IsOutcome(Done(p), size)
  BY ONLY <1>3, FullOutcomes
<1>5. Failed(Full(q)) = FullResult(Failed(q)) /\ IsOutcome(Failed(q), size)
  BY FullOutcomes
<1> QED  BY <1>2, <1>3, <1>4, <1>5 DEF p

\* An index past a run's end is set.
LEMMA FullSetPastRun ==
  ASSUME NEW size, NEW q, IsPlain(q, size), NEW j, NEW i
  PROVE  /\ SetPastRun(Full(q), j, i) = FullResult(SetPastRun(q, j, i))
         /\ IsOutcome(SetPastRun(q, j, i), size)
<1> DEFINE r == Separate(q, j, i, TRUE)
           start == q.chunks[j].start
           o == Coalesce(r.map, j, start, i, TRUE)
<1>1. Separate(Full(q), j, i, TRUE) = FullResult(r) /\ IsOutcome(r, size)  BY FullSeparate
<1>2. /\ SetPastRun(q, j, i) = IF r.ok THEN Done(o) ELSE Failed(q)
      /\ SetPastRun(Full(q), j, i) =
           IF FullResult(r).ok
           THEN Done(Coalesce(FullResult(r).map, j, start, i, TRUE)) ELSE Failed(Full(q))
  BY <1>1, FullFields DEF SetPastRun
<1> HIDE DEF r, start
<1>3. FullResult(r).ok = r.ok /\ FullResult(r).map = Full(r.map) /\ IsPlain(r.map, size)
  BY <1>1 DEF FullResult, IsOutcome
<1>4. Coalesce(Full(r.map), j, start, i, TRUE) = Full(o) /\ IsPlain(o, size)
  BY <1>3, FullCoalesce
<1> HIDE DEF o
<1>5. Done(Full(o)) = FullResult(Done(o)) /\ IsOutcome(Done(o), size)  BY <1>4, FullOutcomes
<1>6. Failed(Full(q)) = FullResult(Failed(q)) /\ IsOutcome(Failed(q), size)  BY FullOutcomes
<1>7. CASE r.ok
  <2>1. SetPastRun(q, j, i) = Done(o) /\ SetPastRun(Full(q), j, i) = Done(Full(o))
    BY ONLY <1>2, <1>3, <1>4, <1>7
  <2> QED  BY ONLY <2>1, <1>5
<1>8. CASE ~r.ok
  <2>1. SetPastRun(q, j, i) = Failed(q) /\ SetPastRun(Full(q), j, i) = Failed(Full(q))
    BY ONLY <1>2, <1>3, <1>8
  <2> QED  BY ONLY <2>1, <1>6
<1> QED  BY <1>7, <1>8

\* A bit of a sparse chunk is set.
LEMMA FullSetInPlace ==
  ASSUME NEW size, NEW q, IsPlain(q, size), NEW j, NEW i
  PROVE  /\ SetInPlace(Full(q), j, i) = FullResult(SetInPlace(q, j, i))
         /\ IsOutcome(SetInPlace(q, j, i), size)
<1> DEFINE c == q.chunks[j]
           d == SetBit(c, i - c.start)
           w == Len(d.data) - Len(c.data)
           start == c.start
           added == TRUE
<1>1. /\ SetInPlace(q, j, i) =
           Done(Coalesce(Replace(q, j, 1, << d >>, w), j, start, i, added))
      /\ SetInPlace(Full(q), j, i) =
           Done(Coalesce(Replace(Full(q), j, 1, << d >>, w), j, start, i, added))
  BY FullFields DEF SetInPlace
<1> HIDE DEF c, d, w, start, added
<1>2. IsPlain(q, size)  OBVIOUS
<1> QED  BY ONLY <1>1, <1>2, FullRewritten

\* An index that does not come before the located chunk is set.
LEMMA FullSetFrom ==
  ASSUME NEW size, NEW q, IsPlain(q, size), NEW j, NEW i
  PROVE  /\ SetFrom(Full(q), j, i) = FullResult(SetFrom(q, j, i))
         /\ IsOutcome(SetFrom(q, j, i), size)
<1> DEFINE s == q.chunks
           c == s[j]
           at == i - c.start
           cap == IF c.len = c.cap THEN RunCapacity(s, j, c.start, at + 1) ELSE c.cap
           o == Coalesce(q, j, c.start, i, TRUE)
<1>1. Full(q).chunks = s  BY FullFields
<1>2. CASE AllOnes(c) /\ at = ChunkCap
  <2>1. /\ SetFrom(q, j, i) = SetRun(q, j, at + 1, RunCapacity(s, j, c.start, at + 1), i)
        /\ SetFrom(Full(q), j, i) =
             SetRun(Full(q), j, at + 1, RunCapacity(s, j, c.start, at + 1), i)
    BY <1>1, <1>2 DEF SetFrom
  <2> QED  BY ONLY <2>1, FullSetRun, IsPlain(q, size)
<1>3. CASE ~(AllOnes(c) /\ at = ChunkCap) /\ IsRLE(c) /\ at <= c.cap /\ at < c.len
  <2>1. SetFrom(q, j, i) = Done(o)  BY <1>3 DEF SetFrom
  <2>2. SetFrom(Full(q), j, i) = Done(Coalesce(Full(q), j, c.start, i, TRUE))
    BY <1>1, <1>3 DEF SetFrom
  <2>3. Coalesce(Full(q), j, c.start, i, TRUE) = Full(o) /\ IsPlain(o, size)  BY FullCoalesce
  <2> HIDE DEF o
  <2>4. Done(Full(o)) = FullResult(Done(o)) /\ IsOutcome(Done(o), size)  BY <2>3, FullOutcomes
  <2> QED  BY ONLY <2>1, <2>2, <2>3, <2>4
<1>4. CASE /\ ~(AllOnes(c) /\ at = ChunkCap)
           /\ ~(IsRLE(c) /\ at <= c.cap /\ at < c.len)
           /\ IsRLE(c) /\ at <= c.cap /\ at = c.len
  <2>1. /\ SetFrom(q, j, i) = SetRun(q, j, at + 1, cap, i)
        /\ SetFrom(Full(q), j, i) = SetRun(Full(q), j, at + 1, cap, i)
    BY <1>1, <1>4 DEF SetFrom
  <2> QED  BY ONLY <2>1, FullSetRun, IsPlain(q, size)
<1>5. CASE /\ ~(AllOnes(c) /\ at = ChunkCap)
           /\ ~(IsRLE(c) /\ at <= c.cap /\ at < c.len)
           /\ ~(IsRLE(c) /\ at <= c.cap /\ at = c.len)
           /\ IsRLE(c) /\ at < c.cap
  <2>1. /\ SetFrom(q, j, i) = SetPastRun(q, j, i)
        /\ SetFrom(Full(q), j, i) = SetPastRun(Full(q), j, i)
    BY <1>1, <1>5 DEF SetFrom
  <2> QED  BY ONLY <2>1, FullSetPastRun, IsPlain(q, size)
<1>6. CASE /\ ~(AllOnes(c) /\ at = ChunkCap)
           /\ ~(IsRLE(c) /\ at <= c.cap /\ at < c.len)
           /\ ~(IsRLE(c) /\ at <= c.cap /\ at = c.len)
           /\ ~(IsRLE(c) /\ at < c.cap)
           /\ at >= Capacity(c)
  <2>1. /\ SetFrom(q, j, i) = InsertNew(q, j + 1, i, AlignedOffset(i))
        /\ SetFrom(Full(q), j, i) = InsertNew(Full(q), j + 1, i, AlignedOffset(i))
    BY <1>1, <1>6 DEF SetFrom
  <2> QED  BY ONLY <2>1, FullInsertNew, IsPlain(q, size)
<1>7. CASE /\ ~(AllOnes(c) /\ at = ChunkCap)
           /\ ~(IsRLE(c) /\ at <= c.cap /\ at < c.len)
           /\ ~(IsRLE(c) /\ at <= c.cap /\ at = c.len)
           /\ ~(IsRLE(c) /\ at < c.cap)
           /\ ~(at >= Capacity(c))
  <2>1. /\ SetFrom(q, j, i) = SetInPlace(q, j, i)
        /\ SetFrom(Full(q), j, i) = SetInPlace(Full(q), j, i)
    BY <1>1, <1>7 DEF SetFrom
  <2> QED  BY ONLY <2>1, FullSetInPlace, IsPlain(q, size)
<1> HIDE DEF s, c, at
<1> QED  BY <1>2, <1>3, <1>4, <1>5, <1>6, <1>7

\* A chunk that answers for a part of its window is widened.
LEMMA FullWidened ==
  ASSUME NEW size, NEW q, IsPlain(q, size), NEW j, NEW i
  PROVE  /\ WithWholeWindow(Full(q), j, i) = Full(WithWholeWindow(q, j, i))
         /\ IsPlain(WithWholeWindow(q, j, i), size)
<1> DEFINE t == << Widened(q.chunks[j]) >>
<1>1. /\ Replace(Full(q), j, 1, t, 0) = Full(Replace(q, j, 1, t, 0))
      /\ IsPlain(Replace(q, j, 1, t, 0), size)
  BY FullReplace
<1> QED  BY <1>1, FullFields DEF WithWholeWindow

\* __sm_map_set of a chunk-mode map is that of its chunk map.
LEMMA FullMapSet ==
  ASSUME NEW size, NEW q, IsPlain(q, size), NEW i
  PROVE  MapSet(Full(q), i) = FullResult(MapSet(q, i)) /\ IsOutcome(MapSet(q, i), size)
<1> DEFINE s == q.chunks
           j == Locate(s, i)
           w == WithWholeWindow(q, j, i)
<1>1. /\ Full(q).chunks = s
      /\ HasRoom(Full(q), 2) <=> HasRoom(q, 2)
  BY FullFields, FullOutcomes
<1>2. CASE ~HasRoom(q, 2)
  <2>1. MapSet(q, i) = Failed(q) /\ MapSet(Full(q), i) = Failed(Full(q))
    BY <1>1, <1>2 DEF MapSet
  <2> QED  BY ONLY <2>1, FullOutcomes, IsPlain(q, size)
<1>3. CASE HasRoom(q, 2) /\ s = << >>
  <2>1. /\ MapSet(q, i) = InsertNew(q, 1, i, AlignedOffset(i))
        /\ MapSet(Full(q), i) = InsertNew(Full(q), 1, i, AlignedOffset(i))
    BY <1>1, <1>3 DEF MapSet
  <2> QED  BY ONLY <2>1, FullInsertNew, IsPlain(q, size)
<1>4. CASE HasRoom(q, 2) /\ s # << >> /\ i < s[j].start
  <2>1. /\ MapSet(q, i) = InsertNew(q, j, i, s[j].start)
        /\ MapSet(Full(q), i) = InsertNew(Full(q), j, i, s[j].start)
    BY <1>1, <1>4 DEF MapSet
  <2> QED  BY ONLY <2>1, FullInsertNew, IsPlain(q, size)
<1>5. CASE HasRoom(q, 2) /\ s # << >> /\ ~(i < s[j].start)
  <2>1. /\ MapSet(q, i) = SetFrom(w, j, i)
        /\ MapSet(Full(q), i) = SetFrom(WithWholeWindow(Full(q), j, i), j, i)
    BY <1>1, <1>5 DEF MapSet
  <2>2. WithWholeWindow(Full(q), j, i) = Full(w) /\ IsPlain(w, size)  BY FullWidened
  <2> HIDE DEF w
  <2>3. SetFrom(Full(w), j, i) = FullResult(SetFrom(w, j, i)) /\ IsOutcome(SetFrom(w, j, i), size)
    BY <2>2, FullSetFrom
  <2> QED  BY ONLY <2>1, <2>2, <2>3
<1> QED  BY <1>2, <1>3, <1>4, <1>5

\* The last index of a run goes.
LEMMA FullDropLast ==
  ASSUME NEW size, NEW q, IsPlain(q, size), NEW j, NEW i
  PROVE  /\ DropLast(Full(q), j, i) = Full(DropLast(q, j, i))
         /\ IsPlain(DropLast(q, j, i), size)
<1> DEFINE c == q.chunks[j]
           shorter == IF c.len - 1 = ChunkCap THEN OnesChunk(c.start)
                      ELSE RLEChunk(c.start, c.len - 1, c.cap)
           t == << shorter >>
           start == c.start
           added == FALSE
<1>1. Full(q).chunks = q.chunks  BY FullFields
<1>2. CASE c.len = 1
  <2>1. /\ DropLast(q, j, i) = Replace(q, j, 1, << >>, -2)
        /\ DropLast(Full(q), j, i) = Replace(Full(q), j, 1, << >>, -2)
    BY <1>1, <1>2 DEF DropLast
  <2>2. IsPlain(q, size)  OBVIOUS
  <2> DEFINE w == -2
  <2>3. /\ DropLast(q, j, i) = Replace(q, j, 1, << >>, w)
        /\ DropLast(Full(q), j, i) = Replace(Full(q), j, 1, << >>, w)
    BY <2>1
  <2> HIDE DEF w
  <2> QED  BY ONLY <2>2, <2>3, FullReplace
<1>3. CASE c.len # 1
  <2>1. /\ DropLast(q, j, i) = Coalesce(Replace(q, j, 1, t, 0), j, start, i, added)
        /\ DropLast(Full(q), j, i) = Coalesce(Replace(Full(q), j, 1, t, 0), j, start, i, added)
    BY <1>1, <1>3 DEF DropLast
  <2>2. IsPlain(q, size)  OBVIOUS
  <2> HIDE DEF t, start, added
  <2> QED  BY ONLY <2>1, <2>2, FullRewritten
<1> QED  BY <1>2, <1>3

\* A bit of a sparse chunk goes, and the chunk with its last one.
LEMMA FullClearInPlace ==
  ASSUME NEW size, NEW q, IsPlain(q, size), NEW j, NEW i
  PROVE  /\ ClearInPlace(Full(q), j, i) = Full(ClearInPlace(q, j, i))
         /\ IsPlain(ClearInPlace(q, j, i), size)
<1> DEFINE c == q.chunks[j]
           d == ClrBit(c, i - c.start)
           empties == IsSet(c, i - c.start) /\ IsEmptyChunk(d)
           t == IF empties THEN << >> ELSE << d >>
           w == IF empties THEN -3 ELSE Len(d.data) - Len(c.data)
           m1 == Replace(q, j, 1, t, w)
           f1 == Replace(Full(q), j, 1, t, w)
           start == c.start
           added == FALSE
           o == Coalesce(m1, j, start, i, added)
<1>1. Full(q).chunks = q.chunks  BY FullFields
<1>2. /\ ClearInPlace(q, j, i) = IF j > Len(m1.chunks) THEN m1 ELSE o
      /\ ClearInPlace(Full(q), j, i) =
           IF j > Len(f1.chunks) THEN f1 ELSE Coalesce(f1, j, start, i, added)
  <2>1. CASE empties
    <3>1. t = << >> /\ w = -3  BY <2>1
    <3> QED  BY <1>1, <2>1, <3>1 DEF ClearInPlace
  <2>2. CASE ~empties
    <3>1. t = << d >> /\ w = Len(d.data) - Len(c.data)  BY <2>2
    <3> QED  BY <1>1, <2>2, <3>1 DEF ClearInPlace
  <2> QED  BY <2>1, <2>2
<1> HIDE DEF t, w, start, added
<1>3. f1 = Full(m1) /\ IsPlain(m1, size)  BY FullReplace
<1> HIDE DEF m1, f1
<1>4. Coalesce(Full(m1), j, start, i, added) = Full(o) /\ IsPlain(o, size)
  BY <1>3, FullCoalesce
<1>5. Full(m1).chunks = m1.chunks  BY FullFields
<1> HIDE DEF o
<1> QED  BY ONLY <1>2, <1>3, <1>4, <1>5

\* __sm_map_unset of a chunk-mode map is that of its chunk map.
LEMMA FullMapUnset ==
  ASSUME NEW size, NEW q, IsPlain(q, size), NEW i
  PROVE  MapUnset(Full(q), i) = FullResult(MapUnset(q, i)) /\ IsOutcome(MapUnset(q, i), size)
<1> DEFINE s == q.chunks
           j == Locate(s, i)
           c == s[j]
           at == i - c.start
           removed == FALSE
           o == Coalesce(q, j, c.start, i, removed)
<1>0. IsPlain(q, size)  OBVIOUS
<1>1. /\ Full(q).chunks = s
      /\ HasRoom(Full(q), 2) <=> HasRoom(q, 2)
  BY FullFields, FullOutcomes
<1>2. CASE ~HasRoom(q, 2)
  <2>1. MapUnset(q, i) = Failed(q) /\ MapUnset(Full(q), i) = Failed(Full(q))
    BY <1>1, <1>2 DEF MapUnset
  <2> QED  BY ONLY <1>0, <2>1, FullOutcomes
<1>3. CASE HasRoom(q, 2) /\ (s = << >> \/ i < c.start \/ at >= Capacity(c))
  <2>1. MapUnset(q, i) = Done(q) /\ MapUnset(Full(q), i) = Done(Full(q))
    BY <1>1, <1>3 DEF MapUnset
  <2> QED  BY ONLY <1>0, <2>1, FullOutcomes
<1>4. CASE /\ HasRoom(q, 2) /\ ~(s = << >> \/ i < c.start \/ at >= Capacity(c))
           /\ ~IsRLE(c)
  <2> DEFINE p == ClearInPlace(q, j, i)
  <2>1. MapUnset(q, i) = Done(p) /\ MapUnset(Full(q), i) = Done(ClearInPlace(Full(q), j, i))
    BY <1>1, <1>4 DEF MapUnset
  <2>2. ClearInPlace(Full(q), j, i) = Full(p) /\ IsPlain(p, size)  BY FullClearInPlace
  <2> HIDE DEF p
  <2>3. Done(Full(p)) = FullResult(Done(p)) /\ IsOutcome(Done(p), size)
    BY ONLY <2>2, FullOutcomes
  <2> QED  BY ONLY <2>1, <2>2, <2>3
<1>5. CASE /\ HasRoom(q, 2) /\ ~(s = << >> \/ i < c.start \/ at >= Capacity(c))
           /\ IsRLE(c) /\ at >= c.len
  <2>1. MapUnset(q, i) = Done(o)
        /\ MapUnset(Full(q), i) = Done(Coalesce(Full(q), j, c.start, i, removed))
    BY <1>1, <1>5 DEF MapUnset
  <2> HIDE DEF removed
  <2>2. Coalesce(Full(q), j, c.start, i, removed) = Full(o) /\ IsPlain(o, size)
    BY FullCoalesce
  <2> HIDE DEF o
  <2>3. Done(Full(o)) = FullResult(Done(o)) /\ IsOutcome(Done(o), size)
    BY ONLY <2>2, FullOutcomes
  <2> QED  BY ONLY <2>1, <2>2, <2>3
<1>6. CASE /\ HasRoom(q, 2) /\ ~(s = << >> \/ i < c.start \/ at >= Capacity(c))
           /\ IsRLE(c) /\ ~(at >= c.len) /\ at + 1 = c.len
  <2> DEFINE p == DropLast(q, j, i)
  <2>1. MapUnset(q, i) = Done(p) /\ MapUnset(Full(q), i) = Done(DropLast(Full(q), j, i))
    BY <1>1, <1>6 DEF MapUnset
  <2>2. DropLast(Full(q), j, i) = Full(p) /\ IsPlain(p, size)  BY FullDropLast
  <2> HIDE DEF p
  <2>3. Done(Full(p)) = FullResult(Done(p)) /\ IsOutcome(Done(p), size)
    BY ONLY <2>2, FullOutcomes
  <2> QED  BY ONLY <2>1, <2>2, <2>3
<1>7. CASE /\ HasRoom(q, 2) /\ ~(s = << >> \/ i < c.start \/ at >= Capacity(c))
           /\ IsRLE(c) /\ ~(at >= c.len) /\ ~(at + 1 = c.len)
  <2>1. /\ MapUnset(q, i) = Separate(q, j, i, removed)
        /\ MapUnset(Full(q), i) = Separate(Full(q), j, i, removed)
    BY <1>1, <1>7 DEF MapUnset
  <2> HIDE DEF removed
  <2> QED  BY ONLY <1>0, <2>1, FullSeparate
<1> HIDE DEF s, c, at
<1> QED  BY <1>2, <1>3, <1>4, <1>5, <1>6, <1>7

----------------------------------------------------------------------------
(* The two forms, and what each holds.                                     *)

\* Words of the small form: few enough, and the last of them not of zeros.
WordsOK(words) ==
  /\ words \in Seq(SUBSET Bit) /\ Len(words) <= SmallMaxWords
  /\ Len(words) > 0 => words[Len(words)] # {}

SmallHolds(m, X) ==
  /\ m = [mode |-> "small", words |-> m.words, chunks |-> << >>,
          used |-> HeaderWords + Len(m.words), cap |-> m.cap]
  /\ m.cap \in Nat /\ HeaderWords + Len(m.words) <= m.cap
  /\ WordsOK(m.words) /\ X = SmallBits(m.words)

ChunkHolds(m, X, L) == m = Full(Plain(m)) /\ Fits(Plain(m), X, L)

\* m, in whichever form, is valid and holds X.
Stores(m, X, L) == SmallHolds(m, X) \/ ChunkHolds(m, X, L)

\* The fields of a map in the small form.
LEMMA SmallFields ==
  ASSUME NEW m, NEW X, SmallHolds(m, X)
  PROVE  /\ IsSmall(m) /\ m.mode = "small" /\ m.chunks = << >>
         /\ Len(m.words) \in Nat /\ m.used = 1 + Len(m.words)
         /\ m.cap \in Nat /\ m.used \in Nat /\ m.used <= m.cap
         /\ DOMAIN m.words = 1 .. Len(m.words) /\ WordsOK(m.words)
<1> DEFINE words == m.words
           used == HeaderWords + Len(m.words)
           size == m.cap
<1>1. m = [mode |-> "small", words |-> words, chunks |-> << >>,
           used |-> used, cap |-> size]
  BY DEF SmallHolds
<1>2. Len(m.words) \in Nat /\ DOMAIN m.words = 1 .. Len(m.words)
  BY LenProperties DEF SmallHolds, WordsOK
<1> HIDE DEF words, used, size
<1>3. m.mode = "small" /\ m.chunks = << >> /\ m.used = used  BY <1>1
<1>4. used = 1 + Len(m.words)  BY DEF used, HeaderWords
<1> QED  BY <1>2, <1>3, <1>4 DEF SmallHolds, IsSmall, HeaderWords

\* The fields of a map of chunks.
LEMMA ChunkFields ==
  ASSUME NEW m, NEW X, NEW L, ChunkHolds(m, X, L)
  PROVE  /\ ~IsSmall(m) /\ m.mode = "chunk" /\ m.words = << >>
         /\ m = Full(Plain(m)) /\ IsPlain(Plain(m), m.cap) /\ Fits(Plain(m), X, L)
         /\ Plain(m).chunks = m.chunks /\ Plain(m).used = m.used /\ Plain(m).cap = m.cap
         /\ StreamOK(m.chunks, 0, L) /\ Encodes(m.chunks, X, m.used - 1)
         /\ m.used \in Nat /\ m.cap \in Nat /\ 1 <= m.used /\ m.used <= m.cap
<1>1. m = Full(Plain(m)) /\ Fits(Plain(m), X, L)  BY DEF ChunkHolds
<1>2. /\ Plain(m).chunks = m.chunks /\ Plain(m).used = m.used /\ Plain(m).cap = m.cap
      /\ IsPlain(Plain(m), m.cap)
  BY DEF Plain, IsPlain
<1>3. Full(Plain(m)).mode = "chunk" /\ Full(Plain(m)).words = << >>  BY FullFields
<1>4. /\ MapOK(Plain(m), L) /\ Encodes(m.chunks, X, m.used - 1) /\ m.used <= m.cap
  BY <1>1, <1>2 DEF Fits, Keeps, HeaderWords
<1>5. StreamOK(m.chunks, 0, L) /\ m.used \in Int /\ m.cap \in Nat
  BY <1>2, <1>4 DEF MapOK
<1>6. 1 <= m.used
  <2>1. m.chunks \in Seq(Chunks) /\ StreamWords(m.chunks) = m.used - 1
    BY <1>4 DEF Encodes
  <2>2. m.used - 1 \in Nat  BY <2>1, StreamWordsIsNat
  <2> QED  BY <1>5, <2>2
<1>7. m.mode = "chunk" /\ m.words = << >>  BY <1>1, <1>3
<1> QED  BY <1>1, <1>2, <1>4, <1>5, <1>6, <1>7 DEF IsSmall

\* Small mode covers less than the first window.
LEMMA SmallCovers ==
  /\ SmallMaxWords \in Nat /\ SmallMaxWords >= 1 /\ SmallMaxWords < FlagsPerIndex
  /\ SmallMaxBits \in Nat /\ SmallMaxBits = SmallMaxWords * BitsPerVector
  /\ SmallMaxBits < ChunkCap /\ SmallMaxBits >= 1
<1>1. SmallMaxBits \in Nat /\ SmallMaxBits >= 1
  BY SmallConstants, ChunkConstants DEF SmallMaxBits
<1>2. SmallMaxWords < FlagsPerIndex
  <2>1. ASSUME SmallMaxWords >= FlagsPerIndex  PROVE FALSE
    <3>1. PICK d \in Nat : SmallMaxWords = FlagsPerIndex + d
      <4>1. SmallMaxWords - FlagsPerIndex \in Nat  BY <2>1, SmallConstants, ChunkConstants
      <4> QED  BY <4>1, SmallConstants, ChunkConstants
    <3>2. SmallMaxWords * BitsPerVector = FlagsPerIndex * BitsPerVector + d * BitsPerVector
      BY <3>1, ChunkConstants
    <3>3. d * BitsPerVector \in Nat /\ FlagsPerIndex * BitsPerVector = ChunkCap
      BY <3>1, ChunkConstants DEF ChunkCap
    <3> QED  BY <3>2, <3>3, SmallConstants, ChunkCapPositive DEF SmallMaxBits
  <2> QED  BY <2>1, SmallConstants, ChunkConstants
<1> QED  BY <1>1, <1>2, SmallConstants, ChunkConstants DEF SmallMaxBits

\* The indices small mode covers, each its word and its place there.
LEMMA SmallPlace ==
  /\ \A i \in Nat : /\ WordOf(i) \in Nat /\ WordOf(i) >= 1 /\ i % BitsPerVector \in Bit
                    /\ WordOf(i) <= SmallMaxWords <=> i < SmallMaxBits
                    /\ i = (WordOf(i) - 1) * BitsPerVector + (i % BitsPerVector)
  /\ \A w \in 1 .. SmallMaxWords, b \in Bit :
       /\ (w - 1) * BitsPerVector + b \in 0 .. SmallMaxBits - 1
       /\ WordOf((w - 1) * BitsPerVector + b) = w
       /\ ((w - 1) * BitsPerVector + b) % BitsPerVector = b
<1>1. ASSUME NEW i \in Nat
      PROVE  /\ WordOf(i) \in Nat /\ WordOf(i) >= 1 /\ i % BitsPerVector \in Bit
             /\ WordOf(i) <= SmallMaxWords <=> i < SmallMaxBits
             /\ i = (WordOf(i) - 1) * BitsPerVector + (i % BitsPerVector)
  <2> DEFINE v == i \div BitsPerVector
             b == i % BitsPerVector
  <2>1. v \in Int /\ b \in Bit /\ i = v * BitsPerVector + b
    BY ChunkConstants DEF Bit
  <2>0. WordOf(i) = v + 1  BY DEF WordOf
  <2> HIDE DEF v, b
  <2>2. b \in Nat /\ b < BitsPerVector  BY <2>1, ChunkConstants DEF Bit
  <2>3. v >= 0
    <3>1. ASSUME v <= 0 - 1  PROVE v * BitsPerVector <= 0 - BitsPerVector
      BY <2>1, <3>1, ChunkConstants
    <3> QED  BY <2>1, <2>2, <3>1, ChunkConstants
  <2>4. v + 1 <= SmallMaxWords => i < SmallMaxBits
    <3>1. ASSUME v + 1 <= SmallMaxWords  PROVE i < SmallMaxBits
      <4>1. PICK d \in Nat : SmallMaxWords = (v + 1) + d
        <5>1. SmallMaxWords - (v + 1) \in Nat  BY <2>1, <3>1, SmallCovers
        <5> QED  BY <2>1, <5>1, SmallCovers
      <4>2. SmallMaxWords * BitsPerVector =
              (v * BitsPerVector + BitsPerVector) + d * BitsPerVector
        BY <2>1, <4>1, ChunkConstants
      <4>3. d * BitsPerVector \in Nat /\ v * BitsPerVector \in Int
        BY <2>1, <4>1, ChunkConstants
      <4> QED  BY <2>1, <2>2, <4>2, <4>3, SmallCovers, ChunkConstants
    <3> QED  BY <3>1
  <2>5. i < SmallMaxBits => v + 1 <= SmallMaxWords
    <3>1. ASSUME v >= SmallMaxWords  PROVE v * BitsPerVector >= SmallMaxBits
      <4>1. PICK d \in Nat : v = SmallMaxWords + d
        <5>1. v - SmallMaxWords \in Nat  BY <2>1, <3>1, SmallCovers
        <5> QED  BY <2>1, <5>1, SmallCovers
      <4>2. v * BitsPerVector = SmallMaxWords * BitsPerVector + d * BitsPerVector
        BY <4>1, SmallCovers, ChunkConstants
      <4>3. d * BitsPerVector \in Nat  BY <4>1, ChunkConstants
      <4> QED  BY <4>2, <4>3, SmallCovers
    <3>2. v * BitsPerVector \in Int  BY <2>1, ChunkConstants
    <3> QED  BY <2>1, <2>2, <3>1, <3>2, SmallCovers
  <2>6. (v + 1) - 1 = v  BY <2>1
  <2> QED  BY <2>0, <2>1, <2>3, <2>4, <2>5, <2>6 DEF b
<1>2. ASSUME NEW w \in 1 .. SmallMaxWords, NEW b \in Bit
      PROVE  /\ (w - 1) * BitsPerVector + b \in 0 .. SmallMaxBits - 1
             /\ WordOf((w - 1) * BitsPerVector + b) = w
             /\ ((w - 1) * BitsPerVector + b) % BitsPerVector = b
  <2> DEFINE v == w - 1
             x == v * BitsPerVector + b
  <2>1. v \in Vec /\ v \in Nat /\ v + 1 = w  BY SmallCovers, ChunkConstants DEF Vec
  <2> HIDE DEF v
  <2>2. x \in 0 .. ChunkCap - 1 /\ x \div BitsPerVector = v /\ x % BitsPerVector = b
    BY <2>1, BitPlace
  <2> HIDE DEF x
  <2>3. WordOf(x) = w /\ x \in Nat  BY <2>1, <2>2, ChunkCapPositive DEF WordOf
  <2>4. x < SmallMaxBits  BY <1>1, <2>3, SmallCovers
  <2>5. x \in 0 .. SmallMaxBits - 1  BY <2>3, <2>4, SmallCovers
  <2> QED  BY <2>2, <2>3, <2>5 DEF x, v
<1> QED  BY <1>1, <1>2

\* sm_contains of the small form answers for its bits.
LEMMA SmallHasBits ==
  ASSUME NEW words, WordsOK(words)
  PROVE  /\ SmallBits(words) \subseteq 0 .. SmallMaxBits - 1
         /\ \A i \in Nat : SmallHas(words, i) <=> i \in SmallBits(words)
<1>1. Len(words) \in Nat /\ Len(words) <= SmallMaxWords  BY LenProperties DEF WordsOK
<1>2. ASSUME NEW i \in Nat, SmallHas(words, i)  PROVE i \in SmallBits(words)
  <2>1. WordOf(i) <= SmallMaxWords
    BY <1>1, <1>2, SmallPlace, SmallCovers DEF SmallHas
  <2>2. i < SmallMaxBits  BY <2>1, SmallPlace
  <2>3. i \in 0 .. SmallMaxBits - 1  BY <2>2, SmallCovers
  <2> QED  BY <1>2, <2>3 DEF SmallBits
<1> QED  BY <1>2 DEF SmallBits

\* sm_contains, in either form, answers for what the map holds.
LEMMA HoldsIs ==
  ASSUME NEW m, NEW X, NEW L, Stores(m, X, L), L \in Nat, ChunkCap <= L
  PROVE  /\ X \subseteq 0 .. L - 1
         /\ \A i \in Nat : Holds(m, i) <=> i \in X
<1>1. CASE SmallHolds(m, X)
  <2>1. WordsOK(m.words) /\ X = SmallBits(m.words) /\ IsSmall(m)
    BY <1>1, SmallFields DEF SmallHolds
  <2>2. \A i \in Nat : Holds(m, i) <=> SmallHas(m.words, i)  BY <2>1 DEF Holds
  <2>3. X \subseteq 0 .. SmallMaxBits - 1  BY <2>1, SmallHasBits
  <2>4. X \subseteq 0 .. L - 1  BY <2>3, SmallCovers, ChunkCapPositive
  <2> QED  BY <2>1, <2>2, <2>4, SmallHasBits
<1>2. CASE ChunkHolds(m, X, L)
  <2>1. ~IsSmall(m) /\ StreamOK(m.chunks, 0, L) /\ Bits(m.chunks) = X
    BY <1>2, ChunkFields DEF Encodes
  <2>2. \A i \in Nat : Holds(m, i) <=> HasBit(m.chunks, i)  BY <2>1 DEF Holds
  <2>3. \A i \in Nat : HasBit(m.chunks, i) <=> i \in X  BY <2>1, HasBitHolds
  <2>4. ASSUME NEW x \in X  PROVE x \in 0 .. L - 1
    <3>1. PICK j \in 1 .. Len(m.chunks) : x \in BitsOf(m.chunks[j])
      BY <2>1 DEF Bits
    <3>2. EndOf(m.chunks[j]) <= L /\ ChunkOK(m.chunks[j])  BY <2>1 DEF StreamOK
    <3>3. x \in Nat /\ x < EndOf(m.chunks[j]) /\ EndOf(m.chunks[j]) \in Nat
      BY <3>1, <3>2, ChunkExtent DEF BitsOf
    <3> QED  BY <3>2, <3>3
  <2> QED  BY <2>2, <2>3, <2>4
<1> QED  BY <1>1, <1>2 DEF Stores

\* What sm_validate asks of a map holds in either form.
LEMMA StoresIsValid ==
  ASSUME NEW m, NEW X, NEW L, Stores(m, X, L)
  PROVE  ValidForm(m)
<1>1. CASE SmallHolds(m, X)
  <2>1. /\ IsSmall(m) /\ m.used = 1 + Len(m.words) /\ m.used <= m.cap
        /\ Len(m.words) \in Nat /\ WordsOK(m.words)
    BY <1>1, SmallFields
  <2>2. m.words # << >> => Last(m.words) # {}
    <3>1. m.words # << >> => Len(m.words) > 0
      BY <2>1, EmptySeq DEF WordsOK
    <3> QED  BY <2>1, <3>1 DEF WordsOK, Last
  <2> QED  BY <2>1, <2>2 DEF ValidForm, HeaderWords, WordsOK
<1>2. CASE ChunkHolds(m, X, L)
  <2>1. /\ ~IsSmall(m) /\ StreamOK(m.chunks, 0, L) /\ StreamWords(m.chunks) = m.used - 1
        /\ m.used \in Nat /\ m.used <= m.cap
    BY <1>2, ChunkFields DEF Encodes
  <2>2. WellFormed(m.chunks)  BY <2>1, StreamIsWellFormed
  <2>3. m.used = HeaderWords + StreamWords(m.chunks)  BY <2>1 DEF HeaderWords
  <2> QED  BY <2>1, <2>2, <2>3 DEF ValidForm, Valid, Accounted
<1> QED  BY <1>1, <1>2 DEF Stores

----------------------------------------------------------------------------
(* The conversions between the two forms.                                  *)

\* A record with the five fields of a map.
IsMap(m) == m = [mode |-> m.mode, words |-> m.words, chunks |-> m.chunks,
                 used |-> m.used, cap |-> m.cap]

\* Every map that stores a set is one.
LEMMA StoresIsMap ==
  ASSUME NEW m, NEW X, NEW L, Stores(m, X, L)
  PROVE  IsMap(m) /\ m.cap \in Nat /\ m.used \in Nat /\ m.used <= m.cap /\ 1 <= m.used
<1>1. CASE SmallHolds(m, X)
  <2>1. IsMap(m)  BY <1>1 DEF SmallHolds, IsMap
  <2> QED  BY <1>1, <2>1, SmallFields
<1>2. CASE ChunkHolds(m, X, L)
  <2>1. m = Full(Plain(m))  BY <1>2, ChunkFields
  <2>2. IsMap(m)  BY <2>1 DEF Full, IsMap
  <2> QED  BY <1>2, <2>2, ChunkFields
<1> QED  BY <1>1, <1>2 DEF Stores

\* The two conversions, field by field.
LEMMA FormsAre ==
  ASSUME NEW m, IsMap(m), NEW words, NEW chunks, NEW used
  PROVE  /\ SmallForm(m, words) =
              [mode |-> "small", words |-> words, chunks |-> << >>,
               used |-> HeaderWords + Len(words), cap |-> m.cap]
         /\ ChunkForm(m, chunks, used) =
              Full([chunks |-> chunks, used |-> used, cap |-> m.cap])
<1> DEFINE w == HeaderWords + Len(words)
           none == << >>
<1> HIDE DEF w, none
<1> DEFINE a1 == [m EXCEPT !.mode = "small"]
           a2 == [a1 EXCEPT !.words = words]
           a3 == [a2 EXCEPT !.chunks = none]
           a4 == [a3 EXCEPT !.used = w]
           b1 == [m EXCEPT !.mode = "chunk"]
           b2 == [b1 EXCEPT !.words = none]
           b3 == [b2 EXCEPT !.chunks = chunks]
           b4 == [b3 EXCEPT !.used = used]
<1>1. a1 = [mode |-> "small", words |-> m.words, chunks |-> m.chunks,
            used |-> m.used, cap |-> m.cap]
  BY DEF IsMap
<1>2. b1 = [mode |-> "chunk", words |-> m.words, chunks |-> m.chunks,
            used |-> m.used, cap |-> m.cap]
  BY DEF IsMap
<1>3. SmallForm(m, words) = a4  BY Zenon DEF SmallForm, w, none
<1>4. ChunkForm(m, chunks, used) = b4  BY Zenon DEF ChunkForm, none
<1> HIDE DEF a1, b1
<1>5. a2 = [mode |-> "small", words |-> words, chunks |-> m.chunks,
            used |-> m.used, cap |-> m.cap]
  BY <1>1
<1>6. b2 = [mode |-> "chunk", words |-> none, chunks |-> m.chunks,
            used |-> m.used, cap |-> m.cap]
  BY <1>2
<1> HIDE DEF a2, b2
<1>7. a3 = [mode |-> "small", words |-> words, chunks |-> none,
            used |-> m.used, cap |-> m.cap]
  BY <1>5
<1>8. b3 = [mode |-> "chunk", words |-> none, chunks |-> chunks,
            used |-> m.used, cap |-> m.cap]
  BY <1>6
<1> HIDE DEF a3, b3
<1>9. a4 = [mode |-> "small", words |-> words, chunks |-> none,
            used |-> w, cap |-> m.cap]
  BY <1>7
<1>10. b4 = [mode |-> "chunk", words |-> none, chunks |-> chunks,
             used |-> used, cap |-> m.cap]
  BY <1>8
<1>11. Full([chunks |-> chunks, used |-> used, cap |-> m.cap]) = b4
  BY <1>10 DEF Full, none
<1> QED  BY <1>3, <1>4, <1>9, <1>11 DEF w, none

\* A map in the small form of words that fit.
LEMMA SmallFormHolds ==
  ASSUME NEW m, IsMap(m), m.cap \in Nat, NEW words, WordsOK(words), 1 + Len(words) <= m.cap
  PROVE  /\ SmallHolds(SmallForm(m, words), SmallBits(words))
         /\ SmallForm(m, words).words = words /\ SmallForm(m, words).cap = m.cap
         /\ SmallForm(m, words).used = 1 + Len(words)
<1> DEFINE r == SmallForm(m, words)
           used == HeaderWords + Len(words)
<1>1. r = [mode |-> "small", words |-> words, chunks |-> << >>, used |-> used, cap |-> m.cap]
  BY FormsAre
<1> HIDE DEF r, used
<1>2. r.words = words /\ r.cap = m.cap /\ r.used = used  BY <1>1
<1>3. used = HeaderWords + Len(words) /\ used = 1 + Len(words)  BY DEF used, HeaderWords
<1>4. SmallHolds(r, SmallBits(words))
  BY <1>1, <1>2, <1>3 DEF SmallHolds
<1> QED  BY <1>2, <1>3, <1>4 DEF r

\* A map in the chunk form of a chunk map.
LEMMA ChunkFormHolds ==
  ASSUME NEW m, IsMap(m), NEW X, NEW L, NEW chunks, NEW used,
         Fits([chunks |-> chunks, used |-> used, cap |-> m.cap], X, L)
  PROVE  /\ ChunkHolds(ChunkForm(m, chunks, used), X, L)
         /\ ChunkForm(m, chunks, used).chunks = chunks
         /\ ChunkForm(m, chunks, used).cap = m.cap
         /\ ChunkForm(m, chunks, used).used = used
<1> DEFINE q == [chunks |-> chunks, used |-> used, cap |-> m.cap]
           r == ChunkForm(m, chunks, used)
<1>1. r = Full(q)  BY FormsAre
<1>2. q.chunks = chunks /\ q.used = used /\ q.cap = m.cap
      /\ q = [chunks |-> q.chunks, used |-> q.used, cap |-> q.cap] /\ Fits(q, X, L)
  OBVIOUS
<1> HIDE DEF q, r
<1>3. r.chunks = q.chunks /\ r.used = q.used /\ r.cap = q.cap  BY <1>1, FullFields
<1>4. Plain(r) = q  BY <1>2, <1>3 DEF Plain
<1> QED  BY <1>1, <1>2, <1>3, <1>4 DEF ChunkHolds, r

\* A map without indices.
LEMMA EmptyHolds ==
  ASSUME NEW cap \in Nat, cap >= 1, NEW L, L \in Nat
  PROVE  /\ Fits([chunks |-> << >>, used |-> HeaderWords, cap |-> cap], {}, L)
         /\ ChunkHolds(EmptyMap(cap), {}, L)
         /\ EmptyMap(cap).cap = cap /\ EmptyMap(cap).chunks = << >>
<1> DEFINE none == << >>
           q == [chunks |-> none, used |-> HeaderWords, cap |-> cap]
           r == EmptyMap(cap)
<1>1. none \in Seq(Chunks) /\ StreamOK(none, 0, L) /\ Encodes(none, {}, 0)
  BY EmptyStream, HoldsNone, EmptySeq
<1>2. r = Full(q)  BY DEF EmptyMap, Full
<1> HIDE DEF none
<1>3. q.chunks = none /\ q.used = 1 /\ q.cap = cap
      /\ q \in [chunks : Seq(Chunks), used : Int, cap : Nat]
      /\ q = [chunks |-> q.chunks, used |-> q.used, cap |-> q.cap]
  BY <1>1 DEF HeaderWords
<1> HIDE DEF q, r
<1>4. q.used - HeaderWords = 0 /\ q.used <= q.cap  BY <1>3 DEF HeaderWords
<1>5. Fits(q, {}, L)  BY <1>1, <1>3, <1>4 DEF Fits, Keeps, MapOK
<1>6. r.chunks = q.chunks /\ r.used = q.used /\ r.cap = q.cap  BY <1>2, FullFields
<1>7. Plain(r) = q  BY <1>3, <1>6 DEF Plain
<1>8. ChunkHolds(r, {}, L)  BY <1>2, <1>5, <1>7 DEF ChunkHolds
<1> QED  BY <1>3, <1>5, <1>6, <1>8 DEF q, r, none

\* No words hold nothing.
LEMMA NoWords == WordsOK(<< >>) /\ SmallBits(<< >>) = {} /\ Len(<< >>) = 0
<1> DEFINE none == << >>
<1>1. none \in Seq(SUBSET Bit) /\ Len(none) = 0  BY EmptySeq
<1> HIDE DEF none
<1>2. WordsOK(none)  BY <1>1, SmallCovers DEF WordsOK
<1>3. \A i \in 0 .. SmallMaxBits - 1 : ~SmallHas(none, i)
  BY <1>1, SmallPlace DEF SmallHas
<1>4. SmallBits(none) = {}  BY <1>3 DEF SmallBits
<1> QED  BY <1>1, <1>2, <1>4 DEF none

----------------------------------------------------------------------------
(* __sm_small_add.                                                         *)

\* The words with one bit more.
WordsWith(words, i) ==
  [w \in 1 .. Greater(Len(words), WordOf(i)) |->
     (IF w <= Len(words) THEN words[w] ELSE {})
       \cup (IF w = WordOf(i) THEN {i % BitsPerVector} ELSE {})]

\* They hold that bit and the ones before.
LEMMA WordsWithHold ==
  ASSUME NEW words, WordsOK(words), NEW i \in Nat, i < SmallMaxBits
  PROVE  /\ WordsOK(WordsWith(words, i))
         /\ Len(WordsWith(words, i)) = Greater(Len(words), WordOf(i))
         /\ SmallBits(WordsWith(words, i)) = SmallBits(words) \cup {i}
<1> DEFINE n == Greater(Len(words), WordOf(i))
           t == WordsWith(words, i)
           k == WordOf(i)
           b == i % BitsPerVector
<1>1. /\ words \in Seq(SUBSET Bit) /\ Len(words) \in Nat /\ Len(words) <= SmallMaxWords
      /\ \A w \in 1 .. Len(words) : words[w] \in SUBSET Bit
      /\ Len(words) > 0 => words[Len(words)] # {}
  BY LenProperties DEF WordsOK
<1>2. /\ k \in Nat /\ k >= 1 /\ k <= SmallMaxWords /\ b \in Bit
      /\ \A x \in Nat : WordOf(x) \in Nat /\ WordOf(x) >= 1
  BY SmallPlace
<1>3. n \in Nat /\ Len(words) <= n /\ k <= n /\ n <= SmallMaxWords
      /\ (n = Len(words) \/ n = k)
  <2>1. n = Greater(Len(words), k)  OBVIOUS
  <2> HIDE DEF n, k, b
  <2> QED  BY ONLY <1>1, <1>2, <2>1, SmallCovers DEF Greater
<1>4. \A w \in 1 .. n : t[w] = (IF w <= Len(words) THEN words[w] ELSE {})
                                 \cup (IF w = k THEN {b} ELSE {})
  BY DEF WordsWith
<1>a. /\ DOMAIN t = 1 .. n
      /\ t = [w \in 1 .. n |-> (IF w <= Len(words) THEN words[w] ELSE {})
                                 \cup (IF w = k THEN {b} ELSE {})]
  BY DEF WordsWith
<1> HIDE DEF n, t, k, b
<1>5. ASSUME NEW w \in 1 .. n  PROVE t[w] \in SUBSET Bit
  <2>1. w <= Len(words) => w \in 1 .. Len(words)  BY <1>1, <1>3
  <2>2. w <= Len(words) => words[w] \in SUBSET Bit  BY <1>1, <2>1
  <2>3. t[w] = (IF w <= Len(words) THEN words[w] ELSE {}) \cup (IF w = k THEN {b} ELSE {})
    BY <1>4
  <2> QED  BY ONLY <1>2, <2>2, <2>3
<1>6. t \in Seq(SUBSET Bit) /\ Len(t) = n
  <2>1. t \in [1 .. n -> SUBSET Bit]  BY <1>5, <1>a
  <2> QED  BY <1>3, <2>1
<1>7. n > 0 /\ t[n] # {}
  <2>1. n \in 1 .. n  BY <1>2, <1>3
  <2>2. CASE n = k  BY <1>4, <2>1, <2>2
  <2>3. CASE n = Len(words)
    <3>1. words[n] # {} /\ words[n] \subseteq t[n]  BY <1>1, <1>4, <2>1, <2>3
    <3> QED  BY <2>1, <3>1
  <2> QED  BY <1>3, <2>2, <2>3
<1>8. ASSUME NEW x \in 0 .. SmallMaxBits - 1
      PROVE  SmallHas(t, x) <=> SmallHas(words, x) \/ x = i
  <2>1. /\ x \in Nat /\ WordOf(x) \in Nat /\ WordOf(x) >= 1
        /\ x = (WordOf(x) - 1) * BitsPerVector + (x % BitsPerVector)
        /\ i = (WordOf(i) - 1) * BitsPerVector + (i % BitsPerVector)
    BY SmallPlace
  <2>2. x = i <=> WordOf(x) = k /\ x % BitsPerVector = b  BY <2>1 DEF k, b
  <2>3. SmallHas(t, x) <=> WordOf(x) <= n /\ x % BitsPerVector \in t[WordOf(x)]
    BY <1>6 DEF SmallHas
  <2>4. SmallHas(words, x) <=>
          WordOf(x) <= Len(words) /\ x % BitsPerVector \in words[WordOf(x)]
    BY DEF SmallHas
  <2> DEFINE v == WordOf(x)
             r == x % BitsPerVector
  <2>5. v \in Nat /\ v >= 1  BY <2>1
  <2> HIDE DEF v, r
  <2>6. v <= n => (r \in t[v] <=> (v <= Len(words) /\ r \in words[v]) \/ (v = k /\ r = b))
    <3>1. ASSUME v <= n
          PROVE  r \in t[v] <=> (v <= Len(words) /\ r \in words[v]) \/ (v = k /\ r = b)
      <4>1. v \in 1 .. n  BY <1>3, <2>5, <3>1
      <4>2. t[v] = (IF v <= Len(words) THEN words[v] ELSE {}) \cup (IF v = k THEN {b} ELSE {})
        BY <1>4, <4>1
      <4> QED  BY <4>2
    <3> QED  BY <3>1
  <2>7. v <= Len(words) \/ v = k => v <= n  BY <1>1, <1>2, <1>3, <2>5
  <2> QED  BY <2>2, <2>3, <2>4, <2>6, <2>7 DEF v, r
<1>9. SmallBits(t) = SmallBits(words) \cup {i}
  <2>1. i \in 0 .. SmallMaxBits - 1  BY SmallCovers
  <2> QED  BY <1>8, <2>1 DEF SmallBits
<1>10. WordsOK(t)  BY <1>3, <1>6, <1>7 DEF WordsOK
<1> QED  BY <1>6, <1>9, <1>10 DEF t, n

\* __sm_small_add sets the bit, or has no room for its word.
LEMMA SmallAddHolds ==
  ASSUME NEW m, NEW X, SmallHolds(m, X), NEW i \in Nat, i < SmallMaxBits
  PROVE  /\ SmallAdd(m, i).ok \in BOOLEAN
         /\ SmallAdd(m, i).ok =>
              SmallHolds(SmallAdd(m, i).map, X \cup {i}) /\ SmallAdd(m, i).map.cap = m.cap
         /\ ~SmallAdd(m, i).ok => SmallAdd(m, i).map = m /\ m.cap < 1 + SmallMaxWords
<1> DEFINE t == WordsWith(m.words, i)
           n == Greater(Len(m.words), WordOf(i))
           r == SmallForm(m, t)
<1>1. /\ WordsOK(m.words) /\ X = SmallBits(m.words) /\ m.cap \in Nat
      /\ m.used = 1 + Len(m.words) /\ m.used <= m.cap /\ Len(m.words) \in Nat
  BY SmallFields DEF SmallHolds
<1>2. WordsOK(t) /\ Len(t) = n /\ SmallBits(t) = X \cup {i}  BY <1>1, WordsWithHold
<1>3. SmallAdd(m, i) = IF n > Len(m.words) /\ HeaderWords + n > m.cap
                       THEN Failed(m) ELSE Done(r)
  BY DEF SmallAdd, WordsWith
<1>4. n \in Nat /\ Len(m.words) <= n /\ n <= SmallMaxWords
  <2>1. Len(t) <= SmallMaxWords  BY <1>2 DEF WordsOK
  <2>2. WordOf(i) \in Nat  BY SmallPlace
  <2> QED  BY <1>1, <1>2, <2>1, <2>2 DEF Greater
<1>5. IsMap(m)  BY DEF SmallHolds, IsMap
<1> HIDE DEF n, t
<1>6. CASE n > Len(m.words) /\ HeaderWords + n > m.cap
  <2>1. SmallAdd(m, i) = Failed(m)  BY <1>3, <1>6
  <2>2. m.cap < 1 + SmallMaxWords
    BY <1>1, <1>4, <1>6, SmallCovers DEF HeaderWords
  <2> QED  BY <2>1, <2>2 DEF Failed
<1>7. CASE ~(n > Len(m.words) /\ HeaderWords + n > m.cap)
  <2>1. SmallAdd(m, i) = Done(r)  BY <1>3, <1>7
  <2>2. 1 + Len(t) <= m.cap  BY <1>1, <1>2, <1>4, <1>7 DEF HeaderWords
  <2>3. SmallHolds(r, SmallBits(t)) /\ r.cap = m.cap  BY <1>1, <1>2, <1>5, <2>2, SmallFormHolds
  <2> HIDE DEF r
  <2> QED  BY <1>2, <2>1, <2>3 DEF Done
<1> QED  BY <1>6, <1>7

----------------------------------------------------------------------------
(* A set of low indices, in each form.                                     *)

\* A later index is in the same word or in a later one.
LEMMA WordsAscend ==
  ASSUME NEW x \in Nat, NEW y \in Nat, x <= y
  PROVE  WordOf(x) <= WordOf(y)
<1> DEFINE v == WordOf(x)
           w == WordOf(y)
           b == x % BitsPerVector
           c == y % BitsPerVector
<1>1. /\ v \in Nat /\ w \in Nat /\ b \in Nat /\ c \in Nat /\ c < BitsPerVector
      /\ x = (v - 1) * BitsPerVector + b /\ y = (w - 1) * BitsPerVector + c
  BY SmallPlace, ChunkConstants DEF Bit
<1> HIDE DEF v, w, b, c
<1>2. ASSUME v > w  PROVE FALSE
  <2>1. PICK d \in Nat : v - 1 = w + d
    <3>1. (v - 1) - w \in Nat  BY <1>1, <1>2
    <3> QED  BY <1>1, <3>1
  <2>2. (v - 1) * BitsPerVector = w * BitsPerVector + d * BitsPerVector
    BY <1>1, <2>1, ChunkConstants
  <2>3. (w - 1) * BitsPerVector = w * BitsPerVector - BitsPerVector
    BY <1>1, ChunkConstants
  <2>4. d * BitsPerVector \in Nat /\ w * BitsPerVector \in Nat
    BY <1>1, <2>1, ChunkConstants
  <2> QED  BY <1>1, <2>2, <2>3, <2>4, ChunkConstants
<1> QED  BY <1>1, <1>2 DEF v, w

\* What __sm_try_demote writes holds the chunk's bits.
LEMMA WordsOfHold ==
  ASSUME NEW bits, bits \subseteq 0 .. SmallMaxBits - 1, bits # {}
  PROVE  /\ WordsOK(WordsOf(bits)) /\ SmallBits(WordsOf(bits)) = bits
         /\ Len(WordsOf(bits)) = WordOf(Max(bits)) /\ WordOf(Max(bits)) \in Nat
<1> DEFINE t == WordsOf(bits)
           top == Max(bits)
           n == WordOf(top)
<1>1. bits \in SUBSET Nat /\ \A y \in bits : y <= SmallMaxBits - 1
  BY SmallCovers
<1>2. SmallMaxBits - 1 \in Nat  BY SmallCovers
<1>3. top \in bits /\ top \in Nat /\ \A y \in bits : y <= top
  BY <1>1, <1>2, MaxIsGreatest
<1> HIDE DEF top
<1>4. top < SmallMaxBits  BY <1>3, SmallCovers
<1>5. n \in Nat /\ n >= 1 /\ n <= SmallMaxWords /\ top % BitsPerVector \in Bit
      /\ top = (n - 1) * BitsPerVector + (top % BitsPerVector)
  BY <1>3, <1>4, SmallPlace
<1>6. t = [w \in 1 .. n |-> {b \in Bit : (w - 1) * BitsPerVector + b \in bits}]
  BY DEF WordsOf, top
<1> HIDE DEF n, t
<1>7. \A w \in 1 .. n : t[w] = {b \in Bit : (w - 1) * BitsPerVector + b \in bits}
  BY <1>6
<1>8. t \in Seq(SUBSET Bit) /\ Len(t) = n
  <2>1. t \in [1 .. n -> SUBSET Bit]  BY <1>6
  <2> QED  BY <1>5, <2>1
<1>9. t[n] # {}
  <2>1. n \in 1 .. n  BY <1>5
  <2>2. top % BitsPerVector \in t[n]  BY <1>3, <1>5, <1>7, <2>1
  <2> QED  BY <2>2
<1>10. WordsOK(t)  BY <1>5, <1>8, <1>9 DEF WordsOK
<1>11. ASSUME NEW x \in 0 .. SmallMaxBits - 1
       PROVE  SmallHas(t, x) <=> x \in bits
  <2> DEFINE v == WordOf(x)
             r == x % BitsPerVector
  <2>1. x \in Nat /\ v \in Nat /\ v >= 1 /\ r \in Bit
        /\ x = (v - 1) * BitsPerVector + r
    BY SmallPlace
  <2>2. SmallHas(t, x) <=> v <= n /\ r \in t[v]  BY <1>8 DEF SmallHas
  <2>3. x \in bits => v <= n
    <3>1. ASSUME x \in bits  PROVE WordOf(x) <= WordOf(top)
      BY <1>3, <2>1, <3>1, WordsAscend
    <3> QED  BY <3>1 DEF n
  <2> HIDE DEF v, r
  <2>4. v <= n => (r \in t[v] <=> x \in bits)
    <3>1. ASSUME v <= n  PROVE r \in t[v] <=> x \in bits
      <4>1. v \in 1 .. n  BY <1>5, <2>1, <3>1
      <4>2. r \in t[v] <=> (v - 1) * BitsPerVector + r \in bits  BY <1>7, <2>1, <4>1
      <4> QED  BY <2>1, <4>2
    <3> QED  BY <3>1
  <2> QED  BY <2>2, <2>3, <2>4
<1>12. SmallBits(t) = bits  BY <1>11 DEF SmallBits
<1> QED  BY <1>5, <1>8, <1>10, <1>12 DEF t, n, top

\* The mixed words of the small form can be counted.
LEMMA MixedWordsFew ==
  ASSUME NEW words, WordsOK(words)
  PROVE  /\ IsFiniteSet(MixedWords(words)) /\ Cardinality(MixedWords(words)) \in Nat
         /\ Cardinality(MixedWords(words)) <= SmallMaxWords
         /\ SparseChunkWords(words) = 3 + Cardinality(MixedWords(words))
<1>1. Len(words) \in Nat /\ DOMAIN words = 1 .. Len(words) /\ Len(words) <= SmallMaxWords
  BY LenProperties DEF WordsOK
<1>2. IsFiniteSet(1 .. Len(words)) /\ Cardinality(1 .. Len(words)) = Len(words)
  <2> DEFINE n == Len(words)
  <2>1. n \in Nat /\ n \in Int /\ 1 \in Int  BY <1>1
  <2> HIDE DEF n
  <2>2. IsFiniteSet(1 .. n) /\ Cardinality(1 .. n) = IF 1 > n THEN 0 ELSE n - 1 + 1
    BY <2>1, FS_Interval
  <2>3. Cardinality(1 .. n) = n  BY <2>1, <2>2
  <2> QED  BY <2>2, <2>3 DEF n
<1>3. MixedWords(words) \in SUBSET (1 .. Len(words))  BY <1>1 DEF MixedWords
<1>4. /\ IsFiniteSet(MixedWords(words))
      /\ Cardinality(MixedWords(words)) <= Cardinality(1 .. Len(words))
  BY <1>2, <1>3, FS_Subset
<1>5. Cardinality(MixedWords(words)) \in Nat  BY <1>4, FS_CardinalityType
<1> QED  BY <1>1, <1>2, <1>4, <1>5, SmallCovers
         DEF SparseChunkWords, ChunkWords, HeaderWords

\* A canonical chunk of low indices begins the stream.
LEMMA LowChunkStarts ==
  ASSUME NEW c, Canonical(c), BitsOf(c) \subseteq 0 .. SmallMaxBits - 1
  PROVE  c.start = 0 /\ EndOf(c) \in Nat /\ ChunkCap <= EndOf(c)
<1>1. /\ c.start \in Nat /\ Boundary(c.start) /\ EndOf(c) \in Nat
      /\ c.start + ChunkCap <= EndOf(c)
  BY ChunkExtent DEF Canonical
<1>2. PICK x \in BitsOf(c) : TRUE  BY DEF Canonical
<1>3. x \in Nat /\ c.start <= x  BY <1>2 DEF BitsOf
<1>4. x < ChunkCap  BY <1>2, <1>3, SmallCovers, ChunkCapPositive
<1>5. 0 < c.start => 0 + ChunkCap <= c.start
  BY <1>1, BoundaryZero, BoundaryGap
<1> QED  BY <1>1, <1>3, <1>4, <1>5, ChunkCapPositive

\* Its mixed vectors are mixed words of the small form.
LEMMA MixedBecomeWords ==
  ASSUME NEW c, Canonical(c), ~IsRLE(c), c.start = 0,
         NEW words, WordsOK(words), BitsOf(c) = SmallBits(words)
  PROVE  Size(c) <= 1 + Cardinality(MixedWords(words))
<1> DEFINE M == Mixed(c.flag)
           N == MixedWords(words)
           f == [v \in M |-> v + 1]
<1>1. SparseOK(c) /\ ProperWords(c)  BY CanonicalNotEmpty
<1>2. /\ c \in SparseChunks /\ c.flag \in [Vec -> Flag] /\ c.data \in Seq(SUBSET Bit)
      /\ Len(c.data) = Cardinality(Mixed(c.flag)) /\ Len(c.data) \in Nat
  BY <1>1, SparseFields
<1>3. /\ Len(words) \in Nat /\ DOMAIN words = 1 .. Len(words)
      /\ Len(words) <= SmallMaxWords
  BY LenProperties DEF WordsOK
<1>4. M \subseteq Vec /\ M \subseteq Nat  BY ChunkConstants DEF Mixed, Vec
<1>5. ASSUME NEW v \in M  PROVE v + 1 \in N
  <2> DEFINE p == Position(c, v)
             word == c.data[p]
  <2>1. v \in Vec /\ c.flag[v] = "mixed"  BY DEF Mixed
  <2>2. p \in 1 .. Len(c.data)  BY <1>2, <2>1, PositionBounds
  <2>3. word \in SUBSET Bit /\ word \notin {{}, Bit}
    BY <1>1, <1>2, <2>2 DEF ProperWords
  <2>4. VectorBits(c, v) = word  BY <2>1 DEF VectorBits
  <2> HIDE DEF p, word
  <2>5. ASSUME NEW b \in Bit
        PROVE  b \in word <=> v + 1 <= Len(words) /\ b \in words[v + 1]
    <3> DEFINE k == v * BitsPerVector + b
    <3>1. k \in 0 .. ChunkCap - 1 /\ k \div BitsPerVector = v /\ k % BitsPerVector = b
      BY <2>1, BitPlace
    <3> HIDE DEF k
    <3>2. k \in Nat /\ k - c.start = k /\ WordOf(k) = v + 1
      BY <3>1, ChunkCapPositive DEF WordOf
    <3>3. IsSet(c, k) <=> b \in word  BY <1>1, <2>4, <3>1, IsSetVector
    <3>4. k \in BitsOf(c) <=> IsSet(c, k)  BY <1>1, <3>1, <3>2, HeldSparse
    <3>5. k \in SmallBits(words) <=> SmallHas(words, k)  BY <3>2, SmallHasBits
    <3>6. SmallHas(words, k) <=> v + 1 <= Len(words) /\ b \in words[v + 1]
      BY <3>1, <3>2 DEF SmallHas
    <3> QED  BY <3>3, <3>4, <3>5, <3>6
  <2>6. PICK b \in Bit : b \in word  BY <2>3
  <2>7. PICK d \in Bit : d \notin word  BY <2>3
  <2>8. v + 1 <= Len(words) /\ b \in words[v + 1]  BY <2>5, <2>6
  <2>9. d \notin words[v + 1]  BY <2>5, <2>7, <2>8
  <2>10. v + 1 \in 1 .. Len(words)  BY <1>3, <1>4, <2>8
  <2> QED  BY <1>3, <2>8, <2>9, <2>10 DEF MixedWords
<1>6. IsFiniteSet(N) /\ Cardinality(N) \in Nat  BY MixedWordsFew
<1>7. Cardinality(M) <= Cardinality(N)
  <2>1. f \in [M -> N]  BY <1>5
  <2>2. \A v, w \in M : f[v] = f[w] => v = w  BY <1>4
  <2>3. f \in Injection(M, N)  BY <2>1, <2>2 DEF Injection, IsInjective
  <2> HIDE DEF M, N, f
  <2> QED  BY <1>6, <2>3, FS_Injection
<1>8. Size(c) = 1 + Cardinality(M)  BY DEF Size
<1>9. Cardinality(M) \in Nat  BY <1>2
<1> HIDE DEF M
<1> QED  BY <1>6, <1>7, <1>8, <1>9

\* A chunk map of low indices has at most one chunk, and takes no more words
\* than __sm_small_chunk_bytes has for a chunk that is no run.
LEMMA LowMapIs ==
  ASSUME NEW q, NEW words, NEW L, WordsOK(words), Fits(q, SmallBits(words), L)
  PROVE  /\ q.used <= SparseChunkWords(words) /\ q.used <= 3 + SmallMaxWords
         /\ SmallBits(words) # {} => Len(q.chunks) = 1 /\ q.chunks[1].start = 0
         /\ SmallBits(words) = {} => q.chunks = << >> /\ q.used = 1
<1> DEFINE s == q.chunks
           X == SmallBits(words)
<1>1. /\ StreamOK(s, 0, L) /\ s \in Seq(Chunks) /\ Bits(s) = X
      /\ StreamWords(s) = q.used - 1 /\ q.used \in Int
      /\ \A j \in 1 .. Len(s) : Canonical(s[j])
  BY DEF Fits, Keeps, MapOK, Encodes, HeaderWords
<1>2. Len(s) \in Nat /\ \A j \in 1 .. Len(s) : s[j] \in Chunks  BY <1>1, LenProperties
<1>3. X \subseteq 0 .. SmallMaxBits - 1  BY SmallHasBits
<1>4. /\ Cardinality(MixedWords(words)) \in Nat
      /\ Cardinality(MixedWords(words)) <= SmallMaxWords
      /\ SparseChunkWords(words) = 3 + Cardinality(MixedWords(words))
  BY MixedWordsFew
<1> HIDE DEF s, X
<1>5. ASSUME NEW j \in 1 .. Len(s)
      PROVE  s[j].start = 0 /\ EndOf(s[j]) \in Nat /\ ChunkCap <= EndOf(s[j])
  <2>1. BitsOf(s[j]) \subseteq X  BY <1>1 DEF Bits
  <2> QED  BY <1>1, <1>3, <2>1, LowChunkStarts
<1>6. Len(s) <= 1
  <2>1. ASSUME Len(s) >= 2  PROVE FALSE
    <3>1. 1 \in 1 .. Len(s) /\ 2 \in 1 .. Len(s) /\ 1 < 2  BY <1>2, <2>1
    <3>2. EndOf(s[1]) <= s[2].start  BY <1>1, <3>1 DEF StreamOK
    <3> QED  BY <1>5, <3>1, <3>2, ChunkCapPositive
  <2> QED  BY <1>2, <2>1
<1>7. CASE Len(s) = 0
  <2>1. s = << >>  BY <1>1, <1>7, EmptySeq
  <2>2. Bits(s) = {}  BY <1>7 DEF Bits
  <2>3. q.used = 1  BY <1>1, <2>1, WordsNone
  <2> QED  BY <1>1, <1>4, <2>1, <2>2, <2>3, SmallCovers DEF s, X
<1>8. CASE Len(s) = 1
  <2> DEFINE c == s[1]
  <2>1. 1 \in 1 .. Len(s)  BY <1>8
  <2>2. Canonical(c) /\ c \in Chunks /\ c.start = 0  BY <1>1, <1>2, <1>5, <2>1
  <2>3. s = << c >> /\ s[1] = c  BY <1>1, <1>8
  <2> HIDE DEF c
  <2>4. BitsOf(c) = X
    <3>1. Bits(s) = BitsOf(c)  BY ONLY <1>8, <2>3 DEF Bits
    <3> QED  BY <1>1, <3>1
  <2>5. X # {}  BY <2>2, <2>4 DEF Canonical
  <2>6. StreamWords(s) = 1 + Size(c)  BY <2>2, <2>3, WordsOne
  <2>7. Size(c) <= 1 + Cardinality(MixedWords(words)) /\ Size(c) \in Nat
    <3>1. CASE IsRLE(c)
      <4>1. Size(c) = 1  BY <3>1 DEF Size
      <4> QED  BY <1>4, <4>1
    <3>2. CASE ~IsRLE(c)  BY <2>2, <2>4, <3>2, MixedBecomeWords, SizeIsNat DEF X
    <3> QED  BY <3>1, <3>2
  <2>8. q.used <= 3 + Cardinality(MixedWords(words))  BY <1>1, <1>4, <2>6, <2>7
  <2> QED  BY <1>1, <1>4, <1>8, <2>2, <2>5, <2>8, SmallCovers DEF s, X, c
<1>9. Len(s) = 0 \/ Len(s) = 1
  <2> DEFINE n == Len(s)
  <2>1. n \in Nat /\ n <= 1  BY <1>2, <1>6
  <2> HIDE DEF n
  <2>2. n = 0 \/ n = 1  BY ONLY <2>1
  <2> QED  BY <2>2 DEF n
<1> QED  BY <1>7, <1>8, <1>9

----------------------------------------------------------------------------
(* Loops.  A fold is what its body makes of the fold of one element fewer. *)

\* The bodies of the loops: a bit set again, a chunk counted, an index removed
\* or flipped, an operand built, a chunk coalesced.
LoopBody(loop, about, r, k) ==
  CASE loop = "set"    -> ReAddedBit(r, about, k - 1)
    [] loop = "count"  -> r + ChunkCount(about[k])
    [] loop = "remove" -> IF r.ok THEN RemoveIndex(r.map, about + k - 1) ELSE r
    [] loop = "flip"   -> IF ~r.ok THEN r
                          ELSE IF Holds(r.map, about + k - 1)
                               THEN RemoveIndex(r.map, about + k - 1)
                               ELSE AddIndex(r.map, about + k - 1)
    [] loop = "add each"    -> IF k - 1 \in about THEN AddIndex(r, k - 1).map ELSE r
    [] loop = "remove each" -> IF k - 1 \in about THEN RemoveIndex(r, k - 1).map ELSE r
    [] loop = "join"        -> Then(r, JoinOn)

\* What a fold over 1 .. n recurses through: for each part of 1 .. n what the
\* body has made of the base, taking the part's elements in order.
Iterates(it, loop, about, base, n) ==
  it = [t \in SUBSET (1 .. n) |->
          IF t = {} THEN base ELSE LoopBody(loop, about, it[t \ {Max(t)}], Max(t))]
Looped(loop, about, base, n) == (CHOOSE it : Iterates(it, loop, about, base, n))[1 .. n]

\* What holds at the beginning and is kept by each step holds at the end.
LEMMA StepByStep ==
  ASSUME NEW n \in Nat, NEW T, 0 \in T, \A k \in 1 .. n : k - 1 \in T => k \in T
  PROVE  \A k \in 0 .. n : k \in T
<1> DEFINE U == (0 .. n) \ T
<1>1. ASSUME U # {}  PROVE FALSE
  <2>1. U \in SUBSET Nat  OBVIOUS
  <2>2. PICK u \in U : \A y \in U : u <= y  BY <1>1, <2>1, LeastElement
  <2>3. u \in 0 .. n /\ u \notin T  BY <2>2
  <2>4. u # 0  BY <2>3
  <2>5. u \in 1 .. n /\ u - 1 \in 0 .. n /\ ~(u <= u - 1)  BY <2>3, <2>4
  <2>6. u - 1 \notin U  BY <2>2, <2>5
  <2>7. u - 1 \in T  BY <2>5, <2>6
  <2> QED  BY <2>3, <2>5, <2>7
<1> QED  BY <1>1

\* The greatest of a part that holds the last.
LEMMA MaxOfPart ==
  ASSUME NEW n \in Nat, NEW t \in SUBSET (1 .. n), t # {}
  PROVE  /\ Max(t) \in t /\ Max(t) \in 1 .. n
         /\ n \in t => Max(t) = n
<1>1. t \in SUBSET Nat /\ \A y \in t : y <= n  OBVIOUS
<1>2. Max(t) \in t /\ Max(t) \in Nat /\ Max(t) <= n /\ \A y \in t : y <= Max(t)
  BY <1>1, MaxIsGreatest
<1>3. n \in t => Max(t) = n
  <2>1. ASSUME n \in t  PROVE Max(t) = n
    <3>1. n <= Max(t)  BY <1>2, <2>1
    <3> QED  BY <1>2, <3>1
  <2> QED  BY <2>1
<1> QED  BY <1>2, <1>3

\* There is such a function for every length.
LEMMA LoopExists ==
  ASSUME NEW loop, NEW about, NEW base, NEW n \in Nat
  PROVE  \E it : Iterates(it, loop, about, base, n)
<1> DEFINE T == {k \in Nat : \E it : Iterates(it, loop, about, base, k)}
<1>1. 0 \in T
  <2> DEFINE g == [t \in SUBSET (1 .. 0) |-> base]
  <2>1. SUBSET (1 .. 0) = {{}}  OBVIOUS
  <2>2. g = [t \in SUBSET (1 .. 0) |->
               IF t = {} THEN base ELSE LoopBody(loop, about, g[t \ {Max(t)}], Max(t))]
    BY <2>1
  <2>3. Iterates(g, loop, about, base, 0)  BY <2>2 DEF Iterates
  <2> QED  BY <2>3
<1>2. ASSUME NEW k \in 1 .. n, k - 1 \in T  PROVE k \in T
  <2>1. PICK g : Iterates(g, loop, about, base, k - 1)  BY <1>2
  <2> DEFINE S == SUBSET (1 .. k - 1)
             R == SUBSET (1 .. k)
             h == [t \in R |-> IF k \in t THEN LoopBody(loop, about, g[t \ {k}], k)
                               ELSE g[t]]
  <2>2. \A t \in S : g[t] = IF t = {} THEN base
                            ELSE LoopBody(loop, about, g[t \ {Max(t)}], Max(t))
    BY <2>1 DEF Iterates
  <2>3. k \in Nat /\ k - 1 \in Nat  OBVIOUS
  <2>4. \A t \in R : h[t] = IF k \in t THEN LoopBody(loop, about, g[t \ {k}], k) ELSE g[t]
    OBVIOUS
  <2>5. ASSUME NEW t \in R
        PROVE  h[t] = IF t = {} THEN base
                      ELSE LoopBody(loop, about, h[t \ {Max(t)}], Max(t))
    <3>1. CASE k \in t
      <4>1. Max(t) = k  BY <2>3, <3>1, MaxOfPart
      <4>2. t \ {k} \in R /\ k \notin t \ {k} /\ t # {}  BY <3>1
      <4> HIDE DEF h, S, R
      <4>3. h[t \ {k}] = g[t \ {k}]  BY <2>4, <4>2
      <4>4. h[t] = LoopBody(loop, about, g[t \ {k}], k)  BY <2>4, <3>1
      <4> QED  BY <4>1, <4>2, <4>3, <4>4
    <3>2. CASE k \notin t
      <4>1. t \in S  BY <2>3, <3>2
      <4>2. CASE t = {}
        <5>1. h[t] = g[t]  BY <2>4, <3>2
        <5>2. g[t] = base  BY <2>2, <4>1, <4>2
        <5> QED  BY <4>2, <5>1, <5>2
      <4>3. CASE t # {}
        <5>1. Max(t) \in t  BY <2>3, <4>3, MaxOfPart
        <5>2. t \ {Max(t)} \in R /\ k \notin t \ {Max(t)}  BY <3>2
        <5> HIDE DEF h, S, R
        <5>3. h[t \ {Max(t)}] = g[t \ {Max(t)}] /\ h[t] = g[t]  BY <2>4, <3>2, <5>2
        <5>4. g[t] = LoopBody(loop, about, g[t \ {Max(t)}], Max(t))
          BY <2>2, <4>1, <4>3
        <5> QED  BY <4>3, <5>3, <5>4
      <4> QED  BY <4>2, <4>3
    <3> QED  BY <3>1, <3>2
  <2>6. h = [t \in R |-> IF t = {} THEN base
                         ELSE LoopBody(loop, about, h[t \ {Max(t)}], Max(t))]
    <3>1. h = [t \in R |-> h[t]]  OBVIOUS
    <3> HIDE DEF h, R
    <3> QED  BY <2>5, <3>1
  <2>7. Iterates(h, loop, about, base, k)  BY <2>6 DEF Iterates
  <2> QED  BY <2>3, <2>7
<1>3. n \in 0 .. n  OBVIOUS
<1> HIDE DEF T
<1>4. n \in T  BY <1>1, <1>2, <1>3, StepByStep
<1> QED  BY <1>4 DEF T

\* So a loop is its steps, one after the other.
LEMMA LoopUnfolds ==
  ASSUME NEW loop, NEW about, NEW base, NEW n \in Nat
  PROVE  \E f : /\ Looped(loop, about, base, n) = f[n] /\ f[0] = base
                /\ \A k \in 1 .. n : f[k] = LoopBody(loop, about, f[k - 1], k)
<1> DEFINE it == CHOOSE g : Iterates(g, loop, about, base, n)
           f == [k \in 0 .. n |-> it[1 .. k]]
<1>1. Iterates(it, loop, about, base, n)  BY LoopExists
<1>2. Looped(loop, about, base, n) = it[1 .. n]  BY DEF Looped
<1> HIDE DEF it
<1>3. \A t \in SUBSET (1 .. n) :
        it[t] = IF t = {} THEN base
                ELSE LoopBody(loop, about, it[t \ {Max(t)}], Max(t))
  BY <1>1 DEF Iterates
<1>4. f[n] = it[1 .. n]  OBVIOUS
<1>5. f[0] = base
  <2>1. 1 .. 0 = {} /\ {} \in SUBSET (1 .. n)  OBVIOUS
  <2>2. it[{}] = base  BY <1>3, <2>1
  <2> QED  BY <2>1, <2>2
<1>6. ASSUME NEW k \in 1 .. n  PROVE f[k] = LoopBody(loop, about, f[k - 1], k)
  <2>1. k \in Nat /\ k \in 1 .. k /\ 1 .. k # {} /\ 1 .. k \in SUBSET (1 .. n)  OBVIOUS
  <2>2. Max(1 .. k) = k
    <3>1. 1 .. k \in SUBSET (1 .. k)  OBVIOUS
    <3> QED  BY <2>1, <3>1, MaxOfPart
  <2>3. (1 .. k) \ {k} = 1 .. k - 1  OBVIOUS
  <2>4. it[1 .. k] = LoopBody(loop, about, it[1 .. k - 1], k)
    BY <1>3, <2>1, <2>2, <2>3
  <2>5. f[k] = it[1 .. k] /\ f[k - 1] = it[1 .. k - 1]  OBVIOUS
  <2> QED  BY <2>4, <2>5
<1> HIDE DEF f
<1> QED  BY <1>2, <1>4, <1>5, <1>6

\* The loop of __sm_promote.
LEMMA ReAddedLoops ==
  ASSUME NEW m, NEW n \in Nat
  PROVE  ReAdded(m, n) = Looped("set", m, Done(ChunkForm(m, << >>, HeaderWords)), n)
<1> DEFINE base == Done(ChunkForm(m, << >>, HeaderWords))
           s == [k \in 1 .. n |-> k]
           G(it, t) == Then(it[t \ {Max(t)}], LAMBDA q : ReAddedBit(q, m, s[Max(t)] - 1))
           A(it) == it = [t \in SUBSET DOMAIN s |-> IF t = {} THEN base ELSE G(it, t)]
<1>1. ReAdded(m, n) = (CHOOSE it : A(it))[DOMAIN s]
  BY DEF ReAdded, FoldLeft, MapThenFoldSet
<1>2. ASSUME NEW it, NEW t
      PROVE  G(it, t) = ReAddedBit(it[t \ {Max(t)}], m, s[Max(t)] - 1)
  <2> DEFINE r == it[t \ {Max(t)}]
             k == s[Max(t)] - 1
  <2>1. {ReAddedBit(z, m, k) : z \in {r}} = {ReAddedBit(r, m, k)}  OBVIOUS
  <2>2. G(it, t) = (CHOOSE y \in {ReAddedBit(z, m, k) : z \in {r}} : TRUE)
    BY DEF Then
  <2> QED  BY <2>1, <2>2
<1>3. DOMAIN s = 1 .. n  OBVIOUS
<1>4. ASSUME NEW it  PROVE A(it) <=> Iterates(it, "set", m, base, n)
  <2>1. \A t \in SUBSET (1 .. n) : t # {} =>
          LoopBody("set", m, it[t \ {Max(t)}], Max(t)) = G(it, t)
    <3>1. \A t \in SUBSET (1 .. n) : t # {} => s[Max(t)] = Max(t)  BY MaxOfPart
    <3> HIDE DEF s, G
    <3> QED  BY <1>2, <3>1 DEF LoopBody
  <2> HIDE DEF s, base, G
  <2> QED  BY <1>3, <2>1 DEF Iterates
<1> HIDE DEF A, s, G
<1>5. (CHOOSE it : A(it)) = (CHOOSE it : Iterates(it, "set", m, base, n))
  BY <1>4, Zenon
<1> QED  BY <1>1, <1>3, <1>5 DEF Looped

----------------------------------------------------------------------------
(* The room a call needs.                                                  *)

\* A chunk of a prefix and at most one more bit has two payload words, and one
\* when that bit is outside its window.
LEMMA FewMixed ==
  ASSUME NEW c, SparseOK(c), ProperWords(c), NEW n \in Nat, NEW p \in Int,
         \A k \in 0 .. ChunkCap - 1 : IsSet(c, k) <=> k < n \/ k = p
  PROVE  /\ Size(c) \in Nat /\ Size(c) <= 3
         /\ p \notin 0 .. ChunkCap - 1 => Size(c) <= 2
<1> DEFINE f == n \div BitsPerVector
           r == n % BitsPerVector
           g == p \div BitsPerVector
           M == Mixed(c.flag)
<1>1. f \in Nat /\ r \in Bit /\ n = f * BitsPerVector + r  BY WordSplit
<1>2. r \in Nat /\ r <= BitsPerVector  BY <1>1, ChunkConstants DEF Bit
<1>3. /\ c \in SparseChunks /\ c.data \in Seq(SUBSET Bit) /\ Len(c.data) \in Nat
      /\ Len(c.data) = Cardinality(M)
  BY SparseFields
<1>4. M \subseteq Vec  BY DEF Mixed
<1> HIDE DEF f, r
<1>5. ASSUME NEW v \in M
      PROVE  v = f \/ (p \in 0 .. ChunkCap - 1 /\ v = g)
  <2> DEFINE word == c.data[Position(c, v)]
  <2>1. v \in Vec /\ v \in Nat /\ c.flag[v] = "mixed"
    BY <1>4, ChunkConstants DEF Mixed, Vec
  <2>2. Position(c, v) \in 1 .. Len(c.data)  BY <1>3, <2>1, PositionBounds
  <2>3. word \in SUBSET Bit /\ word \notin {{}, Bit}
    BY <1>3, <2>2 DEF ProperWords
  <2>4. VectorBits(c, v) = word  BY <2>1 DEF VectorBits
  <2> HIDE DEF word
  <2>5. PICK b \in Bit : b \in word  BY <2>3
  <2>6. PICK d \in Bit : d \notin word  BY <2>3
  <2> DEFINE x == v * BitsPerVector + b
             y == v * BitsPerVector + d
  <2>7. /\ x \in 0 .. ChunkCap - 1 /\ x \div BitsPerVector = v /\ x % BitsPerVector = b
        /\ y \in 0 .. ChunkCap - 1 /\ y \div BitsPerVector = v /\ y % BitsPerVector = d
    BY <2>1, BitPlace
  <2>8. x < n <=> v < f \/ (v = f /\ b < r)
    BY <1>1, <1>2, <2>1, PlaceBelow
  <2>9. y < n <=> v < f \/ (v = f /\ d < r)
    BY <1>1, <1>2, <2>1, PlaceBelow
  <2> HIDE DEF x, y
  <2>10. IsSet(c, x) /\ ~IsSet(c, y)  BY <2>4, <2>5, <2>6, <2>7, IsSetVector
  <2>11. (x < n \/ x = p) /\ ~(y < n)  BY <2>7, <2>10
  <2> QED  BY <2>7, <2>8, <2>9, <2>11 DEF g
<1> HIDE DEF g, M
<1>6. Cardinality({f}) = 1 /\ IsFiniteSet({f})  BY FS_Singleton
<1>7. /\ IsFiniteSet({f} \cup {g})
      /\ Cardinality({f} \cup {g}) \in Nat /\ Cardinality({f} \cup {g}) <= 2
  <2>1. /\ IsFiniteSet({f} \cup {g})
        /\ Cardinality({f} \cup {g}) = IF g \in {f} THEN Cardinality({f})
                                       ELSE Cardinality({f}) + 1
    BY <1>6, FS_AddElement
  <2> QED  BY <1>6, <2>1
<1>a. Cardinality(M) \in Nat
  <2> DEFINE z == Len(c.data)
  <2>1. z \in Nat /\ z = Cardinality(M)  BY <1>3
  <2> QED  BY <2>1
<1>8. Cardinality(M) <= 2
  <2>1. M \in SUBSET ({f} \cup {g})  BY <1>5
  <2>2. Cardinality(M) <= Cardinality({f} \cup {g})  BY <1>7, <2>1, FS_Subset
  <2> DEFINE y == Cardinality({f} \cup {g})
             z == Cardinality(M)
  <2>3. y \in Nat /\ y <= 2 /\ z \in Nat /\ z <= y  BY <1>7, <1>a, <2>2
  <2> HIDE DEF y, z
  <2>4. z <= 2  BY <2>3
  <2> QED  BY <2>4 DEF z
<1>9. p \notin 0 .. ChunkCap - 1 => Cardinality(M) <= 1
  <2>1. ASSUME p \notin 0 .. ChunkCap - 1  PROVE Cardinality(M) <= 1
    <3>1. M \in SUBSET {f}  BY <1>5, <2>1
    <3>2. Cardinality(M) <= Cardinality({f})  BY <1>6, <3>1, FS_Subset
    <3> QED  BY <1>6, <3>2
  <2> QED  BY <2>1
<1>10. Size(c) = 1 + Len(c.data)  BY SparseSize
<1> DEFINE z == Len(c.data)
<1> HIDE DEF z
<1>11. z \in Nat /\ z = Cardinality(M) /\ Size(c) = 1 + z  BY <1>3, <1>10 DEF z
<1> QED  BY <1>8, <1>9, <1>11

\* What a part of a separated run takes when i is set past the run.
LEMMA PartIsSmall ==
  ASSUME NEW s, NEW lo, NEW hi, StreamOK(s, lo, hi), NEW j \in 1 .. Len(s),
         Canonical(s[j]), NEW a \in Nat, NEW end \in Nat, a <= s[j].start, NEW i \in Nat,
         Bits(s) = (a .. end - 1) \cup {i}
  PROVE  /\ Size(s[j]) \in Nat /\ Size(s[j]) <= 3
         /\ i \notin BitsOf(s[j]) => Size(s[j]) <= 2
<1> DEFINE c == s[j]
           n == IF end < c.start THEN 0 ELSE end - c.start
           p == i - c.start
<1>1. CASE IsRLE(s[j])
  <2>1. Size(s[j]) = 1  BY <1>1, RunIsCanonical DEF Canonical
  <2> QED  BY <2>1
<1>2. CASE ~IsRLE(s[j])
  <2>1. SparseOK(c) /\ ProperWords(c)  BY <1>2, CanonicalNotEmpty
  <2>2. /\ c.start \in Nat /\ EndOf(c) = c.start + ChunkCap
        /\ \A x \in Nat : x \in BitsOf(c) <=>
             x - c.start \in 0 .. ChunkCap - 1 /\ IsSet(c, x - c.start)
    BY <2>1, HeldSparse
  <2>3. a <= c.start /\ c = s[j]  OBVIOUS
  <2> HIDE DEF c
  <2>4. n \in Nat /\ p \in Int  BY <2>2
  <2>5. ASSUME NEW k \in 0 .. ChunkCap - 1  PROVE IsSet(c, k) <=> k < n \/ k = p
    <3> DEFINE x == c.start + k
    <3>1. x \in Nat /\ x - c.start = k
      <4>1. c.start \in Nat /\ k \in Nat  BY <2>2, ChunkCapPositive
      <4> QED  BY <4>1
    <3>2. x \in a .. end - 1 \/ x = i <=> k < n \/ k = p
      <4>1. k \in Nat /\ c.start \in Nat /\ c.start >= a  BY <2>2, <2>3, ChunkCapPositive
      <4>2. x \in a .. end - 1 <=> x < end
        <5>1. x \in Int /\ a <= x  BY <4>1
        <5> HIDE DEF x
        <5> QED  BY <5>1
      <4>3. x < end <=> k < n
        <5>1. CASE end < c.start  BY <4>1, <5>1
        <5>2. CASE ~(end < c.start)  BY <4>1, <5>2
        <5> QED  BY <5>1, <5>2
      <4>4. x = i <=> k = p  BY <4>1
      <4> QED  BY ONLY <4>2, <4>3, <4>4
    <3> HIDE DEF x, n, p
    <3>3. x \in BitsOf(c) <=> IsSet(c, k)  BY <2>2, <3>1
    <3>4. x \in BitsOf(c) => x \in Bits(s)  BY <2>3 DEF Bits
    <3>5. x \in Bits(s) => x \in BitsOf(c)
      <4>1. ASSUME x \in Bits(s)  PROVE x \in BitsOf(c)
        <5>1. PICK q \in 1 .. Len(s) : x \in BitsOf(s[q])  BY <4>1 DEF Bits
        <5>2. /\ s[q].start <= x /\ x < EndOf(s[q])
              /\ s[q].start \in Nat /\ EndOf(s[q]) \in Nat
          BY <5>1, ChunkExtent DEF BitsOf, StreamOK
        <5>3. c.start <= x /\ x < EndOf(c) /\ EndOf(c) \in Nat
          BY <2>2, <3>1, ChunkCapPositive
        <5>4. ~(q < j)
          <6>1. q < j => EndOf(s[q]) <= c.start  BY <2>3 DEF StreamOK
          <6> QED  BY <2>2, <3>1, <5>2, <5>3, <6>1
        <5>5. ~(j < q)
          <6>1. j < q => EndOf(c) <= s[q].start  BY <2>3 DEF StreamOK
          <6> QED  BY <2>2, <3>1, <5>2, <5>3, <6>1
        <5>6. q = j  BY <5>4, <5>5, LenProperties DEF StreamOK
        <5> QED  BY <2>3, <5>1, <5>6
      <4> QED  BY <4>1
    <3> QED  BY <3>2, <3>3, <3>4, <3>5
  <2>6. i \notin BitsOf(c) => p \notin 0 .. ChunkCap - 1 \/ p < n
    <3>1. ASSUME i \notin BitsOf(c), p \in 0 .. ChunkCap - 1  PROVE FALSE
      <4>1. IsSet(c, p)  BY <2>5, <3>1
      <4> QED  BY <2>2, <3>1, <4>1
    <3> QED  BY <3>1
  <2>7. i \notin BitsOf(c) => p \notin 0 .. ChunkCap - 1
    <3>1. ASSUME i \notin BitsOf(c), p \in 0 .. ChunkCap - 1  PROVE FALSE
      <4>1. IsSet(c, p)  BY <2>5, <3>1
      <4> QED  BY <2>2, <3>1, <4>1
    <3> QED  BY <3>1
  <2> HIDE DEF n, p
  <2>8. Size(c) \in Nat /\ Size(c) <= 3 /\ (p \notin 0 .. ChunkCap - 1 => Size(c) <= 2)
    BY <2>1, <2>4, <2>5, FewMixed
  <2> QED  BY <2>3, <2>7, <2>8
<1> QED  BY <1>1, <1>2

\* The parts of a run that is separated to set an index past it.
LEMMA PartsAreFew ==
  ASSUME NEW t, NEW i, Separates(t, i, TRUE)
  PROVE  /\ StreamWords(Separated(t, i, TRUE)) \in Nat
         /\ StreamWords(Separated(t, i, TRUE)) <= 7
<1> DEFINE parts == Separated(t, i, TRUE)
           isSet == TRUE
           a == t.start
           end == t.start + t.len
<1> HIDE DEF isSet
<1>0. /\ ChunkOK(t) /\ IsRLE(t) /\ EndOf(t) <= RLEMax
      /\ i \in Nat /\ t.start <= i /\ i < EndOf(t) /\ i > t.start + t.len
  BY DEF Separates
<1>1. /\ Encodes(parts, AfterSeparation(t, i, TRUE), StreamWords(parts))
      /\ Len(parts) = 1 \/ Len(parts) = 2
  <2>1. Separates(t, i, isSet) /\ isSet  BY DEF isSet
  <2>2. /\ Encodes(Separated(t, i, isSet), AfterSeparation(t, i, isSet),
                   StreamWords(Separated(t, i, isSet)))
        /\ isSet => \/ Len(Separated(t, i, isSet)) = 1
                    \/ /\ Len(Separated(t, i, isSet)) = 2
                       /\ RunLength(Separated(t, i, isSet)[2]) = 0
    BY ONLY <2>1, SeparatedHolds
  <2> QED  BY <2>1, <2>2 DEF isSet
<1>2. StreamOK(parts, t.start, EndOf(t))
  <2>1. isSet \in BOOLEAN /\ (isSet \/ i < t.start + t.len)  BY DEF isSet
  <2>2. /\ StreamOK(Separated(t, i, isSet), t.start, EndOf(t))
        /\ Len(Separated(t, i, isSet)) >= 1
        /\ Separated(t, i, isSet)[1].start = t.start
    BY ONLY <1>0, <2>1, SeparatedOK
  <2> QED  BY <2>2 DEF isSet
<1>3. t.start \in Nat /\ t.len \in Nat /\ BitsOf(t) = t.start .. t.start + t.len - 1
  BY <1>0, RunFields
<1> HIDE DEF parts, a, end
<1>4. a \in Nat /\ end \in Nat  BY <1>3 DEF a, end
<1>5. Bits(parts) = (a .. end - 1) \cup {i}
  BY <1>1, <1>3 DEF Encodes, AfterSeparation, a, end
<1>6. parts \in Seq(Chunks) /\ \A j \in 1 .. Len(parts) : Canonical(parts[j])
  BY <1>1 DEF Encodes
<1>7. ASSUME NEW j \in 1 .. Len(parts)
      PROVE  /\ Size(parts[j]) \in Nat /\ Size(parts[j]) <= 3
             /\ i \notin BitsOf(parts[j]) => Size(parts[j]) <= 2
             /\ parts[j] \in Chunks
  <2>1. a <= parts[j].start /\ parts[j] \in Chunks
    BY <1>2 DEF StreamOK, ChunkOK, a
  <2> QED  BY <1>0, <1>2, <1>4, <1>5, <1>6, <2>1, PartIsSmall
<1>8. CASE Len(parts) = 1
  <2>1. 1 \in 1 .. Len(parts) /\ parts = << parts[1] >>  BY <1>6, <1>8
  <2>2. StreamWords(parts) = 1 + Size(parts[1])
    <3> DEFINE c == parts[1]
    <3>1. c \in Chunks /\ parts = << c >>  BY <1>7, <2>1
    <3> HIDE DEF c
    <3>2. StreamWords(parts) = 1 + Size(c)  BY <3>1, WordsOne
    <3> QED  BY <3>2 DEF c
  <2> DEFINE w == StreamWords(parts)
             z == Size(parts[1])
  <2>3. w = 1 + z /\ z \in Nat /\ z <= 3  BY <1>7, <2>1, <2>2
  <2> HIDE DEF w, z
  <2>4. w \in Nat /\ w <= 7  BY <2>3
  <2> QED  BY <2>4 DEF w, parts
<1>9. CASE Len(parts) = 2
  <2> DEFINE c == parts[1]
             d == parts[2]
  <2>1. 1 \in 1 .. Len(parts) /\ 2 \in 1 .. Len(parts)  BY <1>9
  <2>2. parts = << c, d >>  BY <1>6, <1>9
  <2>3. /\ c \in Chunks /\ Size(c) \in Nat /\ Size(c) <= 3
        /\ i \notin BitsOf(c) => Size(c) <= 2
        /\ d \in Chunks /\ Size(d) \in Nat /\ Size(d) <= 3
        /\ i \notin BitsOf(d) => Size(d) <= 2
    BY <1>7, <2>1
  <2>4. i \notin BitsOf(c) \/ i \notin BitsOf(d)
    BY <1>2, <2>1, HeldApart
  <2> HIDE DEF c, d
  <2>5. << c, d >> = << c >> \o << d >>
    <3> DEFINE u == << c >>
               v == << d >>
    <3>1. /\ u \in Seq(Chunks) /\ v \in Seq(Chunks) /\ Len(u) = 1 /\ Len(v) = 1
          /\ u[1] = c /\ v[1] = d
      BY <2>3
    <3> HIDE DEF u, v
    <3>2. /\ u \o v \in Seq(Chunks) /\ Len(u \o v) = Len(u) + Len(v)
          /\ \A k \in 1 .. Len(u) + Len(v) :
               (u \o v)[k] = IF k <= Len(u) THEN u[k] ELSE v[k - Len(u)]
      BY <3>1, ConcatProperties
    <3>3. /\ Len(u \o v) = 2 /\ 1 \in 1 .. 1 + 1 /\ 2 \in 1 .. 1 + 1
          /\ 1 <= 1 /\ ~(2 <= 1) /\ 2 - 1 = 1
      BY <3>1, <3>2
    <3>4. (u \o v)[1] = c /\ (u \o v)[2] = d  BY ONLY <3>1, <3>2, <3>3
    <3> DEFINE w == u \o v
    <3>5. w \in Seq(Chunks) /\ Len(w) = 2 /\ w[1] = c /\ w[2] = d
      BY <3>2, <3>3, <3>4
    <3> HIDE DEF w
    <3>6. w = << c, d >>  BY ONLY <3>5
    <3> QED  BY <3>6 DEF u, v, w
  <2>6. << c >> \in Seq(Chunks) /\ << d >> \in Seq(Chunks)  BY <2>3
  <2>7. StreamWords(<< c >> \o << d >>) = StreamWords(<< c >>) + StreamWords(<< d >>)
    BY <2>6, WordsConcat
  <2>8. StreamWords(<< c >>) = 1 + Size(c) /\ StreamWords(<< d >>) = 1 + Size(d)
    BY <2>3, WordsOne
  <2>9. StreamWords(parts) = (1 + Size(c)) + (1 + Size(d))  BY <2>2, <2>5, <2>7, <2>8
  <2> DEFINE w == StreamWords(parts)
  <2> HIDE DEF w
  <2>10. w = (1 + Size(c)) + (1 + Size(d))  BY <2>9 DEF w
  <2>11. w \in Nat /\ w <= 7  BY <2>3, <2>4, <2>10
  <2> QED  BY <2>11 DEF w, parts
<1> QED  BY <1>1, <1>8, <1>9 DEF parts

\* Six words to spare are enough for sm_add on a chunk map.
LEMMA MapSetHasRoom ==
  ASSUME NEW m, NEW X, NEW i, NEW L, Limit(L), Fits(m, X, L), i \in Nat, i < L,
         m.used + 6 <= m.cap
  PROVE  MapSet(m, i).ok
<1> DEFINE s == m.chunks
           j == Locate(s, i)
<1>1. /\ StreamOK(s, 0, L) /\ m.used \in Int /\ m.cap \in Nat
  BY DEF Fits, Keeps, MapOK
<1>2. HasRoom(m, 2) /\ HasRoom(m, 3)  BY <1>1 DEF HasRoom, HeaderWords
<1>3. \A k, start : InsertNew(m, k, i, start).ok  BY <1>2 DEF InsertNew, Done
<1>4. CASE s = << >>
  <2>1. MapSet(m, i) = InsertNew(m, 1, i, AlignedOffset(i))  BY <1>2, <1>4 DEF MapSet
  <2> QED  BY <1>3, <2>1
<1>5. CASE s # << >>
  <2>1. /\ j \in 1 .. Len(s) /\ Len(s) \in Nat
        /\ \A k \in 1 .. j - 1 : EndOf(s[k]) <= i
        /\ j < Len(s) => i < EndOf(s[j])
    <3>1. Len(s) \in Nat /\ i \in Int  BY <1>1, LenProperties DEF StreamOK
    <3> HIDE DEF s
    <3> QED  BY <1>1, <1>5, <3>1, LocateProperties
  <2> DEFINE c == s[j]
  <2>2. ChunkOK(c)  BY <1>1, <2>1 DEF StreamOK
  <2>3. WithWholeWindow(m, j, i) = m
    <3>1. IsRLE(c) \/ Capacity(c) = ChunkCap  BY <2>2, RunLengthBounds
    <3> HIDE DEF j
    <3> QED  BY <3>1, ChunkCapPositive DEF WithWholeWindow
  <2>4. CASE i < c.start
    <3>1. MapSet(m, i) = InsertNew(m, j, i, c.start)  BY <1>2, <1>5, <2>4 DEF MapSet
    <3> QED  BY <1>3, <3>1
  <2>5. CASE ~(i < c.start)
    <3>1. MapSet(m, i) = SetFrom(m, j, i)  BY <1>2, <1>5, <2>3, <2>5 DEF MapSet
    <3> HIDE DEF j
    <3>2. SetPastRun(m, j, i).ok \/ ~(IsRLE(c) /\ i - c.start < c.cap /\ i - c.start > c.len)
      <4>1. ASSUME IsRLE(c), i - c.start < c.cap, i - c.start > c.len
            PROVE  SetPastRun(m, j, i).ok
        <5> DEFINE parts == Separated(c, i, TRUE)
        <5>1. /\ c.start \in Nat /\ c.len \in Nat /\ c.cap \in Nat
              /\ EndOf(c) = c.start + c.cap /\ EndOf(c) \in Nat
          BY <2>2, <4>1, RunFields
        <5>2. EndOf(c) <= L  BY <1>1, <2>1 DEF StreamOK
        <5>3. Separates(c, i, TRUE)
          <6> HIDE DEF c
          <6>1. EndOf(c) <= RLEMax  BY <5>1, <5>2, ChunkConstants DEF Limit
          <6>2. i < EndOf(c) /\ i > c.start + c.len /\ c.start <= i
            BY <2>5, <4>1, <5>1
          <6> QED  BY <2>2, <4>1, <6>1, <6>2 DEF Separates
        <5> HIDE DEF c
        <5>4. StreamWords(parts) \in Nat /\ StreamWords(parts) <= 7
          BY <5>3, PartsAreFew
        <5> HIDE DEF parts
        <5>5. HasRoom(m, StreamWords(parts) - 2)
          BY <1>1, <5>4 DEF HasRoom, HeaderWords
        <5>6. Separate(m, j, i, TRUE).ok
          BY <5>5 DEF Separate, SeparateInto, parts, c, Done
        <5> QED  BY <5>6 DEF SetPastRun, Done
      <4> QED  BY <4>1
    <3>3. \A len, cap : SetRun(m, j, len, cap, i).ok  BY DEF SetRun, Done
    <3>4. SetInPlace(m, j, i).ok  BY DEF SetInPlace, Done
    <3>5. IsRLE(c) => c.len \in Nat /\ c.cap \in Nat /\ c.start \in Nat
      <4> HIDE DEF c
      <4> QED  BY <2>2, RunFields
    <3>6. IsRLE(c) => i - c.start < c.len \/ i - c.start = c.len \/ i - c.start > c.len
      <4> HIDE DEF c
      <4> QED  BY <3>5
    <3>7. IsRLE(c) /\ i - c.start < c.cap => i - c.start <= c.cap
      <4> HIDE DEF c
      <4> QED  BY <3>5
    <3> DEFINE start == c.start
               y == RunCapacity(s, j, c.start, i - start + 1)
    <3>8. SetFrom(m, j, i).ok
      <4>1. \A q : Done(q).ok  BY DEF Done
      <4> HIDE DEF start
      <4> QED  BY <1>3, <3>2, <3>3, <3>4, <3>6, <3>7, <4>1 DEF SetFrom
    <3> QED  BY <3>1, <3>8
  <2> QED  BY <2>4, <2>5
<1> QED  BY <1>4, <1>5

----------------------------------------------------------------------------
(* The calls on chunks, for a map in the chunk form; and promotion.        *)

\* A limit that holds the first window.
Covers(L) == Limit(L) /\ ChunkCap <= L

\* A chunk map with its two more fields.
LEMMA FullHolds ==
  ASSUME NEW size, NEW q, IsPlain(q, size), NEW X, NEW L, Fits(q, X, L)
  PROVE  ChunkHolds(Full(q), X, L) /\ Full(q).cap = size
<1>1. Plain(Full(q)) = q /\ q.cap = size
  <2> DEFINE f == Full(q)
  <2>1. f.chunks = q.chunks /\ f.used = q.used /\ f.cap = q.cap  BY FullFields
  <2> HIDE DEF f
  <2>2. q.cap = size /\ q = [chunks |-> q.chunks, used |-> q.used, cap |-> q.cap]
    BY DEF IsPlain
  <2>3. Plain(f) = q  BY <2>1, <2>2 DEF Plain
  <2> QED  BY <2>2, <2>3 DEF f
<1> QED  BY <1>1, FullFields DEF ChunkHolds

\* What an outcome on a chunk map says of the same call on a map.
LEMMA FullOutcome ==
  ASSUME NEW size, NEW r, NEW q, NEW m, NEW to, NEW exact, NEW L,
         IsOutcome(r, size), q = Plain(m), m = Full(q), m.cap = size,
         CallKeeps(r, q, to, exact, L), NEW o, o = FullResult(r)
  PROVE  /\ o.ok <=> r.ok
         /\ o.map.cap = m.cap
         /\ o.ok => \E Y : ChunkHolds(o.map, Y, L)
         /\ o.ok /\ exact => ChunkHolds(o.map, to, L)
         /\ ~o.ok => o.map = m
<1>1. o.map = Full(r.map) /\ o.ok = r.ok  BY DEF FullResult
<1>2. IsPlain(r.map, size)  BY DEF IsOutcome
<1>3. o.map.cap = size
  <2>1. r.map.cap = size  BY <1>2 DEF IsPlain
  <2> QED  BY <1>1, <2>1, FullFields
<1>4. ASSUME o.ok  PROVE \E Y : ChunkHolds(o.map, Y, L)
  <2>1. PICK Y : Fits(r.map, Y, L)  BY <1>1, <1>4 DEF CallKeeps
  <2> QED  BY <1>1, <1>2, <2>1, FullHolds
<1>5. ASSUME o.ok, exact  PROVE ChunkHolds(o.map, to, L)
  <2>1. Fits(r.map, to, L)  BY <1>1, <1>5 DEF CallKeeps
  <2> QED  BY <1>1, <1>2, <2>1, FullHolds
<1>6. ASSUME ~o.ok  PROVE o.map = m
  <2>1. r.map = q  BY <1>1, <1>6 DEF CallKeeps
  <2> QED  BY <1>1, <2>1
<1> QED  BY <1>1, <1>3, <1>4, <1>5, <1>6

\* __sm_map_set on a map in the chunk form.
LEMMA ChunkSetHolds ==
  ASSUME NEW m, NEW X, NEW L, Limit(L), ChunkHolds(m, X, L), NEW i \in Nat, i < L
  PROVE  /\ MapSet(m, i).map.cap = m.cap
         /\ MapSet(m, i).ok => ChunkHolds(MapSet(m, i).map, X \cup {i}, L)
         /\ ~MapSet(m, i).ok => MapSet(m, i).map = m
         /\ m.used + 6 <= m.cap => MapSet(m, i).ok
<1> DEFINE q == Plain(m)
           r == MapSet(q, i)
           o == MapSet(m, i)
           size == m.cap
           to == X \cup {i}
           exact == TRUE
<1>1. m = Full(q) /\ IsPlain(q, size) /\ Fits(q, X, L) /\ q.used = m.used /\ q.cap = m.cap
  BY ChunkFields
<1> HIDE DEF q, size
<1>2. MapSet(Full(q), i) = FullResult(r) /\ IsOutcome(r, size)
  <2> HIDE DEF r
  <2> QED  BY <1>1, FullMapSet DEF r
<1>3. o = FullResult(r)  BY <1>1, <1>2
<1>4. CallKeeps(r, q, to, exact, L)  BY <1>1, MapSetKeeps
<1>5. m.used + 6 <= m.cap => r.ok  BY <1>1, MapSetHasRoom
<1>6. q = Plain(m) /\ m.cap = size  BY DEF q, size
<1>7. exact  OBVIOUS
<1> HIDE DEF r, o, to, exact
<1>8. /\ o.ok <=> r.ok
      /\ o.map.cap = m.cap
      /\ o.ok => \E Y : ChunkHolds(o.map, Y, L)
      /\ o.ok /\ exact => ChunkHolds(o.map, to, L)
      /\ ~o.ok => o.map = m
  BY <1>1, <1>2, <1>3, <1>4, <1>6, FullOutcome
<1> QED  BY <1>5, <1>7, <1>8 DEF o, to

\* The stale start harms the same calls.
LEMMA JoinsByChunks ==
  ASSUME NEW m, NEW i
  PROVE  JoinsAcrossRemoved(Plain(m), i) <=> JoinsAcrossRemoved(m, i)
<1>1. Plain(m).chunks = m.chunks  BY DEF Plain
<1> DEFINE q == Plain(m)
<1> HIDE DEF q
<1> QED  BY <1>1 DEF JoinsAcrossRemoved, q

\* __sm_map_unset on a map in the chunk form.
LEMMA ChunkUnsetHolds ==
  ASSUME NEW m, NEW X, NEW L, Limit(L), ChunkHolds(m, X, L), NEW i \in Nat
  PROVE  /\ MapUnset(m, i).map.cap = m.cap
         /\ MapUnset(m, i).ok => \E Y : ChunkHolds(MapUnset(m, i).map, Y, L)
         /\ MapUnset(m, i).ok /\ ~JoinsAcrossRemoved(m, i) =>
              ChunkHolds(MapUnset(m, i).map, X \ {i}, L)
         /\ ~MapUnset(m, i).ok => MapUnset(m, i).map = m
<1> DEFINE q == Plain(m)
           r == MapUnset(q, i)
           o == MapUnset(m, i)
           size == m.cap
           to == X \ {i}
           exact == ~JoinsAcrossRemoved(q, i)
<1>1. m = Full(q) /\ IsPlain(q, size) /\ Fits(q, X, L)
  BY ChunkFields
<1>a. exact <=> ~JoinsAcrossRemoved(m, i)  BY JoinsByChunks
<1> HIDE DEF q, size
<1>2. MapUnset(Full(q), i) = FullResult(r) /\ IsOutcome(r, size)
  <2> HIDE DEF r
  <2> QED  BY <1>1, FullMapUnset DEF r
<1>3. o = FullResult(r)  BY <1>1, <1>2
<1>4. CallKeeps(r, q, to, exact, L)  BY <1>1, MapUnsetKeeps
<1>6. q = Plain(m) /\ m.cap = size  BY DEF q, size
<1> HIDE DEF r, o, to, exact
<1>8. /\ o.ok <=> r.ok
      /\ o.map.cap = m.cap
      /\ o.ok => \E Y : ChunkHolds(o.map, Y, L)
      /\ o.ok /\ exact => ChunkHolds(o.map, to, L)
      /\ ~o.ok => o.map = m
  BY <1>1, <1>2, <1>3, <1>4, <1>6, FullOutcome
<1> QED  BY <1>a, <1>8 DEF o, to

\* A chunk map of low indices takes few words.
LEMMA LowUsed ==
  ASSUME NEW m, NEW X, NEW L, ChunkHolds(m, X, L), X \subseteq 0 .. SmallMaxBits - 1
  PROVE  m.used \in Nat /\ m.used <= 3 + SmallMaxWords
<1>1. m.used \in Nat /\ Fits(Plain(m), X, L) /\ Plain(m).used = m.used  BY ChunkFields
<1>2. PICK words : WordsOK(words) /\ SmallBits(words) = X
  <2>1. CASE X = {}  BY <2>1, NoWords
  <2>2. CASE X # {}  BY <2>2, WordsOfHold
  <2> QED  BY <2>1, <2>2
<1>3. Plain(m).used <= 3 + SmallMaxWords  BY <1>1, <1>2, LowMapIs
<1> QED  BY <1>1, <1>3

\* The run from 0 that the words are.
LEMMA RunFromZeroIs ==
  ASSUME NEW words, WordsOK(words)
  PROVE  /\ RunFromZero(words) \in Nat /\ RunFromZero(words) <= SmallMaxBits
         /\ RunFromZero(words) # 0 => SmallBits(words) = 0 .. RunFromZero(words) - 1
<1> DEFINE X == SmallBits(words)
           n == Cardinality(X)
           top == SmallMaxBits - 1
<1>1. X \subseteq 0 .. top  BY SmallHasBits
<1>2. top \in Nat /\ SmallMaxBits = top + 1  BY SmallCovers
<1>3. RunFromZero(words) = IF X = 0 .. n - 1 THEN n ELSE 0  BY DEF RunFromZero
<1> HIDE DEF X, top
<1>4. IsFiniteSet(0 .. top) /\ Cardinality(0 .. top) = top + 1
  <2>1. 0 \in Int /\ top \in Int  BY <1>2
  <2>2. /\ IsFiniteSet(0 .. top)
        /\ Cardinality(0 .. top) = IF 0 > top THEN 0 ELSE top - 0 + 1
    BY <2>1, FS_Interval
  <2> QED  BY <1>2, <2>2
<1>5. IsFiniteSet(X) /\ n <= top + 1
  <2>1. X \in SUBSET (0 .. top)  BY <1>1
  <2>2. IsFiniteSet(X) /\ Cardinality(X) <= Cardinality(0 .. top)
    BY <1>4, <2>1, FS_Subset
  <2> QED  BY <1>4, <2>2
<1>6. n \in Nat  BY <1>5, FS_CardinalityType
<1> HIDE DEF n
<1> QED  BY <1>2, <1>3, <1>5, <1>6 DEF X

\* A short run is written as one chunk.
LEMMA RunFormHolds ==
  ASSUME NEW m, NEW X, SmallHolds(m, X), ShortRun(m), NEW L, Covers(L)
  PROVE  /\ RunForm(m).ok /\ RunForm(m).map.cap = m.cap
         /\ ChunkHolds(RunForm(m).map, X, L)
         /\ RunForm(m).map.used = 3
<1> DEFINE n == RunFromZero(m.words)
           c == RLEChunk(0, n, ChunkCap)
           s == << c >>
           q == [chunks |-> s, used |-> ChunkWords, cap |-> m.cap]
<1>1. /\ WordsOK(m.words) /\ X = SmallBits(m.words) /\ m.cap \in Nat /\ IsMap(m)
  BY SmallFields DEF SmallHolds, IsMap
<1>2. ChunkWords = 3 /\ 3 <= m.cap /\ n % BitsPerVector # 0
  BY DEF ShortRun, ChunkWords, HeaderWords
<1>3. /\ n \in Nat /\ n <= SmallMaxBits
      /\ n # 0 => SmallBits(m.words) = 0 .. n - 1
  BY <1>1, RunFromZeroIs
<1> HIDE DEF n
<1>4. n # 0
  <2>1. 0 % BitsPerVector = 0  BY ChunkConstants
  <2> QED  BY <1>2, <2>1
<1>5. n \in 1 .. ChunkCap /\ X = 0 .. n - 1
  BY <1>1, <1>3, <1>4, SmallCovers, ChunkCapPositive
<1>6. /\ ChunkOK(c)
      /\ c = [kind |-> "rle", start |-> 0, len |-> n, cap |-> ChunkCap]
  <2>1. 0 \in Nat /\ Boundary(0) /\ ChunkCap \in Nat /\ Boundary(ChunkCap)
        /\ ChunkCap <= RLEMax
    BY BoundaryZero, ChunkCapPositive, SmallConstants
  <2> QED  BY <1>5, <2>1, RLEChunkOK
<1> HIDE DEF c
<1>7. IsRLE(c) /\ c.start = 0 /\ c.len = n /\ c.cap = ChunkCap  BY <1>6 DEF IsRLE
<1>8. /\ Canonical(c) /\ Size(c) = 1 /\ BitsOf(c) = c.start .. c.start + c.len - 1
  BY <1>6, <1>7, RunIsCanonical
<1>9. BitsOf(c) = X /\ EndOf(c) = ChunkCap
  <2>1. Capacity(c) = c.cap  BY <1>6, <1>7, RunLengthBounds
  <2> QED  BY <1>3, <1>5, <1>7, <1>8, <2>1, ChunkCapPositive DEF EndOf
<1>10. Encodes(s, X, 2)
  <2>1. Encodes(<< c >>, BitsOf(c), 1 + Size(c))  BY <1>8, HoldsOne
  <2> QED  BY <1>8, <1>9, <2>1
<1>11. StreamOK(s, 0, L)
  <2>1. L \in Int /\ 0 \in Int /\ 0 <= c.start /\ EndOf(c) <= L
    BY <1>7, <1>9 DEF Covers, Limit
  <2> QED  BY <1>6, <2>1, OneChunkStream
<1>12. Fits(q, X, L)
  <2>1. s \in Seq(Chunks)  BY <1>10 DEF Encodes
  <2> HIDE DEF s
  <2>2. q.chunks = s /\ q.used = 3 /\ q.cap = m.cap
        /\ q \in [chunks : Seq(Chunks), used : Int, cap : Nat]
    BY <1>1, <1>2, <2>1
  <2> HIDE DEF q
  <2>3. q.used - HeaderWords = 2  BY <2>2 DEF HeaderWords
  <2> QED  BY <1>2, <1>10, <1>11, <2>2, <2>3 DEF Fits, Keeps, MapOK
<1>13. RunForm(m) = Done(ChunkForm(m, s, ChunkWords))  BY DEF RunForm, n, c
<1> HIDE DEF s, q
<1> DEFINE r == ChunkForm(m, s, ChunkWords)
<1>14. ChunkHolds(r, X, L) /\ r.cap = m.cap /\ r.used = ChunkWords
  <2>1. Fits([chunks |-> s, used |-> ChunkWords, cap |-> m.cap], X, L)  BY <1>12 DEF q
  <2> QED  BY <1>1, <2>1, ChunkFormHolds
<1> HIDE DEF r
<1> QED  BY <1>2, <1>13, <1>14 DEF Done, r

\* After so many steps of the loop of __sm_promote: the bits so far, or no room.
Progress(r, m, X, L) ==
  /\ r.map.cap = m.cap
  /\ r.ok => ChunkHolds(r.map, X, L)
  /\ m.cap >= SmallMaxWords + 9 => r.ok

\* Each step of it.
LEMMA ReAddStep ==
  ASSUME NEW m, NEW X, SmallHolds(m, X), NEW L, Covers(L), NEW r, NEW i \in Nat,
         Progress(r, m, X \cap (0 .. i - 1), L)
  PROVE  Progress(ReAddedBit(r, m, i), m, X \cap (0 .. i), L)
<1> DEFINE Y == X \cap (0 .. i - 1)
           Z == X \cap (0 .. i)
           o == MapSet(r.map, i)
<1>1. WordsOK(m.words) /\ X = SmallBits(m.words) /\ m.cap \in Nat
  BY SmallFields DEF SmallHolds
<1>2. X \subseteq 0 .. SmallMaxBits - 1 /\ (SmallHas(m.words, i) <=> i \in X)
  BY <1>1, SmallHasBits
<1>3. CASE r.ok /\ SmallHas(m.words, i)
  <2>1. ReAddedBit(r, m, i) = o  BY <1>3 DEF ReAddedBit
  <2>2. Z = Y \cup {i} /\ Y \subseteq 0 .. SmallMaxBits - 1  BY <1>2, <1>3
  <2>3. i < L  BY <1>2, <1>3, SmallCovers, ChunkCapPositive DEF Covers, Limit
  <2>4. ChunkHolds(r.map, Y, L) /\ r.map.cap = m.cap  BY <1>3 DEF Progress
  <2> HIDE DEF Y, Z, o
  <2>5. /\ o.map.cap = r.map.cap
        /\ o.ok => ChunkHolds(o.map, Y \cup {i}, L)
        /\ r.map.used + 6 <= r.map.cap => o.ok
    <3>1. Limit(L)  BY DEF Covers
    <3> QED  BY <2>3, <2>4, <3>1, ChunkSetHolds DEF o
  <2>6. m.cap >= SmallMaxWords + 9 => r.map.used + 6 <= r.map.cap
    <3>1. r.map.used \in Nat /\ r.map.used <= 3 + SmallMaxWords
      BY <2>2, <2>4, LowUsed
    <3> QED  BY <1>1, <2>4, <3>1, SmallCovers
  <2>7. Progress(o, m, Z, L)  BY <2>2, <2>4, <2>5, <2>6 DEF Progress
  <2> QED  BY <2>1, <2>7 DEF Z
<1>4. CASE ~(r.ok /\ SmallHas(m.words, i))
  <2>1. ReAddedBit(r, m, i) = r  BY <1>4 DEF ReAddedBit
  <2>2. r.ok => Z = Y  BY <1>2, <1>4
  <2> HIDE DEF Y, Z
  <2>3. Progress(r, m, Z, L)  BY <2>2 DEF Progress, Y
  <2> QED  BY <2>1, <2>3 DEF Z
<1> QED  BY <1>3, <1>4

\* The whole of it.
LEMMA ReAddedHolds ==
  ASSUME NEW m, NEW X, SmallHolds(m, X), NEW L, Covers(L)
  PROVE  Progress(ReAdded(m, SmallMaxBits), m, X, L)
<1> DEFINE base == Done(ChunkForm(m, << >>, HeaderWords))
           n == SmallMaxBits
<1>1. n \in Nat /\ X \subseteq 0 .. n - 1
  BY SmallCovers, SmallHasBits DEF SmallHolds
<1> HIDE DEF n
<1>2. PICK f : /\ Looped("set", m, base, n) = f[n] /\ f[0] = base
               /\ \A k \in 1 .. n : f[k] = LoopBody("set", m, f[k - 1], k)
  <2> DEFINE loop == "set"
             from == base
  <2> HIDE DEF loop, from
  <2>1. \E f : /\ Looped(loop, m, from, n) = f[n] /\ f[0] = from
              /\ \A k \in 1 .. n : f[k] = LoopBody(loop, m, f[k - 1], k)
    BY <1>1, LoopUnfolds
  <2> QED  BY <2>1 DEF loop, from
<1> DEFINE T == {k \in 0 .. n : Progress(f[k], m, X \cap (0 .. k - 1), L)}
<1>3. 0 \in T
  <2>1. m.cap \in Nat /\ 1 <= m.cap /\ IsMap(m)
    BY SmallFields DEF SmallHolds, IsMap
  <2>2. Fits([chunks |-> << >>, used |-> HeaderWords, cap |-> m.cap], {}, L)
    BY <2>1, EmptyHolds DEF Covers, Limit
  <2> DEFINE none == << >>
             r == ChunkForm(m, none, HeaderWords)
  <2> HIDE DEF none
  <2>3. ChunkHolds(r, {}, L) /\ r.cap = m.cap
    <3>1. Fits([chunks |-> none, used |-> HeaderWords, cap |-> m.cap], {}, L)
      BY <2>2 DEF none
    <3> QED  BY <2>1, <3>1, ChunkFormHolds
  <2>4. base = Done(r)  BY DEF none
  <2> HIDE DEF r, base
  <2>5. base.map = r /\ base.ok  BY <2>4 DEF Done
  <2>6. X \cap (0 .. 0 - 1) = {}  OBVIOUS
  <2>7. Progress(base, m, X \cap (0 .. 0 - 1), L)  BY <2>3, <2>5, <2>6 DEF Progress
  <2>8. 0 \in 0 .. n  BY <1>1
  <2> QED  BY <1>2, <2>7, <2>8
<1> HIDE DEF base
<1>4. ASSUME NEW k \in 1 .. n, k - 1 \in T  PROVE k \in T
  <2> DEFINE i == k - 1
  <2>1. i \in Nat /\ k \in 0 .. n  BY <1>1
  <2>2. f[k] = ReAddedBit(f[i], m, i)  BY <1>2 DEF LoopBody
  <2>3. Progress(f[i], m, X \cap (0 .. i - 1), L)  BY <1>4
  <2> HIDE DEF i
  <2>4. Progress(ReAddedBit(f[i], m, i), m, X \cap (0 .. i), L)  BY <2>1, <2>3, ReAddStep
  <2>5. Progress(f[k], m, X \cap (0 .. k - 1), L)  BY <2>2, <2>4 DEF i
  <2> QED  BY <2>1, <2>5
<1>5. n \in T
  <2>1. n \in 0 .. n  BY <1>1
  <2> HIDE DEF T
  <2> QED  BY <1>1, <1>3, <1>4, <2>1, StepByStep
<1>6. ReAdded(m, n) = f[n]
  <2>1. ReAdded(m, n) = Looped("set", m, base, n)  BY <1>1, ReAddedLoops DEF base
  <2> QED  BY <1>2, <2>1
<1>7. X \cap (0 .. n - 1) = X  BY <1>1
<1> QED  BY <1>5, <1>6, <1>7 DEF n

\* __sm_promote makes the map one of chunks, or leaves it as it was; with room
\* for every step it does.
LEMMA PromoteHolds ==
  ASSUME NEW m, NEW X, SmallHolds(m, X), NEW L, Covers(L)
  PROVE  /\ Promote(m).map.cap = m.cap
         /\ Promote(m).ok => ChunkHolds(Promote(m).map, X, L)
         /\ ~Promote(m).ok => Promote(m).map = m
         /\ m.cap >= SmallMaxWords + 9 => Promote(m).ok
<1>1. CASE ShortRun(m)
  <2>1. Promote(m) = RunForm(m)  BY <1>1 DEF Promote
  <2>2. /\ RunForm(m).ok /\ RunForm(m).map.cap = m.cap
        /\ ChunkHolds(RunForm(m).map, X, L)
    BY <1>1, RunFormHolds
  <2> QED  BY <2>1, <2>2
<1>2. CASE ~ShortRun(m)
  <2> DEFINE r == ReAdded(m, SmallMaxBits)
  <2>1. Progress(r, m, X, L)  BY ReAddedHolds
  <2> HIDE DEF r
  <2>2. Promote(m) = OrSmall(r, m)
    <3>1. {OrSmall(z, m) : z \in {r}} = {OrSmall(r, m)}  OBVIOUS
    <3>2. Promote(m) = (CHOOSE y \in {OrSmall(z, m) : z \in {r}} : TRUE)
      BY <1>2 DEF Promote, Then, r
    <3> QED  BY <3>1, <3>2
  <2>3. CASE r.ok
    <3>1. Promote(m) = r  BY <2>2, <2>3 DEF OrSmall
    <3> QED  BY <2>1, <2>3, <3>1 DEF Progress
  <2>4. CASE ~r.ok
    <3>1. Promote(m) = Failed(m)  BY <2>2, <2>4 DEF OrSmall
    <3> QED  BY <2>1, <2>4, <3>1 DEF Progress, Failed
  <2> QED  BY <2>3, <2>4
<1> QED  BY <1>1, <1>2

----------------------------------------------------------------------------
(* Demotion.                                                               *)

\* A map of chunks that takes less room than the small form of its bits, if
\* they have one.
LeanChunks(m, X) ==
  X \subseteq 0 .. SmallMaxBits - 1 /\ X # {} => m.used < HeaderWords + WordOf(Max(X))

\* The one chunk of a low map has all its bits in the first window, or all of
\* the window.
LEMMA LowChunkBits ==
  ASSUME NEW m, NEW X, NEW L, ChunkHolds(m, X, L), LowChunk(m)
  PROVE  /\ ChunkBits(m.chunks[1]) = X \cap (0 .. ChunkCap - 1)
         /\ ChunkBits(m.chunks[1]) # {}
         /\ X = ChunkBits(m.chunks[1]) \/ ChunkCap - 1 \in ChunkBits(m.chunks[1])
<1> DEFINE c == m.chunks[1]
<1>1. /\ m.chunks \in Seq(Chunks) /\ Bits(m.chunks) = X
      /\ \A j \in 1 .. Len(m.chunks) : Canonical(m.chunks[j])
  BY ChunkFields DEF Encodes
<1>2. Len(m.chunks) = 1 /\ c.start = 0  BY DEF LowChunk
<1>3. Canonical(c) /\ X = BitsOf(c)
  <2>1. 1 \in 1 .. Len(m.chunks)  BY <1>2
  <2>2. Bits(m.chunks) = BitsOf(c)  BY ONLY <1>2 DEF Bits
  <2> QED  BY <1>1, <2>1, <2>2
<1>4. ChunkOK(c) /\ BitsOf(c) # {}  BY <1>3 DEF Canonical
<1> HIDE DEF c
<1>5. /\ EndOf(c) \in Nat /\ ChunkCap <= EndOf(c)
  <2>1. EndOf(c) \in Nat /\ c.start + ChunkCap <= EndOf(c)  BY <1>4, ChunkExtent
  <2> QED  BY <1>2, <2>1, ChunkCapPositive
<1>6. ChunkBits(c) = BitsOf(c) \cap (0 .. ChunkCap - 1)
  <2>1. ASSUME NEW x \in 0 .. ChunkCap - 1  PROVE x \in BitsOf(c) <=> IsSet(c, x)
    <3>1. x \in Nat /\ c.start <= x /\ x < EndOf(c) /\ x - c.start = x
      BY <1>2, <1>5, ChunkCapPositive
    <3> QED  BY <3>1 DEF BitsOf
  <2> QED  BY <2>1 DEF ChunkBits
<1>7. CASE IsRLE(c)
  <2>1. c.len \in Nat /\ c.len >= 1 /\ BitsOf(c) = c.start .. c.start + c.len - 1
    BY <1>4, <1>7, RunIsCanonical
  <2>2. BitsOf(c) = 0 .. c.len - 1  BY <1>2, <2>1
  <2> DEFINE n == c.len
  <2> HIDE DEF n
  <2>3. n \in Nat /\ n >= 1 /\ BitsOf(c) = 0 .. n - 1  BY <2>1, <2>2 DEF n
  <2>4. 0 \in ChunkBits(c)  BY <1>6, <2>3, ChunkCapPositive
  <2>5. n <= ChunkCap => BitsOf(c) = ChunkBits(c)  BY <1>6, <2>3, ChunkCapPositive
  <2>6. n > ChunkCap => ChunkCap - 1 \in ChunkBits(c)
    BY <1>6, <2>3, ChunkCapPositive
  <2> QED  BY <1>3, <1>6, <2>3, <2>4, <2>5, <2>6, ChunkCapPositive DEF c
<1>8. CASE ~IsRLE(c)
  <2>1. EndOf(c) = ChunkCap
    <3>1. SparseOK(c)  BY <1>4, <1>8, SparseIsOK
    <3>2. EndOf(c) = c.start + ChunkCap  BY <3>1, HeldSparse
    <3> QED  BY <1>2, <3>2, ChunkCapPositive
  <2>2. BitsOf(c) \subseteq 0 .. ChunkCap - 1
    BY <2>1, ChunkCapPositive DEF BitsOf
  <2> QED  BY <1>3, <1>4, <1>6, <2>2 DEF c
<1> QED  BY <1>7, <1>8

\* __sm_try_demote keeps what the map holds, in a small form that is no larger
\* than the chunk was, or in chunks that are smaller than a small form.
LEMMA TryDemoteHolds ==
  ASSUME NEW m, NEW X, NEW L, ChunkHolds(m, X, L), NEW r, r = TryDemote(m)
  PROVE  /\ r.cap = m.cap
         /\ \/ SmallHolds(r, X) /\ r.used <= SparseChunkWords(r.words)
            \/ r = m /\ LeanChunks(m, X)
<1> DEFINE bits == ChunkBits(m.chunks[1])
           n == WordOf(Max(bits))
           f == SmallForm(m, WordsOf(bits))
<1>0. /\ Fits(Plain(m), X, L) /\ Plain(m).used = m.used /\ Plain(m).chunks = m.chunks
      /\ m.used \in Nat /\ m.cap \in Nat /\ m.used <= m.cap /\ ~IsSmall(m)
  BY ChunkFields
<1>1. ASSUME X \subseteq 0 .. SmallMaxBits - 1, X # {}  PROVE LowChunk(m)
  <2>1. PICK words : WordsOK(words) /\ SmallBits(words) = X
    BY <1>1, WordsOfHold
  <2>2. Len(Plain(m).chunks) = 1 /\ Plain(m).chunks[1].start = 0
    BY <1>0, <1>1, <2>1, LowMapIs
  <2> QED  BY <1>0, <2>2 DEF LowChunk
<1>2. CASE ~LowChunk(m)
  <2>1. r = m  BY <1>2 DEF TryDemote
  <2> QED  BY <1>1, <1>2, <2>1 DEF LeanChunks
<1>3. CASE LowChunk(m)
  <2>1. /\ bits = X \cap (0 .. ChunkCap - 1) /\ bits # {}
        /\ X = bits \/ ChunkCap - 1 \in bits
    BY <1>3, LowChunkBits
  <2>2. r = FewestWords(m, bits)
    <3> HIDE DEF bits
    <3>1. {FewestWords(m, z) : z \in {bits}} = {FewestWords(m, bits)}  OBVIOUS
    <3>2. TryDemote(m) = (CHOOSE y \in {FewestWords(m, z) : z \in {bits}} : TRUE)
      BY <1>3 DEF TryDemote, Then, bits
    <3> QED  BY <3>1, <3>2
  <2> HIDE DEF bits
  <2>3. /\ Max(bits) \in bits /\ Max(bits) \in Nat /\ \A y \in bits : y <= Max(bits)
    <3>1. bits \in SUBSET Nat /\ ChunkCap - 1 \in Nat /\ \A y \in bits : y <= ChunkCap - 1
      BY <2>1, ChunkCapPositive
    <3> QED  BY <2>1, <3>1, MaxIsGreatest
  <2> DEFINE better == SmallIsBetter(Max(bits), HeaderWords + n, m.used)
  <2>4. r = IF better THEN f ELSE m  BY <2>1, <2>2 DEF FewestWords
  <2>5. n \in Nat  BY <2>3, SmallPlace
  <2>6. CASE better
    <3>1. Max(bits) < SmallMaxBits /\ 1 + n <= m.used
      BY <2>6 DEF SmallIsBetter, HeaderWords
    <3>2. bits \subseteq 0 .. SmallMaxBits - 1
      <4>1. ASSUME NEW y \in bits  PROVE y \in 0 .. SmallMaxBits - 1
        <5>1. y \in Nat /\ y <= Max(bits)  BY <2>1, <2>3
        <5> QED  BY <2>3, <3>1, <5>1, SmallCovers
      <4> QED  BY <4>1
    <3>3. X = bits
      <4>1. ChunkCap - 1 \notin bits  BY <3>2, SmallCovers, ChunkCapPositive
      <4> QED  BY <2>1, <4>1
    <3> DEFINE words == WordsOf(bits)
    <3>4. WordsOK(words) /\ SmallBits(words) = bits /\ Len(words) = n
      BY <2>1, <3>2, WordsOfHold
    <3> HIDE DEF words, n
    <3>5. 1 + Len(words) <= m.cap  BY <1>0, <2>5, <3>1, <3>4
    <3>6. IsMap(m)  BY StoresIsMap DEF Stores
    <3>7. /\ SmallHolds(SmallForm(m, words), SmallBits(words))
          /\ SmallForm(m, words).words = words /\ SmallForm(m, words).cap = m.cap
          /\ SmallForm(m, words).used = 1 + Len(words)
      BY <1>0, <3>4, <3>5, <3>6, SmallFormHolds
    <3>8. r = SmallForm(m, words)  BY <2>4, <2>6 DEF words
    <3>9. m.used <= SparseChunkWords(words)
      <4>1. Fits(Plain(m), SmallBits(words), L)  BY <1>0, <3>3, <3>4
      <4>2. Plain(m).used <= SparseChunkWords(words)  BY <3>4, <4>1, LowMapIs
      <4> QED  BY <1>0, <4>2
    <3>10. SparseChunkWords(words) \in Nat
      <4>1. /\ Cardinality(MixedWords(words)) \in Nat
            /\ SparseChunkWords(words) = 3 + Cardinality(MixedWords(words))
        BY <3>4, MixedWordsFew
      <4> QED  BY <4>1
    <3>11. r.used <= SparseChunkWords(r.words)
      BY <1>0, <2>5, <3>1, <3>4, <3>7, <3>8, <3>9, <3>10
    <3> QED  BY <3>3, <3>4, <3>7, <3>8, <3>11
  <2>7. CASE ~better
    <3>1. r = m  BY <2>4, <2>7
    <3>2. LeanChunks(m, X)
      <4>1. ASSUME X \subseteq 0 .. SmallMaxBits - 1, X # {}
            PROVE  m.used < HeaderWords + WordOf(Max(X))
        <5>1. ChunkCap - 1 \notin X  BY <4>1, SmallCovers, ChunkCapPositive
        <5>2. X = bits  BY <2>1, <5>1
        <5>3. Max(bits) < SmallMaxBits  BY <2>3, <4>1, <5>2, SmallCovers
        <5> HIDE DEF n
        <5>4. ~(1 + n <= m.used)  BY <2>7, <5>3 DEF SmallIsBetter, HeaderWords
        <5> QED  BY <1>0, <2>5, <5>2, <5>4 DEF n, HeaderWords
      <4> QED  BY <4>1 DEF LeanChunks
    <3> QED  BY <3>1, <3>2
  <2> QED  BY <2>6, <2>7
<1> QED  BY <1>2, <1>3

----------------------------------------------------------------------------
(* sm_add.                                                                 *)

\* The last word of the small form is that of the greatest bit.
LEMMA LastWordIs ==
  ASSUME NEW words, WordsOK(words), SmallBits(words) # {}
  PROVE  /\ Len(words) = WordOf(Max(SmallBits(words)))
         /\ Max(SmallBits(words)) \in SmallBits(words)
         /\ Max(SmallBits(words)) \in Nat /\ Max(SmallBits(words)) < SmallMaxBits
<1> DEFINE X == SmallBits(words)
           top == Max(X)
           n == Len(words)
<1>1. X \subseteq 0 .. SmallMaxBits - 1  BY SmallHasBits
<1>2. top \in X /\ top \in Nat /\ \A y \in X : y <= top
  <2>1. X \in SUBSET Nat /\ SmallMaxBits - 1 \in Nat /\ \A y \in X : y <= SmallMaxBits - 1
    BY <1>1, SmallCovers
  <2> HIDE DEF X
  <2> QED  BY <2>1, MaxIsGreatest DEF X
<1>3. /\ n \in Nat /\ n <= SmallMaxWords
      /\ n > 0 => words[n] # {}
      /\ \A w \in 1 .. n : words[w] \in SUBSET Bit
  BY LenProperties DEF WordsOK
<1>4. top < SmallMaxBits  BY <1>1, <1>2, SmallCovers
<1>5. WordOf(top) \in Nat /\ WordOf(top) >= 1 /\ WordOf(top) <= n
  <2>1. SmallHas(words, top)  BY <1>2 DEF SmallBits
  <2> QED  BY <1>2, <2>1, SmallPlace DEF SmallHas
<1>6. n \in 1 .. n /\ n \in 1 .. SmallMaxWords  BY <1>3, <1>5, SmallCovers
<1>7. PICK b \in Bit : b \in words[n]  BY <1>3, <1>6
<1> DEFINE x == (n - 1) * BitsPerVector + b
<1> HIDE DEF n
<1>8. x \in 0 .. SmallMaxBits - 1 /\ WordOf(x) = n /\ x % BitsPerVector = b
  BY <1>6, SmallPlace
<1> HIDE DEF x
<1>9. x \in X
  <2>1. SmallHas(words, x)  BY <1>3, <1>7, <1>8 DEF SmallHas, n
  <2> QED  BY <1>8, <2>1 DEF SmallBits
<1>10. n <= WordOf(top)
  <2>1. x <= top /\ x \in Nat  BY <1>2, <1>8, <1>9, SmallCovers
  <2> QED  BY <1>2, <1>8, <2>1, WordsAscend
<1> QED  BY <1>2, <1>3, <1>4, <1>5, <1>10 DEF n

\* A run of whole words has no mixed one.
LEMMA WholeRunIsPlain ==
  ASSUME NEW words, WordsOK(words), NEW n \in Nat, n % BitsPerVector = 0,
         SmallBits(words) = 0 .. n - 1
  PROVE  MixedWords(words) = {}
<1> DEFINE f == n \div BitsPerVector
<1>1. f \in Nat /\ n = f * BitsPerVector + (n % BitsPerVector)  BY WordSplit
<1>2. n = f * BitsPerVector + 0  BY <1>1
<1> HIDE DEF f
<1>3. /\ Len(words) \in Nat /\ DOMAIN words = 1 .. Len(words)
      /\ Len(words) <= SmallMaxWords
      /\ \A w \in 1 .. Len(words) : words[w] \in SUBSET Bit
  BY LenProperties DEF WordsOK
<1>4. ASSUME NEW w \in 1 .. Len(words), NEW b \in Bit
      PROVE  b \in words[w] <=> w - 1 < f
  <2> DEFINE v == w - 1
             x == v * BitsPerVector + b
  <2>1. w \in 1 .. SmallMaxWords /\ v \in Nat  BY <1>3, SmallCovers
  <2>2. x \in 0 .. SmallMaxBits - 1 /\ WordOf(x) = w /\ x % BitsPerVector = b
    BY <2>1, SmallPlace
  <2> HIDE DEF v
  <2>3. 0 \in Nat /\ 0 <= BitsPerVector /\ ~(b < 0)  BY ChunkConstants DEF Bit
  <2>4. x < f * BitsPerVector + 0 <=> v < f \/ (v = f /\ b < 0)
    BY <1>1, <2>1, <2>3, PlaceBelow
  <2> HIDE DEF x
  <2>5. x \in Nat /\ (x \in SmallBits(words) <=> SmallHas(words, x))
    BY <2>2, SmallHasBits, SmallCovers
  <2>6. SmallHas(words, x) <=> b \in words[w]  BY <1>3, <2>2 DEF SmallHas
  <2>7. x \in 0 .. n - 1 <=> x < n  BY <2>5
  <2> QED  BY <1>2, <2>3, <2>4, <2>5, <2>6, <2>7 DEF v
<1>5. ASSUME NEW w \in 1 .. Len(words)  PROVE words[w] \in {{}, Bit}
  BY <1>3, <1>4
<1> QED  BY <1>3, <1>5 DEF MixedWords

\* What a promotion with room for it leaves is no larger than the cheapest chunk.
LEMMA PromoteIsCheapest ==
  ASSUME NEW m, NEW X, SmallHolds(m, X), NEW L, Covers(L), m.cap >= SmallMaxWords + 9
  PROVE  /\ Promote(m).map.used <= SmallChunkWords(m.words)
         /\ SmallChunkWords(m.words) \in Nat /\ Promote(m).map.used \in Nat
<1> DEFINE words == m.words
           p == Promote(m).map
           n == RunFromZero(words)
           few == Cardinality(MixedWords(words))
<1>1. /\ WordsOK(words) /\ X = SmallBits(words) /\ m.cap \in Nat
  BY SmallFields DEF SmallHolds
<1>2. few \in Nat /\ SparseChunkWords(words) = 3 + few  BY <1>1, MixedWordsFew
<1>3. ChunkHolds(p, X, L)  BY PromoteHolds
<1>4. p.used \in Nat /\ p.used <= SparseChunkWords(words)
  <2> HIDE DEF p, words
  <2>1. p.used \in Nat /\ Fits(Plain(p), X, L) /\ Plain(p).used = p.used
    BY <1>3, ChunkFields
  <2>2. Plain(p).used <= SparseChunkWords(words)  BY <1>1, <2>1, LowMapIs
  <2> QED  BY <2>1, <2>2
<1>5. ChunkWords = 3  BY DEF ChunkWords, HeaderWords
<1>6. n \in Nat /\ (n # 0 => SmallBits(words) = 0 .. n - 1)
  BY <1>1, RunFromZeroIs
<1>7. SmallChunkWords(words) = IF n > 0 THEN 3 ELSE 3 + few
  BY <1>2, <1>5 DEF SmallChunkWords
<1>8. CASE ShortRun(m)
  <2>1. p = RunForm(m).map  BY <1>8 DEF Promote
  <2>2. RunForm(m).map.used = 3  BY <1>8, RunFormHolds
  <2> HIDE DEF p, words, n, few
  <2>3. p.used = 3  BY <2>1, <2>2
  <2> QED  BY <1>2, <1>7, <2>3 DEF p, words
<1>9. CASE ~ShortRun(m)
  <2>1. n % BitsPerVector = 0
    <3>1. 3 <= m.cap  BY <1>1, SmallCovers
    <3> QED  BY <1>5, <1>9, <3>1 DEF ShortRun
  <2>2. n > 0 => few = 0
    <3>1. ASSUME n > 0  PROVE MixedWords(words) = {}
      <4> HIDE DEF n, words
      <4> QED  BY <1>1, <1>6, <2>1, <3>1, WholeRunIsPlain
    <3>2. Cardinality({}) = 0  BY FS_EmptySet
    <3> QED  BY <3>1, <3>2
  <2> HIDE DEF p, words, n, few
  <2> QED  BY <1>2, <1>4, <1>6, <1>7, <2>2 DEF p, words
<1> QED  BY <1>8, <1>9

\* The form an add leaves: small while that is no larger than the chunk it was
\* compared with, chunks only while they are smaller.
LeanForm(m, r, X) ==
  IF IsSmall(r)
  THEN r.used <= IF IsSmall(m) \/ m.chunks = << >>
                 THEN SmallChunkWords(r.words) ELSE SparseChunkWords(r.words)
  ELSE LeanChunks(r, X)

\* What sm_add promises of its outcome r.
Adds(m, X, i, r, L) ==
  /\ r.map.cap = m.cap
  /\ r.ok => Stores(r.map, X \cup {i}, L)
  /\ ~r.ok => Stores(r.map, X, L)
  /\ m.cap >= SmallMaxWords + 9 =>
       /\ m.used + 6 <= m.cap => r.ok
       /\ LeanForm(m, r.map, IF r.ok THEN X \cup {i} ELSE X)

\* An index of small mode added to a map that is small or empty.
LEMMA AddLowHolds ==
  ASSUME NEW m, NEW X, NEW L, Covers(L), Stores(m, X, L), NEW i \in Nat,
         i < SmallMaxBits, IsSmall(m) \/ m.chunks = << >>
  PROVE  Adds(m, X, i, AddLow(m, i), L)
<1> DEFINE m0 == IF IsSmall(m) THEN m ELSE SmallForm(m, << >>)
           a == SmallAdd(m0, i)
           Y == X \cup {i}
           r == AddLow(m, i)
<1>1. SmallHolds(m0, X) /\ m0.cap = m.cap
  <2>1. CASE SmallHolds(m, X)
    <3>1. m0 = m  BY <2>1, SmallFields
    <3> QED  BY <2>1, <3>1
  <2>2. CASE ChunkHolds(m, X, L)
    <3>1. /\ ~IsSmall(m) /\ Bits(m.chunks) = X /\ m.used \in Nat /\ m.cap \in Nat
          /\ 1 <= m.used /\ m.used <= m.cap
      BY <2>2, ChunkFields DEF Encodes
    <3>2. X = {}
      <4>1. Len(m.chunks) = 0  BY <3>1
      <4>2. Bits(m.chunks) = {}  BY ONLY <4>1 DEF Bits
      <4> QED  BY <3>1, <4>2
    <3>3. IsMap(m)  BY StoresIsMap
    <3> DEFINE none == << >>
    <3>4. WordsOK(none) /\ SmallBits(none) = {} /\ 1 + Len(none) <= m.cap
      BY <3>1, NoWords
    <3>5. m0 = SmallForm(m, none)  BY <3>1
    <3> HIDE DEF m0, none
    <3>6. /\ SmallHolds(SmallForm(m, none), SmallBits(none))
          /\ SmallForm(m, none).cap = m.cap
      BY <3>1, <3>3, <3>4, SmallFormHolds
    <3> QED  BY <3>2, <3>4, <3>5, <3>6
  <2> QED  BY <2>1, <2>2 DEF Stores
<1>2. r = Settled(a)  BY DEF AddLow
<1> HIDE DEF m0
<1>3. /\ a.ok => SmallHolds(a.map, Y) /\ a.map.cap = m0.cap
      /\ ~a.ok => a.map = m0 /\ m0.cap < 1 + SmallMaxWords
  BY <1>1, SmallAddHolds
<1>4. m.cap \in Nat /\ IsMap(m)  BY StoresIsMap
<1> DEFINE words == a.map.words
           better == SmallIsBetter(Max(SmallBits(words)), a.map.used,
                                   SmallChunkWords(words))
           p == Promote(a.map)
<1>5. r = IF a.ok /\ ~better THEN Done(p.map) ELSE a  BY <1>2 DEF Settled
<1> HIDE DEF a, better, r
<1>6. CASE ~a.ok
  <2>1. r = a  BY <1>5, <1>6
  <2>2. ~(m.cap >= SmallMaxWords + 9)  BY <1>1, <1>3, <1>4, <1>6, SmallCovers
  <2>3. Stores(a.map, X, L) /\ a.map.cap = m.cap  BY <1>1, <1>3, <1>6 DEF Stores
  <2> QED  BY <1>6, <2>1, <2>2, <2>3 DEF Adds, r
<1>7. CASE a.ok
  <2>1. /\ WordsOK(words) /\ Y = SmallBits(words) /\ a.map.used = 1 + Len(words)
        /\ Len(words) \in Nat /\ IsSmall(a.map)
    BY <1>3, <1>7, SmallFields DEF SmallHolds
  <2>2. /\ Len(words) = WordOf(Max(Y)) /\ Max(Y) < SmallMaxBits
    <3>1. Y # {}  OBVIOUS
    <3> HIDE DEF Y, words
    <3> QED  BY <2>1, <3>1, LastWordIs
  <2>3. better <=> a.map.used <= SmallChunkWords(words)
    BY <2>1, <2>2 DEF better, SmallIsBetter
  <2>4. CASE better
    <3>1. r = a  BY <1>5, <2>4
    <3>2. LeanForm(m, a.map, Y)
      BY <2>1, <2>3, <2>4 DEF LeanForm
    <3>3. Stores(a.map, Y, L) /\ a.map.cap = m.cap  BY <1>1, <1>3, <1>7 DEF Stores
    <3> QED  BY <1>7, <3>1, <3>2, <3>3 DEF Adds, r
  <2>5. CASE ~better
    <3>1. r = Done(p.map)  BY <1>5, <1>7, <2>5
    <3>2. SmallHolds(a.map, Y) /\ a.map.cap = m.cap  BY <1>1, <1>3, <1>7
    <3> HIDE DEF Y
    <3>3. /\ p.map.cap = m.cap
          /\ p.ok => ChunkHolds(p.map, Y, L)
          /\ ~p.ok => p.map = a.map
          /\ a.map.cap >= SmallMaxWords + 9 => p.ok
      BY <3>2, PromoteHolds
    <3>4. Stores(p.map, Y, L)  BY <3>2, <3>3 DEF Stores
    <3>5. ASSUME m.cap >= SmallMaxWords + 9  PROVE LeanForm(m, p.map, Y)
      <4>1. ChunkHolds(p.map, Y, L)  BY <3>2, <3>3, <3>5
      <4>2. ~IsSmall(p.map)  BY <4>1, ChunkFields
      <4>3. /\ p.map.used <= SmallChunkWords(words)
            /\ SmallChunkWords(words) \in Nat /\ p.map.used \in Nat
        BY <3>2, <3>5, PromoteIsCheapest
      <4> HIDE DEF p, words
      <4>4. p.map.used < 1 + Len(words)  BY <2>1, <2>3, <2>5, <4>3
      <4>5. LeanChunks(p.map, Y)  BY <2>2, <4>4 DEF LeanChunks, HeaderWords
      <4> QED  BY <4>2, <4>5 DEF LeanForm
    <3> HIDE DEF p
    <3>6. r.ok /\ r.map = p.map  BY <3>1 DEF Done
    <3>7. Adds(m, X, i, r, L)  BY <3>3, <3>4, <3>5, <3>6 DEF Adds, Y
    <3> QED  BY <3>7 DEF r
  <2> QED  BY <2>4, <2>5
<1> QED  BY <1>6, <1>7

\* __sm_map_set and the demotion after it, on a map in the chunk form.
LEMMA SetDemotedHolds ==
  ASSUME NEW p, NEW X, NEW L, Covers(L), ChunkHolds(p, X, L), NEW i \in Nat, i < L,
         NEW r, r = Demoted(MapSet(p, i))
  PROVE  /\ r.map.cap = p.cap
         /\ r.ok => \/ SmallHolds(r.map, X \cup {i})
                       /\ r.map.used <= SparseChunkWords(r.map.words)
                    \/ ChunkHolds(r.map, X \cup {i}, L) /\ LeanChunks(r.map, X \cup {i})
         /\ ~r.ok => r.map = p
         /\ p.used + 6 <= p.cap => r.ok
<1> DEFINE o == MapSet(p, i)
           Y == X \cup {i}
           d == TryDemote(o.map)
<1>1. /\ o.map.cap = p.cap
      /\ o.ok => ChunkHolds(o.map, Y, L)
      /\ ~o.ok => o.map = p
      /\ p.used + 6 <= p.cap => o.ok
  <2>1. Limit(L)  BY DEF Covers
  <2> QED  BY <2>1, ChunkSetHolds
<1>2. r = IF o.ok THEN Done(d) ELSE o  BY DEF Demoted
<1> HIDE DEF o, Y
<1>3. CASE o.ok
  <2>1. /\ d.cap = o.map.cap
        /\ \/ SmallHolds(d, Y) /\ d.used <= SparseChunkWords(d.words)
           \/ d = o.map /\ LeanChunks(o.map, Y)
    BY <1>1, <1>3, TryDemoteHolds
  <2> HIDE DEF d
  <2>2. r.ok /\ r.map = d  BY <1>2, <1>3 DEF Done
  <2> QED  BY <1>1, <1>3, <2>1, <2>2 DEF Y
<1>4. CASE ~o.ok
  <2>1. r = o  BY <1>2, <1>4
  <2> QED  BY <1>1, <1>4, <2>1
<1> QED  BY <1>3, <1>4

\* Any other add: the map is promoted if it is small, and the index set in a
\* chunk.
LEMMA AddToChunksHolds ==
  ASSUME NEW m, NEW X, NEW L, Covers(L), Stores(m, X, L), NEW i \in Nat, i < L,
         ~((IsSmall(m) \/ m.chunks = << >>) /\ i < SmallMaxBits)
  PROVE  Adds(m, X, i, AddToChunks(m, i), L)
<1> DEFINE p == IF IsSmall(m) THEN Promote(m) ELSE Done(m)
           q == p.map
           r == AddToChunks(m, i)
           e == Demoted(MapSet(q, i))
           Y == X \cup {i}
           roomy == m.cap >= SmallMaxWords + 9
<1>0. m.cap \in Nat /\ m.used \in Nat /\ IsMap(m)  BY StoresIsMap
<1>1. /\ q.cap = m.cap
      /\ p.ok => ChunkHolds(q, X, L)
      /\ ~p.ok => q = m
      /\ roomy => p.ok
      /\ ~IsSmall(m) => p.ok /\ q = m
  <2>1. CASE SmallHolds(m, X)
    <3>1. IsSmall(m) /\ p = Promote(m)  BY <2>1, SmallFields
    <3> HIDE DEF p
    <3>2. /\ Promote(m).map.cap = m.cap
          /\ Promote(m).ok => ChunkHolds(Promote(m).map, X, L)
          /\ ~Promote(m).ok => Promote(m).map = m
          /\ m.cap >= SmallMaxWords + 9 => Promote(m).ok
      BY <2>1, PromoteHolds
    <3> QED  BY <3>1, <3>2
  <2>2. CASE ChunkHolds(m, X, L)
    <3>1. ~IsSmall(m)  BY <2>2, ChunkFields
    <3>2. p.map = m /\ p.ok  BY <3>1 DEF Done
    <3> HIDE DEF p
    <3> QED  BY <2>2, <3>1, <3>2
  <2> QED  BY <2>1, <2>2 DEF Stores
<1>2. r = IF p.ok THEN e ELSE p  BY DEF AddToChunks, SetAfter
<1> HIDE DEF p, r
<1>3. CASE ~p.ok
  <2>1. r = p /\ ~roomy  BY <1>1, <1>2, <1>3
  <2> QED  BY <1>1, <1>3, <2>1 DEF Adds, r
<1>4. CASE p.ok
  <2>1. ChunkHolds(q, X, L) /\ r = e  BY <1>1, <1>2, <1>4
  <2> HIDE DEF q
  <2>2. /\ e.map.cap = q.cap
        /\ e.ok => \/ SmallHolds(e.map, Y) /\ e.map.used <= SparseChunkWords(e.map.words)
                   \/ ChunkHolds(e.map, Y, L) /\ LeanChunks(e.map, Y)
        /\ ~e.ok => e.map = q
        /\ q.used + 6 <= q.cap => e.ok
    BY <2>1, SetDemotedHolds
  <2> HIDE DEF e, Y
  <2>3. q.used \in Nat  BY <2>1, ChunkFields
  <2>4. X \subseteq 0 .. SmallMaxBits - 1 => q.used <= 3 + SmallMaxWords
    BY <2>1, LowUsed
  <2>5. roomy /\ m.used + 6 <= m.cap => e.ok
    <3>1. ASSUME roomy, m.used + 6 <= m.cap  PROVE e.ok
      <4>1. CASE IsSmall(m)
        <5>1. SmallHolds(m, X)  BY <4>1, ChunkFields DEF Stores
        <5>2. X \subseteq 0 .. SmallMaxBits - 1
          BY <5>1, SmallHasBits DEF SmallHolds
        <5>3. q.used + 6 <= q.cap
          BY <1>0, <1>1, <2>3, <2>4, <3>1, <5>2, SmallCovers
        <5> QED  BY <2>2, <5>3
      <4>2. CASE ~IsSmall(m)  BY <1>1, <2>2, <3>1, <4>2
      <4> QED  BY <4>1, <4>2
    <3> QED  BY <3>1
  <2>6. ASSUME roomy, ~e.ok  PROVE LeanForm(m, e.map, X)
    <3>1. ~(q.used + 6 <= q.cap) /\ e.map = q  BY <2>2, <2>6
    <3>2. ~(X \subseteq 0 .. SmallMaxBits - 1)
      BY <1>0, <1>1, <2>3, <2>4, <2>6, <3>1, SmallCovers
    <3>3. ~IsSmall(q)  BY <2>1, ChunkFields
    <3> QED  BY <3>1, <3>2, <3>3 DEF LeanForm, LeanChunks
  <2>7. ASSUME e.ok  PROVE LeanForm(m, e.map, Y) /\ Stores(e.map, Y, L)
    <3>1. CASE SmallHolds(e.map, Y) /\ e.map.used <= SparseChunkWords(e.map.words)
      <4>1. IsSmall(e.map) /\ Y \subseteq 0 .. SmallMaxBits - 1
        BY <3>1, SmallFields, SmallHasBits DEF SmallHolds
      <4>2. i < SmallMaxBits
        <5>1. i \in 0 .. SmallMaxBits - 1  BY <4>1 DEF Y
        <5> QED  BY <5>1, SmallCovers
      <4>3. ~(IsSmall(m) \/ m.chunks = << >>)  BY <4>2
      <4> QED  BY <3>1, <4>1, <4>3 DEF LeanForm, Stores
    <3>2. CASE ChunkHolds(e.map, Y, L) /\ LeanChunks(e.map, Y)
      <4>1. ~IsSmall(e.map)  BY <3>2, ChunkFields
      <4> QED  BY <3>2, <4>1 DEF LeanForm, Stores
    <3> QED  BY <2>2, <2>7, <3>1, <3>2
  <2>8. ~e.ok => Stores(e.map, X, L)  BY <2>1, <2>2 DEF Stores
  <2>9. Adds(m, X, i, e, L)
    BY <1>1, <2>2, <2>5, <2>6, <2>7, <2>8 DEF Adds, Y
  <2> QED  BY <2>1, <2>9 DEF r
<1> QED  BY <1>3, <1>4

\* sm_add adds the index, or finds no room and leaves the set as it was.
LEMMA AddIndexHolds ==
  ASSUME NEW m, NEW X, NEW L, Covers(L), Stores(m, X, L), NEW i \in Nat, i < L
  PROVE  Adds(m, X, i, AddIndex(m, i), L)
<1>1. CASE (IsSmall(m) \/ m.chunks = << >>) /\ i < SmallMaxBits
  <2>1. AddIndex(m, i) = AddLow(m, i)  BY <1>1 DEF AddIndex
  <2> QED  BY <1>1, <2>1, AddLowHolds
<1>2. CASE ~((IsSmall(m) \/ m.chunks = << >>) /\ i < SmallMaxBits)
  <2>1. AddIndex(m, i) = AddToChunks(m, i)  BY <1>2 DEF AddIndex
  <2> QED  BY <1>2, <2>1, AddToChunksHolds
<1> QED  BY <1>1, <1>2

----------------------------------------------------------------------------
(* sm_remove.                                                              *)

\* A prefix of the words that leaves out only words of zeros.
LEMMA PrefixOfWords ==
  ASSUME NEW words \in Seq(SUBSET Bit), Len(words) <= SmallMaxWords,
         NEW n \in 0 .. Len(words), \A w \in n + 1 .. Len(words) : words[w] = {},
         n > 0 => words[n] # {}
  PROVE  /\ WordsOK(SubSeq(words, 1, n)) /\ Len(SubSeq(words, 1, n)) = n
         /\ SmallBits(SubSeq(words, 1, n)) = SmallBits(words)
<1> DEFINE t == SubSeq(words, 1, n)
<1>1. Len(words) \in Nat /\ n \in Nat /\ n <= Len(words)  BY LenProperties
<1>2. t \in Seq(SUBSET Bit) /\ Len(t) = n /\ \A w \in 1 .. n : t[w] = words[w]
  <2>1. 1 \in 1 .. Len(words) + 1  BY <1>1
  <2>2. \A w \in 1 .. n : words[w] \in SUBSET Bit  BY <1>1, ElementOfSeq
  <2>3. /\ t \in Seq(SUBSET Bit)
        /\ Len(t) = IF 1 <= n THEN n - 1 + 1 ELSE 0
        /\ \A w \in 1 .. n - 1 + 1 : t[w] = words[1 + w - 1]
    BY <1>1, <2>2, SubSeqProperties
  <2> HIDE DEF t
  <2>4. \A w \in 1 .. n : w \in 1 .. n - 1 + 1 /\ 1 + w - 1 = w  BY <1>1
  <2>5. Len(t) = n  BY <1>1, <2>3
  <2> QED  BY <2>3, <2>4, <2>5
<1> HIDE DEF t
<1>3. WordsOK(t)
  <2>1. n > 0 => n \in 1 .. n  BY <1>1
  <2>2. n <= SmallMaxWords  BY <1>1, SmallCovers
  <2> QED  BY <1>2, <2>1, <2>2 DEF WordsOK
<1>4. ASSUME NEW x \in 0 .. SmallMaxBits - 1
      PROVE  SmallHas(t, x) <=> SmallHas(words, x)
  <2> DEFINE w == WordOf(x)
  <2>1. w \in Nat /\ w >= 1  BY SmallPlace
  <2> HIDE DEF w
  <2>2. CASE w <= n
    <3>1. w \in 1 .. n /\ w <= Len(words)  BY <1>1, <2>1, <2>2
    <3>2. t[w] = words[w]  BY <1>2, <3>1
    <3> QED  BY <1>2, <2>2, <3>1, <3>2 DEF SmallHas, w
  <2>3. CASE ~(w <= n)
    <3>1. w <= Len(words) => w \in n + 1 .. Len(words)  BY <1>1, <2>1, <2>3
    <3>2. w <= Len(words) => words[w] = {}  BY <3>1
    <3> QED  BY <1>2, <2>3, <3>2 DEF SmallHas, w
  <2> QED  BY <2>2, <2>3
<1>5. SmallBits(t) = SmallBits(words)  BY <1>4 DEF SmallBits
<1> QED  BY <1>2, <1>3, <1>5 DEF t

\* Trim drops the words of zeros at the end, and nothing else.
LEMMA TrimHolds ==
  ASSUME NEW words \in Seq(SUBSET Bit), Len(words) <= SmallMaxWords
  PROVE  /\ WordsOK(Trim(words)) /\ SmallBits(Trim(words)) = SmallBits(words)
         /\ Len(Trim(words)) \in Nat /\ Len(Trim(words)) <= Len(words)
<1> DEFINE used == {w \in DOMAIN words : words[w] # {}}
           n == IF used = {} THEN 0 ELSE Max(used)
           len == Len(words)
<1>1. len \in Nat /\ DOMAIN words = 1 .. len /\ Trim(words) = SubSeq(words, 1, n)
  BY LenProperties DEF Trim
<1> HIDE DEF len
<1>2. n \in 0 .. len /\ (n > 0 => words[n] # {}) /\ \A w \in n + 1 .. len : words[w] = {}
  <2>1. CASE used = {}  BY <1>1, <2>1
  <2>2. CASE used # {}
    <3>1. used \in SUBSET Nat /\ \A y \in used : y <= len  BY <1>1
    <3>2. Max(used) \in used /\ Max(used) \in Nat /\ \A y \in used : y <= Max(used)
      BY <1>1, <2>2, <3>1, MaxIsGreatest
    <3>3. n = Max(used)  BY <2>2
    <3> HIDE DEF n
    <3>4. n \in used /\ \A y \in used : y <= n  BY <3>2, <3>3
    <3>5. n \in 1 .. len /\ words[n] # {}  BY <1>1, <3>4
    <3>6. ASSUME NEW w \in n + 1 .. len  PROVE words[w] = {}
      <4>1. w \in 1 .. len /\ ~(w <= n)  BY <1>1, <3>5
      <4>2. w \notin used  BY <3>4, <4>1
      <4> QED  BY <1>1, <4>1, <4>2
    <3> QED  BY <1>1, <3>5, <3>6
  <2> QED  BY <2>1, <2>2
<1> HIDE DEF n, used
<1>3. /\ WordsOK(SubSeq(words, 1, n)) /\ Len(SubSeq(words, 1, n)) = n
      /\ SmallBits(SubSeq(words, 1, n)) = SmallBits(words)
  BY <1>2, PrefixOfWords DEF len
<1>4. n \in Nat /\ n <= len  BY <1>1, <1>2
<1> QED  BY <1>1, <1>3, <1>4 DEF len

\* A bit cleared in its word.
LEMMA BitCleared ==
  ASSUME NEW words, WordsOK(words), NEW i \in Nat, WordOf(i) \in DOMAIN words,
         NEW t, t = [words EXCEPT ![WordOf(i)] = @ \ {i % BitsPerVector}]
  PROVE  /\ t \in Seq(SUBSET Bit) /\ Len(t) = Len(words)
         /\ SmallBits(t) = SmallBits(words) \ {i}
<1> DEFINE k == WordOf(i)
           b == i % BitsPerVector
<1>1. /\ words \in Seq(SUBSET Bit) /\ Len(words) \in Nat /\ DOMAIN words = 1 .. Len(words)
      /\ \A w \in 1 .. Len(words) : words[w] \in SUBSET Bit
  BY LenProperties, ElementOfSeq DEF WordsOK
<1>2. i = (k - 1) * BitsPerVector + b /\ k \in Nat  BY SmallPlace
<1>3. t = [words EXCEPT ![k] = words[k] \ {b}] /\ k \in 1 .. Len(words)  BY <1>1
<1> HIDE DEF k, b
<1>4. words[k] \ {b} \in SUBSET Bit  BY <1>1, <1>3
<1>5. t \in Seq(SUBSET Bit) /\ Len(t) = Len(words)
      /\ \A w \in 1 .. Len(words) : t[w] = IF w = k THEN words[k] \ {b} ELSE words[w]
  <2> DEFINE e == words[k] \ {b}
             D == SUBSET Bit
  <2>1. t = [words EXCEPT ![k] = e] /\ k \in DOMAIN words  BY <1>1, <1>3
  <2>2. words \in Seq(D) /\ e \in D  BY <1>1, <1>4
  <2>3. e = words[k] \ {b} /\ D = SUBSET Bit  OBVIOUS
  <2> HIDE DEF e, D
  <2>4. t \in Seq(D) /\ Len(t) = Len(words) /\ DOMAIN t = DOMAIN words
    BY ONLY <2>1, <2>2, ExceptSeq
  <2>5. \A w \in 1 .. Len(words) : t[w] = IF w = k THEN e ELSE words[w]
    BY <2>1, <1>1
  <2> QED  BY <2>3, <2>4, <2>5
<1>6. ASSUME NEW x \in 0 .. SmallMaxBits - 1
      PROVE  SmallHas(t, x) <=> SmallHas(words, x) /\ x # i
  <2> DEFINE w == WordOf(x)
             r == x % BitsPerVector
  <2>1. w \in Nat /\ w >= 1 /\ x = (w - 1) * BitsPerVector + r  BY SmallPlace
  <2>2. x = i <=> w = k /\ r = b  BY <1>2, <2>1 DEF k, b
  <2> HIDE DEF w, r
  <2>3. CASE w <= Len(words)
    <3>1. w \in 1 .. Len(words)  BY <1>1, <2>1, <2>3
    <3>2. t[w] = IF w = k THEN words[k] \ {b} ELSE words[w]  BY <1>5, <3>1
    <3>3. r \in t[w] <=> r \in words[w] /\ ~(w = k /\ r = b)  BY <3>2
    <3> QED  BY <1>5, <2>2, <2>3, <3>3 DEF SmallHas, w, r
  <2>4. CASE ~(w <= Len(words))  BY <1>5, <2>4 DEF SmallHas, w
  <2> QED  BY <2>3, <2>4
<1>7. SmallBits(t) = SmallBits(words) \ {i}  BY <1>6 DEF SmallBits
<1> QED  BY <1>5, <1>7

\* sm_remove removes the index, and where the stale start does harm leaves a
\* valid map of some set; without room for its parts it leaves the set as it was.
Removes(m, X, i, r, L) ==
  /\ r.map.cap = m.cap
  /\ \E Y : Stores(r.map, Y, L)
  /\ r.ok /\ (IsSmall(m) \/ ~JoinsAcrossRemoved(m, i)) => Stores(r.map, X \ {i}, L)
  /\ ~r.ok => Stores(r.map, X, L)

\* And so it does, in either form.
LEMMA RemoveIndexHolds ==
  ASSUME NEW m, NEW X, NEW L, Covers(L), Stores(m, X, L), NEW i \in Nat
  PROVE  Removes(m, X, i, RemoveIndex(m, i), L)
<1> DEFINE r == RemoveIndex(m, i)
<1>0. Limit(L) /\ IsMap(m) /\ m.cap \in Nat  BY StoresIsMap DEF Covers
<1>1. CASE SmallHolds(m, X)
  <2> DEFINE k == WordOf(i)
             t == [m.words EXCEPT ![k] = @ \ {i % BitsPerVector}]
             f == SmallForm(m, Trim(t))
  <2>1. /\ IsSmall(m) /\ WordsOK(m.words) /\ X = SmallBits(m.words)
        /\ m.used = 1 + Len(m.words) /\ m.used <= m.cap /\ Len(m.words) \in Nat
        /\ Len(m.words) <= SmallMaxWords /\ DOMAIN m.words = 1 .. Len(m.words)
    BY <1>1, SmallFields DEF SmallHolds, WordsOK
  <2>2. r = Done(IF k \in DOMAIN m.words THEN f ELSE m)  BY <2>1 DEF RemoveIndex
  <2> HIDE DEF r
  <2>3. CASE k \in DOMAIN m.words
    <3>1. /\ t \in Seq(SUBSET Bit) /\ Len(t) = Len(m.words)
          /\ SmallBits(t) = SmallBits(m.words) \ {i}
      BY <2>1, <2>3, BitCleared
    <3> HIDE DEF t
    <3>2. /\ WordsOK(Trim(t)) /\ SmallBits(Trim(t)) = SmallBits(t)
          /\ Len(Trim(t)) \in Nat /\ Len(Trim(t)) <= Len(t)
      BY <2>1, <3>1, TrimHolds
    <3> DEFINE words == Trim(t)
    <3> HIDE DEF words
    <3>3. WordsOK(words) /\ SmallBits(words) = X \ {i} /\ 1 + Len(words) <= m.cap
      BY <1>0, <2>1, <3>1, <3>2 DEF words
    <3>4. /\ SmallHolds(SmallForm(m, words), SmallBits(words))
          /\ SmallForm(m, words).cap = m.cap
      BY <1>0, <3>3, SmallFormHolds
    <3> HIDE DEF f
    <3>5. SmallHolds(f, X \ {i}) /\ f.cap = m.cap  BY <3>3, <3>4 DEF f, words
    <3>6. r.map = f /\ r.ok  BY <2>2, <2>3 DEF Done
    <3>7. Removes(m, X, i, r, L)  BY <3>5, <3>6 DEF Removes, Stores
    <3> QED  BY <3>7 DEF r
  <2>4. CASE k \notin DOMAIN m.words
    <3>1. i \notin X
      <4>1. k \in Nat /\ k >= 1  BY SmallPlace
      <4>2. ~(k <= Len(m.words))  BY <2>1, <2>4, <4>1
      <4>3. ~SmallHas(m.words, i)  BY <4>2 DEF SmallHas
      <4> QED  BY <2>1, <4>3 DEF SmallBits
    <3>2. X \ {i} = X  BY <3>1
    <3>3. r.map = m /\ r.ok  BY <2>2, <2>4 DEF Done
    <3>4. Removes(m, X, i, r, L)  BY <1>1, <3>2, <3>3 DEF Removes, Stores
    <3> QED  BY <3>4 DEF r
  <2> QED  BY <2>3, <2>4
<1>2. CASE ChunkHolds(m, X, L)
  <2> DEFINE o == MapUnset(m, i)
             d == TryDemote(o.map)
  <2>1. ~IsSmall(m)  BY <1>2, ChunkFields
  <2>2. /\ o.map.cap = m.cap
        /\ o.ok => \E Y : ChunkHolds(o.map, Y, L)
        /\ o.ok /\ ~JoinsAcrossRemoved(m, i) => ChunkHolds(o.map, X \ {i}, L)
        /\ ~o.ok => o.map = m
    BY <1>0, <1>2, ChunkUnsetHolds
  <2>3. r = Shrunk(o)  BY <2>1 DEF RemoveIndex
  <2> HIDE DEF o, r
  <2>4. ASSUME NEW Y, ChunkHolds(o.map, Y, L)
        PROVE  Stores(d, Y, L) /\ d.cap = o.map.cap
    <3>1. /\ d.cap = o.map.cap
          /\ \/ SmallHolds(d, Y) /\ d.used <= SparseChunkWords(d.words)
             \/ d = o.map /\ LeanChunks(o.map, Y)
      BY <2>4, TryDemoteHolds
    <3> HIDE DEF d
    <3> QED  BY <2>4, <3>1 DEF Stores
  <2> HIDE DEF d
  <2>5. r.map = d /\ r.ok = o.ok  BY <2>3 DEF Shrunk, d
  <2>6. \E Y : ChunkHolds(o.map, Y, L)  BY <1>2, <2>2
  <2>7. d.cap = m.cap /\ \E Y : Stores(d, Y, L)  BY <2>2, <2>4, <2>6
  <2>8. Removes(m, X, i, r, L)
    BY <1>2, <2>1, <2>2, <2>4, <2>5, <2>7 DEF Removes
  <2> QED  BY <2>8 DEF r
<1> QED  BY <1>1, <1>2 DEF Stores

----------------------------------------------------------------------------
(* Counting.                                                               *)

\* What a chunk counts for is the number of its indices.
LEMMA ChunkCountIs ==
  ASSUME NEW c, ChunkOK(c)
  PROVE  /\ IsFiniteSet(BitsOf(c))
         /\ ChunkCount(c) = Cardinality(BitsOf(c)) /\ ChunkCount(c) \in Nat
<1>1. c.start \in Nat /\ Capacity(c) \in Nat /\ EndOf(c) = c.start + Capacity(c)
  BY ChunkExtent, RunLengthBounds DEF EndOf
<1>2. CASE IsRLE(c)
  <2>1. c.len \in 1 .. c.cap /\ c.cap = Capacity(c)  BY <1>2, RunLengthBounds DEF ChunkOK
  <2>2. c.len \in Nat /\ c.cap \in Nat /\ c.len # 0 /\ c.len <= c.cap  BY <1>1, <2>1
  <2>3. BitsOf(c) = c.start .. c.start + c.len - 1
    <3>1. \A x : x \in BitsOf(c) <=> x \in Nat /\ c.start <= x /\ x < c.start + c.cap
                                     /\ x - c.start < c.len
      BY <1>1, <1>2, <2>1 DEF BitsOf, IsSet
    <3>2. \A x : (x \in Nat /\ c.start <= x /\ x < c.start + c.cap /\ x - c.start < c.len)
                   <=> x \in c.start .. c.start + c.len - 1
      BY <1>1, <2>2
    <3> QED  BY <3>1, <3>2
  <2>4. ChunkCount(c) = c.len  BY <1>2, <2>2 DEF ChunkCount, Lesser
  <2> DEFINE a == c.start
             b == c.start + c.len - 1
  <2>5. a \in Int /\ b \in Int /\ ~(a > b) /\ (b - a) + 1 = c.len  BY <1>1, <2>2
  <2>6. BitsOf(c) = a .. b  BY <2>3
  <2> HIDE DEF a, b
  <2>7. IsFiniteSet(a .. b) /\ Cardinality(a .. b) = (b - a) + 1  BY <2>5, FS_Interval
  <2> QED  BY <2>2, <2>4, <2>5, <2>6, <2>7
<1>3. CASE ~IsRLE(c)
  <2> DEFINE D == {i \in 0 .. ChunkCap - 1 : IsSet(c, i)}
             T == BitsOf(c)
             f == [i \in D |-> c.start + i]
  <2>1. Capacity(c) = ChunkCap /\ ChunkCap \in Nat  BY <1>3, SparseCapacity, ChunkCapPositive
  <2>2. IsFiniteSet(D) /\ Cardinality(D) \in Nat
    <3>1. IsFiniteSet(0 .. ChunkCap - 1)  BY <2>1, FS_Interval
    <3>2. D \subseteq 0 .. ChunkCap - 1  OBVIOUS
    <3> HIDE DEF D
    <3> QED  BY <3>1, <3>2, CountPart
  <2>3. \A i \in D : c.start + i \in T
    BY <1>1, <2>1 DEF BitsOf
  <2>4. \A x \in T : x - c.start \in D /\ x = c.start + (x - c.start)
    BY <1>1, <2>1 DEF BitsOf
  <2>5. \A i \in D : i \in Int  BY <2>1
  <2> HIDE DEF D, T
  <2>6. f \in Bijection(D, T)
    <3>1. f \in [D -> T] /\ \A i \in D : f[i] = c.start + i  BY <2>3
    <3>2. \A x \in T : x - c.start \in D /\ f[x - c.start] = x  BY <2>4
    <3>3. \A i, k \in D : f[i] = f[k] => i = k  BY <1>1, <2>5
    <3> HIDE DEF f
    <3>4. f \in Injection(D, T)  BY <3>1, <3>3 DEF Injection, IsInjective
    <3>5. f \in Surjection(D, T)  BY <3>1, <3>2 DEF Surjection
    <3> QED  BY <3>4, <3>5 DEF Bijection
  <2>7. IsFiniteSet(T) /\ Cardinality(T) = Cardinality(D)
    <3>1. ExistsBijection(D, T)  BY <2>6 DEF ExistsBijection
    <3> QED  BY <2>2, <3>1, FS_Bijection
  <2>8. ChunkCount(c) = Cardinality(D)  BY <1>3 DEF ChunkCount, D
  <2> QED  BY <2>2, <2>7, <2>8 DEF T
<1> QED  BY <1>2, <1>3

\* The loop of sm_cardinality.
LEMMA CountLoops ==
  ASSUME NEW s
  PROVE  FoldLeft(LAMBDA n, c : n + ChunkCount(c), 0, s)
           = (CHOOSE it :
                it = [t \in SUBSET DOMAIN s |->
                        IF t = {} THEN 0
                        ELSE it[t \ {Max(t)}] + ChunkCount(s[Max(t)])])[DOMAIN s]
  BY DEF FoldLeft, MapThenFoldSet

\* A stream counts for the number of its indices.
LEMMA StreamCountIs ==
  ASSUME NEW s, NEW hi, StreamOK(s, 0, hi)
  PROVE  /\ IsFiniteSet(Bits(s))
         /\ FoldLeft(LAMBDA n, c : n + ChunkCount(c), 0, s) = Cardinality(Bits(s))
<1> DEFINE n == Len(s)
           loop == "count"
           base == 0
           Upto(k) == UNION {BitsOf(s[j]) : j \in 1 .. k}
<1>1. n \in Nat /\ DOMAIN s = 1 .. n  BY LenProperties DEF StreamOK
<1>2. FoldLeft(LAMBDA a, c : a + ChunkCount(c), 0, s) = Looped(loop, s, base, n)
  <2> DEFINE A(it) == it = [t \in SUBSET DOMAIN s |->
                              IF t = {} THEN 0
                              ELSE it[t \ {Max(t)}] + ChunkCount(s[Max(t)])]
  <2>1. ASSUME NEW it  PROVE A(it) <=> Iterates(it, loop, s, base, n)
    <3>1. \A r, k : LoopBody(loop, s, r, k) = r + ChunkCount(s[k])  BY DEF LoopBody
    <3> HIDE DEF loop, n
    <3> QED  BY <1>1, <3>1 DEF Iterates
  <2>2. FoldLeft(LAMBDA a, c : a + ChunkCount(c), 0, s) = (CHOOSE it : A(it))[DOMAIN s]
    BY CountLoops
  <2> HIDE DEF A, loop, base, n
  <2>3. (CHOOSE it : A(it)) = (CHOOSE it : Iterates(it, loop, s, base, n))
    BY <2>1, Zenon
  <2> QED  BY <1>1, <2>2, <2>3 DEF Looped
<1>3. PICK f : /\ Looped(loop, s, base, n) = f[n] /\ f[0] = base
               /\ \A k \in 1 .. n : f[k] = LoopBody(loop, s, f[k - 1], k)
  <2> HIDE DEF loop, base, n
  <2> QED  BY <1>1, LoopUnfolds
<1> DEFINE T == {k \in 0 .. n : IsFiniteSet(Upto(k)) /\ f[k] = Cardinality(Upto(k))}
<1>4. 0 \in T
  <2>1. Upto(0) = {}  OBVIOUS
  <2>2. IsFiniteSet({}) /\ Cardinality({}) = 0  BY FS_EmptySet
  <2>3. 0 \in 0 .. n /\ f[0] = 0  BY <1>1, <1>3
  <2>4. IsFiniteSet(Upto(0)) /\ Cardinality(Upto(0)) = 0  BY <2>1, <2>2
  <2> HIDE DEF Upto, n
  <2> QED  BY <2>3, <2>4
<1>5. ASSUME NEW k \in 1 .. n, k - 1 \in T  PROVE k \in T
  <2> DEFINE B == BitsOf(s[k])
             P == Upto(k - 1)
  <2>1. k \in Nat /\ 1 .. k = (1 .. k - 1) \cup {k}  OBVIOUS
  <2>2. Upto(k) = P \cup B
    <3>1. {BitsOf(s[j]) : j \in 1 .. k} = {BitsOf(s[j]) : j \in 1 .. k - 1} \cup {B}
      BY <2>1
    <3> QED  BY <3>1
  <2>3. ChunkOK(s[k])  BY DEF StreamOK
  <2>4. IsFiniteSet(B) /\ ChunkCount(s[k]) = Cardinality(B)  BY <2>3, ChunkCountIs
  <2>5. IsFiniteSet(P) /\ f[k - 1] = Cardinality(P)  BY <1>5
  <2>6. P \cap B = {}
    <3> SUFFICES ASSUME NEW x \in P, x \in B  PROVE FALSE  OBVIOUS
    <3>1. PICK j \in 1 .. k - 1 : x \in BitsOf(s[j])  OBVIOUS
    <3>2. j \in 1 .. n /\ j < k  BY <1>1, <2>1
    <3>3. x < s[k].start  BY <3>1, <3>2, HeldAscends
    <3>4. x \in Nat /\ s[k].start \in Nat /\ s[k].start <= x  BY HeldWithin
    <3> QED  BY <3>3, <3>4
  <2>7. f[k] = f[k - 1] + ChunkCount(s[k])  BY <1>3 DEF LoopBody
  <2> HIDE DEF P, B, Upto
  <2> DEFINE S == P \cup B
  <2>8. IsFiniteSet(S)  BY <2>4, <2>5, FS_Union
  <2>9. Cardinality(S) = Cardinality(P) + Cardinality(B)  BY <2>6, <2>8, CountParts
  <2>10. IsFiniteSet(Upto(k)) /\ f[k] = Cardinality(Upto(k))
    BY <2>2, <2>4, <2>5, <2>7, <2>8, <2>9
  <2>11. k \in 0 .. n  BY <1>1
  <2> QED  BY <2>10, <2>11
<1>6. n \in 0 .. n  BY <1>1
<1>7. n \in T
  <2> HIDE DEF T
  <2> QED  BY <1>1, <1>4, <1>5, <1>6, StepByStep
<1>8. Bits(s) = Upto(n)  BY DEF Bits
<1> QED  BY <1>2, <1>3, <1>7, <1>8

\* sm_cardinality of a map is the number of indices it stores.
LEMMA CountIs ==
  ASSUME NEW m, NEW X, NEW L, Stores(m, X, L)
  PROVE  Count(m) = Cardinality(X) /\ IsFiniteSet(X) /\ Cardinality(X) \in Nat
<1>1. CASE SmallHolds(m, X)
  <2>1. IsSmall(m) /\ X = SmallBits(m.words)  BY <1>1, SmallFields DEF SmallHolds
  <2>2. IsFiniteSet(0 .. SmallMaxBits - 1)  BY SmallCovers, FS_Interval
  <2>3. X \subseteq 0 .. SmallMaxBits - 1  BY <2>1 DEF SmallBits
  <2>4. IsFiniteSet(X) /\ Cardinality(X) \in Nat  BY <2>2, <2>3, CountPart
  <2>5. Count(m) = Cardinality(X)  BY <2>1 DEF Count
  <2> QED  BY <2>4, <2>5
<1>2. CASE ChunkHolds(m, X, L)
  <2>1. ~IsSmall(m) /\ StreamOK(m.chunks, 0, L) /\ Encodes(m.chunks, X, m.used - 1)
    BY <1>2, ChunkFields
  <2>2. Bits(m.chunks) = X  BY <2>1 DEF Encodes
  <2>3. /\ IsFiniteSet(Bits(m.chunks))
        /\ FoldLeft(LAMBDA n, c : n + ChunkCount(c), 0, m.chunks) = Cardinality(Bits(m.chunks))
    BY <2>1, StreamCountIs
  <2>4. Count(m) = Cardinality(X)  BY <2>1, <2>2, <2>3 DEF Count
  <2> QED  BY <2>2, <2>3, <2>4, FS_CardinalityType
<1> QED  BY <1>1, <1>2 DEF Stores

----------------------------------------------------------------------------
(* Buffers.                                                                *)

\* A buffer of another size that holds the words there are.
LEMMA Recapped ==
  ASSUME NEW m, NEW X, NEW L, Stores(m, X, L), NEW size \in Nat, m.used <= size,
         NEW r, r = [m EXCEPT !.cap = size]
  PROVE  /\ Stores(r, X, L)
         /\ r.cap = size /\ r.used = m.used
<1>1. IsMap(m)  BY StoresIsMap
<1>2. r = [mode |-> m.mode, words |-> m.words, chunks |-> m.chunks,
           used |-> m.used, cap |-> size]
  BY <1>1 DEF IsMap
<1>3. /\ r.mode = m.mode /\ r.words = m.words /\ r.chunks = m.chunks
      /\ r.used = m.used /\ r.cap = size
  BY <1>2
<1>4. CASE SmallHolds(m, X)
  <2>1. /\ m.mode = "small" /\ m.chunks = << >> /\ m.used = HeaderWords + Len(m.words)
        /\ WordsOK(m.words) /\ X = SmallBits(m.words)
    BY <1>4, SmallFields DEF SmallHolds, HeaderWords
  <2>2. r = [mode |-> "small", words |-> r.words, chunks |-> << >>,
             used |-> HeaderWords + Len(r.words), cap |-> r.cap]
    BY <1>2, <1>3, <2>1
  <2>3. SmallHolds(r, X)  BY <1>3, <2>1, <2>2 DEF SmallHolds
  <2> QED  BY <1>3, <2>3 DEF Stores
<1>5. CASE ChunkHolds(m, X, L)
  <2> DEFINE q == Plain(m)
             p == Plain(r)
  <2>1. /\ m.mode = "chunk" /\ m.words = << >> /\ Fits(q, X, L)
        /\ q.chunks = m.chunks /\ q.used = m.used
    BY <1>5, ChunkFields
  <2>2. p = [chunks |-> m.chunks, used |-> m.used, cap |-> size]  BY <1>3 DEF Plain
  <2>3. p.chunks = m.chunks /\ p.used = m.used /\ p.cap = size  BY <2>2
  <2>4. r = Full(p)  BY <1>2, <2>1, <2>3 DEF Full
  <2> HIDE DEF p, q
  <2>5. /\ q \in [chunks : Seq(Chunks), used : Int, cap : Nat]
        /\ StreamOK(q.chunks, 0, L) /\ Encodes(q.chunks, X, q.used - HeaderWords)
    BY <2>1 DEF Fits, Keeps, MapOK
  <2>6. p \in [chunks : Seq(Chunks), used : Int, cap : Nat]
    BY <2>1, <2>2, <2>5
  <2>7. Fits(p, X, L)  BY <2>1, <2>3, <2>5, <2>6 DEF Fits, Keeps, MapOK
  <2>8. ChunkHolds(r, X, L)  BY <2>4, <2>7 DEF ChunkHolds, p
  <2> QED  BY <1>3, <2>8 DEF Stores
<1> QED  BY <1>4, <1>5 DEF Stores
=============================================================================
