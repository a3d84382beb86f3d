---------------------------- MODULE ChunkStream ----------------------------
(***************************************************************************)
(* A chunk-mode sparsemap and the two operations that change one index of  *)
(* it: __sm_map_set and __sm_map_unset of src/sm.c, with the coalescing    *)
(* and the separation of runs they call.                                   *)
(*                                                                         *)
(* A map is a record: its chunks in stream order, and the used and total   *)
(* words of its buffer, counted in 8-byte words.  The stream is one header *)
(* word and, for each chunk, a start word, a descriptor and its payload;   *)
(* `used' is changed here by exactly the amounts the code adds to          *)
(* m_data_used, so that it agrees with the chunks only if the code keeps   *)
(* the two in step.                                                        *)
(***************************************************************************)
EXTENDS Chunk

MapRecord(chunks, used, cap) == [chunks |-> chunks, used |-> used, cap |-> cap]
HeaderWords == 1

\* SM_ENOUGH_SPACE: an insertion's memmove reaches one word past the new end.
HasRoom(m, need) == m.used + need + HeaderWords <= m.cap

\* The n chunks from place j on give way to those of t.
Splice(s, j, n, t) == SubSeq(s, 1, j - 1) \o t \o SubSeq(s, j + n, Len(s))
Replace(m, j, n, t, words) ==
  [m EXCEPT !.chunks = Splice(@, j, n, t), !.used = @ + words]

Done(m) == [map |-> m, ok |-> TRUE]
Failed(m) == [map |-> m, ok |-> FALSE]   \* ENOSPC: SM_IDX_MAX is returned

----------------------------------------------------------------------------
(* Lookup.                                                                 *)

\* The chunk that contains i or, when none does, the first one after i, or
\* the last chunk when i is past them all.
Locate(s, i) ==
  CHOOSE j \in DOMAIN s :
    /\ \A k \in 1 .. j - 1 : i >= s[k].start + Capacity(s[k])
    /\ j < Len(s) => i < s[j].start + Capacity(s[j])

\* sm_contains
HasBit(s, i) ==
  /\ s # << >>
  /\ LET c == s[Locate(s, i)]
     IN /\ c.start <= i
        /\ i - c.start < Capacity(c)
        /\ IsSet(c, i - c.start)

----------------------------------------------------------------------------
(* sm_validate, for a chunk-mode map: the structure every reader relies on.*)

\* The words of a stream of chunks: each one's start and descriptor, and a
\* payload word for every mixed vector.
MixedVectors(t) ==
  {jv \in (DOMAIN t) \X Vec :
     ~IsRLE(t[jv[1]]) /\ t[jv[1]].flag[jv[2]] = "mixed"}
StreamWords(t) == 2 * Len(t) + Cardinality(MixedVectors(t))

Ordered(s) ==
  \A j \in 1 .. Len(s) - 1 : /\ s[j].start < s[j + 1].start
                            /\ s[j].start + Capacity(s[j]) <= s[j + 1].start

\* The vectors of a sparse chunk that hold an index lie within its capacity,
\* which each absent vector reduces wherever it is.
DataVectors(flag) == {v \in Vec : flag[v] \in {"ones", "mixed"}}
DataInCapacity(c) ==
  \A v \in DataVectors(c.flag) : (v + 1) * BitsPerVector <= Capacity(c)

WellFormed(s) ==
  /\ \A j \in DOMAIN s : /\ s[j].start % ChunkCap = 0
                       /\ IF IsRLE(s[j]) THEN s[j].len <= s[j].cap
                          ELSE DataInCapacity(s[j])
  /\ Ordered(s)
Accounted(m) ==
  /\ m.used <= m.cap
  /\ m.used = HeaderWords + StreamWords(m.chunks)
Valid(m) == WellFormed(m.chunks) /\ Accounted(m)

----------------------------------------------------------------------------
(* Coalescing.                                                             *)

\* The capacity of a run of len from start that ends at place j of the
\* stream: up to the window's end, but not into the next chunk.
RunCapacity(s, j, start, len) ==
  LET window == RoundUp(start + len) - start
      room == IF j < Len(s) THEN Lesser(window, s[j + 1].start - start)
              ELSE window
  IN Lesser(Greater(room, len), RLEMax)

CanJoinLeft(m, j, start) ==
  /\ j > 1
  /\ LET s == m.chunks
         a == s[Locate(s, start - 1)]
         run == RunLength(s[j])
         len == start + run - a.start
     IN /\ Locate(s, start - 1) < j
        /\ RunLength(a) > 0
        /\ a.start + RunLength(a) = start
        /\ ChunkCap + run < RLEMax
        /\ IsRLE(a) => a.len <= a.cap
        /\ len <= RunCapacity(s, j, a.start, len)

JoinLeft(m, j, start) ==
  LET s == m.chunks
      k == Locate(s, start - 1)
      len == start + RunLength(s[j]) - s[k].start
      joined == RLEChunk(s[k].start, len, RunCapacity(s, j, s[k].start, len))
  IN [m EXCEPT !.chunks = RemoveAt([@ EXCEPT ![k] = joined], j),
               !.used = @ - (1 + Size(s[j]))]

\* Chunk j takes in the run of the chunk on its right; a set operation that
\* touched the right chunk counts its run only up to the index it set.
RightRun(m, j, i, isSet) ==
  LET a == m.chunks[j + 1]
  IN IF isSet /\ i >= a.start THEN Lesser(RunLength(a), i - a.start + 1)
     ELSE RunLength(a)

CanJoinRight(m, j, start, i, isSet) ==
  /\ IsRLE(m.chunks[j]) \/ AllOnes(m.chunks[j])
  /\ j < Len(m.chunks)
  /\ LET s == m.chunks
         a == s[j + 1]
         run == RightRun(m, j, i, isSet)
         len == a.start + run - start
     IN /\ run > 0
        /\ start + RunLength(s[j]) = a.start
        /\ run + RunLength(s[j]) < RLEMax
        /\ IsRLE(a) => run <= a.cap
        /\ len <= RunCapacity(s, j + 1, start, len)

JoinRight(m, j, start, i, isSet) ==
  LET s == m.chunks
      len == s[j + 1].start + RightRun(m, j, i, isSet) - start
      joined == RLEChunk(s[j].start, len, RunCapacity(s, j + 1, start, len))
  IN Replace(m, j, 2, << joined >>, -(Size(s[j]) + Size(s[j + 1])))

\* The map after the join on the left, if it can be, with the chunk at hand.
AtChunk(m, j, start) == [map |-> m, at |-> j, start |-> start]
JoinedLeft(m, j, start) ==
  LET k == Locate(m.chunks, start - 1)
  IN IF CanJoinLeft(m, j, start)
     THEN AtChunk(JoinLeft(m, j, start), k, m.chunks[k].start)
     ELSE AtChunk(m, j, start)
JoinedRight(p, i, isSet) ==
  IF CanJoinRight(p.map, p.at, p.start, i, isSet)
  THEN JoinRight(p.map, p.at, p.start, i, isSet) ELSE p.map

\* __sm_coalesce_chunk.  start is the caller's idea of where chunk j begins.
Coalesce(m, j, start, i, isSet) ==
  LET c == m.chunks[j]
  IN IF RunLength(c) = 0 \/ (IsRLE(c) /\ c.len > c.cap) THEN m
     ELSE JoinedRight(JoinedLeft(m, j, start), i, isSet)

----------------------------------------------------------------------------
(* Separation of an RLE chunk whose window of i must become sparse.        *)

\* Mutants: the left remainder's capacity takes in the pivot's window; the
\* right remainder misses its last index.
LeftRemainderOverlong(lo, n, pivotStart) ==
  IF n > ChunkCap THEN RLEChunk(lo, n, pivotStart + ChunkCap - lo)
  ELSE PrefixChunk(lo, n)
RightRemainderShort(lo, n, capEnd) ==
  IF n > ChunkCap THEN RLEChunk(lo, n - 1, Lesser(capEnd - lo, RLEMax))
  ELSE PrefixChunk(lo, n - 1)

LeftRemainder(lo, n, pivotStart) ==
  IF n > ChunkCap THEN RLEChunk(lo, n, pivotStart - lo) ELSE PrefixChunk(lo, n)
RightRemainder(lo, n, capEnd) ==
  IF n > ChunkCap THEN RLEChunk(lo, n, Lesser(capEnd - lo, RLEMax))
  ELSE PrefixChunk(lo, n)

\* The chunks that replace run t when i, inside its run, is cleared or, past
\* its run but within its capacity, is set.
Separated(t, i, isSet) ==
  LET a == AlignedOffset(i)
      end == t.start + t.len
      next == a + ChunkCap
      ones == IF isSet THEN OnesChunk(a) ELSE ClrBit(OnesChunk(a), i - a)
      masked == MaskTail(ones, end - a)
      pivot == IF a >= end THEN SetBit(ZerosChunk(a), i - a)
               ELSE IF next < end THEN ones
               ELSE IF isSet /\ i > end THEN SetBit(masked, i - a)
               ELSE masked
      left == IF a = t.start \/ t.len = 0 THEN << >>
              ELSE << LeftRemainder(t.start, Lesser(a, end) - t.start, a) >>
      right == IF next < end
               THEN << RightRemainder(next, end - next, t.start + t.cap) >>
               ELSE << >>
  IN left \o << pivot >> \o right

\* A mutant of Separate: the parts are written without asking for room.
SeparateUnchecked(m, j, i, isSet) ==
  LET parts == Separated(m.chunks[j], i, isSet)
  IN Done(Replace(m, j, 1, parts, StreamWords(parts) - 2))

\* __sm_separate_rle_chunk: the map is untouched when the parts do not fit.
SeparateInto(m, j, parts) ==
  LET expandBy == StreamWords(parts) - 2
  IN IF HasRoom(m, expandBy) THEN Done(Replace(m, j, 1, parts, expandBy))
     ELSE Failed(m)
Separate(m, j, i, isSet) == SeparateInto(m, j, Separated(m.chunks[j], i, isSet))
----------------------------------------------------------------------------
(* __sm_map_set with coalescing.  Each operator below is one way it goes   *)
(* on from the chunk c = m.chunks[j] that Locate gave it.                  *)

\* A mutant of InsertNew: the room is asked for after the chunk is written.
InsertNewTooSoon(m, j, i, start) ==
  LET a == AlignedOffset(i)
      m1 == Replace(m, j, 0, << SetBit(ZerosChunk(a), i - a) >>, 3)
  IN IF m.chunks # << >> /\ ~HasRoom(m, 3) THEN Failed(m1)
     ELSE Done(Coalesce(m1, j, start, i, TRUE))

\* A new chunk with the one bit i is written at place j of the stream.  The
\* room for the first chunk of an empty map was checked on entry.  start is
\* what the code then coalesces with: when it inserts before the located
\* chunk it still holds that chunk's start, which is harmless because a
\* chunk of one bit has no run.
InsertNew(m, j, i, start) ==
  LET a == AlignedOffset(i)
      fresh == SetBit(ZerosChunk(a), i - a)
  IN IF m.chunks # << >> /\ ~HasRoom(m, 3) THEN Failed(m)
     ELSE Done(Coalesce(Replace(m, j, 0, << fresh >>, 3), j, start, i, TRUE))

\* Chunk j becomes, or goes on as, a run of len.
SetRun(m, j, len, cap, i) ==
  LET c == m.chunks[j]
      m1 == Replace(m, j, 1, << RLEChunk(c.start, len, cap) >>, 0)
  IN Done(Coalesce(m1, j, c.start, i, TRUE))

\* i lies past the run of chunk j and within its capacity.
SetPastRun(m, j, i) ==
  LET sep == Separate(m, j, i, TRUE)
  IN IF sep.ok THEN Done(Coalesce(sep.map, j, m.chunks[j].start, i, TRUE))
     ELSE Failed(m)

\* __sparsemap_add on an existing sparse chunk.  The room for the payload
\* word it may add was checked on entry.
SetInPlace(m, j, i) ==
  LET c == m.chunks[j]
      d == SetBit(c, i - c.start)
      m1 == Replace(m, j, 1, << d >>, Len(d.data) - Len(c.data))
  IN Done(Coalesce(m1, j, c.start, i, TRUE))

\* i is not before chunk j, the one that was located.
SetFrom(m, j, i) ==
  LET s == m.chunks
      c == s[j]
      at == i - c.start
  IN IF AllOnes(c) /\ at = ChunkCap
          THEN SetRun(m, j, at + 1, RunCapacity(s, j, c.start, at + 1), i)
     ELSE IF IsRLE(c) /\ at <= c.cap /\ at < c.len
          THEN Done(Coalesce(m, j, c.start, i, TRUE))
     ELSE IF IsRLE(c) /\ at <= c.cap /\ at = c.len
          THEN SetRun(m, j, at + 1,
                      IF c.len = c.cap THEN RunCapacity(s, j, c.start, at + 1)
                      ELSE c.cap, i)
     ELSE IF IsRLE(c) /\ at < c.cap THEN SetPastRun(m, j, i)
     ELSE IF at >= Capacity(c) THEN InsertNew(m, j + 1, i, AlignedOffset(i))
     ELSE SetInPlace(m, j, i)

\* A chunk that answers for a part of its window only, as sm_offset and the set
\* operations leave them, gets the whole of it back before i is set in it.
WithWholeWindow(m, j, i) ==
  LET c == m.chunks[j]
  IN IF ~IsRLE(c) /\ Capacity(c) < ChunkCap /\ i - c.start < ChunkCap
     THEN Replace(m, j, 1, << Widened(c) >>, 0) ELSE m

MapSet(m, i) ==
  LET s == m.chunks
      j == Locate(s, i)
  IN IF ~HasRoom(m, 2) THEN Failed(m)
     ELSE IF s = << >> THEN InsertNew(m, 1, i, AlignedOffset(i))
     ELSE IF i < s[j].start THEN InsertNew(m, j, i, s[j].start)
     ELSE SetFrom(WithWholeWindow(m, j, i), j, i)

----------------------------------------------------------------------------
(* __sm_map_unset with coalescing.                                         *)

\* i is the last index of the run of chunk j.
DropLast(m, j, i) ==
  LET c == m.chunks[j]
      shorter == IF c.len - 1 = ChunkCap THEN OnesChunk(c.start)
                 ELSE RLEChunk(c.start, c.len - 1, c.cap)
  IN IF c.len = 1 THEN Replace(m, j, 1, << >>, -2)
     ELSE Coalesce(Replace(m, j, 1, << shorter >>, 0), j, c.start, i, FALSE)

\* i lies in the window of the sparse chunk j.  When its last bit goes the
\* chunk is removed and the code still coalesces at its place: whatever chunk
\* has moved there is taken to begin where the removed one did.  (When none
\* has, the descriptor read is the removed chunk's own, all zeros: no run.)
ClearInPlace(m, j, i) ==
  LET c == m.chunks[j]
      d == ClrBit(c, i - c.start)
      m1 == IF IsSet(c, i - c.start) /\ IsEmptyChunk(d) THEN Replace(m, j, 1, << >>, -3)
            ELSE Replace(m, j, 1, << d >>, Len(d.data) - Len(c.data))
  IN IF j > Len(m1.chunks) THEN m1 ELSE Coalesce(m1, j, c.start, i, FALSE)

MapUnset(m, i) ==
  LET s == m.chunks
      j == Locate(s, i)
      c == s[j]
      at == i - c.start
  IN IF ~HasRoom(m, 2) THEN Failed(m)
     ELSE IF s = << >> \/ i < c.start \/ at >= Capacity(c) THEN Done(m)
     ELSE IF ~IsRLE(c) THEN Done(ClearInPlace(m, j, i))
     ELSE IF at >= c.len THEN Done(Coalesce(m, j, c.start, i, FALSE))
     ELSE IF at + 1 = c.len THEN Done(DropLast(m, j, i))
     ELSE Separate(m, j, i, FALSE)

\* The case in which that stale start does harm: clearing i empties a sparse
\* chunk that lies between a run ending where the chunk begins and a chunk
\* that has a run.  Everything between the two then becomes part of the run.
JoinsAcrossRemoved(m, i) ==
  LET s == m.chunks
      j == Locate(s, i)
  IN /\ HasBit(s, i)
     /\ j \in 2 .. Len(s) - 1
     /\ ~IsRLE(s[j])
     /\ IsEmptyChunk(ClrBit(s[j], i - s[j].start))
     /\ s[j - 1].start + RunLength(s[j - 1]) = s[j].start
     /\ RunLength(s[j + 1]) > 0
=============================================================================
