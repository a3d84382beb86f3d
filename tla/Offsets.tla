------------------------------ MODULE Offsets ------------------------------
(***************************************************************************)
(* The chunk stream as its readers with a memory see it: by the offset, in *)
(* words from the first chunk, of a chunk they remember, and by the word   *)
(* found at an offset, which need not be where a chunk begins any more.    *)
(***************************************************************************)
EXTENDS ChunkStream, FiniteSetsExt

NoOffset == -1   \* SIZE_MAX, the offset of no chunk
NoIndex == -1    \* SM_IDX_MAX, the index of no bit

\* Where chunk j begins; for j one past the last chunk, where the stream ends.
OffsetOf(s, j) == StreamWords(SubSeq(s, 1, j - 1))
Boundaries(s) == {OffsetOf(s, j) : j \in DOMAIN s}
ChunkAt(s, offset) == CHOOSE j \in DOMAIN s : OffsetOf(s, j) = offset

\* The words' values as numbers.  A run's descriptor has a high bit that no
\* start of the model has: it equals none of them.
PayloadValue(word) == MapThenSumSet(LAMBDA b : 2 ^ b, word)
FlagValue == [zeros |-> 0, mixed |-> 2, ones |-> 3]
DescriptorValue(c) ==
  IF IsRLE(c) THEN -1
  ELSE MapThenSumSet(LAMBDA v : FlagValue[c.flag[v]] * 4 ^ v, Vec)

WordOfChunk(c, k) ==
  CASE k = 0 -> c.start
    [] k = 1 -> DescriptorValue(c)
    [] k > 1 -> PayloadValue(c.data[k - 1])
WordAt(s, offset) ==
  LET j == CHOOSE k \in DOMAIN s : /\ OffsetOf(s, k) <= offset
                                  /\ offset < OffsetOf(s, k + 1)
  IN WordOfChunk(s[j], offset - OffsetOf(s, j))

\* The walk of __sm_get_chunk_offset, begun at chunk `from'.
WalkFrom(s, from, i) ==
  CHOOSE j \in from .. Len(s) :
    /\ \A k \in from .. j - 1 : i >= s[k].start + Capacity(s[k])
    /\ j < Len(s) => i < s[j].start + Capacity(s[j])

\* What a reader asks of the chunk it located.
CoveredBy(c, i) == c.start <= i /\ i - c.start < Capacity(c)
InChunk(c, i) == CoveredBy(c, i) /\ IsSet(c, i - c.start)
ChunkMembers(c) ==
  {i \in c.start .. c.start + Capacity(c) - 1 : IsSet(c, i - c.start)}
=============================================================================
