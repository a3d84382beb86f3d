------------------------------ MODULE Emitter ------------------------------
(***************************************************************************)
(* How the operations that build a new map write it: chunk by chunk, in    *)
(* ascending order, at the end of a result that grows when it is full.     *)
(*                                                                         *)
(* Between chunks the code works on windows of 32 words.  Here the words   *)
(* of a window are the set of the offsets, from the window's start, of     *)
(* the bits that are 1; the slots a window answers for are a set of        *)
(* vectors.  A piece is a window with its words and its slots.             *)
(***************************************************************************)
EXTENDS SmallSet

CONSTANTS
  LeastResult,   \* words of the smallest result buffer (1024 bytes)
  GrowSlack      \* words a result's growth adds to what is asked (256 bytes)

ASSUME ResultConstants == LeastResult \in Nat \ {0} /\ GrowSlack \in Nat

WindowBits == 0 .. ChunkCap - 1
Piece(start, bits, slots) == [start |-> start, bits |-> bits, slots |-> slots]
NewResult(words) == EmptyMap(Greater(words, LeastResult))

----------------------------------------------------------------------------
(* Chunks to words and back.                                               *)

\* __sm_expand_sparse_chunk
SparseBits(c) == {b \in WindowBits : IsSet(c, b)}

\* __sm_expand_rle_as_words, for the window that begins at start
RunBits(c, start) == {b \in WindowBits : c.start <= start + b /\ start + b < c.start + c.len}

BitsIn(c, start) == IF IsRLE(c) THEN RunBits(c, start) ELSE SparseBits(c)
SlotsOf(c) == Vec \ Absent(c.flag)

Word(p, v) ==
  IF v \in p.slots THEN {b \in Bit : v * BitsPerVector + b \in p.bits} ELSE {}
FlagOf(word) == IF word = {} THEN "zeros" ELSE IF word = Bit THEN "ones" ELSE "mixed"

\* __sm_encode_sparse_chunk.  The last slot is never left absent: its flag
\* would make the descriptor a run's.
EncodedFlags(p) ==
  [v \in Vec |-> IF v \notin p.slots /\ v # FlagsPerIndex - 1 THEN "none"
                 ELSE FlagOf(Word(p, v))]
NthMixed(flag, n) ==
  CHOOSE v \in Mixed(flag) : Cardinality({u \in Mixed(flag) : u < v}) = n - 1
WithPayload(p, flag) ==
  SparseChunk(p.start, flag,
    [n \in 1 .. Cardinality(Mixed(flag)) |-> Word(p, NthMixed(flag, n))])
Encoded(p) == Then(EncodedFlags(p), LAMBDA flag : WithPayload(p, flag))

----------------------------------------------------------------------------
(* Appending to the result.                                                *)

\* A mutant of Ensured: a result grows by half, however much is asked.
EnsuredByHalf(m, need) ==
  IF m.used + need <= m.cap THEN m ELSE [m EXCEPT !.cap = @ + @ \div 2]

\* __sm_ensure_capacity
Ensured(m, need) ==
  IF m.used + need <= m.cap THEN m
  ELSE [m EXCEPT !.cap = @ + (IF @ \div 2 > need THEN @ \div 2 ELSE need + GrowSlack)]

AppendTo(m, c, words) ==
  [Ensured(m, words) EXCEPT !.chunks = Append(@, c), !.used = @ + words]

\* A mutant of AppendChunk: the chunk's start word is not counted.
AppendChunkUncounted(m, c) == AppendTo(m, c, Size(c))

\* __sm_copy_chunk_to_result, and what the others end in
AppendChunk(m, c) == AppendTo(m, c, 1 + Size(c))

\* __sm_append_sparse_chunk; nothing is written for a piece without a bit
AppendEncoded(m, c) == IF IsEmptyChunk(c) THEN m ELSE AppendChunk(m, c)
AppendSparse(m, p) == Then(Encoded(p), LAMBDA c : AppendEncoded(m, c))

\* The last chunk is a run, or a full sparse chunk, that ends where the new
\* run begins, and the two together fit the fields of one.
Continues(c, start, cap, len) ==
  /\ c.start + RunLength(c) = start
  /\ IsRLE(c) \/ (RunLength(c) = Capacity(c) /\ RunLength(c) > 0)
  /\ RunLength(c) + len <= RLEMax
  /\ start + cap - c.start <= RLEMax
\* A mutant of Lengthened: the longer run keeps the capacity it had.
LengthenedWithin(m, c, start, cap, len) ==
  [m EXCEPT !.chunks[Len(m.chunks)] = RLEChunk(c.start, RunLength(c) + len, Capacity(c)),
            !.used = @ - (Size(c) - 1)]
Lengthened(m, c, start, cap, len) ==
  [m EXCEPT !.chunks[Len(m.chunks)] =
              RLEChunk(c.start, RunLength(c) + len, start + cap - c.start),
            !.used = @ - (Size(c) - 1)]

\* __sm_append_rle_raw
AppendRLERaw(m, start, cap, len) == AppendChunk(m, RLEChunk(start, len, cap))

\* __sm_append_rle_chunk
AppendRLE(m, start, cap, len) ==
  IF m.chunks # << >> /\ Continues(Last(m.chunks), start, cap, len)
  THEN Lengthened(m, Last(m.chunks), start, cap, len)
  ELSE AppendRLERaw(m, start, cap, len)

\* __sm_append_words_aligned: the result's last chunk takes the bits in when it
\* is the same window, and a full window is written as a run.
AppendWindow(m, start, bits) ==
  IF bits = WindowBits THEN AppendRLE(m, start, ChunkCap, ChunkCap)
  ELSE AppendSparse(m, Piece(start, bits, Vec))
SameWindow(m, start) ==
  m.chunks # << >> /\ Last(m.chunks).start = start /\ ~IsRLE(Last(m.chunks))
WithoutLast(m) ==
  [m EXCEPT !.chunks = Front(@), !.used = @ - (1 + Size(Last(m.chunks)))]
\* A mutant of MergeWindow: what the last chunk held is lost.
MergeWindowOver(m, start, bits) ==
  AppendWindow(IF SameWindow(m, start) THEN WithoutLast(m) ELSE m, start, bits)
MergeWindow(m, start, bits) ==
  IF SameWindow(m, start)
  THEN AppendWindow(WithoutLast(m), start, bits \cup SparseBits(Last(m.chunks)))
  ELSE AppendWindow(m, start, bits)

\* The offsets of [lo, hi) in the window that begins at start.
OffsetsIn(start, lo, hi) == {b \in WindowBits : lo <= start + b /\ start + b < hi}

\* __sm_append_run: [lo, hi) as the rest of lo's window, whole windows as runs
\* no longer than the field allows, and the beginning of the last window.
MaxBody == (RLEMax \div ChunkCap) * ChunkCap
AppendHead(m, lo, hi) ==
  IF lo % ChunkCap = 0 THEN m
  ELSE MergeWindow(m, AlignedOffset(lo), OffsetsIn(AlignedOffset(lo), lo, hi))

\* The n windows from start on, MaxBody at a time; only the first may lengthen
\* the chunk before it.  (The code does not even try when the head it has just
\* written is not full; then there is nothing to lengthen.)
Bodies(n) == [k \in 1 .. (n * ChunkCap + MaxBody - 1) \div MaxBody |->
                Lesser(MaxBody, n * ChunkCap - (k - 1) * MaxBody)]
AppendBody(m, start, n) ==
  FoldLeft(LAMBDA r, k :
             IF k = 1 THEN AppendRLE(r, start, Bodies(n)[1], Bodies(n)[1])
             ELSE AppendRLERaw(r, start + (k - 1) * MaxBody, Bodies(n)[k], Bodies(n)[k]),
           m, [k \in DOMAIN Bodies(n) |-> k])
AppendTail(m, start, hi) ==
  IF start >= hi THEN m ELSE AppendWindow(m, start, OffsetsIn(start, start, hi))

AppendFrom(m, start, hi) ==
  IF start >= hi THEN m
  ELSE AppendTail(AppendBody(m, start, (hi - start) \div ChunkCap),
                  AlignedOffset(hi), hi)
AppendRun(m, lo, hi) ==
  IF lo >= hi THEN m ELSE AppendFrom(AppendHead(m, lo, hi), RoundUp(lo), hi)

----------------------------------------------------------------------------
(* The emitter: one window is held back so that later pieces of it can be  *)
(* merged into it before it is written.                                    *)

EmitTo(m) == [out |-> m, pending |-> << >>]

\* __sm_emit_flush
Flush(e) ==
  IF e.pending = << >> THEN e ELSE EmitTo(AppendSparse(e.out, e.pending[1]))

\* __sm_emit_words.  The mutant writes a window that was written already.
Held(e, p) == [e EXCEPT !.pending = << p >>]
Merged(p, q) ==
  Piece(p.start, p.bits \cup {b \in q.bits : b \div BitsPerVector \in q.slots},
        p.slots \cup q.slots)
EmitWordsUnmerged(e, p) == Held(Flush(e), p)
EmitWords(e, p) ==
  IF e.pending # << >> /\ e.pending[1].start = p.start
  THEN Held(e, Merged(e.pending[1], p))
  ELSE Held(Flush(e), p)

\* __sm_emit_rle: the whole windows of a run as a run, the rest as words.
EmitWhole(e, start, full) ==
  IF full = 0 THEN e
  ELSE Then(Flush(e).out, LAMBDA m : EmitTo(AppendRLE(m, start, full, full)))
EmitRest(e, start, rest) ==
  IF rest = 0 THEN e ELSE EmitWords(e, Piece(start, 0 .. rest - 1, Vec))
EmitRLE(e, start, len) ==
  Then(EmitWhole(e, start, AlignedOffset(len)),
       LAMBDA w : EmitRest(w, start + AlignedOffset(len), len % ChunkCap))

\* __sm_emit_run
EmitHead(e, lo, hi) ==
  IF lo % ChunkCap = 0 THEN e
  ELSE EmitWords(e, Piece(AlignedOffset(lo), OffsetsIn(AlignedOffset(lo), lo, hi), Vec))
EmitRun(e, lo, hi) ==
  IF lo >= hi THEN e
  ELSE IF RoundUp(lo) >= hi THEN EmitHead(e, lo, hi)
  ELSE Then(EmitHead(e, lo, hi),
            LAMBDA h : EmitRLE(h, RoundUp(lo), hi - RoundUp(lo)))

\* __sm_emit_chunk_bits: what chunk c holds in [from, to).  Vectors of a sparse
\* chunk that lie outside are left absent.
Clipped(c, from, to) ==
  Piece(c.start, {b \in SparseBits(c) : from <= c.start + b /\ c.start + b < to},
        {v \in SlotsOf(c) : /\ c.start + (v + 1) * BitsPerVector > from
                            /\ c.start + v * BitsPerVector < to})
EmitChunkBits(m, c, from, to) ==
  IF from >= to THEN m
  ELSE IF IsRLE(c)
       THEN Flush(EmitRun(EmitTo(m), Greater(from, c.start),
                          Lesser(to, c.start + c.len))).out
       ELSE AppendSparse(m, Clipped(c, from, to))
=============================================================================
