------------------------------- MODULE Shift -------------------------------
(***************************************************************************)
(* sm_offset, chunk by chunk: what a chunk becomes when its indices move   *)
(* by d, up or down.  Windows do not move with them, so a chunk is cut in  *)
(* two, or loses what falls below 0.                                       *)
(***************************************************************************)
EXTENDS Runs

\* The slots that n bits from a window's start reach into.
UsedSlots(n) == {v \in Vec : v * BitsPerVector < n}

----------------------------------------------------------------------------
(* A run.  What is left of it is [lo, hi).                                 *)

\* The window a piece of a run begins in answers only as far as the run goes.
RunPiece(start, lo, hi) ==
  Piece(start, OffsetsIn(start, lo, hi), UsedSlots(hi - start))
EmitPart(e, start, lo, hi) ==
  IF lo >= hi THEN e ELSE EmitWords(e, RunPiece(start, lo, hi))

\* From a window's start on: whole windows as a run, and the rest.
EmitWindows(e, start, hi) ==
  IF start > AlignedOffset(hi) THEN e
  ELSE EmitPart(EmitWhole(e, start, AlignedOffset(hi) - start),
                AlignedOffset(hi), AlignedOffset(hi), hi)

EmitInterval(e, lo, hi) ==
  IF lo >= hi THEN e
  ELSE IF lo % ChunkCap = 0 THEN EmitRLE(e, lo, hi - lo)
  ELSE EmitWindows(EmitPart(e, AlignedOffset(lo), lo, Lesser(hi, RoundUp(lo))),
                   RoundUp(lo), hi)

ShiftRun(e, c, d) ==
  EmitInterval(e, Greater(0, c.start + d), c.start + c.len + d)

----------------------------------------------------------------------------
(* A sparse chunk, whose window's start moves to start + d.                *)

\* Where the slots go when each bit moves up by n: a bit left over reaches into
\* the next slot.
MovedSlots(c, n) ==
  LET first == {w + n \div BitsPerVector : w \in SlotsOf(c)}
  IN IF n % BitsPerVector = 0 THEN first ELSE first \cup {w + 1 : w \in first}
MovedBits(c, n) == {x + n : x \in SparseBits(c)}

\* A mutant of MainPiece: the slots before the chunk's start are left out.
MainPieceBare(c, start, n) ==
  Piece(start, {x \in MovedBits(c, n) : x < ChunkCap},
        {v \in Vec : v \in MovedSlots(c, n)})

\* The window the chunk's start is in, with the slots before it, and the next.
MainPiece(c, start, n) ==
  Piece(start, {x \in MovedBits(c, n) : x < ChunkCap},
        {v \in Vec : v \in MovedSlots(c, n) \/ v < n \div BitsPerVector})
OverflowPiece(c, start, n) ==
  Piece(start + ChunkCap, {x - ChunkCap : x \in {y \in MovedBits(c, n) : y >= ChunkCap}},
        {v \in Vec : v + FlagsPerIndex \in MovedSlots(c, n)})

\* A mutant of EmitBoth: what reaches into the next window is lost when a slot
\* moves as a whole.
EmitBothAligned(e, c, start, n) ==
  IF OverflowPiece(c, start, n).bits = {} \/ n % BitsPerVector = 0
  THEN EmitWords(e, MainPiece(c, start, n))
  ELSE EmitWords(EmitWords(e, MainPiece(c, start, n)), OverflowPiece(c, start, n))

EmitBoth(e, c, start, n) ==
  IF OverflowPiece(c, start, n).bits = {} THEN EmitWords(e, MainPiece(c, start, n))
  ELSE EmitWords(EmitWords(e, MainPiece(c, start, n)), OverflowPiece(c, start, n))

\* The first n bits fall below 0.
RemainingPiece(c, n) ==
  Piece(0, {x - n : x \in {y \in SparseBits(c) : y >= n}},
        {v \in Vec : v + n \div BitsPerVector < FlagsPerIndex})
EmitRemaining(e, c, n) ==
  IF n >= ChunkCap THEN e ELSE EmitWords(e, RemainingPiece(c, n))

ShiftSparse(e, c, d) ==
  LET start == c.start + d
  IN IF start < 0 THEN EmitRemaining(e, c, 0 - start)
     ELSE EmitBoth(e, c, AlignedOffset(start), start % ChunkCap)

ShiftChunk(e, c, d) == IF IsRLE(c) THEN ShiftRun(e, c, d) ELSE ShiftSparse(e, c, d)
=============================================================================
