-------------------------------- MODULE Runs --------------------------------
(***************************************************************************)
(* The run iterator: a map as the ascending sequence of its maximal runs   *)
(* of members, a run being a half-open interval.                           *)
(***************************************************************************)
EXTENDS Emitter

Run(lo, hi) == [lo |-> lo, hi |-> hi]

\* The maximal intervals of a finite set of indices.
RunAt(S, lo) == Run(lo, Min({hi \in lo + 1 .. Max(S) + 1 : hi \notin S}))
RunsIn(S) ==
  LET starts == SetToSortSeq({i \in S : i - 1 \notin S}, <)
  IN [k \in DOMAIN starts |-> RunAt(S, starts[k])]

\* __sm_run_decode_chunk: what one chunk holds
ChunkRuns(c) ==
  IF ~IsRLE(c) THEN RunsIn({c.start + b : b \in SparseBits(c)})
  ELSE IF c.len = 0 THEN << >> ELSE << Run(c.start, c.start + c.len) >>

\* __sm_run_next_raw
RawRuns(m) ==
  IF IsSmall(m) THEN RunsIn(SmallBits(m.words))
  ELSE FoldLeft(LAMBDA rs, c : rs \o ChunkRuns(c), << >>, m.chunks)

\* __sm_run_next: a run takes in the next one when that begins where it ends.
Absorbed(rs, r) ==
  IF rs # << >> /\ Last(rs).hi = r.lo
  THEN Append(Front(rs), Run(Last(rs).lo, r.hi)) ELSE Append(rs, r)
MaximalRuns(m) == FoldLeft(Absorbed, << >>, RawRuns(m))
=============================================================================
