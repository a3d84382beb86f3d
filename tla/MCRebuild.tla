----------------------------- MODULE MCRebuild -----------------------------
(* Instances of Rebuild for TLC: maps that clients build, and calls on them. *)
EXTENDS Rebuild

\* What a window of the client's set may hold: nothing, all of it, a run from
\* its start that ends inside a slot, and a bit that is in none.
Patterns == {{}, WindowBits, 0 .. BitsPerVector, {ChunkCap - 2}}

SetOf(f) == UNION {{w * ChunkCap + k : k \in f[w]} : w \in DOMAIN f}
Sets == {SetOf(f) : f \in {g \in [0 .. 2 -> Patterns] : g[2] \in {{}, 0 .. BitsPerVector}}}

\* Index by index upwards, or everything and then what is not wanted removed.
All == 0 .. RLEMax - 1
Ways == {<< S, {} >> : S \in Sets} \cup {<< All, All \ S >> : S \in Sets}

\* From a window's start or not, within a window, to its end or across.
Intervals ==
  {Run(0, BitsPerVector + 1), Run(1, ChunkCap), Run(ChunkCap, ChunkCap + 1),
   Run(BitsPerVector, RLEMax), Run(ChunkCap - 1, 2 * ChunkCap + 1),
   Run(2 * ChunkCap + 1, 2 * ChunkCap + 2)}
Arrays == {{1}, {0, 1, ChunkCap}, (0 .. RLEMax - 1) \ {ChunkCap}, {2 * ChunkCap, RLEMax}}

\* By whole windows and slots, by single bits, up and down.
Distances == {0 - ChunkCap, 0 - BitsPerVector, -1, 1, BitsPerVector, ChunkCap - 1, ChunkCap}
=============================================================================
