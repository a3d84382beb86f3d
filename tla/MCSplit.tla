------------------------------ MODULE MCSplit ------------------------------
(* Instances of Split for TLC: maps that clients build, and where they are *)
(* split.                                                                  *)
EXTENDS Split

\* What a window of the client's set may hold: nothing, all of it, a run from
\* its start that ends inside a slot, and a bit in each slot.
Scattered == {v * BitsPerVector : v \in Vec}
Patterns == {{}, WindowBits, 0 .. BitsPerVector, Scattered}

SetOf(f) == UNION {{w * ChunkCap + k : k \in f[w]} : w \in DOMAIN f}
Sets == {SetOf(f) : f \in {g \in [0 .. 2 -> Patterns] : g[2] \in {{}, 0 .. BitsPerVector}}}

\* Index by index upwards, or everything and then what is not wanted removed;
\* a single index; a small map; and a run shortened by a window, whose capacity
\* stays, with an index after it.
All == 0 .. 3 * ChunkCap - 1
Shortened == 0 .. 2 * ChunkCap
Ways ==
  {<< S, {} >> : S \in Sets} \cup {<< All, All \ S >> : S \in Sets}
    \cup {<< {ChunkCap + 1}, {} >>, << {1, BitsPerVector + 1}, {} >>,
          << Shortened \cup {3 * ChunkCap + 1}, {2 * ChunkCap} >>}

\* At a window's start, inside it and at its end, above the last index.
Places == {1, BitsPerVector, ChunkCap - 1, ChunkCap, ChunkCap + 1, ChunkCap + BitsPerVector,
           2 * ChunkCap + 1, 3 * ChunkCap}
=============================================================================
