----------------------------- MODULE MCSetWalk -----------------------------
(* Instances of SetWalk for TLC: maps that clients build.                  *)
EXTENDS SetWalk

\* What a window of the client's set may hold: nothing, all of it, a run from
\* its start, and a bit that is in none.  The last index is left out, so that
\* the longest run is as long as an RLE chunk can say, and its capacity ends
\* inside a window.
Patterns == {{}, WindowBits, 0 .. BitsPerVector, {1}}

SetOf(f) == UNION {{w * ChunkCap + k : k \in f[w]} : w \in DOMAIN f}
Sets == {SetOf(f) : f \in {g \in [0 .. 2 -> Patterns] : g[2] # WindowBits}}

\* Index by index upwards, or everything and then what is not wanted removed.
All == 0 .. RLEMax - 1
Ways == {<< S, {} >> : S \in Sets} \cup {<< All, All \ S >> : S \in Sets}
=============================================================================
