----------------------------- MODULE MCChunkMap -----------------------------
(* Instances of ChunkMap and Query for TLC.                                *)
EXTENDS Query

\* Enough for a run to be separated in its middle and joined on both sides.
ThreeWindows == 0 .. 3 * ChunkCap - 1
=============================================================================
