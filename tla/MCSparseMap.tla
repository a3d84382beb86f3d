---------------------------- MODULE MCSparseMap ----------------------------
(* Instances of SparseMap for TLC.                                         *)
EXTENDS SparseMap

\* A window that small mode covers in part, and one index of the next.
TwoWindows == 0 .. ChunkCap

\* The whole window; and a part of it that begins and ends inside a word.
Ranges == {<< 0, ChunkCap >>, << 1, 3 >>}

\* One index of the second window only, and one of small mode: no chunk of
\* theirs has a run.
Apart == {1, ChunkCap}
NoRanges == {}
=============================================================================
