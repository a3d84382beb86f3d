------------------------------- MODULE Chunk -------------------------------
(***************************************************************************)
(* One chunk of a sparsemap and the operations src/sm.c has on it.         *)
(*                                                                         *)
(* A chunk covers a window of indices that begins at its start.  A sparse  *)
(* chunk has a descriptor with one flag per bit vector, and one payload    *)
(* word for every vector whose flag is "mixed", in vector order; a payload *)
(* word is the set of the bits that are 1 in it.  An RLE chunk is one run  *)
(* of ones from its start and a capacity, the indices it answers for.      *)
(*                                                                         *)
(* A fourth flag, SM_PAYLOAD_NONE, takes a vector out of what the chunk     *)
(* answers for.  sm_offset writes it; nothing that sm_add and sm_remove do  *)
(* does, and SparseChunks, the chunks those make, is without it.            *)
(***************************************************************************)
EXTENDS Integers, Sequences, SequencesExt, FiniteSets

CONSTANTS
  BitsPerVector,   \* SM_BITS_PER_VECTOR (64)
  FlagsPerIndex,   \* SM_FLAGS_PER_INDEX (32)
  RLEMax           \* SM_CHUNK_RLE_MAX_LENGTH, the 31-bit field's largest value

ASSUME ChunkConstants ==
  /\ BitsPerVector \in Nat /\ BitsPerVector >= 2
  /\ FlagsPerIndex \in Nat /\ FlagsPerIndex >= 1
  /\ RLEMax \in Nat

Bit == 0 .. BitsPerVector - 1
Vec == 0 .. FlagsPerIndex - 1
Flag == {"zeros", "ones", "mixed"}
ChunkCap == BitsPerVector * FlagsPerIndex

AlignedOffset(i) == (i \div ChunkCap) * ChunkCap
RoundUp(i) == ((i + ChunkCap - 1) \div ChunkCap) * ChunkCap
Lesser(a, b) == IF a <= b THEN a ELSE b
Greater(a, b) == IF a >= b THEN a ELSE b

\* Values of the right type; a chunk of the program is one of these.
SparseChunks ==
  [kind : {"sparse"}, start : Nat, flag : [Vec -> Flag], data : Seq(SUBSET Bit)]
RLEChunks == [kind : {"rle"}, start : Nat, len : 0 .. RLEMax, cap : 0 .. RLEMax]
Chunks == SparseChunks \cup RLEChunks

----------------------------------------------------------------------------
(* Construction.  The two fields of an RLE descriptor are 31 bits wide and *)
(* a store masks its argument.                                             *)

SparseChunk(start, flag, data) ==
  [kind |-> "sparse", start |-> start, flag |-> flag, data |-> data]
RLEChunk(start, len, cap) ==
  [kind |-> "rle", start |-> start,
   len |-> len % (RLEMax + 1), cap |-> cap % (RLEMax + 1)]

OnesChunk(start) == SparseChunk(start, [v \in Vec |-> "ones"], << >>)
ZerosChunk(start) == SparseChunk(start, [v \in Vec |-> "zeros"], << >>)

\* A mutant of PrefixChunk: a word is written whether or not a vector is left
\* mixed.
PrefixChunkPadded(start, n) ==
  LET full == n \div BitsPerVector
  IN SparseChunk(start,
       [v \in Vec |-> IF v < full THEN "ones"
                      ELSE IF v = full THEN "mixed" ELSE "zeros"],
       << 0 .. (n % BitsPerVector) - 1 >>)

\* n adjacent ones from the start of the window, 1 <= n <= ChunkCap.
PrefixChunk(start, n) ==
  LET full == n \div BitsPerVector
      rest == n % BitsPerVector
  IN SparseChunk(start,
       [v \in Vec |-> IF v < full THEN "ones"
                      ELSE IF v = full /\ rest > 0 THEN "mixed" ELSE "zeros"],
       IF rest > 0 THEN << 0 .. rest - 1 >> ELSE << >>)

----------------------------------------------------------------------------
(* Queries.                                                                *)

IsRLE(c) == c.kind = "rle"
Mixed(flag) == {v \in Vec : flag[v] = "mixed"}
Size(c) == IF IsRLE(c) THEN 1 ELSE 1 + Cardinality(Mixed(c.flag))
Absent(flag) == {v \in Vec : flag[v] = "none"}
Capacity(c) == IF IsRLE(c) THEN c.cap
               ELSE ChunkCap - BitsPerVector * Cardinality(Absent(c.flag))
AllOnes(c) == ~IsRLE(c) /\ \A v \in Vec : c.flag[v] = "ones"
IsEmptyChunk(c) == \A v \in Vec : c.flag[v] \in {"zeros", "none"}

\* The place of vector v's word among the payload words.
Position(c, v) == 1 + Cardinality({u \in Mixed(c.flag) : u < v})

IsSet(c, i) ==
  IF IsRLE(c) THEN i < c.len
  ELSE /\ i < ChunkCap
       /\ LET v == i \div BitsPerVector
          IN \/ c.flag[v] = "ones"
             \/ /\ c.flag[v] = "mixed"
                /\ i % BitsPerVector \in c.data[Position(c, v)]

LeadingOnes(flag) ==
  CHOOSE n \in 0 .. FlagsPerIndex :
    /\ \A v \in 0 .. n - 1 : flag[v] = "ones"
    /\ n < FlagsPerIndex => flag[n] # "ones"

\* The length of the run from the chunk's start when the run is all the
\* chunk holds, and 0 otherwise.  A sparse chunk has a run only when its
\* first vector is full.
SparseRun(c, lead) ==
  LET tail == IF lead \in Vec /\ c.flag[lead] = "mixed" THEN c.data[1] ELSE {}
      onlyRun == /\ lead > 0
                 /\ \A v \in Vec : v > lead => c.flag[v] \in {"zeros", "none"}
                 /\ tail = 0 .. Cardinality(tail) - 1
  IN IF onlyRun THEN lead * BitsPerVector + Cardinality(tail) ELSE 0
RunLength(c) == IF IsRLE(c) THEN c.len ELSE SparseRun(c, LeadingOnes(c.flag))

----------------------------------------------------------------------------
(* Setting and clearing bit i of a sparse chunk's window.  The payload     *)
(* word appears when a vector becomes mixed and goes when it stops being   *)
(* mixed: the caller sees by how many words the chunk grew or shrank.      *)

SetFlag(c, v, to, data) ==
  SparseChunk(c.start, [c.flag EXCEPT ![v] = to], data)

\* A mutant of SetBit: the index is not reduced to a place in its vector.
SetBitUnreduced(c, i) ==
  LET v == i \div BitsPerVector
      p == Position(c, v)
  IN CASE c.flag[v] = "ones"  -> c
       [] c.flag[v] = "zeros" -> SetFlag(c, v, "mixed", InsertAt(c.data, p, {i}))
       [] c.flag[v] = "mixed" -> [c EXCEPT !.data[p] = @ \cup {i}]

SetBit(c, i) ==
  LET v == i \div BitsPerVector
      b == i % BitsPerVector
      p == Position(c, v)
  IN CASE c.flag[v] = "ones"  -> c
       [] c.flag[v] = "zeros" -> SetFlag(c, v, "mixed", InsertAt(c.data, p, {b}))
       [] c.flag[v] = "mixed" ->
            IF c.data[p] \cup {b} = Bit
            THEN SetFlag(c, v, "ones", RemoveAt(c.data, p))
            ELSE [c EXCEPT !.data[p] = @ \cup {b}]
       [] c.flag[v] = "none"  -> c

ClrBit(c, i) ==
  LET v == i \div BitsPerVector
      b == i % BitsPerVector
      p == Position(c, v)
  IN CASE c.flag[v] \in {"zeros", "none"} -> c
       [] c.flag[v] = "ones"  ->
            SetFlag(c, v, "mixed", InsertAt(c.data, p, Bit \ {b}))
       [] c.flag[v] = "mixed" ->
            IF c.data[p] \ {b} = {}
            THEN SetFlag(c, v, "zeros", RemoveAt(c.data, p))
            ELSE [c EXCEPT !.data[p] = @ \ {b}]

\* __sm_chunk_increase_capacity: the chunk answers for its whole window.
Widened(c) ==
  SparseChunk(c.start,
    [v \in Vec |-> IF c.flag[v] = "none" THEN "zeros" ELSE c.flag[v]], c.data)

\* The pivot of a separation loses the bits from n on.  c is all ones, but
\* for at most one mixed vector that begins before n.
MaskTail(c, n) ==
  LET tail == n \div BitsPerVector
      mask == 0 .. (n % BitsPerVector) - 1
  IN IF n >= ChunkCap THEN c
     ELSE SparseChunk(c.start,
            [v \in Vec |-> IF v < tail THEN c.flag[v]
                           ELSE IF v = tail /\ mask # {} THEN "mixed"
                           ELSE "zeros"],
            IF mask = {} THEN c.data
            ELSE IF c.flag[tail] = "mixed"
                 THEN [c.data EXCEPT ![1] = @ \cap mask]
                 ELSE Append(c.data, mask))
=============================================================================
