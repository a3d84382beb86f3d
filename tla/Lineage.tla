------------------------------- MODULE Lineage -------------------------------
(***************************************************************************)
(* Where a map's buffer comes from and how it is exchanged for another:    *)
(* the constructors, sm_set_data_size in its three lineages,               *)
(* sm_shrink_to_fit, the copies, and the way out to the wire format and    *)
(* back.  None of them is meant to change the set.                         *)
(***************************************************************************)
EXTENDS SmallSet

CONSTANT WireSlack   \* the words sm_deserialize has to spare (64 bytes)

ASSUME WireConstants == WireSlack \in Nat

Kinds == {"contiguous", "split", "wrapped"}   \* SM_OWNED_*, SM_WRAPPED

\* An empty map.  sm_create and sm_init clear it, which writes the header word
\* and counts it as used; sm_wrap takes the caller's buffer, here of zeros, as
\* it is and counts nothing.
Constructed(how, cap) ==
  IF how = "sm_wrap" THEN [EmptyMap(cap) EXCEPT !.used = 0] ELSE EmptyMap(cap)
KindOf(how) == IF how = "sm_create" THEN "contiguous" ELSE "wrapped"

\* sm_get_size: a chunk map is walked, a small one's count is taken as it is.
WordsHeld(m) ==
  IF IsSmall(m) THEN m.used ELSE HeaderWords + StreamWords(m.chunks)

\* What is left in a zeroed buffer of a map whose used words are copied to it.
\* When the header word was never counted the copy ends one word early: a
\* payload word, or the descriptor, of the last chunk reads as zeros.
EndingInZeros(c) ==
  IF IsRLE(c) \/ c.data = << >> THEN ZerosChunk(c.start)
  ELSE [c EXCEPT !.data[Len(c.data)] = {}]
UsedPrefix(m) ==
  IF m.chunks = << >> \/ m.used >= WordsHeld(m) THEN m
  ELSE [m EXCEPT !.chunks[Len(m.chunks)] = EndingInZeros(@)]

\* sm_set_data_size(map, NULL, size), for a size that holds what is used.  A
\* block of the library's is reallocated with all it holds; a caller's
\* buffer is used less of, or left for a new one of the library's.  The mutant
\* takes over the words but not their count.
Outgrown(m, kind, size) == kind = "wrapped" /\ size > m.cap
ResizedUncounted(m, kind, size) ==
  IF Outgrown(m, kind, size) THEN [m EXCEPT !.cap = size, !.used = HeaderWords]
  ELSE [m EXCEPT !.cap = size]
Resized(m, kind, size) ==
  [(IF Outgrown(m, kind, size) THEN UsedPrefix(m) ELSE m) EXCEPT !.cap = size]
ResizedKind(m, kind, size) == IF Outgrown(m, kind, size) THEN "split" ELSE kind

\* The words that are used, or the header's when none is.
FittingSize(m) == Greater(m.used, HeaderWords)

\* What sm_serialize writes, read by sm_deserialize into a new map that is
\* given some room, or by sm_open into the caller's.  Either is refused
\* unless it is valid.  sm_is_empty is what decides that a bare header is
\* written, and takes a small map of no bits for empty, but not a chunk.
IsEmptyMap(m) ==
  IF IsSmall(m) THEN \A w \in DOMAIN m.words : m.words[w] = {} ELSE m.chunks = << >>
Written(m) ==
  IF IsEmptyMap(m) THEN EmptyMap(HeaderWords)
  ELSE [m EXCEPT !.used = WordsHeld(m), !.cap = WordsHeld(m)]
Deserialized(m) == [Written(m) EXCEPT !.cap = @ + WireSlack]
Opened(m, cap) == [Written(m) EXCEPT !.cap = cap]
=============================================================================
