------------------------------- MODULE Cursor -------------------------------
(***************************************************************************)
(* Lookups with a caller's cursor, sm_cursor_t: sm_contains and            *)
(* sm_next_member resume the walk over the chunks where the last lookup    *)
(* ended.                                                                  *)
(***************************************************************************)
EXTENDS ChunkMap, Offsets

VARIABLES
  cur,     \* the cursor
  asked    \* the index the last lookup was for, or found

NoCursor == [offset |-> NoOffset, start |-> 0, prev |-> NoOffset]

----------------------------------------------------------------------------
\* A mutant of Resumes: the cursor is used for an index on its left as well.
ResumesAnywhere(m, k, i) ==
  /\ k.offset # NoOffset
  /\ k.offset + 1 <= m.used - HeaderWords
  /\ WordAt(m.chunks, k.offset) = k.start

\* The cursor k is used for index i.
Resumes(m, k, i) ==
  /\ k.offset # NoOffset
  /\ k.offset + 1 <= m.used - HeaderWords
  /\ i >= k.start
  /\ WordAt(m.chunks, k.offset) = k.start
ResumeAt(m, k, i) == IF Resumes(m, k, i) THEN ChunkAt(m.chunks, k.offset) ELSE 1

\* What a walk that began at chunk `from', with this hint of what is on its
\* left, knows of the offset of the chunk before chunk j.
KnownBefore(s, from, j, hint) == IF j > from THEN OffsetOf(s, j - 1) ELSE hint
SeatedAt(s, j, prev) ==
  [offset |-> OffsetOf(s, j), start |-> s[j].start, prev |-> prev]

\* Mutants of AfterWalk: a gap lookup leaves the cursor on the chunk after the
\* gap; the left neighbour is taken to begin at its descriptor.
AfterWalkPastGap(s, from, j, i, hint) ==
  SeatedAt(s, j, KnownBefore(s, from, j, hint))
AfterWalkAtDescriptor(s, from, j, i, hint) ==
  LET at == IF i < s[j].start /\ j > from THEN j - 1 ELSE j
  IN SeatedAt(s, at, IF at > from THEN OffsetOf(s, at - 1) + 1 ELSE hint)

\* The cursor after a walk for i ended at chunk j: on it or, when i lies in the
\* gap on its left, on the chunk before that gap if the walk passed it.
AfterWalk(s, from, j, i, hint) ==
  LET at == IF i < s[j].start /\ j > from THEN j - 1 ELSE j
  IN SeatedAt(s, at, KnownBefore(s, from, at, hint))
AfterLookup(m, k, i) ==
  LET s == m.chunks
      from == ResumeAt(m, k, i)
  IN IF s = << >> THEN k
     ELSE AfterWalk(s, from, WalkFrom(s, from, i), i,
                    IF Resumes(m, k, i) THEN k.prev ELSE NoOffset)

\* sm_contains
ContainsFrom(m, k, i) ==
  /\ m.chunks # << >>
  /\ InChunk(m.chunks[WalkFrom(m.chunks, ResumeAt(m, k, i), i)], i)

----------------------------------------------------------------------------
(* sm_next_member: the first member after `after', from the beginning when *)
(* after is NoIndex.  The hint in the cursor stays as it was.              *)

\* A mutant of EndsBefore: a chunk that ends one past `after' is skipped.
EndsBeforeNext(c, after) == after # NoIndex /\ c.start + Capacity(c) - 2 <= after

EndsBefore(c, after) == after # NoIndex /\ c.start + Capacity(c) - 1 <= after
NextInChunk(c, after) ==
  IF EndsBefore(c, after) THEN {} ELSE {i \in ChunkMembers(c) : i > after}

Answer(index, k) == [index |-> index, cur |-> k]
NextFrom(s, from, k, after) ==
  LET hits == {j \in from .. Len(s) : NextInChunk(s[j], after) # {}}
      j == Min(hits)
  IN IF hits = {} THEN Answer(NoIndex, k)
     ELSE Answer(Min(NextInChunk(s[j], after)), SeatedAt(s, j, k.prev))
NextMember(m, k, after) ==
  IF m.chunks = << >> THEN Answer(NoIndex, k)
  ELSE NextFrom(m.chunks, IF after = NoIndex THEN 1 ELSE ResumeAt(m, k, after),
                k, after)

----------------------------------------------------------------------------
CursorInit == cur = NoCursor /\ asked = NoIndex

LookUp(i) ==
  /\ cur' = AfterLookup(map, cur, i)
  /\ asked' = i
  /\ UNCHANGED map

FindNext(after) ==
  \E r \in {NextMember(map, cur, after)} :
    /\ cur' = r.cur
    /\ asked' = IF r.index = NoIndex THEN asked ELSE r.index
    /\ UNCHANGED map

ResetCursor == cur' = NoCursor /\ asked' = NoIndex

----------------------------------------------------------------------------
\* Whatever lookups the cursor has been through, sm_contains answers with it
\* what it answers without one.
LookupsAgree ==
  \A i \in Indices : ContainsFrom(map, cur, i) = HasBit(map.chunks, i)

\* And sm_next_member finds the least member after any index: none is skipped
\* by a walk that begins in the middle.
NextIsLeast ==
  \A after \in Indices \cup {NoIndex} :
    LET later == {i \in Members(map) : i > after}
    IN NextMember(map, cur, after).index =
         IF later = {} THEN NoIndex ELSE Min(later)

\* What makes a sequence of ascending lookups linear: a lookup of an index not
\* below the last resumes at the cursor, in a gap between chunks too, unless
\* the cursor is on the first chunk, where a walk from the head begins anyway.
AscendingResumes ==
  cur # NoCursor => cur.offset = 0 \/ Resumes(map, cur, asked)

\* The hint is the offset of a chunk: the coalescing may read a start there.
HintIsAChunk == cur.prev \in Boundaries(map.chunks) \cup {NoOffset}

=============================================================================
