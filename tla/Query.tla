-------------------------------- MODULE Query --------------------------------
(***************************************************************************)
(* The queries that count or search a map without a memory: sm_rank,       *)
(* sm_select, sm_span, sm_scan and sm_prev_member.  Each walks the chunks  *)
(* and carries something from one to the next: a count, a remainder, what  *)
(* is still to skip.  A small map is first turned into chunks.             *)
(***************************************************************************)
EXTENDS ChunkMap, Offsets

----------------------------------------------------------------------------
(* sm_rank.  __sm_chunk_rank reads a run of length 0 as one without end.   *)

ChunkRank(c, from, to) ==
  IF from >= Capacity(c) THEN 0
  ELSE Cardinality({i \in from .. Lesser(to, Capacity(c) - 1) :
                      IsSet(c, i) \/ (IsRLE(c) /\ c.len = 0)})

\* The ones in lo .. hi are counted in each chunk the range meets, the zeros
\* are the rest.
Meeting(s, lo, hi) ==
  {j \in DOMAIN s : s[j].start <= hi /\ lo < s[j].start + Capacity(s[j])}
RankIn(c, lo, hi) == ChunkRank(c, Greater(lo, c.start) - c.start, hi - c.start)
OnesIn(s, lo, hi) ==
  MapThenSumSet(LAMBDA j : RankIn(s[j], lo, hi), Meeting(s, lo, hi))
Rank(s, lo, hi, value) ==
  IF lo > hi THEN 0
  ELSE IF value THEN OnesIn(s, lo, hi) ELSE hi - lo + 1 - OnesIn(s, lo, hi)

----------------------------------------------------------------------------
(* sm_select.                                                              *)

\* The places of a chunk where its bit has the value; an absent vector has none.
Present(c) ==
  IF IsRLE(c) THEN 0 .. c.cap - 1
  ELSE {i \in 0 .. ChunkCap - 1 : i \div BitsPerVector \notin Absent(c.flag)}
Candidates(c, value) == {i \in Present(c) : IsSet(c, i) = value}
Nth(S, n) == CHOOSE i \in S : Cardinality({k \in S : k < i}) = n
Ascending(S) == [k \in 1 .. Cardinality(S) |-> Nth(S, k - 1)]

\* The search after some chunks: the index found, or how many candidates are
\* still to be passed.
Found(index) == [index |-> index, left |-> 0]
Searching(n) == [index |-> NoIndex, left |-> n]

\* A mutant of SelectIn: a chunk with exactly the candidates asked for is taken
\* to hold one more.
SelectInOneMore(r, c, value) ==
  LET places == Candidates(c, value)
      n == Cardinality(places)
  IN IF r.index # NoIndex THEN r
     ELSE IF r.left < n THEN Found(c.start + Nth(places, r.left))
     ELSE IF r.left = n THEN Found(c.start + Capacity(c))
     ELSE Searching(r.left - n)

\* __sm_chunk_select
SelectIn(r, c, value) ==
  LET places == Candidates(c, value)
      n == Cardinality(places)
  IN IF r.index # NoIndex THEN r
     ELSE IF r.left < n THEN Found(c.start + Nth(places, r.left))
     ELSE Searching(r.left - n)

\* Of the zeros outside the chunks it knows those before the first chunk, and
\* only when there are more than n of them.
Select(s, n, value) ==
  IF s = << >> THEN IF value THEN NoIndex ELSE n
  ELSE IF ~value /\ s[1].start > n THEN n
  ELSE FoldLeft(LAMBDA r, c : SelectIn(r, c, value), Searching(n), s).index

----------------------------------------------------------------------------
(* sm_span: the matching bits from idx on are tried one after the other.   *)

\* The k-th matching bit ends the search: there is none, or len of them are
\* adjacent.
EndsSearch(s, at, len, value) ==
  \/ at = NoIndex
  \/ len = 1
  \/ Rank(s, at, at + len - 1, value) >= len

\* The first index past all chunks: no more tries than this can go on.
Beyond(s) == IF s = << >> THEN 0 ELSE Last(s).start + Capacity(Last(s))

\* The first try from the k-th on that ends the search.
SpanFrom(s, k, len, value) ==
  LET Ends(n) == EndsSearch(s, Select(s, n, value), len, value)
      first == CHOOSE n \in k .. k + Beyond(s) :
                 Ends(n) /\ \A p \in k .. n - 1 : ~Ends(p)
  IN Select(s, first, value)

Passed(s, idx, value) == IF idx = 0 THEN 0 ELSE Rank(s, 0, idx - 1, value)
Span(s, idx, len, value) == SpanFrom(s, Passed(s, idx, value), len, value)

----------------------------------------------------------------------------
(* sm_scan: the members, ascending, but for the first `skip' of them.      *)

AscendingMembers(c) ==
  Ascending(IF IsRLE(c) THEN c.start .. c.start + c.len - 1 ELSE ChunkMembers(c))
Progress(seen, skip) == [seen |-> seen, skip |-> skip]

\* A mutant of ScanChunk: what one chunk skipped is skipped in the next again.
ScanChunkAgain(p, c) ==
  LET members == AscendingMembers(c)
      skipped == Lesser(p.skip, Len(members))
  IN Progress(p.seen \o SubSeq(members, skipped + 1, Len(members)), p.skip)

\* __sm_chunk_scan
ScanChunk(p, c) ==
  LET members == AscendingMembers(c)
      skipped == Lesser(p.skip, Len(members))
  IN Progress(p.seen \o SubSeq(members, skipped + 1, Len(members)), p.skip - skipped)
Scan(s, skip) == FoldLeft(ScanChunk, Progress(<< >>, skip), s).seen

----------------------------------------------------------------------------
(* sm_prev_member: the last member before `before', or the last of all.    *)

\* __sm_chunk_prev_set, of a chunk that begins before `before'.
PrevInChunk(c, before) ==
  LET lower == {i \in ChunkMembers(c) : i < before}
  IN IF IsRLE(c) /\ c.len > 0 THEN Lesser(before, c.start + c.len) - 1
     ELSE IF lower = {} THEN NoIndex ELSE Max(lower)

\* A mutant of PrevIn: only the last chunk that begins before is asked.
PrevInLast(s, before) ==
  LET begun == {j \in DOMAIN s : s[j].start < before}
  IN IF begun = {} THEN NoIndex ELSE PrevInChunk(s[Max(begun)], before)

\* From the last chunk that begins before, back to the first with a hit.
PrevIn(s, before) ==
  LET hits == {j \in DOMAIN s : s[j].start < before /\ PrevInChunk(s[j], before) # NoIndex}
  IN IF hits = {} THEN NoIndex ELSE PrevInChunk(s[Max(hits)], before)

UpperBound(s, before) == IF before = NoIndex THEN Beyond(s) ELSE before
PrevMember(s, before) ==
  IF s = << >> THEN NoIndex ELSE PrevIn(s, UpperBound(s, before))

----------------------------------------------------------------------------
\* A span of set bits is found where the first one at or after idx begins,
\* across the chunks it reaches over, and only if there is one: this takes the
\* counts and the selections the search is made of to agree.
SpanIsFirst ==
  \A idx \in Indices, len \in 1 .. ChunkCap + 1 :
    LET spans == {i \in Members(map) : i >= idx /\ i .. i + len - 1 \subseteq Members(map)}
    IN Span(map.chunks, idx, len, TRUE) = IF spans = {} THEN NoIndex ELSE Min(spans)

\* A scan hands over every member but the first `skip' once, in order, wherever
\* among the chunks the skipping ends.
ScanSkipsExactly ==
  \A skip \in Indices :
    Scan(map.chunks, skip) =
      SubSeq(Ascending(Members(map)), skip + 1, Cardinality(Members(map)))

\* The previous member is the greatest one below, also when the chunks in
\* between begin below and hold nothing below.
PrevIsGreatest ==
  \A before \in Indices \cup {NoIndex} :
    LET lower == {i \in Members(map) : before = NoIndex \/ i < before}
    IN PrevMember(map.chunks, before) = IF lower = {} THEN NoIndex ELSE Max(lower)

\* What sm.h says of sm_select for unset bits: the (n+1)-th of them, here where
\* it lies below a member of the map.
SelectUnsetIsNth ==
  \A n \in Indices :
    LET unset == Indices \ Members(map)
    IN n < Cardinality(unset) /\ (\E i \in Members(map) : i > Nth(unset, n))
         => Select(map.chunks, n, FALSE) = Nth(unset, n)
=============================================================================
