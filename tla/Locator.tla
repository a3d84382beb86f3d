------------------------------ MODULE Locator ------------------------------
(***************************************************************************)
(* A locator, sm_locator_t: a directory a caller builds over a map that    *)
(* answers contains, rank and select.  It samples every stride-th chunk's  *)
(* start and offset and the number of indices before it, and keeps a       *)
(* fingerprint of the map by which a query sees that the map has changed   *)
(* and answers without the directory.                                      *)
(***************************************************************************)
EXTENDS ChunkMap, Offsets

VARIABLE loc

NoLocator == << >>

----------------------------------------------------------------------------
(* Building.                                                               *)

\* __sm_isqrt
RootOf(n) == CHOOSE r \in 0 .. n : r * r <= n /\ n < (r + 1) * (r + 1)

MembersBetween(s, j, k) == UNION {ChunkMembers(s[n]) : n \in j .. k}

Sample(s, j) ==
  [start |-> s[j].start, offset |-> OffsetOf(s, j),
   prefix |-> Cardinality(MembersBetween(s, 1, j - 1))]
Directory(s, stride) ==
  [b \in 1 .. (Len(s) + stride - 1) \div stride |-> Sample(s, (b - 1) * stride + 1)]

\* A mutant of Build: the offset kept is the one the walk had advanced to.
BuildAdvanced(s) ==
  [count |-> Len(s), first |-> s[1].start, last |-> s[Len(s)].start,
   lastOffset |-> OffsetOf(s, Len(s) + 1),
   sb |-> Directory(s, RootOf(Len(s)))]

\* sm_locator_build, of a map with a chunk.
Build(s) ==
  [count |-> Len(s), first |-> s[1].start, last |-> s[Len(s)].start,
   lastOffset |-> OffsetOf(s, Len(s)),
   sb |-> Directory(s, RootOf(Len(s)))]

----------------------------------------------------------------------------
(* Queries of a built locator, for the value TRUE.                         *)

IsStale(m, d) ==
  \/ Len(m.chunks) # d.count
  \/ m.chunks[1].start # d.first
  \/ d.lastOffset + 1 > m.used - HeaderWords
  \/ WordAt(m.chunks, d.lastOffset) # d.last

\* A mutant of Superblock: the search stops one superblock too far.
SuperblockAfter(d, i) ==
  Lesser(Len(d.sb), 1 + Cardinality({b \in DOMAIN d.sb : d.sb[b].start <= i}))

\* The last superblock that begins at i or before, or the first.
Superblock(d, i) ==
  Greater(1, Cardinality({b \in DOMAIN d.sb : d.sb[b].start <= i}))
\* The last superblock with at most n members before it.
SelectBlock(d, n) ==
  Greater(1, Cardinality({b \in DOMAIN d.sb : d.sb[b].prefix <= n}))
EntryChunk(m, d, b) == ChunkAt(m.chunks, d.sb[b].offset)

LocatorContains(m, d, i) ==
  IF IsStale(m, d) THEN HasBit(m.chunks, i)
  ELSE InChunk(m.chunks[WalkFrom(m.chunks, EntryChunk(m, d, Superblock(d, i)), i)], i)

\* The plain answers, of sm_rank and sm_select, over the set the map is.
RankOf(S, lo, hi) == Cardinality({i \in S : lo <= i /\ i <= hi})
SelectOf(S, n) ==
  IF n >= Cardinality(S) THEN NoIndex
  ELSE CHOOSE i \in S : Cardinality({k \in S : k < i}) = n

\* The members of the chunks from superblock b on, which the fine walk visits.
WalkedMembers(m, d, b) ==
  MembersBetween(m.chunks, EntryChunk(m, d, b), Len(m.chunks))

\* The number of members up to x, counted from its superblock's prefix.
RankFrom(m, d, b, x) ==
  d.sb[b].prefix + RankOf(WalkedMembers(m, d, b), 0, x)
RankUpTo(m, d, x) == RankFrom(m, d, Superblock(d, x), x)

\* A mutant of LocatorRank: lo itself is taken off.
LocatorRankOpen(m, d, lo, hi) ==
  IF IsStale(m, d) THEN RankOf(Members(m), lo, hi)
  ELSE IF lo > hi THEN 0
  ELSE RankUpTo(m, d, hi) - IF lo = 0 THEN 0 ELSE RankUpTo(m, d, lo)

LocatorRank(m, d, lo, hi) ==
  IF IsStale(m, d) THEN RankOf(Members(m), lo, hi)
  ELSE IF lo > hi THEN 0
  ELSE RankUpTo(m, d, hi) - IF lo = 0 THEN 0 ELSE RankUpTo(m, d, lo - 1)

\* A mutant of SelectFrom: the members before the superblock are not taken off.
SelectFromWhole(m, d, b, n) == SelectOf(WalkedMembers(m, d, b), n)

SelectFrom(m, d, b, n) == SelectOf(WalkedMembers(m, d, b), n - d.sb[b].prefix)
LocatorSelect(m, d, n) ==
  IF IsStale(m, d) THEN SelectOf(Members(m), n)
  ELSE SelectFrom(m, d, SelectBlock(d, n), n)

----------------------------------------------------------------------------
LocatorInit == loc = NoLocator

BuildLocator ==
  /\ loc' = IF map.chunks = << >> THEN NoLocator ELSE Build(map.chunks)
  /\ UNCHANGED map

DropLocator == loc' = NoLocator

\* A client that keeps its locator when it changes the map, of which sm.h says
\* that it loses the speed and still gets correct answers.
SetAndKeep(i) == Set(i) /\ UNCHANGED loc
UnsetAndKeep(i) == Unset(i) /\ UNCHANGED loc

KeepingNext ==
  \/ BuildLocator
  \/ \E i \in Indices : SetAndKeep(i) \/ UnsetAndKeep(i)
KeepingSpec == Init /\ LocatorInit /\ [][KeepingNext]_<< map, loc >>

----------------------------------------------------------------------------
\* Each query through the directory of an unchanged map gives the plain
\* answer, wherever its argument lies among superblocks, chunks and gaps.
ContainsAgrees ==
  loc # NoLocator =>
    \A i \in Indices : LocatorContains(map, loc, i) = HasBit(map.chunks, i)
RankAgrees ==
  loc # NoLocator =>
    \A lo, hi \in Indices :
      LocatorRank(map, loc, lo, hi) = RankOf(Members(map), lo, hi)
SelectAgrees ==
  loc # NoLocator =>
    \A n \in Indices : LocatorSelect(map, loc, n) = SelectOf(Members(map), n)

\* The assertion in front of every fallback: the locator of an unchanged map is
\* never taken for a stale one.
NeverStale == loc # NoLocator => ~IsStale(map, loc)

\* What sm.h says of a locator that outlived a change: its answers are correct.
\* Asked only where the fine walk still begins at a chunk.
StaleRankIsRight ==
  loc # NoLocator
    /\ (\A b \in DOMAIN loc.sb : loc.sb[b].offset \in Boundaries(map.chunks))
  => RankAgrees
=============================================================================
