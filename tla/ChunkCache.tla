----------------------------- MODULE ChunkCache -----------------------------
(***************************************************************************)
(* Lookups with a caller's chunk cache, sm_cursor_cached_t: a few chunks   *)
(* located before, each with the range of indices it answers for and its   *)
(* offset.  A miss walks from the head and stores what it located in the   *)
(* next way in turn.                                                       *)
(***************************************************************************)
EXTENDS ChunkMap, Offsets

CONSTANT Ways   \* SM_CACHE_WAYS (8)

ASSUME WaysAssumption == Ways \in Nat \ {0}

VARIABLE cache

Way == 0 .. Ways - 1
NoEntry == [start |-> 0, end |-> 0, offset |-> 0]
EmptyCache == [way |-> [w \in Way |-> NoEntry], mru |-> 0, valid |-> {}]

----------------------------------------------------------------------------
\* The valid ways whose range holds i, of which the code takes the first.
Hits(h, i) == {w \in h.valid : h.way[w].start <= i /\ i < h.way[w].end}

HitAnswer(m, entry, i) ==
  IsSet(m.chunks[ChunkAt(m.chunks, entry.offset)], i - entry.start)
CachedContains(m, h, i) ==
  IF Hits(h, i) # {} THEN HitAnswer(m, h.way[Min(Hits(h, i))], i)
  ELSE HasBit(m.chunks, i)

\* A mutant of Inserted: the turn is taken between the second store and the
\* third.
InsertedTorn(h, c, offset) ==
  [way |-> [h.way EXCEPT ![h.mru].start = c.start,
                         ![h.mru].end = c.start + Capacity(c),
                         ![(h.mru + 1) % Ways].offset = offset],
   mru |-> (h.mru + 1) % Ways,
   valid |-> h.valid \cup {h.mru}]

\* The located chunk is stored, whether or not it covers the index asked for.
Inserted(h, c, offset) ==
  [way |-> [h.way EXCEPT ![h.mru] = [start |-> c.start,
                                     end |-> c.start + Capacity(c),
                                     offset |-> offset]],
   mru |-> (h.mru + 1) % Ways,
   valid |-> h.valid \cup {h.mru}]
AfterMiss(s, h, j) == Inserted(h, s[j], OffsetOf(s, j))
AfterCached(m, h, i) ==
  IF Hits(h, i) # {} \/ m.chunks = << >> THEN h
  ELSE AfterMiss(m.chunks, h, Locate(m.chunks, i))

----------------------------------------------------------------------------
CacheInit == cache = EmptyCache

ContainsCached(i) == cache' = AfterCached(map, cache, i) /\ UNCHANGED map
ClearCache == cache' = EmptyCache

----------------------------------------------------------------------------
\* Whatever was looked up before, in any order, and whatever was evicted, a
\* lookup through the cache answers what one without it does.
CachedLookupsAgree ==
  \A i \in Indices : CachedContains(map, cache, i) = HasBit(map.chunks, i)
=============================================================================
