# A TLA+ model of sparsemap

sparsemap (`src/sm.c`, `src/sm.h`) is a C library for compressed sets of 64-bit
indices.  This directory models its update path (the chunk codec, the stream of
chunks, the small form, the public calls on one set and the buffer they work in),
its queries and accelerated lookups (cursor, chunk cache and locator), and the
calls that combine or divide sets (set operations, bulk updates, offset and
split).  TLC checks the modules on small instances; TLAPS proves that the stream
stays well formed for every size of word, window and buffer.

The library is sequential: no thread, no callback into itself, no message, and
nothing is persisted.  What makes it hard is that one call rewrites an encoded byte
stream in several steps (insert, remove, join, separate, change of form), each
of which must agree with the others about offsets, sizes and boundaries, and may
run out of room or memory; and that the calls on two maps are walks with two
cursors and several loops, whose every turn must get on.

## The system

| Part | State | Operations | Hard behaviour |
|---|---|---|---|
| Chunk codec | a descriptor and its payload words | get_size, get_capacity, is_set, set_bit, clr_bit, get_run_length, the RLE fields | payload in step with flags; 31-bit fields |
| Chunk stream | `m_data`, `m_data_used`, capacity | `__sm_get_chunk_offset`, `__sm_map_set`, `__sm_map_unset`, `__sm_coalesce_chunk`, `__sm_separate_rle_chunk` | joins and separations at every alignment; room checks; stale pointers after a move |
| Small mode | header flag and up to 16 words | `__sm_small_add`, `__sm_promote`, `__sm_try_demote`, `__sm_add_dispatch` | change of form in place, rollback when it finds no room |
| Public calls | as above and `m_card_plus1` | `sm_add`, `sm_remove`, `sm_add_grow`, `sm_clear`, `sm_contains`, `sm_cardinality`, ranges and pops | a stale cache; retry after growth; a range that stops in the middle |
| Lineage | who owns struct and buffer | `sm_create`, `sm_wrap`, `sm_init`, `sm_copy`, `sm_set_data_size`, `sm_shrink_to_fit`, `sm_free` | a used count behind the contents; what a new buffer takes over |
| Cursor, chunk cache | caller's remembered offsets and starts | `sm_contains(.., cur)`, `sm_next_member`, `sm_add_grow_cursor`, `sm_contains_cached` | a walk begun in the middle; gaps; staleness after a mutation |
| Locator | sampled starts, offsets and counts, a fingerprint | `sm_locator_build`, `_contains`, `_rank`, `_select` | boundaries of superblocks; staleness after a mutation |
| Queries | none | rank, select, span, scan, minimum, maximum, next/prev member | what is carried from chunk to chunk; gaps |
| Bulk updates | sorted runs, a scratch map | `sm_add_many`, `sm_add_range`, `sm_extract_range`, `sm_remove_range`, `sm_flip_range` | must not move the caller's buffer, or change it on failure |
| Set operations | two maps, a result that grows, an emitter with a pending window | union, intersection, difference, xor | runs against sparse chunks; output in order; termination; failure of the allocator |
| Split, offset | one or two maps | `sm_split`, `sm_offset` | loss of alignment; partial failure in two buffers |
| Wire, open | a byte buffer | `sm_serialize`, `sm_deserialize`, `sm_open` | recomputed size and count |

The parts are layers.  The public calls look at the header word and either work
on the small form or call the chunk stream; the chunk stream calls the codec on
the chunk it located and moves the bytes after it.  Bulk updates and set
operations build a new map through an emitter and then replace the buffer;
`sm_split` works on two maps in place.
What makes each correct: the codec, that payload and descriptor agree; the
stream, that `sm_validate` holds and that a call changes the one index; the
small form, the public calls and the lineage, that the map is the set the client
built, whichever form and buffer it has; the cursor, the cache and the locator,
that they only save work; the walks, that what they have written is valid and
complete up to where they are, and that they end; the replacement of a buffer
and the split, that a failed call leaves every index where it was or in the
other map.

## Modules

| Module | Models |
|---|---|
| `Chunk` | one chunk: encoding, queries, set_bit and clr_bit, masking |
| `ChunkStream` | a map as a sequence of chunks with its word counts; lookup, validation, coalescing, separation, `MapSet` and `MapUnset` |
| `ChunkMap` | state machine: any sequence of `__sm_map_set` and `__sm_map_unset` on a caller's buffer |
| `Query` | `sm_rank`, `sm_select`, `sm_span`, `sm_scan`, `sm_prev_member` on the maps of `ChunkMap` |
| `SmallSet` | the small form, `__sm_coalesce_map`, `__sm_promote`, `__sm_try_demote`, `__sm_add_dispatch`, the body of `sm_remove` |
| `Lineage` | the constructors, `sm_set_data_size`, `sm_shrink_to_fit`, serialization and back |
| `BitSet` | abstract: a set, and calls that are applied in full, up to an index, or refused |
| `SparseMap` | state machine of the public calls on one map, and its refinement of `BitSet` |
| `Offsets` | the stream by word offsets, as a reader that remembers offsets sees it |
| `Cursor` | `sm_cursor_t`: lookups and scans that resume |
| `ChunkCache` | `sm_cursor_cached_t`: lookups through a few remembered chunks |
| `Locator` | `sm_locator_t`: built, queried, dropped, or kept across mutations (`KeepingSpec`) |
| `Readers` | state machine: a map and a client that reads it through one of the three, and resets them when it changes the map |
| `Emitter` | writing a map: appending chunks, runs and windows of words, growth of the result, the emitter's pending window |
| `Operands` | the maps clients pass to what follows, and the chunk view of a small one |
| `Sweep` | abstract: a result that grows from the lowest index up and is exact below a frontier, or is lost to a failure |
| `SetWalk` | state machine: `sm_union`, `sm_intersection`, `sm_difference`, one action per way through a loop's body |
| `Runs` | a map, or an array, as ascending runs; the run iterator |
| `Shift` | what a chunk becomes under `sm_offset` |
| `Rebuild` | state machine: `sm_add_range`, `sm_add_many`, `sm_add_many_grow`, `sm_xor`, `sm_xor_inplace`, `sm_extract_range`, `sm_offset`, up to the return or the replacement of the destination |
| `Split` | state machine: `sm_split` in its phases, `sm_minimum`, `sm_maximum` |
| `MCChunkMap`, `MCSparseMap`, `MCSetWalk`, `MCRebuild`, `MCSplit` | instances for TLC; those of `Readers` and `Locator` are small enough for their .cfg |
| `StreamTheorems` | lemmas about chunks and streams: their shape, and the indices and words they hold |
| `CallTheorems` | lemmas about one set and one unset on chunks, whichever path they take |
| `ReaderProofs` | proofs about `ChunkMap`: in order, canonical, accounted for, exact; about `Readers`: cursor, chunk cache and locator agree with the map; and about `Query`: spans, scans and previous members are right on every map |
| `SmallTheorems` | lemmas about `sm_add` and `sm_remove` in either form, promotion, demotion, loops, room and counting |
| `SparseMapProofs` | proofs about `SparseMap`: valid, counted right, the smaller form, growth, the refinement of `BitSet` |
| `EmitterTheorems` | lemmas about the maps clients build and the writing of a new one |
| `SetWalkProofs` | proofs about `SetWalk`: valid at every turn, the refinement of `Sweep`, results that take further sets |
| `SplitProofs` | proofs about `Split`: nothing lost, the partition exact, both maps valid, the joins end |

`SparseMap` extends `Lineage`, which extends `SmallSet`, then `ChunkStream` and
`Chunk`; `ChunkMap` extends `ChunkStream`.
`Query`, `Cursor`, `ChunkCache` and `Locator` extend `ChunkMap`, so that the maps
they read are those any sequence of sets and unsets makes; `Readers` composes the
last three.  `Emitter` extends `SmallSet`; on it and `Operands` stand `SetWalk`,
`Rebuild` (with `Runs` and `Shift`) and `Split`, whose maps come about by adding
indices with `sm_add` and removing some with `sm_remove`.

### How the model corresponds to the code

* A chunk is a record.  A sparse one has its start, a flag per vector, and the
  payload words in stream order, each the set of its bits that are 1; an RLE one
  has start, length and capacity, which a store masks as the 31-bit fields do.
* Sizes are in 8-byte words.  `used` is `m_data_used` and changes by the amounts
  the code adds and subtracts, never by recounting; that it equals the words of
  the stream is a property (`WordsAccounted`), not a definition.
* The byte moves of `__sm_insert_data` and `__sm_remove_data` are the splice of
  a sequence.  A chunk's offset is its place in it.  Where the code goes on with
  a place, a start or a chunk after a move, so does the model: after a
  sparse chunk was removed, `ClearInPlace` coalesces whatever is now at its
  place with the removed chunk's start.
* An operation is an operator from a map to `[map, ok]`, the whole handler with
  the coalescing at its end; `ok` is FALSE where it returns `SM_IDX_MAX`.  An
  action of a state machine is one call.
* The chunk count in the header is the length of the sequence; every step of the
  modelled code changes both together.
* Room checks inside a call that the check at its entry already implies
  (one payload word, the first chunk of an empty map) are not repeated.
* `SM_PAYLOAD_NONE` is the flag "none": a vector the chunk does not answer for.
  `sm_add` and `sm_remove` never write it, `sm_offset` does, for the end of a
  window; a set of an index there widens the chunk (`Widened`).
* `WellFormed` and `Accounted` are the checks of `sm_validate`, but for the one of the
  address space's end.  The one that vectors with data lie within the capacity
  that "none" reduces (`DataInCapacity`) matters in `Rebuild` alone: no other module
  reaches a chunk with that flag, and a piece that `sm_offset` wrote without the
  slots below its first (`MainPieceBare`) fails it and no other check.
* `CoalesceWalk` takes two turns of the loop of `__sm_coalesce_map` for each chunk,
  in one step of its caller, who goes on only if the loop has then stopped
  (`CoalesceEnds`): a loop that does not end leaves the call where it is.
* The update modules have no cursor: `sm_add` and `sm_remove` pass NULL, and
  then the left neighbour is found by a walk, as `CanJoinLeft` does.
* The readers' offsets are in words from the first chunk (`OffsetOf`), and
  `WordAt` is the number stored at an offset, be it a start, a descriptor or a
  payload word: the staleness tests compare such words with remembered starts.
  A walk that would begin inside a chunk is not modelled: under the contract none
  does, and `StaleRankIsRight` asks nothing where one would.
* `SIZE_MAX` and `SM_IDX_MAX` are -1, tested for and never compared by size.
* Rank and select within chunks are counts of members; the words and masks with
  which the code counts are left out.
* The address space is not bounded above: `start + capacity` passing 2^64 is out
  of the model, the limit of the RLE fields (`RLEMax`) is in it.
* `sm_add_grow` is two actions: `SmAdd` when the first try succeeds or the
  allocator fails, `SmAddGrow` when it fails and growth succeeds.
* `last` of `SparseMap` is the last call, the indices it is about and its answer.
  The loops of `sm_remove_range` and `sm_flip_range` are folds of the operators of
  one index; a step of theirs is one call.
* A buffer's contents past what is used matter in one place: `UsedPrefix`, where
  a copy ends early and the last word of the new buffer is zeros.
* In `SetWalk`, `Rebuild` and `Split` a step is one turn of a loop, with all it
  writes.  The chunks an operand had are kept (`a`, `b`) or eaten from the front
  (`rest`, `other`); `ai`, `acur`, `phase` and so on are the code's locals.  A
  turn after which the result is larger than before has asked the allocator, which
  may have failed instead.
* A piece of output is a window's start, its bits and the slots it answers for:
  the arrays of 32 words and 32 flags of the code.

An operator whose name ends in what is wrong with it (`LeftRemainderOverlong`,
`SelectInOneMore`) is a mutant: a plausible bug that some property must catch when
it takes the place of the definition after it.  Nothing else refers to it.

## Runs

Scaled-down constants keep every ratio that matters: a word has 2 bits, a window
1 to 3 words, small mode covers a part of the window (16 of 32 words in the code).

| Run | Bounds | Shows |
|---|---|---|
| `ChunkMap_wide` | windows of 4, indices 0..11, buffers of 4, 7, 9, 10 and 40 words | the stream stays in order, accounted for and canonical; a set and an unset change exactly their index, refused calls nothing; spans, scans and previous members are right on every map so built |
| `SparseMap_all` | windows of 6, small mode below 4, indices 0..6, buffers of 1, 4 and 12 words, resized to 6 or 12, growing to at least 12 | `BitSet` is implemented; every form is valid; the cached cardinality is fresh; one growth suffices; with room to spare an add leaves the smaller of the forms it compares |
| `Readers_all` | words and windows of 2, indices 0..8, two ways, room to spare | a lookup or a scan through any cursor or cache answers what it does without; ascending lookups resume; contains, rank and select through a locator agree with the set, and no query of an unchanged map falls back |
| `SetWalk_all` | windows of 4, operands of two windows and a half in every combination of full, partial, scattered and empty windows, built upwards or by removal; a result that starts small and grows, allocator free to fail | the result is valid after every turn, and exact below the frontier (`ImplementsSweep`); only runs are consumed in part; the walk ends; its result takes any further set |
| `Rebuild_all` | windows of 6, maps of two windows and a half, 0 or 20 words to spare, six ranges, four lists, seven distances | the same for the calls of `Rebuild`; the destination is as it was until the call has succeeded, and then exact |
| `Split_all` | windows of 6, maps of three windows, 0, 2 or 20 words to spare, destinations of 5, 6, 9 and 30 words, points at a window's start, inside it, at its end, above all, and the median | no index is lost or doubled at any step, both maps are valid, what moved is what lies at or above the point, and the call ends |

Six more runs end in a counterexample: `ChunkMap_stale`, `Query_unset`,
`SparseMap_wrap`, `Rebuild_absent`, `Split_ends` and `Locator_kept`, below.

Why these are enough.  Three windows let a run be separated in its middle and be
joined on both sides, and a chunk lie between two others: every arm of the
coalescing and the separation looks at one chunk and at most a neighbour on each
side.  Every arm of a set operation looks at two chunks and an overlap, which
windows of two words and patterns that end inside a word put into every relation.
Indices stay below `RLEMax` in `ChunkMap_wide` and `SparseMap_all`, as they do for
every map below 2^31 indices; in `SetWalk_all` and `Rebuild_all` the
longest run is as long as the field can say.  The tight buffers
stop between the sizes at which each step of a call needs room, so each room
check fails in some state and passes in another.  Where the state is the whole
map the state space is complete: no bound on the number of calls is needed.
`MaxBuffer` stops the growth, `Sizes` the resizes; both are bounds of the model,
and a buffer of 12 words holds every map over the run's indices.

In `SparseMap_all` one index lies outside the first window, which is what takes a
map out of small mode for good, and six inside, of which four are low; the ranges
are the whole window and a part of it that begins and ends inside words.  The
refused rest of a range is seen in the buffers of 1 and 4 words.

`SetIsExact` and `UnsetIsExactOtherwise` are invariants over all
next calls: in every reachable state, for every index, the operation is applied
and its result compared.  They cover histories as an action property would,
and the refused calls as well.  The properties of the readers and the queries are
of the same kind: the state holds the map, and what lookups have left behind, and
every next query is compared with its definition over the set.

The readers need chunks more than words, so their windows have one vector of two
bits: five windows give each of the cache's ways and of a cursor's three places
(here, left of here, left of that) a chunk of its own and one more, and make a
directory with superblocks of two chunks and a last one of one.  A single vector
has all three flags, and runs arise over two windows or more.

### Refinement, fairness and liveness

`ImplementsBitSet` maps a map record to its members: every public call is a step
of a set, and a change of form or of buffer is none.  `ImplementsSweep`
maps a walk to the set it is to build, its frontier (the lower of the two
positions for a union, the higher for an intersection, the first operand's for a
difference, the sweep's position for xor and the lists), and its result with what
is still pending: whatever a turn writes lies between the old and the new
frontier, nothing below it is revised, and nothing is left out.

`SetWalk`, `Rebuild` and `Split` state weak fairness of their next-state relation.
The call runs on its caller's thread and waits for nobody: while the loop has a
turn to take, it takes it.  `Returns` says that it then ends, which is not given:
a turn that moves neither cursor would repeat for ever.  Within a turn the same can
happen to the loop of `__sm_coalesce_map`, which stays at a chunk after a join;
`MoveChunks` and `Finish` have its end as a guard, so that `Returns` fails when it
tries a place again at which nothing was joined (`JoinedAtAgain`).  The other
specifications have no fairness, for nothing obliges a client to call.

### What does not hold

Six runs end in a counterexample, each a disagreement of the code with a doc or a
comment.  All of them were reproduced with the compiled library.

1. `ChunkMap_stale`: `sm_remove` of the only index of a sparse chunk that lies
   between a run ending at its start and a chunk with a run joins the two across
   the gap.  With [0,2048), 2053 and [4096,6144) set, removing 2053 sets all of
   [2048,4096) and loses [4096,6144).  The passing properties exclude exactly this
   case, `JoinsAcrossRemoved` (`UnsetIsExactOtherwise`).  The
   stream stays well formed even so, which the proof shows too.
2. `Query_unset`: `sm_select(map, n, false)` counts the unset indices inside the
   chunks and passes over the gaps before, between and after them.  In {2050},
   the unset index 2048 is not found.  `sm_span(.., false)` inherits it; `sm_rank`
   is right for both values.
3. `SparseMap_wrap`: `sm_wrap` does not count the header word.  If the first index
   added is above small mode, the used count stays one word short until something
   recounts it, and the growth of `sm_set_data_size` leaves the last word behind:
   the index is gone.  The run takes the wrapped buffer as zeros, and indices of
   which no chunk has a run, for with the short count the code compares
   the offsets of neighbours wrongly, which is not modelled.
4. `Rebuild_absent`: a map of `sm_offset` may end a chunk inside its window, and a
   later set of an index in the rest opens a second chunk there.  Elsewhere the
   results take further sets (`ResultTakesSetsOtherwise`).
5. `Split_ends`: `sm_split` may leave a chunk without indices at the point, and
   `sm_minimum` or `sm_maximum` of that map is then 0.
6. `Locator_kept`: a change within a chunk escapes the staleness test, and a kept
   locator answers rank and select wrong where `sm.h` promises correct answers.

More were met on the way and have no run of their own:

* `sm_xor_inplace` clears its destination when its result cannot be allocated:
  `sm_xor` returns NULL for that as it does for an empty result
  (`DestinationExactOtherwise` excludes it).
* A run of 2^31 - 1 extended by one gets length 0 (`src/sm.c:5342`), and a capacity
  clamped to 2^31 - 1 overlaps the chunk that is then inserted after it.  Both
  need a set past the limit; the proofs assume there is none.  `__sm_emit_rle`
  has no such limit either, so the ranges of `Rebuild` stay below it.
* The loop of `sm_split` looks at neither result of moving an index
  (`src/sm.c:11101`): in a full buffer an index can be lost or kept twice.
  `ignored` marks those behaviours, and the properties of `Split` leave them out.
* `sm_pop_first` of a full buffer answers `SM_IDX_MAX`, as it does when the map is
  empty, when the removal needs a separation that finds no room; the comment at
  `src/sm.c:9200` says this cannot be.
* An add that is refused may leave a small map promoted or an empty one small; a
  promotion to a smaller form can fail for want of room.  The set is the same.
* After removals a small map can be more than one word larger than its chunk would be
  (`src/sm.c:2427`), and lookups in a gap fill several ways of a chunk cache with the
  same chunk (`src/sm.h:495`).
* `sm_next_member` moves the cursor and leaves `prev_offset`, so that the hint is
  another chunk than the one before the cursor's.  It is always some chunk's
  (`HintIsAChunk`), and the coalescing checks what it finds there: a join can be
  missed and none is wrong.
* `sm_set_data_size` with the caller's data keeps the cached cardinality of the old
  data, and on a map that owns a separate buffer loses that buffer.

## Proofs

Proved about `ChunkMap`, `Readers`, `SparseMap`, `SetWalk` and `Split`, for every `BitsPerVector >= 2`,
`FlagsPerIndex >= 1`, `RLEMax`, `SmallMaxWords`, every set of buffer sizes, number of
cache ways and number of calls, are all invariants of these five that hold, those
about queries included, that `SparseMap` implements `BitSet` and that `SetWalk`
implements `Sweep`:

| theorem | module | states |
|---|---|---|
| `TypeCorrect` | `ReaderProofs` | `Spec => []TypeOK` |
| `StreamStaysInOrder` | `ReaderProofs` | `Spec => []ChunksInOrder`: what `sm_validate` asks of the chunks |
| `UsedWordsAreTheStreams` | `ReaderProofs` | `Spec => []WordsAccounted`: what it asks of `m_data_used` |
| `ChunksStayCanonical` | `ReaderProofs` | `Spec => []CanonicalChunks` |
| `SetsAreExact` | `ReaderProofs` | `Spec => []SetIsExact` |
| `UnsetsAreExactOtherwise` | `ReaderProofs` | `Spec => []UnsetIsExactOtherwise` |
| `CursorLookupsAgree` | `ReaderProofs` | `ReadersSpec => []LookupsAgree` |
| `NextMemberIsLeast` | `ReaderProofs` | `ReadersSpec => []NextIsLeast` |
| `AscendingLookupsResume` | `ReaderProofs` | `ReadersSpec => []AscendingResumes` |
| `HintStaysAChunk` | `ReaderProofs` | `ReadersSpec => []HintIsAChunk` |
| `CacheLookupsAgree` | `ReaderProofs` | `ReadersSpec => []CachedLookupsAgree` |
| `LocatorStaysFresh` | `ReaderProofs` | `ReadersSpec => []NeverStale` |
| `LocatorLookupsAgree` | `ReaderProofs` | `ReadersSpec => []ContainsAgrees` |
| `LocatorRanksAgree` | `ReaderProofs` | `ReadersSpec => []RankAgrees` |
| `LocatorSelectsAgree` | `ReaderProofs` | `ReadersSpec => []SelectAgrees` |
| `SpansAreFirst` | `ReaderProofs` | `Spec => []SpanIsFirst` |
| `ScansSkipExactly` | `ReaderProofs` | `Spec => []ScanSkipsExactly` |
| `PrevMemberIsGreatest` | `ReaderProofs` | `Spec => []PrevIsGreatest` |
| `FormStaysValid` | `SparseMapProofs` | `Spec => []FormIsValid` |
| `CountStaysRight` | `SparseMapProofs` | `Spec => []CountAgrees` |
| `CacheStaysFresh` | `SparseMapProofs` | `Spec => []CacheIsFresh` |
| `AddsLeaveSmallerForm` | `SparseMapProofs` | `Spec => []SmallerForm` |
| `OneGrowthSuffices` | `SparseMapProofs` | `Spec => []GrowthSuffices` |
| `MapIsABitSet` | `SparseMapProofs` | `Spec => ImplementsBitSet` |
| `AnswersStayTrue` | `SparseMapProofs` | `Spec => []AnswersStand` |
| `WalkTyped` | `SetWalkProofs` | `Spec => []TypeOK` |
| `ResultStaysValid` | `SetWalkProofs` | `Spec => []ResultIsValid`: `sm_validate` holds at every turn |
| `OnlyRunsTakenInPart` | `SetWalkProofs` | `Spec => []OnlyRunsArePartial` |
| `WalkSweeps` | `SetWalkProofs` | `Spec => ImplementsSweep` |
| `ResultTakesEverySet` | `SetWalkProofs` | `Spec => []ResultTakesSets` |
| `NothingIsLost` | `SplitProofs` | `Spec => []NothingLost` |
| `PartitionIsExact` | `SplitProofs` | `Spec => []PartitionExact` |
| `BothStayValid` | `SplitProofs` | `Spec => []BothValid`: failures passed over or not |
| `JoiningAlwaysEnds` | `SplitProofs` | `Spec => []JoiningEnds`: the loop of `__sm_coalesce_map` ends in both maps, and holds no call up |
| `MapStaysOK`, `MapStaysSound`, `ReadersRemember`, `MapLives`, `WalkGoes`, `SplitGoes` | | the inductive invariants |

The assumption on `ChunkMap` and `Readers`, `IndicesBelow(L)`, is that all indices lie below some window
boundary `L <= RLEMax`.  Without it the theorem is false: a run at the limit
extended by one gets length 0, and a clamped capacity overlaps the next chunk.  In
the code it means indices below 2^31 - 2048, in `ChunkMap_wide` below 12 with
`RLEMax` 15.  The six theorems that compare with `Members`, on next members, the
locator's rank and select, spans, scans and previous members, assume with `EveryIndex(L)` that the client may use every index below
`L`: `Members` counts only `Indices`, and the removal of finding 1 can add indices
between the client's, which the readers see and a sparser `Indices` would not.

`ChunksInOrder` alone is not inductive.  Joining a run to its left neighbour
gives it the capacity up to the window's end; that this does not reach into the
next chunk needs that every capacity is itself on a boundary, which
`sm_validate` does not ask.  And every step that rewrites a sparse chunk indexes
its payload by its descriptor, so its type holds only if the two are in step.
`MapOK` adds both: every chunk is `ChunkOK` (aligned start, payload
one word per mixed vector, a run's capacity a multiple of the window, its length
between 1 and its capacity) and the spans follow one another below `L`.

Nor is exactness, which speaks of one call, or the count of words: a step adds to
`used` what it takes its own pieces to be, and that is right only if no stored
word is all zeros or ones and no chunk is empty.  `Sound(L)` therefore joins to
`MapOK` that every chunk is canonical, that `used` is the header and the words of
the stream, and that it is within the buffer.  The set a map stands for is
`Bits`, the union of what its chunks hold.

The argument for `MapOK` goes bottom up.  `StreamTheorems`, chunks: arithmetic of boundaries; set_bit,
clr_bit, masking and the constructors give well-formed chunks; bounds on a
run's length.  Streams: splicing a stream that fits into a gap keeps
the whole in order; `Locate` finds the chunk it should; a join keeps the stream
in order, whatever `start` the caller passes so long as it is not past the chunk
(the stale start of finding 1 included).  `CallTheorems`: the parts of a
separation fit the span they replace; then one lemma per path of `MapSet`
and `MapUnset`.  `ReaderProofs`: the invariant.

`Sound` takes the same road with the contents.  `StreamTheorems`, chunks: set_bit and clr_bit
change the one bit of their index, whichever of the four flags its vector has,
inserting or removing at most one word at the place the descriptor gives it; a
prefix, a masked tail and a chunk of ones hold what they are made for; a run's
length is that of the bits it stands for.  Streams: a lookup finds the one
chunk that can hold an index, so `HasBit` is membership in `Bits`; the words of a
stream are the sum of its chunks' sizes, and a splice changes bits and words by
those of the pieces; a join on either side keeps bits, words and canonicity
wherever the runs meet, which is the case when the `start` passed is the chunk's
own or the chunk has no run (`CoalesceExact`).  `CallTheorems`: the parts of a
separation hold the run but for, or besides, the index; each path of `MapSet` and
`MapUnset` then satisfies `CallKeeps`: refused, it leaves the map as it was; done,
it leaves a sound map, which is exactly the one asked for under a condition.  For
`MapSet` the condition is TRUE.  For `MapUnset` it is `~JoinsAcrossRemoved`, met
at the one place where `CoalesceExact` can fail: the chunk is removed and the next
one is coalesced from its start.  So the proof shows that finding 1 is the only
case, and that even then the map stays valid, canonical and accounted for.

The proofs about `Readers` need of the map only what `Readable` says: its stream is in order
and `used` is where it ends.  Offsets first: they ascend by at least two words a
chunk, so the offset of a chunk leads back to it and the word there is its start
(`OffsetLeadsBack`); and a walk begun at any chunk that starts at or before the
index ends where a walk from the head does (`WalkIsLocate`).  The inductive
invariant `ReadersOK` says what each reader remembers: the cursor is new, or on a
chunk that is the first or begins at or before the last index asked for, with a
hint that is a chunk's offset or none; each valid way of the cache has the start,
the end and the offset of one chunk; the locator is `Build` of this map.
`LookupsAgree` is then `WalkIsLocate`; that `AscendingResumes` holds in a gap too
is what `j = 1 \/ s[j].start <= asked` is for.  For the locator, superblocks
ascend, so those that begin at or before an index are the first ones, and their
number is the last such block (`DownSet`); a rank is the prefix plus what is
counted from there (`CountParts`), and a select among all members is one among
those, less the prefix (`SelectInPart`).  Every set
or unset resets the readers, as sm.h demands; without that the invariant fails,
as finding 6 shows for the locator.

The proofs about `Query` compare each walk with the set it walks over.  What three of them carry
has a closed form: past the chunks that hold `P`, a select is at `SearchFor(P, n)` and
a scan at `ScanOf(P, skip)`, and the next chunk takes either one on to what it is past
`P` and that chunk's bits (`SelectInIs`, `ScanChunkIs`), because all of `P` lies below
them; a rank is the number of members between its ends (`OnesInIs`), a chunk's own
counting of whole and cut words included.  So `EndsIs`: the n-th try of `sm_span` ends
the search just when the n-th member begins a span or there is none.  The first such
try is the first span, and it comes within `Beyond` tries, as there are no more
members than that (`FewerThanBeyond`): the bound with which `SpanFrom` writes the
code's loop cuts off nothing.  For `sm_prev_member`, the last chunk with a hit holds
the greatest member below the bound, whatever chunks lie between (`PrevInIs`).

### The client's map

`SparseMapProofs` assumes, with `CallsBelow(L)`, that the client's indices lie below
a boundary `L <= RLEMax` that takes in the first window, and that no map of its
begins with `sm_wrap`.  Finding 3 is why: a map `sm_wrap` made counts one word too
few until something recounts it, and `AnswersStand`, which `SparseMap_wrap` shows
false, is here a theorem for `sm_create` and `sm_init`.  Three more assumptions are
made where they are needed:

* `TwoChunks(L)`, for `ImplementsBitSet` and `AnswersStand`: maps below two windows.
  From three chunks on a removal may join across the one it drops (finding 1), and
  then the map is no set of the client's; what is left even then is in the other
  theorems.  `Forward`, for the same two: no range ends before it begins.  Such a
  call does nothing, and `BitSet` has no step for it.
* `SeesAll(L)`, for the three that compare with `Members`: below two windows, or with
  every index below `L` the client's.  `Members` counts only `Indices`, and finding 1
  can add indices between them.
* `FloorIs(n)`: the least size a growth makes is so many words more than small mode
  may take, 9 or 10.  In the code they are 512 and 16, in `SparseMap_all` 12 and 2.  It
  is the room for the words of a promoted map and for one more set, with the
  separation and the insertion it may make.

Small mode may have any size here, more than a window too; promotion then goes bit
by bit into many chunks.  `SparseMap_all` is an instance of all these assumptions,
with `L` 12.

No invariant a run checks is inductive here, for none relates the two forms: `Lives(L)`
is that there is a set `X` with `Kept(X, L)`.  The map `Stores` `X`: as words, few
enough and the last of them not zeros, of which `X` are the bits; or as chunks that
`Encodes` `X` as `ChunkMap`'s do, in order, canonical, accounted for, within the
buffer.  And a count it remembers is `X`'s.  The set is under a quantifier because
after finding 1 it need not be the one asked for; the proof carries it along step by
step (`Good`), and names it wherever a call is exact.

`SmallTheorems` has the calls for one index.  A chunk map in either module is the same
record but for two fields (`FullSet`, `FullUnset`), so all of `CallTheorems` holds of
both.  Then the conversions: the words for a set of low indices are one and only one
list, so promotion and demotion are inverses as far as the set goes.  Promotion
adds the bits again, one by one, to an empty map; a removal's or a range's loop is
as long as it is.  A fold is reasoned about here by what it is: `LoopExists` makes the
function of partial results from `WellFoundedInduction`'s existence of least elements,
`LoopUnfolds` says the fold is its last value, and `StepByStep` that what each step
keeps, the last one has.  The loop of a promotion keeps `Progress`: every bit so far is in, or one was refused,
which a buffer with `SmallMaxWords + 9` words rules out: no map of the loop's takes
so many that the 6 words one set may need do not fit (`FewMixed` and what follows).
Last, the counts: the words' bits, the descriptors' and the runs' lengths add up to
`Cardinality(X)` (`CountIs`).

`SmallerForm` compares what the code compares.  A small map an add has left is no larger than the cheapest chunk of its bits; but if it was one chunk before, the
comparison was with that chunk as it is stored.  A refused add can leave a map
promoted to a sparse chunk whose bits, after the next one, are a run from 0, which a
run's descriptor would hold in a word less.  With `SmallMaxWords` of 3 or more the
small form can lie between the two: `tests/test_smallset_api.c:10`, "only when it is no
larger than a single sparse/RLE chunk", is true of the chunk at hand only.  The proof
found this; the instance, with 2, cannot tell them apart.

`MapIsABitSet` takes each step in turn: an add, a removal, a range or a read of one
index is the step of `BitSet` of the same name, with the same answer; growth, resize,
shrinking and the wire form keep `X`, and `BitSet` stutters.  A range that is refused
half way has done a prefix of itself (`Ranged`), which is what `BitSet` allows it.

### The walk of two maps

`SetWalkProofs` assumes, with `OperandsBelow(L)`, that the indices the operands are
built of lie below a boundary `L <= RLEMax` that takes in the first window.  In the
code it means indices below 2^31 - 2048; `SetWalk_all` also has runs up to the limit
itself, which the proof leaves out.  The operands are what `sm_add` and `sm_remove`
make, so `SmallTheorems` and `CallTheorems` say what they are: streams in order
whose chunks are canonical, the joins of finding 1 among them.

`ResultIsValid` is not inductive: a piece is appended after the last chunk, or merged
into it, and that is right only if all that is written ends where the piece begins.
`Written(m, X, F)` says it: the result's chunks lie below `F`, hold `X`, are canonical
and counted, within the buffer.  `EmitterTheorems` shows for each way of writing (a
chunk, a run with its head, its whole windows and its tail, a window of words)
that `Written(m, X, F)` and a piece within `[F, G)` give `Written(m', X', G)`, with the
piece's indices added: a chunk the piece is merged with keeps its size or its words
are recounted, and a growth of the result is by what is needed.

`WalkInv(L)` then says where the walk can be.  Each side is at a chunk, taken up to a
boundary within it, and only a run in part (`Side`).  Its place is where what is
left of it begins.  And the result is `Written` with all that is wanted below an
edge: for a union, the place of the side that is behind, since what a side has
written, it has written alone (`Clear`: the other has nothing in between); for an
intersection, the place of the side ahead; for a difference the first side's.  The turns of
the loops have a step each (`UnionRunsTurn`, `DifferenceMeetTurn` and so on), of which `WalkTurn` makes one.  At the
end both sides are spent and the result `Stores` what was asked for, in either form.
A turn whose growth fails leaves an empty map and an ended call.

`WalkSweeps` is the refinement of `Sweep` along the same invariant: what a turn adds
lies between the old frontier and the new.  `ResultTakesEverySet` is `SmallTheorems`
on `Stores`, with `RoomToGoOn`, that the `LeastResult` words by which the property
enlarges a result, which has as many already, are room for one more set: 6 words, and
twice as many for a promotion's `SmallMaxWords + 9`.  In the code they are 128, in
`SetWalk_all` 6.

### The split

`SplitProofs` assumes `OperandsBelow(L)` of the maps that are split, of which
`Split_all` is an instance, with `L` 24.  Points, buffer sizes and room to spare are any.

None of the three properties is inductive: none says where the chunks are, and in
the middle of a call a map may be of a kind no client's is.  The window of the point,
once it is a chunk of its own, can be without indices, and so can its counterpart.
So the invariant `SplitInv(L)` speaks of `InChunks(m, X, L)`: the stream is in
order and counted, within the buffer, its payload words proper, and it holds `X`, while
a sparse chunk may hold nothing.  `StreamTheorems` has its lemmas on contents and joins for
that shape, and canonical chunks as a case of it.  By phase:

* `Called`: the source `Stores` its set, the destination is vacant.
* `Parting`: the source is in chunks and holds what it held, the destination is empty,
  and some index lies at or above the point.  Then there is a chunk the code looks
  for (`HereIs`, with `MaximumIs`: `sm_maximum` finds the last index of such a map).
* `Dividing`: two sets are held, of which the second has only indices from the point
  to `next`, and unless a result was passed over all of these, and the first all
  others; the destination is one sparse chunk, the window, and no chunk of the source
  reaches into that window but one that begins with it.
* `Ended`: in either form, the sets are parts of the given one, the second at or above
  the point; unless a result was passed over, they make it up, and if the call is done,
  the second is all that lies there.

Each action has its lemma.  `PartKeeps`: the parts of the separated run hold the run
(`PartedIs`, piece after piece), and fit where it was.  `MovingOn`: whether the set
and the unset succeed or fail, what the two maps then hold is still `Moving`.
`CutDivides`: the chunks below the cut are all chunks that begin below the point,
since the cut is either where the chunk found begins, or the end of the divided window
(`CutBeforeChunk`, `CutAfterWindow`); a removal in between has not moved it, as the
place is derived again.  `CoalesceWalkHolds` is the loop of `__sm_coalesce_map`, which
is told each chunk's own start, and so joins nothing that does not meet, and which
ends: while it has not stopped each turn leaves less of `Left`, twice the number of
chunks less the place (`JoinOnWalks`, with `JoinsFewer`), which begins below twice
that number.  `JoiningAlwaysEnds` says it of the two maps the chunks are divided between.
`DemoteCarries` ends it: a map of at most one chunk may become small, and one
whose only chunk has no index becomes empty.  That a median split is even is
`MiddleHalves`, from `HasSoManyBelow`, that a set of numbers has a member with any number
of others below it.

`ignored` stays in two of the theorems, as in the properties: when the loop's failures
are passed over an index can be lost or kept twice.  `BothStayValid` has no such exception.

### What is only model-checked

`Rebuild`, whose results `Rebuild_all` compares with their definitions, and whose refinement
of `Sweep` it checks.  Of `Split`, `EndsAreFound`, which `Split_ends` shows false.
Liveness under fairness and ENABLED are beyond the prover; `Returns` is TLC's, though
`JoiningAlwaysEnds` proves the part of it that is one loop's.  Loops over the numbers up to n
are proved about as above; a general induction over data, which takes an operator as a
parameter, the installed provers cannot instantiate.

## Not modelled, and what is next

* `sm_add_grow_cursor`, the only user of a cursor's hint: the left hint of the coalescing, and the cursor re-seated by
  each add.  (The comment at `src/sm.c:5195-5197` says no stale hint is produced; one
  is, when an insertion moves the cursor and leaves the hint.)
* `sm_union_inplace`, `sm_intersection_inplace` and `sm_difference_inplace`: the walk
  of `SetWalk` followed by the `__sm_replace_buffer` of `Rebuild`, which
  `sm_xor_inplace` shows.  The set operations' answers for an empty operand.
* `sm_free`; `sm_set_data_size` with the caller's data, or to less than is used, both
  of which the library leaves to the caller; `sm_open_copy`; wire headers, and
  input no map was written to, which is refused or replaced by an empty map.
* In `Rebuild`: an empty list, and a list of one entry, which `sm_add_many` makes an
  `sm_add`; an offset of 0, a copy; lists with an index twice, which are the set they make; a shift out of range,
  which is refused; the failure of the first allocation, which changes nothing.
* `sm_equals`, `sm_compare`, `sm_hash`, `sm_statistics`, the cardinalities of set
  operations and the predicates on two maps: pure functions, most of them loops over
  `sm_next_member` or the run iterator.
* The SIMD kernels (arithmetic of one word), the address space's end (2^64), the
  tests, benchmarks and examples, and vendored code.

