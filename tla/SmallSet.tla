------------------------------ MODULE SmallSet ------------------------------
(***************************************************************************)
(* Small mode: a map whose indices are all low is a header word and a flat *)
(* array of bitmap words, and is kept so while that is no larger than its  *)
(* one chunk would be.  Here are the small form, the two conversions, and  *)
(* the entry points sm_add and sm_remove that choose between the forms.    *)
(*                                                                         *)
(* A map record gets two more fields: the mode its header word tells, and  *)
(* the words of the small form, each the set of its bits that are 1.       *)
(***************************************************************************)
EXTENDS ChunkStream

CONSTANT SmallMaxWords   \* SM_SMALL_MAX_WORDS (16)

\* F(x).  TLC takes the value of x once, however often F uses it.
Then(x, F(_)) == CHOOSE y \in {F(z) : z \in {x}} : TRUE

SmallMaxBits == SmallMaxWords * BitsPerVector

ASSUME SmallConstants ==
  /\ SmallMaxWords \in Nat \ {0}
  /\ SmallMaxBits < ChunkCap
  /\ ChunkCap <= RLEMax

\* A chunk's three words: the header, its start and its descriptor.
ChunkWords == HeaderWords + 2

EmptyMap(cap) ==
  [mode |-> "chunk", words |-> << >>, chunks |-> << >>,
   used |-> HeaderWords, cap |-> cap]

SmallForm(m, words) ==
  [m EXCEPT !.mode = "small", !.words = words, !.chunks = << >>,
            !.used = HeaderWords + Len(words)]
ChunkForm(m, chunks, used) ==
  [m EXCEPT !.mode = "chunk", !.words = << >>, !.chunks = chunks, !.used = used]

IsSmall(m) == m.mode = "small"

WordOf(i) == i \div BitsPerVector + 1
SmallHas(words, i) ==
  WordOf(i) <= Len(words) /\ i % BitsPerVector \in words[WordOf(i)]
SmallBits(words) == {i \in 0 .. SmallMaxBits - 1 : SmallHas(words, i)}

\* sm_contains
Holds(m, i) == IF IsSmall(m) THEN SmallHas(m.words, i) ELSE HasBit(m.chunks, i)

\* sm_validate
ValidForm(m) ==
  IF ~IsSmall(m) THEN Valid(m)
  ELSE /\ Len(m.words) <= SmallMaxWords
       /\ m.used = HeaderWords + Len(m.words)
       /\ m.used <= m.cap
       /\ m.words # << >> => Last(m.words) # {}

----------------------------------------------------------------------------
(* All of the adjacent runs are joined.                                    *)

\* __sm_coalesce_map.  `left' is the code's `count': after a join it is the
\* whole map's again, so that the end of the data may be what ends the walk.
Joining(m, at, left) == [map |-> m, at |-> at, left |-> left]

\* A mutant of JoinedAt: a place where nothing was joined is tried again.
JoinedAtAgain(w, m) ==
  IF Len(m.chunks) <= Len(w.map.chunks) THEN Joining(m, w.at, Len(m.chunks))
  ELSE Joining(m, w.at + 1, w.left - 1)

JoinedAt(w, m) ==
  IF Len(m.chunks) < Len(w.map.chunks) THEN Joining(m, w.at, Len(m.chunks))
  ELSE Joining(m, w.at + 1, w.left - 1)
Stopped(w) == w.left <= 1 \/ w.at > Len(w.map.chunks)
JoinOn(w) ==
  IF Stopped(w) THEN w
  ELSE Then(Coalesce(w.map, w.at, w.map.chunks[w.at].start, 0, FALSE),
            LAMBDA m : JoinedAt(w, m))
\* Two turns for each chunk are enough for it (CoalesceWalkHolds of SplitProofs);
\* a caller goes on only from a walk that has stopped.
CoalesceWalk(m) ==
  FoldLeft(LAMBDA w, k : Then(w, JoinOn), Joining(m, 1, Len(m.chunks)),
           [k \in 1 .. 2 * Len(m.chunks) |-> k])
CoalesceMap(m) == CoalesceWalk(m).map
CoalesceEnds(m) == Stopped(CoalesceWalk(m))

----------------------------------------------------------------------------
(* sm_cardinality, uncached.  __sm_chunk_rank reads a run of length 0 as a *)
(* full one: its last index, length - 1, wraps.                            *)

\* A mutant of ChunkCount: a run counts for the indices it answers for.
ChunkCountOfSpan(c) ==
  IF IsRLE(c) THEN c.cap
  ELSE Cardinality({i \in 0 .. ChunkCap - 1 : IsSet(c, i)})

ChunkCount(c) ==
  IF IsRLE(c) THEN IF c.len = 0 THEN c.cap ELSE Lesser(c.len, c.cap)
  ELSE Cardinality({i \in 0 .. ChunkCap - 1 : IsSet(c, i)})

Count(m) ==
  IF IsSmall(m) THEN Cardinality(SmallBits(m.words))
  ELSE FoldLeft(LAMBDA n, c : n + ChunkCount(c), 0, m.chunks)

----------------------------------------------------------------------------
(* The two forms' costs, and the conversions between them.                 *)

\* The length of the run {0 .. n-1} the words are, and 0 if they are none.
RunFromZero(words) ==
  LET bits == SmallBits(words)
      n == Cardinality(bits)
  IN IF bits = 0 .. n - 1 THEN n ELSE 0

\* __sm_small_chunk_bytes: what the one chunk would take, as a run if the words
\* are one and else with a payload word for each that is mixed.
MixedWords(words) == {w \in DOMAIN words : words[w] \notin {{}, Bit}}
SparseChunkWords(words) == ChunkWords + Cardinality(MixedWords(words))
SmallChunkWords(words) ==
  IF RunFromZero(words) > 0 THEN ChunkWords ELSE SparseChunkWords(words)

\* The bits below n of the small map m, set one by one in an empty chunk map.
ReAddedBit(r, m, i) == IF r.ok /\ SmallHas(m.words, i) THEN MapSet(r.map, i) ELSE r
ReAdded(m, n) ==
  FoldLeft(LAMBDA r, k : Then(r, LAMBDA q : ReAddedBit(q, m, k - 1)),
           Done(ChunkForm(m, << >>, HeaderWords)),
           [k \in 1 .. n |-> k])

\* A run from 0 that ends inside a word is written as one RLE chunk.
\* Otherwise the bits are set again; when one of them finds no room the small
\* form is put back.
ShortRun(m) == RunFromZero(m.words) % BitsPerVector # 0 /\ ChunkWords <= m.cap
RunForm(m) ==
  Done(ChunkForm(m, << RLEChunk(0, RunFromZero(m.words), ChunkCap) >>, ChunkWords))
OrSmall(r, m) == IF r.ok THEN r ELSE Failed(m)

\* A mutant of Promote: a promotion that finds no room leaves what it had
\* written.
PromoteUnrestored(m) ==
  IF ShortRun(m) THEN RunForm(m) ELSE ReAdded(m, SmallMaxBits)

\* __sm_promote
Promote(m) ==
  IF ShortRun(m) THEN RunForm(m)
  ELSE Then(ReAdded(m, SmallMaxBits), LAMBDA r : OrSmall(r, m))

\* __sm_small_is_better, and the same test in __sm_try_demote: between two forms
\* of one set the small one is kept while it is no larger.  The mutant keeps
\* the chunk when the two are the same size.
SmallIsSmaller(maxBit, smallWords, chunkWords) ==
  maxBit < SmallMaxBits /\ smallWords < chunkWords
SmallIsBetter(maxBit, smallWords, chunkWords) ==
  maxBit < SmallMaxBits /\ smallWords <= chunkWords

\* __sm_try_demote: a map of one low chunk that takes no less room than the
\* small form of its bits.
LowChunk(m) == ~IsSmall(m) /\ Len(m.chunks) = 1 /\ m.chunks[1].start = 0
ChunkBits(c) == {i \in 0 .. ChunkCap - 1 : IsSet(c, i)}
WordsOf(bits) ==
  [w \in 1 .. WordOf(Max(bits)) |-> {b \in Bit : (w - 1) * BitsPerVector + b \in bits}]
FewestWords(m, bits) ==
  IF bits = {} THEN IF IsRLE(m.chunks[1]) THEN m ELSE ChunkForm(m, << >>, HeaderWords)
  ELSE IF SmallIsBetter(Max(bits), HeaderWords + WordOf(Max(bits)), m.used)
       THEN SmallForm(m, WordsOf(bits)) ELSE m
TryDemote(m) ==
  IF LowChunk(m)
  THEN Then(ChunkBits(m.chunks[1]), LAMBDA bits : FewestWords(m, bits)) ELSE m

----------------------------------------------------------------------------
(* sm_add: __sm_small_add and __sm_add_dispatch.                           *)

SmallAdd(m, i) ==
  LET n == Greater(Len(m.words), WordOf(i))
      words == [w \in 1 .. n |->
                  (IF w <= Len(m.words) THEN m.words[w] ELSE {})
                    \cup (IF w = WordOf(i) THEN {i % BitsPerVector} ELSE {})]
  IN IF n > Len(m.words) /\ HeaderWords + n > m.cap THEN Failed(m)
     ELSE Done(SmallForm(m, words))

\* The small form is kept only while it is no larger; a promotion that finds
\* no room for its intermediate steps leaves it in place.
Settled(r) ==
  IF /\ r.ok
     /\ ~SmallIsBetter(Max(SmallBits(r.map.words)), r.map.used,
                       SmallChunkWords(r.map.words))
  THEN Done(Promote(r.map).map)
  ELSE r
AddLow(m, i) ==
  Settled(SmallAdd(IF IsSmall(m) THEN m ELSE SmallForm(m, << >>), i))

Demoted(r) == IF r.ok THEN Done(TryDemote(r.map)) ELSE r
SetAfter(p, i) == IF p.ok THEN Demoted(MapSet(p.map, i)) ELSE p
AddToChunks(m, i) == SetAfter(IF IsSmall(m) THEN Promote(m) ELSE Done(m), i)

AddIndex(m, i) ==
  IF (IsSmall(m) \/ m.chunks = << >>) /\ i < SmallMaxBits THEN AddLow(m, i)
  ELSE AddToChunks(m, i)

----------------------------------------------------------------------------
(* sm_remove.  A small map drops its trailing words of zeros.              *)

Trim(words) ==
  LET used == {w \in DOMAIN words : words[w] # {}}
  IN SubSeq(words, 1, IF used = {} THEN 0 ELSE Max(used))

Shrunk(r) == [map |-> TryDemote(r.map), ok |-> r.ok]

RemoveIndex(m, i) ==
  IF IsSmall(m)
  THEN Done(IF WordOf(i) \in DOMAIN m.words
            THEN SmallForm(m, Trim([m.words EXCEPT ![WordOf(i)] =
                                      @ \ {i % BitsPerVector}]))
            ELSE m)
  ELSE Shrunk(MapUnset(m, i))
=============================================================================
