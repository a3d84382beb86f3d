------------------------------ MODULE SparseMap ------------------------------
(***************************************************************************)
(* A sparsemap as its client sees it through src/sm.h: sm_add, sm_remove,  *)
(* sm_add_grow, the ranges and pops made of them, sm_clear and             *)
(* sm_cardinality on one map, with its two storage forms, its buffer that  *)
(* may be full and may be exchanged for another, and the cardinality it    *)
(* caches.                                                                 *)
(***************************************************************************)
EXTENDS Lineage

CONSTANTS
  Indices,     \* the indices the client uses
  Points,      \* those of them it names in the calls for one index
  Spans,       \* the ranges << lo, hi >> it names
  Constructors, \* of sm_create, sm_init and sm_wrap, those it uses
  Buffers,     \* the sizes, in words, the buffer may start with
  Sizes,       \* the sizes the client may ask sm_set_data_size for
  GrowFloor,   \* the least size sm_add_grow grows to (4096 bytes)
  MaxBuffer    \* bound on the model: no growth from a buffer this large

ASSUME ClientConstants ==
  /\ Points \subseteq Indices /\ Indices \subseteq Nat
  /\ Spans \subseteq Nat \X Nat
  /\ \A span \in Spans : span[1] .. span[2] - 1 \subseteq Indices
  /\ Constructors \subseteq {"sm_create", "sm_init", "sm_wrap"}
  /\ Buffers \cup Sizes \subseteq Nat \ {0}
  /\ GrowFloor \in Nat
  /\ MaxBuffer \in Nat

VARIABLES
  map,         \* the sm_t: form, contents, used and total words
  kind,        \* the lineage in the low bits of m_capacity
  cardPlus1,   \* m_card_plus1: 0, or one more than the cardinality cached
  last         \* the last call that reads or changes the set, the indices
               \* it is about, and what it returned

vars == << map, kind, cardPlus1, last >>

Refused == 0 - 1   \* SM_IDX_MAX
Answer(op, about, result) == [op |-> op, about |-> about, result |-> result]

Init ==
  /\ \E how \in Constructors, cap \in Buffers :
       map = Constructed(how, cap) /\ kind = KindOf(how)
  /\ cardPlus1 = 0
  /\ last = Answer("create", {}, 0)

----------------------------------------------------------------------------
(* Calls for one index.                                                    *)

\* A mutant of Update: the cached cardinality is kept.
UpdateUncached(op, about, m, result) ==
  /\ map' = m
  /\ cardPlus1' = cardPlus1
  /\ last' = Answer(op, about, result)

\* Every update drops the cached cardinality first, whatever becomes of it.
Update(op, about, m, result) ==
  /\ map' = m
  /\ cardPlus1' = 0
  /\ last' = Answer(op, about, result)
UpdateOne(op, i, r) == Update(op, {i}, r.map, IF r.ok THEN i ELSE Refused)

SmAdd(i) == UpdateOne("add", i, AddIndex(map, i)) /\ UNCHANGED kind

SmRemove(i) == UpdateOne("remove", i, RemoveIndex(map, i)) /\ UNCHANGED kind

\* sm_add_grow when its first sm_add finds no room and the allocator has some:
\* the buffer is doubled, to at least the floor, and the add is tried again.
\* When the allocator fails the call ends as that first sm_add did.
\* The mutant of its size grows by one word.
GrownSizeByOne(m) == m.cap + 1
GrownSize(m) == Greater(2 * m.cap, GrowFloor)
Grown(m) == Resized(m, kind, GrownSize(m))

SmAddGrow(i) ==
  \E r \in {AddIndex(map, i)} :
    /\ ~r.ok
    /\ map.cap < MaxBuffer
    /\ UpdateOne("add", i, AddIndex(Grown(r.map), i))
    /\ kind' = ResizedKind(map, kind, GrownSize(map))

SmClear ==
  /\ Update("clear", {}, EmptyMap(map.cap), 0)
  /\ UNCHANGED kind

SmCardinality ==
  LET n == IF cardPlus1 # 0 THEN cardPlus1 - 1 ELSE Count(map)
  IN /\ cardPlus1' = n + 1
     /\ last' = Answer("cardinality", {}, n)
     /\ UNCHANGED << map, kind >>

----------------------------------------------------------------------------
(* Calls that are loops over these.  A loop stops at the first index that  *)
(* is refused and leaves what it did before.                               *)

\* One step at i of a loop whose body is Op, unless an earlier one was refused.
StepOf(Op(_, _), r, i) == IF r.ok THEN Op(r.map, i) ELSE r
Through(Op(_, _), m, lo, hi) ==
  FoldLeft(LAMBDA r, k : Then(r, LAMBDA q : StepOf(Op, q, lo + k - 1)),
           Done(m), [k \in 1 .. hi - lo |-> k])

FlipIndex(m, i) == IF Holds(m, i) THEN RemoveIndex(m, i) ELSE AddIndex(m, i)

UpdateSpan(op, lo, hi, r) ==
  /\ Update(op, lo .. hi - 1, r.map, IF r.ok THEN 0 ELSE Refused)
  /\ UNCHANGED kind

SmRemoveRange(lo, hi) ==
  UpdateSpan("remove_range", lo, hi, Through(RemoveIndex, map, lo, hi))
SmFlipRange(lo, hi) ==
  UpdateSpan("flip_range", lo, hi, Through(FlipIndex, map, lo, hi))

\* sm_pop_first and sm_pop_last: an end of the set is looked up and removed.
\* The cache is dropped with the removal, and so not by a pop of an empty map.
Members(m) == {i \in Indices : Holds(m, i)}
PopEnd(op, i) == UpdateOne(op, i, RemoveIndex(map, i)) /\ UNCHANGED kind
SmPop ==
  /\ Members(map) # {}
  /\ \/ PopEnd("pop_first", Min(Members(map)))
     \/ PopEnd("pop_last", Max(Members(map)))
SmPopEmpty ==
  /\ Members(map) = {}
  /\ last' = Answer("pop_first", {}, Refused)
  /\ UNCHANGED << map, kind, cardPlus1 >>

----------------------------------------------------------------------------
(* Calls that exchange the buffer.  The client goes on with the map it     *)
(* gets; no call fails here for want of memory, which changes nothing.     *)

SmSetDataSize(size) ==
  /\ size >= map.used
  /\ map' = Resized(map, kind, size)
  /\ kind' = ResizedKind(map, kind, size)
  /\ UNCHANGED << cardPlus1, last >>

\* A caller's buffer is left as it is.
SmShrinkToFit ==
  /\ kind # "wrapped"
  /\ SmSetDataSize(FittingSize(map))

\* sm_copy and sm_owned_copy take over every word of the buffer.
SmCopy ==
  /\ kind' = "contiguous"
  /\ cardPlus1' = 0
  /\ UNCHANGED << map, last >>

\* What was serialized is read back.
Reread(m, k) ==
  /\ ValidForm(m)
  /\ map' = m
  /\ kind' = k
  /\ cardPlus1' = 0
  /\ UNCHANGED last
SmReread ==
  \/ Reread(Deserialized(map), "contiguous")
  \/ \E size \in Sizes : Reread(Opened(map, size), "wrapped")

Next ==
  \/ \E i \in Points : SmAdd(i) \/ SmRemove(i) \/ SmAddGrow(i)
  \/ \E span \in Spans :
       SmRemoveRange(span[1], span[2]) \/ SmFlipRange(span[1], span[2])
  \/ SmPop \/ SmPopEmpty
  \/ SmClear
  \/ SmCardinality
  \/ \E size \in Sizes : SmSetDataSize(size)
  \/ SmShrinkToFit
  \/ SmCopy
  \/ SmReread

Spec == Init /\ [][Next]_vars

----------------------------------------------------------------------------
\* sm_validate holds after every call, in both forms and across every change
\* of form and of buffer, refused calls included.
FormIsValid == ValidForm(map)

\* A cardinality in the cache is the cardinality of the set as it is now.
CacheIsFresh == cardPlus1 # 0 => cardPlus1 - 1 = Cardinality(Members(map))

\* The count that is taken from the descriptors, without looking an index up,
\* agrees with what sm_contains answers index by index.
CountAgrees == Count(map) = Cardinality(Members(map))

\* In a buffer with room to spare an add leaves the smaller of the two forms it
\* compares, and chunks only while they are strictly smaller.  A small map is
\* compared with the cheapest chunk of its bits, a run if they are one; a map of
\* one chunk with that chunk, which may be sparse though its bits are a run.
SmallerOfTheTwo(m) ==
  IF IsSmall(m)
  THEN m.used <= IF IsSmall(map) \/ map.chunks = << >>
                 THEN SmallChunkWords(m.words) ELSE SparseChunkWords(m.words)
  ELSE \A i \in Members(m) :
         i < SmallMaxBits /\ (\A k \in Members(m) : k <= i) =>
           m.used < HeaderWords + WordOf(i)
SmallerForm ==
  map.cap >= GrowFloor =>
    \A i \in Points : \A r \in {AddIndex(map, i)} : SmallerOfTheTwo(r.map)

\* One growth is enough: the add that follows it always finds room, though it
\* may have to leave small mode, whose promotion needs room of its own.
GrowthSuffices ==
  \A i \in Points : \A r \in {AddIndex(map, i)} :
    ~r.ok => AddIndex(Grown(r.map), i).ok

\* The set is what the last answer left: an index added is held, one removed
\* or popped is not, and a count is still the count, whichever buffer the map
\* was moved to since.
AnswersStand ==
  LET held == last.about \cap Members(map)
  IN CASE last.op = "add" -> last.result # Refused => held = last.about
       [] last.op \in {"remove", "pop_first", "pop_last", "remove_range"}
            -> last.result # Refused => held = {}
       [] last.op \in {"create", "clear"} -> Members(map) = {}
       [] last.op = "cardinality" -> Cardinality(Members(map)) = last.result
       [] OTHER -> TRUE

\* The map does what BitSet promises, call by call.
Abstract == INSTANCE BitSet WITH set <- Members(map)
ImplementsBitSet == Abstract!Spec
=============================================================================
