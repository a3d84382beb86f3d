-------------------------------- MODULE Split --------------------------------
(***************************************************************************)
(* sm_split: the indices from a point on are moved from a map to another,  *)
(* empty one.  Both are the caller's, in buffers that the call does not    *)
(* grow, and it works in place on both at once: what a step leaves behind  *)
(* when a later one finds no room stays there.                             *)
(***************************************************************************)
EXTENDS Operands

CONSTANTS
  Points,   \* the indices a map is split at
  Spare,    \* the words the source has beyond what it uses
  Rooms     \* the sizes, in words, of the destination

ASSUME SplitAssumption ==
  /\ Points \subseteq Nat
  /\ Spare \subseteq Nat
  /\ Rooms \subseteq Nat \ {0}

VARIABLES
  given,     \* the source as it was
  point,     \* where the client asks to split it
  map,       \* the source
  other,     \* the destination
  idx,       \* where it is split
  next,      \* the next index of the divided window to be moved
  ignored,   \* a set or an unset failed and the code went on
  status     \* "called", "parting", "bits", and then how it ended

vars == << given, point, map, other, idx, next, ignored, status >>

Median == 0 - 1   \* SM_IDX_MAX: split in equal halves
Top == RLEMax + 1
MembersOf(m) == MembersBelow(m, Top)

Sources ==
  {[m EXCEPT !.cap = m.used + n] : m \in {Built(h) : h \in Histories}, n \in Spare}

Init ==
  /\ given \in {m \in Sources : MembersOf(m) # {}}
  /\ point \in Points \cup {Median}
  /\ map = given
  /\ \E n \in Rooms : other \in {EmptyMap(n), SmallForm(EmptyMap(n), << >>)}
  /\ idx = point /\ next = 0
  /\ ignored = FALSE
  /\ status = "called"

----------------------------------------------------------------------------
(* sm_minimum and sm_maximum look at the first and at the last chunk.      *)

\* A sparse chunk without indices leaves the answer at 0.
IndicesOf(c) == {c.start + b : b \in {b \in 0 .. ChunkCap - 1 : IsSet(c, b)}}
Minimum(m) ==
  IF IsSmall(m) THEN IF m.words = << >> THEN 0 ELSE Min(SmallBits(m.words))
  ELSE IF m.chunks = << >> THEN 0
  ELSE IF IsRLE(m.chunks[1]) THEN m.chunks[1].start
  ELSE IF IndicesOf(m.chunks[1]) = {} THEN 0 ELSE Min(IndicesOf(m.chunks[1]))
Maximum(m) ==
  IF IsSmall(m) THEN IF m.words = << >> THEN 0 ELSE Max(SmallBits(m.words))
  ELSE IF m.chunks = << >> THEN 0
  ELSE IF IsRLE(Last(m.chunks)) THEN Last(m.chunks).start + Last(m.chunks).len - 1
  ELSE IF IndicesOf(Last(m.chunks)) = {} THEN 0 ELSE Max(IndicesOf(Last(m.chunks)))

----------------------------------------------------------------------------
(* The call.                                                               *)

End(s) == status' = s

\* The member with half of the others below it.
MiddleOf(S) ==
  CHOOSE i \in S : Cardinality({k \in S : k < i}) = Cardinality(S) \div 2

\* Both maps are to be in chunk mode.  A source that cannot be promoted refuses
\* the call; one with a single index has no halves; and there is nothing to
\* move at or past a point above the last index.
Start ==
  /\ status = "called"
  /\ \E r \in {IF IsSmall(map) THEN Promote(map) ELSE Done(map)} :
       /\ map' = r.map
       /\ IF ~r.ok THEN End("refused") /\ UNCHANGED << other, idx >>
          ELSE /\ other' = EmptyMap(other.cap)
               /\ idx' = IF point = Median THEN MiddleOf(MembersOf(r.map)) ELSE point
               /\ End(IF point = Median /\ Minimum(r.map) = Maximum(r.map) THEN "undivided"
                      ELSE IF idx' > Maximum(r.map) THEN "done" ELSE "parting")
  /\ UNCHANGED << given, point, next, ignored >>

\* The first chunk that is not all below the point.
Here == CHOOSE j \in DOMAIN map.chunks :
          /\ map.chunks[j].start + Capacity(map.chunks[j]) > idx
          /\ \A k \in 1 .. j - 1 : map.chunks[k].start + Capacity(map.chunks[k]) <= idx
InMiddle == map.chunks[Here].start < idx
Window == AlignedOffset(idx)

\* Two mutants of Pivot: the window stays a run; and it is taken to be full.
PivotAsRun(t, a) == RLEChunk(a, Lesser(ChunkCap, t.start + t.len - a), ChunkCap)
PivotWhole(t, a) == OnesChunk(a)

\* __sm_separate_rle_chunk for state -1: the window of the point becomes a
\* sparse chunk, with the same bits.
Pivot(t, a) ==
  IF a >= t.start + t.len THEN ZerosChunk(a)
  ELSE MaskTail(OnesChunk(a), t.start + t.len - a)
Parted(t, a) ==
  LET end == t.start + t.len
      left == IF a = t.start THEN << >>
              ELSE << LeftRemainder(t.start, Lesser(a, end) - t.start, a) >>
      right == IF a + ChunkCap < end
               THEN << RightRemainder(a + ChunkCap, end - (a + ChunkCap), t.start + t.cap) >>
               ELSE << >>
  IN left \o << Pivot(t, a) >> \o right

\* A run with the point inside it is separated, and the call begins anew.
PartRun ==
  /\ status = "parting" /\ InMiddle /\ IsRLE(map.chunks[Here])
  /\ \E r \in {SeparateInto(map, Here, Parted(map.chunks[Here], Window))} :
       /\ map' = r.map
       /\ End(IF r.ok THEN "parting" ELSE "refused")
  /\ UNCHANGED << given, point, other, idx, next, ignored >>

\* A sparse chunk with the point inside it gets a counterpart, without bits,
\* when the destination has room for the largest there is.
LargestChunk == 2 + FlagsPerIndex
OpenWindow ==
  /\ status = "parting" /\ InMiddle /\ ~IsRLE(map.chunks[Here])
  /\ IF other.used + LargestChunk > other.cap
     THEN End("refused") /\ UNCHANGED << other, next >>
     ELSE /\ other' = Replace(other, 1, 0, << ZerosChunk(Window) >>, 2)
          /\ next' = idx
          /\ End("bits")
  /\ UNCHANGED << given, point, map, idx, ignored >>

\* A mutant of Put: the words the chunk gains or loses are not counted.
PutUncounted(m, j, d) ==
  IF HasRoom(m, 2) THEN Done(Replace(m, j, 1, << d >>, 0)) ELSE Failed(m)

\* __sm_map_set and __sm_map_unset without coalescing, in a sparse chunk.
Put(m, j, d) ==
  IF HasRoom(m, 2) THEN Done(Replace(m, j, 1, << d >>, Size(d) - Size(m.chunks[j])))
  ELSE Failed(m)
SetHere(m, i) == Put(m, 1, SetBit(m.chunks[1], i - Window))
Without(m, j, d) ==
  IF HasRoom(m, 2) /\ IsEmptyChunk(d) THEN Done(Replace(m, j, 1, << >>, -3))
  ELSE Put(m, j, d)
UnsetHere(m, i) ==
  Without(m, Locate(m.chunks, i), ClrBit(m.chunks[Locate(m.chunks, i)], i - Window))

\* The loop looks at neither result.
MoveBit ==
  /\ status = "bits" /\ next < Window + ChunkCap
  /\ next' = next + 1
  /\ IF Holds(map, next)
     THEN \E p \in {SetHere(other, next)}, q \in {UnsetHere(map, next)} :
            /\ other' = p.map /\ map' = q.map
            /\ ignored' = (ignored \/ ~p.ok \/ ~q.ok)
     ELSE UNCHANGED << map, other, ignored >>
  /\ UNCHANGED << given, point, idx, status >>

\* A mutant of UpTo: the last chunk below the point goes with those above it.
UpToButOne(chunks) ==
  LET below == SelectSeq(chunks, LAMBDA c : c.start < idx)
  IN IF InMiddle \/ below = << >> THEN below ELSE Front(below)

\* The chunks from the point on are moved, all of them or none, and both maps
\* get the form they are to have.
Below(chunks) ==
  CHOOSE n \in 0 .. Len(chunks) : \A j \in DOMAIN chunks : chunks[j].start < idx <=> j <= n
UpTo(chunks) == SubSeq(chunks, 1, Below(chunks))
Cut(m, chunks) == [m EXCEPT !.chunks = chunks, !.used = HeaderWords + StreamWords(chunks)]
Extended(m, chunks) ==
  [m EXCEPT !.chunks = @ \o chunks, !.used = @ + StreamWords(chunks)]
Tidied(m) == TryDemote(CoalesceMap(m))

AtCut == \/ status = "parting" /\ ~InMiddle
         \/ status = "bits" /\ next = Window + ChunkCap
MoveChunks ==
  /\ AtCut
  /\ \E low \in {UpTo(map.chunks)} : \E up \in {SubSeq(map.chunks, Len(low) + 1, Len(map.chunks))} :
       IF other.used + StreamWords(up) > other.cap
       THEN End("refused") /\ UNCHANGED << map, other >>
       ELSE /\ CoalesceEnds(Cut(map, low)) /\ map' = Tidied(Cut(map, low))
            /\ CoalesceEnds(Extended(other, up)) /\ other' = Tidied(Extended(other, up))
            /\ End("done")
  /\ UNCHANGED << given, point, idx, next, ignored >>

Next == Start \/ PartRun \/ OpenWindow \/ MoveBit \/ MoveChunks

\* The call runs on its caller's thread: while it has a step to take it takes one.
Spec == Init /\ [][Next]_vars /\ WF_vars(Next)

----------------------------------------------------------------------------
\* At every step, and however the call ends, each index is in one of the two
\* maps and nothing else is, unless a failure was passed over.
NothingLost ==
  ~ignored =>
    /\ MembersOf(map) \cup MembersOf(other) = MembersOf(given)
    /\ MembersOf(map) \cap MembersOf(other) = {}

\* What is moved is what lies at or above the point, all of it when the call
\* succeeds; and a split in halves leaves the greater half, if any, to the
\* destination.
Upper == {i \in MembersOf(given) : i >= idx}
PartitionExact ==
  /\ MembersOf(other) \subseteq Upper
  /\ status = "done" /\ ~ignored =>
       /\ MembersOf(other) = Upper
       /\ point = Median => Cardinality(MembersOf(other)) - Cardinality(MembersOf(map)) \in {0, 1}

\* Both maps are valid at every step, failures passed over or not.
BothValid == ValidForm(map) /\ ValidForm(other)

\* sm_minimum and sm_maximum find the ends of either map when the call is over.
EndsFound(m) ==
  MembersOf(m) # {} => Minimum(m) = Min(MembersOf(m)) /\ Maximum(m) = Max(MembersOf(m))
EndsAreFound == status = "done" => EndsFound(map) /\ EndsFound(other)

\* The call returns.
Returns == <>(status \in {"done", "undivided", "refused"})
=============================================================================
