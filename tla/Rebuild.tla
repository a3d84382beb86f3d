------------------------------- MODULE Rebuild -------------------------------
(***************************************************************************)
(* The operations that write a new map through the emitter and return it,  *)
(* or put it in the place of the one they were called on: sm_add_range,    *)
(* sm_add_many, sm_add_many_grow, sm_xor, sm_xor_inplace, sm_extract_range *)
(* and sm_offset.  An action is one turn of a loop.                        *)
(***************************************************************************)
EXTENDS Operands, Shift

CONSTANTS
  Ranges,   \* the ranges sm_add_range and sm_extract_range are called with
  Lists,    \* the indices sm_add_many is given, two or more, each once or often
  Shifts,   \* by how much sm_offset moves a map
  Spare,    \* the words a destination has beyond what it uses
  Slack     \* words of slack a result, or a grown map, is given (64 bytes)

ASSUME CallsAssumption ==
  /\ \A r \in Ranges : r.lo \in Nat /\ r.hi \in Nat /\ r.lo < r.hi
  /\ {} \notin Lists
  /\ Shifts \subseteq Int \ {0}
  /\ Spare \subseteq Nat
  /\ Slack \in Nat

VARIABLES
  op,        \* the operation
  by,        \* its range, or [lo, lo] with the distance of a shift
  given,     \* the map it is called on, as it was
  dst,       \* that map, as it is
  wanted,    \* the set the call is to build
  rest,      \* what is to come of the map: runs, or chunks for sm_offset
  other,     \* what is to come of the other side: runs
  pos,       \* how far a sweep of the two is
  cur,       \* sm_add_range: the run being put together
  emitted,   \* sm_add_range: a run has been written before cur
  em,        \* the emitter
  status     \* "building", "done", "empty", "refused" or "failed"

call == << op, by, given, wanted >>
vars == << op, by, given, dst, wanted, rest, other, pos, cur, emitted, em, status >>

Updates == {"add_range", "add_many", "add_many_grow", "xor_inplace"}

\* Past every index of an operand, an argument or a result.
Top == 2 * RLEMax + 2
MembersOf(m) == MembersBelow(m, Top)
Span(r) == r.lo .. r.hi - 1

Maps ==
  {[m EXCEPT !.cap = m.used + n] : m \in {Built(h) : h \in Histories}, n \in Spare}

----------------------------------------------------------------------------
(* A call, from its guards to the first turn.                              *)

Begin(o, r, m, set, mine, others, words) ==
  /\ op = o /\ by = r
  /\ given = m /\ dst = m
  /\ wanted = set
  /\ rest = mine /\ other = others
  /\ pos = 0 /\ cur = << >> /\ emitted = FALSE
  /\ em = EmitTo(NewResult(words))
  /\ status = "building"

NoRange == Run(0, 0)

BeginAddRange(m) ==
  \E r \in Ranges :
    Begin("add_range", r, m, MembersOf(m) \cup Span(r), MaximalRuns(m), << r >>,
          m.used + 2 * Slack)

\* sm_add_many sorts the indices and makes runs of them; each run is counted
\* three words of the result, and an empty map none.
BeginAddMany(m) ==
  \E S \in Lists : \E o \in {"add_many", "add_many_grow"} :
    Begin(o, NoRange, m, MembersOf(m) \cup S, MaximalRuns(m), RunsIn(S),
          (IF MembersOf(m) = {} THEN 0 ELSE m.used) + 3 * Len(RunsIn(S)) + Slack)

\* Maps without members are answered before the walk.
BeginXor(m) ==
  \E x \in Maps : \E o \in {"xor", "xor_inplace"} :
    /\ MembersOf(m) # {} /\ MembersOf(x) # {}
    /\ x.used = x.cap /\ (o = "xor" => m.used = m.cap)
    /\ Begin(o, NoRange, m, (MembersOf(m) \ MembersOf(x)) \cup (MembersOf(x) \ MembersOf(m)),
             MaximalRuns(m), MaximalRuns(x), m.cap + x.cap)

BeginExtract(m) ==
  \E r \in Ranges :
    /\ MembersOf(m) # {}
    /\ Begin("extract", r, m, MembersOf(m) \cap Span(r), MaximalRuns(m), << >>,
             m.used + Slack)

\* A map all of which falls below 0 is answered before the walk.
LargestChunk == 1 + 1 + FlagsPerIndex
BeginOffset(m) ==
  \E d \in Shifts : \E v \in {View(m)} :
    /\ MembersOf(m) # {} /\ Max(MembersOf(m)) + d >= 0
    /\ Begin("offset", Run(d, d), m, {i + d : i \in MembersOf(m)} \cap Nat,
             v.chunks, << >>, 2 * v.used + LargestChunk)

Init ==
  \E m \in Maps :
    BeginAddRange(m) \/ BeginAddMany(m) \/ BeginXor(m) \/ BeginExtract(m) \/ BeginOffset(m)

----------------------------------------------------------------------------
(* What the turns write.  When the result had to grow the allocator may    *)
(* have failed: the result is freed and the call ends.                     *)

\* __sm_replace_buffer, for a result that there is: it goes into dst, which
\* grows when it is too small.
CopyInto(m, r) ==
  TryDemote([r EXCEPT !.cap = m.cap])
Replaced(m, r) ==
  CopyInto(IF m.cap < r.used THEN [m EXCEPT !.cap = r.used + Slack] ELSE m, r)

\* And when there is none, which an empty result and a failed one look like.
Cleared(m) == EmptyMap(m.cap)

Give(s, m) == status' = s /\ dst' = m
Fail ==
  /\ Give("failed", IF op = "xor_inplace" THEN Cleared(dst) ELSE dst)
  /\ em' = EmitTo(EmptyMap(em.out.cap))

Write(to) ==
  \E e \in {to} :
    \/ em' = e /\ UNCHANGED << dst, status >>
    \/ e.out.cap > em.out.cap /\ Fail

----------------------------------------------------------------------------
(* sm_add_range: the range is merged with the map's runs in order.         *)

Building(o) == status = "building" /\ op = o
TakeOther == other # << >> /\ (rest = << >> \/ other[1].lo <= rest[1].lo)
Taken == IF TakeOther THEN other[1] ELSE rest[1]
TakeOne ==
  /\ rest' = IF TakeOther THEN rest ELSE Tail(rest)
  /\ other' = IF TakeOther THEN Tail(other) ELSE other
  /\ UNCHANGED pos

Meets(r, s) == s.lo <= r.hi
Together(r, s) == Run(r.lo, Greater(r.hi, s.hi))

AddRangeTake ==
  /\ Building("add_range")
  /\ rest # << >> \/ other # << >>
  /\ IF cur = << >> \/ Meets(cur[1], Taken)
     THEN /\ cur' = << IF cur = << >> THEN Taken ELSE Together(cur[1], Taken) >>
          /\ UNCHANGED << emitted, em, dst, status >>
     ELSE /\ cur' = << Taken >>
          /\ emitted' = TRUE
          /\ Write(EmitRun(em, cur[1].lo, cur[1].hi))
  /\ TakeOne

----------------------------------------------------------------------------
(* sm_xor and sm_add_many: a sweep over the edges of both sides' runs.     *)

Covers(s, p) == s # << >> /\ s[1].lo <= p /\ p < s[1].hi
EdgeAfter(s, p) ==
  IF s = << >> THEN Top ELSE IF p < s[1].lo THEN s[1].lo ELSE s[1].hi
Beginning(s) == IF s = << >> THEN Top ELSE s[1].lo
At == Greater(pos, Lesser(Beginning(rest), Beginning(other)))
NextEdge == Lesser(EdgeAfter(rest, At), EdgeAfter(other, At))
\* A mutant of Past: a run that ends at p is kept.
PastLate(s, p) == IF s # << >> /\ p > s[1].hi THEN Tail(s) ELSE s
Past(s, p) == IF s # << >> /\ p >= s[1].hi THEN Tail(s) ELSE s

Selected(p) ==
  IF op \in {"xor", "xor_inplace"} THEN Covers(rest, p) # Covers(other, p)
  ELSE Covers(rest, p) \/ Covers(other, p)

Sweeps == {"xor", "xor_inplace", "add_many", "add_many_grow"}
SweepOn ==
  /\ status = "building" /\ op \in Sweeps
  /\ rest # << >> \/ other # << >>
  /\ \E lo \in {At}, hi \in {NextEdge} :
       /\ Write(IF Selected(lo) THEN EmitRun(em, lo, hi) ELSE em)
       /\ pos' = hi
       /\ rest' = Past(rest, hi)
       /\ other' = Past(other, hi)
  /\ UNCHANGED << cur, emitted >>

----------------------------------------------------------------------------
(* sm_extract_range and sm_offset.                                         *)

\* Runs below the range are passed over, and the first one above it ends the
\* walk.
ExtractRun ==
  /\ Building("extract") /\ rest # << >>
  /\ rest' = IF rest[1].lo >= by.hi THEN << >> ELSE Tail(rest)
  /\ Write(EmitRun(em, Greater(rest[1].lo, by.lo), Lesser(rest[1].hi, by.hi)))
  /\ UNCHANGED << other, pos, cur, emitted >>

OffsetChunk ==
  /\ Building("offset") /\ rest # << >>
  /\ rest' = Tail(rest)
  /\ Write(ShiftChunk(em, rest[1], by.lo))
  /\ UNCHANGED << other, pos, cur, emitted >>

----------------------------------------------------------------------------
(* The end of a call: what is pending is written, and adjacent runs are    *)
(* joined.                                                                 *)

\* sm_add_range: a map of one run within a window is written as an RLE chunk.
AsOneRun(m, r) ==
  IF ~emitted /\ r.lo % ChunkCap = 0 /\ r.hi - r.lo < ChunkCap
  THEN ChunkForm(m, << RLEChunk(r.lo, r.hi - r.lo, ChunkCap) >>, ChunkWords)
  ELSE m

\* The emitter with all that is to be written.
LastTurn == IF op = "add_range" THEN EmitRun(em, cur[1].lo, cur[1].hi) ELSE em
Whole(m) ==
  IF op = "add_range" THEN AsOneRun(CoalesceMap(m), cur[1]) ELSE CoalesceMap(m)

\* A mutant of PutInPlace: a refused result has been copied as far as it fits.
PutInPlaceTorn(r) ==
  IF r.used > dst.cap THEN Give("refused", Cleared(dst)) /\ em' = EmitTo(Cleared(r))
  ELSE Give("done", CopyInto(dst, r)) /\ em' = EmitTo(r)

\* The map's buffer may not move: a result too large for it is refused.
PutInPlace(r) ==
  IF r.used > dst.cap THEN Give("refused", dst) /\ em' = EmitTo(Cleared(r))
  ELSE Give("done", CopyInto(dst, r)) /\ em' = EmitTo(r)

\* The map is the caller's to move; there may be no memory to move it to.
PutAnywhere(r) ==
  \/ Give("done", Replaced(dst, r)) /\ em' = EmitTo(r)
  \/ dst.cap < r.used /\ Give("failed", dst) /\ em' = EmitTo(Cleared(r))

\* NULL for a map without members.  A result in small mode may come of it, but
\* sm_offset looks only when its operand was small.
Returned(r) == IF op = "offset" /\ ~IsSmall(given) THEN r ELSE TryDemote(r)
Return(r) ==
  /\ em' = EmitTo(IF r.chunks = << >> THEN r ELSE Returned(r))
  /\ Give(IF r.chunks = << >> THEN "empty" ELSE "done", dst)

\* sm_xor's end, and what __sm_replace_buffer makes of it
ReturnInto(r) ==
  IF r.chunks = << >> THEN Give("empty", Cleared(dst)) /\ em' = EmitTo(r)
  ELSE PutAnywhere(TryDemote(r))

Deliver(r) ==
  CASE op \in {"add_range", "add_many"}    -> PutInPlace(r)
    [] op = "add_many_grow"                -> PutAnywhere(r)
    [] op \in {"xor", "extract", "offset"} -> Return(r)
    [] op = "xor_inplace"                  -> ReturnInto(r)

Finish ==
  /\ status = "building" /\ rest = << >> /\ other = << >>
  /\ \E e \in {Flush(LastTurn)} :
       \/ CoalesceEnds(e.out) /\ \E r \in {Whole(e.out)} : Deliver(r)
       \/ e.out.cap > em.out.cap /\ Fail
  /\ UNCHANGED << rest, other, pos, cur, emitted >>

Next ==
  /\ AddRangeTake \/ SweepOn \/ ExtractRun \/ OffsetChunk \/ Finish
  /\ UNCHANGED call

\* The call runs on its caller's thread: while it has a step to take it takes one.
Spec == Init /\ [][Next]_vars /\ WF_vars(Next)

----------------------------------------------------------------------------
Pending == UNION {{p.start + x : x \in p.bits} : p \in ToSet(em.pending)}
Result == MembersOf(em.out) \cup Pending

\* Where the walk is: below it the result, with what is pending, is to be
\* complete.
FrontierWalking ==
  CASE op = "add_range" -> IF cur = << >> THEN 0 ELSE cur[1].lo
    [] op \in Sweeps    -> pos
    [] op = "extract"   -> Beginning(rest)
    [] op = "offset"    -> IF rest = << >> THEN Top
                           ELSE Greater(0, rest[1].start + by.lo)
Frontier == IF status = "building" THEN FrontierWalking ELSE Top

\* Type invariant.
TypeOK ==
  /\ status \in {"building", "done", "empty", "refused", "failed"}
  /\ pos \in 0 .. Top
  /\ Len(cur) <= 1
  /\ emitted \in BOOLEAN
  /\ em.out.used \in HeaderWords .. em.out.cap
  /\ dst.used \in HeaderWords .. dst.cap

\* At every turn what has been written is a valid map, whatever pieces of
\* whatever windows were merged into it.
ResultIsValid == ValidForm(em.out)

\* Each of the operations is a sweep of its operands, from the lowest index up.
Abstract == INSTANCE Sweep
              WITH frontier <- Frontier, result <- Result,
                   failed <- status \in {"failed", "refused"}
ImplementsSweep == Abstract!Spec

\* A destination is as it was until the call has succeeded, and then holds
\* exactly the set the call was to build; an operation that returns a new map
\* leaves its operand alone.
Kept == dst = given
Holding == ValidForm(dst) /\ MembersOf(dst) = wanted
DestinationExact ==
  IF status \in {"done", "empty"} /\ op \in Updates THEN Holding ELSE Kept

\* The same but for sm_xor_inplace when memory runs out.
DestinationExactOtherwise ==
  ~(status = "failed" /\ op = "xor_inplace") => DestinationExact

\* What an operation leaves is a map like any other: a set of any index changes
\* that index alone, and the map stays valid.
Settles(m, i) ==
  \A r \in {AddIndex([m EXCEPT !.cap = @ + LeastResult], i)} :
    r.ok /\ ValidForm(r.map) /\ MembersOf(r.map) = MembersOf(m) \cup {i}
ResultTakesSets == status = "done" => \A i \in 0 .. RLEMax - 1 : Settles(em.out, i)

\* It holds where every chunk answers for all of its window.
WholeWindows(m) == \A j \in DOMAIN m.chunks : Capacity(m.chunks[j]) >= ChunkCap
ResultTakesSetsOtherwise ==
  status = "done" /\ WholeWindows(em.out) => \A i \in 0 .. RLEMax - 1 : Settles(em.out, i)

\* The call returns.
Returns == <>(status # "building")
=============================================================================
