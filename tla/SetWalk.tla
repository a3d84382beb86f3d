------------------------------ MODULE SetWalk ------------------------------
(***************************************************************************)
(* sm_union, sm_intersection and sm_difference: one walk over the chunks   *)
(* of two maps that writes the chunks of a third.  An action is one turn   *)
(* of a loop.                                                              *)
(***************************************************************************)
EXTENDS Operands

VARIABLES
  op,        \* the operation
  a, b,      \* the chunks of its two operands
  ai, bi,    \* the chunks the walk is at
  acur,      \* a_cursor: up to where chunk ai has been written, or 0
  bcur,      \* b_cursor
  phase,     \* where sm_difference is: "outer", "inner" or "tail"
  out,       \* the result
  status     \* "walking", "done", "empty" or "failed"

operands == << op, a, b >>
walk == << ai, bi, acur, bcur, phase >>
vars == << op, a, b, ai, bi, acur, bcur, phase, out, status >>

Operations == {"union", "intersection", "difference"}

\* The words a result buffer starts with.
FirstSize(o, x, y) ==
  CASE o = "union"        -> x.used + y.used
    [] o = "intersection" -> Greater(x.used, y.used)
    [] o = "difference"   -> x.used

\* An operand without chunks is answered before the walk: by NULL, or by a copy
\* of the other one.
Init ==
  \E x \in Views, y \in Views, o \in Operations :
    /\ op = o
    /\ a = x.chunks
    /\ b = y.chunks
    /\ a # << >> /\ b # << >>
    /\ ai = 1 /\ bi = 1
    /\ acur = 0 /\ bcur = 0
    /\ phase = "outer"
    /\ out = NewResult(FirstSize(o, x, y))
    /\ status = "walking"

----------------------------------------------------------------------------
(* What every turn of a loop can see.                                      *)

Ends(c) == c.start + Capacity(c)
AtA == a[ai]
AtB == b[bi]
CursorA == Greater(acur, AtA.start)
CursorB == Greater(bcur, AtB.start)
Both == ai <= Len(a) /\ bi <= Len(b)

\* The result after this turn.  When it had to grow, the allocator may have
\* failed: then the operation frees what it has and returns NULL.
Write(m) ==
  \/ out' = m /\ status' = status
  \/ m.cap > out.cap /\ status' = "failed" /\ out' = EmptyMap(out.cap)

\* The side moves to the next chunk, or its cursor moves on.
NextA == ai' = ai + 1 /\ acur' = 0
NextB == bi' = bi + 1 /\ bcur' = 0
StayA == UNCHANGED << ai, acur >>
StayB == UNCHANGED << bi, bcur >>
AdvanceA(to) == IF to >= Ends(AtA) THEN NextA ELSE ai' = ai /\ acur' = to
AdvanceB(to) == IF to >= Ends(AtB) THEN NextB ELSE bi' = bi /\ bcur' = to

\* The window the words of a run and a sparse chunk, or of two sparse chunks,
\* are combined in: the sparse one's, a's if both are.
TargetChunk(c, d) == IF IsRLE(c) THEN d ELSE c
Window(c, d) == TargetChunk(c, d).start
SlotsAt(c, d) == IF IsRLE(c) THEN SlotsOf(d) ELSE SlotsOf(c)
WordBits(slots) == {x \in WindowBits : x \div BitsPerVector \in slots}

\* The two chunks' words, and which slots each answers for.
OrPiece(c, d) ==
  Piece(Window(c, d), BitsIn(c, Window(c, d)) \cup BitsIn(d, Window(c, d)),
        SlotsAt(c, d) \cup SlotsAt(d, c))
AndPiece(c, d) ==
  Piece(Window(c, d), BitsIn(c, Window(c, d)) \cap BitsIn(d, Window(c, d)),
        SlotsAt(c, d) \cap SlotsAt(d, c))
\* Where b answers for nothing, a's words stay.
AndNotPiece(c, d) ==
  Piece(Window(c, d),
        BitsIn(c, Window(c, d)) \ (BitsIn(d, Window(c, d)) \cap WordBits(SlotsAt(d, c))),
        SlotsAt(c, d))

BothSparse == ~IsRLE(AtA) /\ ~IsRLE(AtB) /\ AtA.start = AtB.start
BothRuns == IsRLE(AtA) /\ IsRLE(AtB)

----------------------------------------------------------------------------
(* sm_union                                                                *)

\* The rest of a chunk that no chunk of the other map overlaps.  The mutant
\* writes it as it is, however much of it has been written.
WriteRestWhole(m, c, cursor) == AppendChunk(m, c)
WriteRest(m, c, cursor) ==
  IF cursor <= c.start THEN AppendChunk(m, c) ELSE EmitChunkBits(m, c, cursor, Ends(c))

UnionPassA ==
  /\ Both /\ Ends(AtA) <= CursorB
  /\ Write(WriteRest(out, AtA, CursorA))
  /\ NextA
  /\ bi' = bi /\ bcur' = CursorB

UnionPassB ==
  /\ Both /\ Ends(AtA) > CursorB /\ Ends(AtB) <= CursorA
  /\ Write(WriteRest(out, AtB, CursorB))
  /\ ai' = ai /\ acur' = CursorA
  /\ NextB

Overlap == Both /\ Ends(AtA) > CursorB /\ Ends(AtB) > CursorA
OverlapStart == Greater(CursorA, CursorB)
OverlapEnd == Lesser(Ends(AtA), Ends(AtB))

\* Two sparse chunks of one window, each from its cursor on.
From(c, cursor) ==
  Clipped(c, cursor, c.start + ChunkCap)
UnionSparse ==
  /\ Overlap /\ BothSparse
  /\ \E p \in {From(AtA, CursorA)}, q \in {From(AtB, CursorB)} :
       Write(AppendSparse(out, Piece(AtA.start, p.bits \cup q.bits, p.slots \cup q.slots)))
  /\ NextA /\ NextB

\* Whichever began first, up to where both are.  The mutant forgets b.
UpToOverlapOfA == EmitChunkBits(out, AtA, CursorA, OverlapStart)
UpToOverlap ==
  EmitChunkBits(EmitChunkBits(out, AtA, CursorA, OverlapStart),
                AtB, CursorB, OverlapStart)

\* Both runs within the overlap: they meet, or there is a gap between them, or
\* one of them has ended before it.
RunEnd(c) == Lesser(OverlapEnd, c.start + c.len)
RunFrom(c) == Greater(OverlapStart, c.start)
JoinedRuns(m, s, e, t, f) ==
  IF s < e /\ t < f
  THEN IF (IF s <= t THEN e ELSE f) >= Greater(s, t)
       THEN AppendRun(m, Lesser(s, t), Greater(e, f))
       ELSE IF s <= t THEN AppendRun(AppendRun(m, s, e), t, f)
            ELSE AppendRun(AppendRun(m, t, f), s, e)
  ELSE IF s < e THEN AppendRun(m, s, e) ELSE AppendRun(m, t, f)
UnionRuns ==
  /\ Overlap /\ BothRuns
  /\ Write(JoinedRuns(UpToOverlap, RunFrom(AtA), RunEnd(AtA), RunFrom(AtB), RunEnd(AtB)))
  /\ AdvanceA(OverlapEnd) /\ AdvanceB(OverlapEnd)

\* A sparse chunk is written whole, so it is consumed even where the other
\* side's run ends inside it.  Consumed's mutants stop at the overlap's end, and
\* go to the end of the chunk that reaches further.
ConsumedUpTo(c, d) == Lesser(Ends(c), Ends(d))
ConsumedPast(c, d) == Greater(Ends(c), Ends(d))
Consumed(c, d) == IF IsRLE(c) THEN Lesser(Ends(c), Ends(d)) ELSE Ends(c)
UnionMixed ==
  /\ Overlap /\ ~BothSparse /\ ~BothRuns
  /\ Write(AppendSparse(UpToOverlap, OrPiece(AtA, AtB)))
  /\ AdvanceA(Consumed(AtA, AtB)) /\ AdvanceB(Consumed(AtB, AtA))

UnionRestA ==
  /\ ai <= Len(a) /\ bi > Len(b)
  /\ Write(WriteRest(out, AtA, acur))
  /\ NextA /\ StayB
UnionRestB ==
  /\ ai > Len(a) /\ bi <= Len(b)
  /\ Write(WriteRest(out, AtB, bcur))
  /\ NextB /\ StayA

Union ==
  /\ op = "union"
  /\ \/ UnionPassA \/ UnionPassB \/ UnionSparse \/ UnionRuns \/ UnionMixed
     \/ UnionRestA \/ UnionRestB
  /\ UNCHANGED phase

----------------------------------------------------------------------------
(* sm_intersection                                                         *)

IntersectionPass ==
  /\ Both
  /\ \/ Ends(AtA) <= AtB.start /\ NextA /\ StayB
     \/ Ends(AtA) > AtB.start /\ Ends(AtB) <= AtA.start /\ NextB /\ StayA
  /\ UNCHANGED << out, status >>

Common(m, c, d) ==
  IF BothRuns
  THEN AppendRun(m, Greater(c.start, d.start), Lesser(c.start + c.len, d.start + d.len))
  ELSE AppendSparse(m, AndPiece(c, d))

\* Whichever ends first is done with, or both.
IntersectionMeet ==
  /\ Both /\ Ends(AtA) > AtB.start /\ Ends(AtB) > AtA.start
  /\ Write(Common(out, AtA, AtB))
  /\ IF Ends(AtA) <= Ends(AtB) THEN NextA ELSE StayA
  /\ IF Ends(AtB) <= Ends(AtA) THEN NextB ELSE StayB

Intersection ==
  /\ op = "intersection"
  /\ IntersectionPass \/ IntersectionMeet
  /\ UNCHANGED phase

----------------------------------------------------------------------------
(* sm_difference: for each chunk of a, the chunks of b that overlap it, and *)
(* then what is left of it.                                                 *)

\* b is exhausted.
DifferenceCopy ==
  /\ phase = "outer" /\ ai <= Len(a) /\ bi > Len(b)
  /\ Write(AppendChunk(out, AtA))
  /\ NextA /\ StayB /\ UNCHANGED phase

DifferenceEnter ==
  /\ phase = "outer" /\ Both
  /\ phase' = "inner"
  /\ acur' = AtA.start
  /\ UNCHANGED << ai, bi, bcur, out, status >>

\* b is past the chunk, or exhausted.
DifferenceLeave ==
  /\ phase = "inner"
  /\ Both => Ends(AtA) <= AtB.start
  /\ phase' = "tail"
  /\ UNCHANGED << ai, bi, acur, bcur, out, status >>

\* A mutant of DifferenceSkip: the walk of b does not move on.
DifferenceSkipStuck ==
  /\ phase = "inner" /\ Both /\ Ends(AtA) > AtB.start
  /\ Ends(AtB) <= acur
  /\ StayB /\ StayA
  /\ UNCHANGED << phase, out, status >>

DifferenceSkip ==
  /\ phase = "inner" /\ Both /\ Ends(AtA) > AtB.start
  /\ Ends(AtB) <= acur
  /\ NextB /\ StayA
  /\ UNCHANGED << phase, out, status >>

\* What survives of a's chunk in the overlap, after what precedes it.
RunAfter(m, c, d, lo, hi) ==
  IF d.start + d.len < hi
  THEN EmitChunkBits(m, c, Greater(d.start + d.len, lo), hi) ELSE m
Survivors(m, c, d, lo, hi) ==
  IF IsRLE(c) /\ IsRLE(d)
  THEN RunAfter(EmitChunkBits(m, c, lo, Lesser(hi, d.start)), c, d, lo, hi)
  ELSE AppendSparse(m, AndNotPiece(c, d))

DifferenceMeet ==
  /\ phase = "inner" /\ Both /\ Ends(AtA) > AtB.start
  /\ Ends(AtB) > acur
  /\ Write(Survivors(EmitChunkBits(out, AtA, acur, Greater(AtB.start, acur)),
                     AtA, AtB, Greater(AtB.start, acur), OverlapEnd))
  /\ ai' = ai /\ acur' = Consumed(AtA, AtB)
  /\ IF Ends(AtB) <= Ends(AtA) THEN NextB ELSE StayB
  /\ phase' = IF Ends(AtA) <= Ends(AtB) THEN "tail" ELSE "inner"

DifferenceTail ==
  /\ phase = "tail"
  /\ Write(EmitChunkBits(out, AtA, acur, Ends(AtA)))
  /\ NextA /\ StayB
  /\ phase' = "outer"

Difference ==
  /\ op = "difference"
  /\ \/ DifferenceCopy \/ DifferenceEnter \/ DifferenceLeave \/ DifferenceSkip
     \/ DifferenceMeet \/ DifferenceTail

----------------------------------------------------------------------------
(* The end of the call: NULL when nothing was written, or the result, which *)
(* small mode may take over.                                                *)

WalkOver ==
  CASE op = "union"        -> ai > Len(a) /\ bi > Len(b)
    [] op = "intersection" -> ai > Len(a) \/ bi > Len(b)
    [] op = "difference"   -> ai > Len(a)

Finish ==
  /\ WalkOver
  /\ IF out.chunks = << >> THEN status' = "empty" /\ out' = out
     ELSE status' = "done" /\ out' = TryDemote(out)
  /\ UNCHANGED walk

Next ==
  /\ status = "walking"
  /\ Union \/ Intersection \/ Difference \/ Finish
  /\ UNCHANGED operands

\* The call runs on its caller's thread: while it has a step to take it takes one.
Spec == Init /\ [][Next]_vars /\ WF_vars(Next)

----------------------------------------------------------------------------
Members(s) == {i \in 0 .. RLEMax : HasBit(s, i)}
MembersOf(m) == {i \in 0 .. RLEMax : Holds(m, i)}

\* The set the call is to build.
Wanted ==
  CASE op = "union"        -> Members(a) \cup Members(b)
    [] op = "intersection" -> Members(a) \cap Members(b)
    [] op = "difference"   -> Members(a) \ Members(b)

\* Where the walk is: below it the result is to be complete.
PlaceA == IF ai > Len(a) THEN RLEMax + 1 ELSE CursorA
PlaceB == IF bi > Len(b) THEN RLEMax + 1 ELSE CursorB
Frontier ==
  IF status # "walking" THEN RLEMax + 1
  ELSE CASE op = "union"        -> Lesser(PlaceA, PlaceB)
         [] op = "intersection" -> Greater(PlaceA, PlaceB)
         [] op = "difference"   -> PlaceA

\* Type invariant.
TypeOK ==
  /\ ai \in 1 .. Len(a) + 1 /\ bi \in 1 .. Len(b) + 1
  /\ ai <= Len(a) => acur <= Ends(AtA)
  /\ bi <= Len(b) => bcur <= Ends(AtB)
  /\ phase \in {"outer", "inner", "tail"}
  /\ status \in {"walking", "done", "empty", "failed"}

\* At every turn the result is a valid map: pieces come out in ascending order,
\* no two chunks share a window or reach into one another, and the words
\* written are the words counted, through every merge and growth.
ResultIsValid == ValidForm(out)

\* A chunk the walk has consumed in part, and will come back to, is a run: a
\* sparse chunk is never written in two pieces, which would be two chunks of
\* one window.
OnlyRunsArePartial ==
  /\ ai <= Len(a) /\ acur > AtA.start => IsRLE(AtA) \/ acur = Ends(AtA)
  /\ bi <= Len(b) /\ bcur > AtB.start => IsRLE(AtB)

\* What the walk leaves is a map like any other: a set of any index, inside
\* what a chunk answers for or in a gap, changes that index alone, and the map
\* stays valid.
ResultTakesSets ==
  status = "done" =>
    \A i \in 0 .. RLEMax - ChunkCap : \A r \in {AddIndex([out EXCEPT !.cap = @ + LeastResult], i)} :
      r.ok /\ ValidForm(r.map) /\ MembersOf(r.map) = MembersOf(out) \cup {i}

\* The walk is a sweep of the two operands, from the lowest index up.
Abstract == INSTANCE Sweep
              WITH wanted <- Wanted, frontier <- Frontier,
                   result <- MembersOf(out), failed <- status = "failed",
                   Top <- RLEMax + 1
ImplementsSweep == Abstract!Spec

\* The call returns.
Returns == <>(status # "walking")
=============================================================================
