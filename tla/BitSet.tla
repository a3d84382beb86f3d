------------------------------- MODULE BitSet -------------------------------
(***************************************************************************)
(* What src/sm.h promises the client of a sparsemap: a set of indices.  A  *)
(* call for one index is applied in full or, for want of buffer space,     *)
(* refused with the set unchanged; a call for a range is applied up to the *)
(* first index that is refused.  `last' is the last call, the indices it   *)
(* is about and what it answered.  A change of buffer is no step at all.   *)
(***************************************************************************)
EXTENDS Integers, FiniteSets

CONSTANTS Indices, Points, Spans

VARIABLES set, last

vars == << set, last >>

Answer(op, about, result) == [op |-> op, about |-> about, result |-> result]

Init == set = {} /\ last = Answer("create", {}, 0)

Add(i) == /\ last' = Answer("add", {i}, i)
          /\ set' = set \cup {i}

Remove(i) == /\ last' = Answer("remove", {i}, i)
             /\ set' = set \ {i}

\* ENOSPC, or no memory to grow into: SM_IDX_MAX, here -1, is returned.
Refuse(op, about) == /\ last' = Answer(op, about, 0 - 1)
                     /\ UNCHANGED set

\* The range up to stop is done.  The answer tells whether that is all of it.
Upto(op, lo, hi, stop) ==
  last' = Answer(op, lo .. hi - 1, IF stop = hi THEN 0 ELSE 0 - 1)
RemoveRange(lo, hi, stop) == /\ Upto("remove_range", lo, hi, stop)
                             /\ set' = set \ (lo .. stop - 1)
FlipRange(lo, hi, stop) ==
  /\ Upto("flip_range", lo, hi, stop)
  /\ set' = (set \ (lo .. stop - 1)) \cup ((lo .. stop - 1) \ set)

\* The least or the greatest member goes and is the answer.
Pop(op, i) == /\ last' = Answer(op, {i}, i)
              /\ set' = set \ {i}
IsLeast(i) == i \in set /\ \A k \in set : i <= k
IsGreatest(i) == i \in set /\ \A k \in set : k <= i

Clear == /\ last' = Answer("clear", {}, 0)
         /\ set' = {}

CountMembers == /\ last' = Answer("cardinality", {}, Cardinality(set))
                /\ UNCHANGED set

Next ==
  \/ \E i \in Points : Add(i) \/ Remove(i) \/ Refuse("add", {i}) \/ Refuse("remove", {i})
  \/ \E span \in Spans, stop \in Indices \cup {span[2] : span \in Spans} :
       /\ span[1] <= stop /\ stop <= span[2]
       /\ \/ RemoveRange(span[1], span[2], stop)
          \/ FlipRange(span[1], span[2], stop)
  \/ \E i \in Indices :
       \/ (Pop("pop_first", i) \/ Refuse("pop_first", {i})) /\ IsLeast(i)
       \/ (Pop("pop_last", i) \/ Refuse("pop_last", {i})) /\ IsGreatest(i)
  \/ Refuse("pop_first", {}) /\ set = {}
  \/ Clear
  \/ CountMembers

Spec == Init /\ [][Next]_vars
=============================================================================
