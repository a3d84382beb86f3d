------------------------------ MODULE Operands ------------------------------
(***************************************************************************)
(* The maps clients pass to the operations that build a new map, and how   *)
(* those operations see a small one.                                       *)
(***************************************************************************)
EXTENDS Emitter

CONSTANTS
  Histories,   \* how operands come about: indices added, then indices removed
  Room         \* the words of the buffer they are built in

ASSUME HistoriesAssumption ==
  /\ Histories \subseteq (SUBSET (0 .. RLEMax)) \X (SUBSET (0 .. RLEMax))
  /\ Room \in Nat \ {0}

\* sm_add in ascending order, then sm_remove.
Each(Op(_, _), m, S) ==
  FoldLeft(LAMBDA r, k : IF k - 1 \in S THEN Op(r, k - 1).map ELSE r,
           m, [k \in 1 .. RLEMax + 1 |-> k])
Built(h) == Each(RemoveIndex, Each(AddIndex, EmptyMap(Room), h[1]), h[2])

MembersBelow(m, n) == {i \in 0 .. n - 1 : Holds(m, i)}

\* __sm_chunk_view: a small operand is copied into a chunk map, index by index,
\* that grows as it needs.
Copied(m) == Each(AddIndex, EmptyMap(Room), SmallBits(m.words))
Materialized(m) == IF IsSmall(m) /\ m.words # << >> THEN Promote(m).map ELSE m
View(m) == IF IsSmall(m) THEN Materialized(Copied(m)) ELSE m
Views == {View(Built(h)) : h \in Histories}
=============================================================================
