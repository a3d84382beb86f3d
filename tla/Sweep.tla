------------------------------- MODULE Sweep -------------------------------
(***************************************************************************)
(* What an operation that combines two sets by walking them promises: the  *)
(* result grows from the lowest index up, holds at every moment exactly    *)
(* the wanted indices below the frontier, and is never revised.            *)
(***************************************************************************)
EXTENDS Integers

CONSTANT Top   \* past every index

VARIABLES
  wanted,     \* the set to build
  frontier,   \* the indices below it have been dealt with
  result,
  failed      \* memory ran out, and the result is gone

svars == << wanted, frontier, result, failed >>

Between(lo, hi) == {i \in wanted : lo <= i /\ i < hi}

Init ==
  /\ frontier \in 0 .. Top
  /\ Between(0, frontier) = {}
  /\ result = {}
  /\ failed = FALSE

Advance ==
  /\ frontier' \in frontier .. Top
  /\ result' = result \cup Between(frontier, frontier')
  /\ UNCHANGED << wanted, failed >>

Fail ==
  /\ failed' = TRUE
  /\ result' = {}
  /\ UNCHANGED wanted

Next == ~failed /\ (Advance \/ Fail)

Spec == Init /\ [][Next]_svars
=============================================================================
