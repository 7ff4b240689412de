----------------------------- MODULE DropOldest -----------------------------
(***************************************************************************)
(* A queue that never refuses: when it is full the oldest item makes room  *)
(* for the new one.  What is taken out is what was put in, in order, with  *)
(* nothing lost while the queue is not full.                               *)
(***************************************************************************)
EXTENDS Naturals, Sequences

CONSTANTS
  Item,
  Capacity,
  MaxTake       \* how many items a reader may take at once

VARIABLE q

Init == q = << >>

Put(x) ==
  q' = IF Len(q) < Capacity THEN Append(q, x) ELSE Append(Tail(q), x)

Take ==
  \E k \in 1 .. MaxTake : k <= Len(q) /\ q' = SubSeq(q, k + 1, Len(q))

Clear == q' = << >>

Next == (\E x \in Item : Put(x)) \/ Take \/ Clear

Spec == Init /\ [][Next]_q

=============================================================================
