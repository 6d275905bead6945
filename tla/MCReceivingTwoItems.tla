------------------------- MODULE MCReceivingTwoItems ------------------------
(* Two items of one unit each: the run's counters, its failure by one item   *)
(* while the other is in flight, and cleanup beside a late finalization.     *)
EXTENDS DurableReceivingInvariant, TLC

CONSTANTS i1, i2

SizeTwo == [i \in {i1, i2} |-> 1]

Interchangeable ==
  Permutations(Handlers) \cup Permutations(Ops) \cup Permutations(Items)
=============================================================================
