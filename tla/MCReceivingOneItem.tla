------------------------- MODULE MCReceivingOneItem -------------------------
(* One item of three units, received by chunks of one to three units: the    *)
(* offset can lag behind the file by every possible amount.  Two operations: *)
(* one replacement of a lost one.  Two requests in flight.                   *)
EXTENDS DurableReceivingInvariant, TLC

CONSTANTS i1

SizeOne == [i \in {i1} |-> 3]

Interchangeable == Permutations(Handlers) \cup Permutations(Ops) \cup Permutations(Byte)
=============================================================================
