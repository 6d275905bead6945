-------------------------- MODULE MCAcquisitionBridge --------------------------
(* Run 1 has the ready file a; run 2 has c, which is a seen again, and the  *)
(* new file d.  Or run 2 has c alone, and one session holds the row of      *)
(* run 1.                                                                   *)
EXTENDS AcquisitionBridge, TLC

CONSTANTS a, c, d, q1, q2

Twice == (a :> a) @@ (c :> a) @@ (d :> d)

NewAndSeen(held) ==
  [runOf |-> (a :> 1) @@ (c :> 2) @@ (d :> 2), lineage |-> Twice, holding |-> held]

SeenAlone(held) ==
  [runOf |-> (a :> 1) @@ (c :> 2) @@ (d :> None), lineage |-> Twice, holding |-> held]

Each     == {NewAndSeen({})} \cup {SeenAlone({<<q, 1>>}) : q \in Requests}
NotHeld  == {NewAndSeen({})}
HeldOnly == {NewAndSeen({<<q1, 1>>})}

Interchangeable == Permutations(Requests)
===============================================================================
