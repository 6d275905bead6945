-------------------------- MODULE MCDuplicateLineage --------------------------
(* Two similar assets, of which a is the better, and two sessions.           *)
EXTENDS DuplicateLineage, TLC
CONSTANTS a, b
QualityByName   == (a :> 3) @@ (b :> 2)
\* The properties say nothing of what follows a clash.
NoClash         == ~clashed
SessionSymmetry == Permutations(Sessions)
===============================================================================
