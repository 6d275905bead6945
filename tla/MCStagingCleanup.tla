-------------------------- MODULE MCStagingCleanup --------------------------
(* Two files and two contents, one change and one fault at any step.       *)
EXTENDS StagingCleanup, TLC
Interchangeable == Permutations(Files) \cup Permutations(Contents) \cup Permutations(Callers)
===============================================================================
