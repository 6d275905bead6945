--------------------------- MODULE MCBackgroundRuns ---------------------------
(* Two runs over two items, a stop request and a fault at any step.        *)
EXTENDS BackgroundRuns, TLC
Interchangeable == Permutations(Items)
===============================================================================
