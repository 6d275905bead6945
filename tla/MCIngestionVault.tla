--------------------------- MODULE MCIngestionVault ---------------------------
(* Four files: two of one content, one of another, and one that is rejected. *)
EXTENDS IngestionVault, TLC
CONSTANTS f1, f2, f3, f4, c1, c2
TwoContents == (f1 :> c1) @@ (f2 :> c1) @@ (f3 :> c2) @@ (f4 :> c2)
Twins == Permutations({f1, f2})
===============================================================================
