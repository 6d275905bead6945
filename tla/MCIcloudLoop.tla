---------------------------- MODULE MCIcloudLoop ----------------------------
(* A run of two batches, one of two files; a change and a fault at any step. *)
EXTENDS IcloudLoop, TLC
Interchangeable == Permutations(Files)
===============================================================================
