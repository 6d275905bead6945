---------------------------- MODULE MCSourceIntake ----------------------------
(* Two requests start and stop two runs of one file each.  Two runs that     *)
(* overlap give the later one two copies, which it takes in batches of one.  *)
EXTENDS SourceIntake
===============================================================================
