------------------------ MODULE MCWindowsSourceWorkflow ------------------------
(* Two requests over a Source of up to three files, in children of two.      *)
EXTENDS WindowsSourceWorkflow
===============================================================================
