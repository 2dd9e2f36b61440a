------------------------------ MODULE MCConfig ------------------------------
(***************************************************************************)
(* ConfigCommit in the instances that show one disagreement each.  Torn: one *)
(* process that saves both of two files, dies once and starts again.  Race:  *)
(* two processes that save one file and neither die, stall nor fail.         *)
(***************************************************************************)
EXTENDS ConfigCommit

CONSTANTS settings, auth

Whole == {<<settings, auth>>}
One == {<<settings>>}
=============================================================================
