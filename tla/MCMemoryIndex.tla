---------------------------- MODULE MCMemoryIndex ----------------------------
(***************************************************************************)
(* MemoryIndex with one memory that is retired and reactivated.              *)
(***************************************************************************)
EXTENDS MemoryIndex

CONSTANTS i1, m1

Reactivation == {"retire", "reactivate"}
=============================================================================
