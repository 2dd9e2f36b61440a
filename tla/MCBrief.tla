------------------------------ MODULE MCBrief ------------------------------
(***************************************************************************)
(* The brief of one article: it is opened and reloaded, two workers run its *)
(* stages.                                                                  *)
(***************************************************************************)
EXTENDS BriefPublication

CONSTANTS open, again, w1, w2
=============================================================================
