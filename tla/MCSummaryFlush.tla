--------------------------- MODULE MCSummaryFlush ---------------------------
(***************************************************************************)
(* SummaryFlush with one topology key and one flushed key.                 *)
(***************************************************************************)
EXTENDS SummaryFlush, TLC

CONSTANTS d1, d2

=============================================================================
