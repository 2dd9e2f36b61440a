--------------------------- MODULE MemoryRefines ---------------------------
(***************************************************************************)
(* MemoryIndex implements Recall: seen through the mapping below, writers   *)
(* and indexers only ever take its steps.                                   *)
(***************************************************************************)
EXTENDS MemoryIndex

\* Memory m is active and a row for the very text it has is in state st.
TextRow(m, st) ==
  life[m] = "active" /\ \E s \in DOMAIN change : KeyOf(s) = <<m, text[m]>> /\ change[s].state = st

MapCurrent == [m \in Memory |-> IF life[m] = "active" THEN text[m] ELSE 0]
MapShown == [m \in Memory |-> IF Served(m) THEN vec[m].rev ELSE 0]
MapOwed == {m \in Memory : TextRow(m, "pending")}
MapFailed == {m \in Memory : TextRow(m, "failed")}

R == INSTANCE Recall WITH
  Serving <- FirstGen > 0, current <- MapCurrent, shown <- MapShown,
  owed <- MapOwed, failed <- MapFailed

\* A late put never hides a newer vector, a removal takes the vector of an active
\* memory only while the row that puts it back is to come, and a row is
\* acknowledged as completed only when recall returns its memory.
RefinesRecall == R!RSpec
=============================================================================
