----------------------------- MODULE MCTakeover -----------------------------
(***************************************************************************)
(* Two places where a late worker meets the one that took over from it.  They *)
(* share no state: a behaviour is of one side.                               *)
(*                                                                         *)
(* summaries: SummaryFlush with two drainers, one topology key and one       *)
(* flushed key.                                                              *)
(*                                                                         *)
(* config: ConfigCommit with two processes that save both of two files,      *)
(* stall, die once and meet up to two failures; both may write at the same    *)
(* time.  The first file of a batch, which a rollback restores or removes,   *)
(* may be there or not; the second one is.                                   *)
(***************************************************************************)
EXTENDS SummaryFlush, ConfigCommit, TLC

CONSTANTS d1, d2, p1, p2, settings, auth

VARIABLE side

Whole == {<<settings, auth>>}
Twins == Permutations({d1, d2}) \cup Permutations({p1, p2})

NoConfig == target[settings] = 1 /\ \A p \in Instance : proc[p] = Rest("off")

MCInit ==
  /\ Init /\ ConfigInit
  /\ target[auth] = 1
  /\ side \in {"summaries", "config"}
  /\ side = "summaries" => NoConfig
MCNext ==
  /\ \/ side = "summaries" /\ Next /\ UNCHANGED configVars
     \/ side = "config" /\ ConfigNext /\ UNCHANGED vars
  /\ UNCHANGED side
MCSpec == MCInit /\ [][MCNext]_<<vars, configVars, side>>
=============================================================================
