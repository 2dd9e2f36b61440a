-------------------------- MODULE JobStoreRefines --------------------------
(***************************************************************************)
(* JobStore implements the abstract fenced lease of TaskLease: its tasks'  *)
(* rows, epochs and outputs and its executors' claims, seen through the    *)
(* mapping below, only ever take TaskLease's steps.                        *)
(***************************************************************************)
EXTENDS JobStore

\* The lease life cycle behind a task.state column.
RowOf == [absent |-> "absent", queued |-> "open", running |-> "leased",
          completed |-> "done", failed |-> "closed", cancelled |-> "closed"]

MapRow == [t \in Task |-> RowOf[state[t]]]
MapTree == [t \in Task |-> Root[JobOf[t]]]
MapClaim == [w \in Worker |->
  IF phase[w] = "idle" THEN {} ELSE {<<held[w], held_epoch[w]>>}]

L == INSTANCE TaskLease WITH
  Tree <- Job, TreeOf <- MapTree, row <- MapRow, epoch <- lease_epoch,
  output <- stage_output, claim <- MapClaim

\* Whatever the reaper, recover_orphans, stop_job, retries of lost replies,
\* crashes and retention do, each transaction of storage/jobs.rs is one step of
\* the abstract lease: a task is published once, by the claim that holds it.
RefinesLease == L!LSpec
=============================================================================
