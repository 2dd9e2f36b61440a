----------------------------- MODULE MCJobTree -----------------------------
(***************************************************************************)
(* JobStore on a three-level tree whose leaf has two stages, one after the *)
(* other, for stop_job, retention, history clearing, creation under a stop *)
(* and the end of every task.  One process with one executor, which may    *)
(* die; what reaps and cleans up then is any other process.                *)
(***************************************************************************)
EXTENDS JobStoreRefines, TLC

CONSTANTS root, child, leaf, t1, t2, p1, w1

MCJobOf == [t \in Task |-> leaf]
MCDeps == t1 :> {} @@ t2 :> {t1}
MCPriority == t1 :> 0 @@ t2 :> 1
MCAncestors == root :> {} @@ child :> {root} @@ leaf :> {root, child}
MCEarlier == [j \in Job |-> {}]
MCRoot == [j \in Job |-> root]
MCProcOf == [w \in Worker |-> p1]
=============================================================================
