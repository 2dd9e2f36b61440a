---------------------------- MODULE MCBriefChain ----------------------------
(***************************************************************************)
(* JobStore on one Intel brief chain: the four stages of                   *)
(* brief_pipeline::STAGES with their real dependencies, run by two slots   *)
(* of one process (drain_parallel) that may die; a second process beats    *)
(* and recovers orphans.  A later generation may supersede the chain at    *)
(* any point; of that one only the job is here, not its stages.            *)
(***************************************************************************)
EXTENDS JobStoreRefines, TLC

CONSTANTS chain, newer, body, claims, inferences, links, p1, p2, w1, w2

MCJobOf == [t \in Task |-> chain]
\* brief_pipeline::DEPENDENCIES
MCDeps == body :> {} @@ claims :> {} @@ inferences :> {body, claims}
          @@ links :> {inferences}
StageIndex == body :> 0 @@ claims :> 1 @@ inferences :> 2 @@ links :> 3
MCPriority == [t \in Task |-> StageIndex[t]]
MCAncestors == [j \in Job |-> {}]
MCEarlier == chain :> {} @@ newer :> {chain}
MCEarlierNone == [j \in Job |-> {}]
MCRoot == [j \in Job |-> j]
MCProcOf == [w \in Worker |-> p1]
\* Bound: nobody stops or purges the newer generation, and it ages by one tick.
NewerBound == newer \notin stopping \cup retired /\ ~ cancel_requested[newer] /\ job_age[newer] <= 1
Slots == Permutations({w1, w2})
=============================================================================
