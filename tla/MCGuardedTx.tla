---------------------------- MODULE MCGuardedTx ----------------------------
(***************************************************************************)
(* Two sides of an Intel brief and the memory index, which share no state    *)
(* here: a behaviour is of one of them.                                     *)
(*                                                                         *)
(* GuardedTx with two root stages and one that depends on them.             *)
(*                                                                         *)
(* BriefPublication with a brief that is opened and reloaded and two        *)
(* workers; the body, which publishes no list, is left out.                 *)
(*                                                                         *)
(* Wide: MemoryIndex with two indexers and every move, over one memory.      *)
(***************************************************************************)
EXTENDS GuardedTx, BriefPublication, TLC

CONSTANTS body, claims, inferences, c1, c2, open, again, w1, w2, i1, i2, m1

VARIABLES text, life, recorded, vec, serving, change, lock, dropping, work

Wide == INSTANCE MemoryIndex WITH
  Memory <- {m1}, Text <- {1, 2}, Indexer <- {i1, i2}, Chunk <- 2,
  Moves <- {"edit", "revert", "retire", "reactivate", "delete", "index_new",
            "reindex", "fail", "stop"},
  FirstGen <- 0, MaxRows <- 2, MaxGen <- 1

\* A dependent stage beside an unrelated one: the shape in which a claim has to
\* look at the other stages.  In brief_pipeline::DEPENDENCIES a dependent stage
\* waits for all earlier ones, which excludes them already.
MCDeps == body :> {} @@ claims :> {} @@ inferences :> {body}
Symmetry ==
  Permutations({c1, c2}) \cup Permutations({w1, w2}) \cup Permutations({i1, i2})

NoBrief == Latest = 0 /\ \A o \in Opener : opener[o].at = "done"
wideVars == <<text, life, recorded, vec, serving, change, lock, dropping, work>>

MCInit == Init /\ BriefInit /\ Wide!Init
MCNext ==
  \/ NoBrief /\ Wide!Init /\ Next /\ UNCHANGED <<briefVars, wideVars>>
  \/ Init /\ Wide!Init /\ BriefNext /\ UNCHANGED <<vars, wideVars>>
  \/ NoBrief /\ Init /\ Wide!Next /\ UNCHANGED <<vars, briefVars>>
MCSpec == MCInit /\ [][MCNext]_<<vars, briefVars, wideVars>>

\* LockNamesPending of the wide instance: two indexers acknowledge the same work,
\* writers put texts back, and reindexing runs beside both (enqueue_in, ack).
WideLocks == Wide!LockNamesPending
=============================================================================
