--------------------------- MODULE JobStoreProofs ---------------------------
(***************************************************************************)
(* Proofs about JobStore for every tree of jobs and tasks, every set of    *)
(* processes and executors and every choice of the time constants.         *)
(***************************************************************************)
EXTENDS JobStoreRefines, TLAPS

USE SentinelAssumption, ShapeAssumption, BoundAssumption

\* Next, one disjunct per operation.
LEMMA NextCases ==
  ASSUME Next, NEW G,
         Tick => G, ReapExpired => G, Cleanup => G,
         \A s \in JobState : ClearJobs(s) => G,
         \A w \in Worker : \A t \in Task : ClaimNext(w, t) => G,
         \A w \in Worker : \A t \in Task : ClaimTask(w, t) => G,
         \A w \in Worker : Renew(w) => G,
         \A w \in Worker : GiveUp(w) => G,
         \A w \in Worker : \A replied \in BOOLEAN : CommitStage(w, replied) => G,
         \A w \in Worker : CommitWithoutWrite(w) => G,
         \A w \in Worker : Fail(w) => G,
         \A w \in Worker : SettleBlocked(w) => G,
         \A p \in Proc : Beat(p) => G,
         \A p \in Proc : RecoverOrphans(p) => G,
         \A p \in Proc : Crash(p) => G,
         \A j \in Job : CreateJob(j) => G,
         \A j \in Job : EnsureChain(j) => G,
         \A j \in Job : SettleFinished(j) => G,
         \A j \in Job : StopRequest(j) => G,
         \A j \in Job : StopLast(j) => G,
         \A j \in Job : StopAbandoned(j) => G,
         \A j \in Job : \A S \in SUBSET Job : StopBatch(j, S) => G
  PROVE  G
BY DEF Next, WorkerStep, ProcStep, JobStep

\* The states a settlement may leave in a job row.
LEMMA SettledType ==
  ASSUME TypeOK, NEW st, NEW j \in Job
  PROVE  /\ SettledState(st, j) \in JobState
         /\ SettledState(st, j) = "absent" <=> job_state[j] = "absent"
BY DEF TypeOK, SettledState, JobState

LEMMA PassesType ==
  ASSUME NEW st \in [Task -> TaskState], NEW j \in Job
  PROVE  BlockedPasses(st, j) \in [Task -> TaskState]
<1>1. ASSUME NEW s \in [Task -> TaskState]
      PROVE  BlockedPass(s, j) \in [Task -> TaskState]
  BY <1>1 DEF BlockedPass, TaskState
<1>2. QED BY <1>1 DEF BlockedPasses

LEMMA CloseType ==
  ASSUME attempt \subseteq Attempt, NEW S
  PROVE  CloseAttempts(S) \subseteq Attempt
<1>1. ASSUME NEW a \in Attempt PROVE [a EXCEPT !.status = "closed"] \in Attempt
  BY <1>1 DEF Attempt
<1>2. QED BY <1>1 DEF CloseAttempts

LEMMA RequeueType ==
  ASSUME TypeOK, NEW S \in SUBSET Task, RequeueRunning(S),
         UNCHANGED <<outVars, jobVars, procVars, workVars, stopping>>
  PROVE  TypeOK'
BY CloseType DEF TypeOK, RequeueRunning, outVars, jobVars, procVars, workVars, TaskState

LEMMA ClaimType ==
  ASSUME TypeOK, NEW w \in Worker, NEW t \in Task, ClaimRow(w, t)
  PROVE  TypeOK'
BY DEF TypeOK, ClaimRow, AttemptNumber, TaskState, Attempt, outVars, jobVars, procVars

LEMMA PurgeType ==
  ASSUME TypeOK, NEW S \in SUBSET Job, PurgeTrees(S)
  PROVE  TypeOK'
BY DEF TypeOK, PurgeTrees, TaskState, JobState, RootOf, procVars, workVars

LEMMA CancelType ==
  ASSUME TypeOK, NEW S \in SUBSET Job, CancelJobs(S), stopping' \in SUBSET Job,
         UNCHANGED <<outVars, job_age, retired, procVars, workVars>>
  PROVE  TypeOK'
<1>1. ASSUME NEW a \in Attempt PROVE [a EXCEPT !.status = "closed"] \in Attempt
  BY <1>1 DEF Attempt
<1>2. attempt' \subseteq Attempt BY <1>1 DEF TypeOK, CancelJobs
<1>3. state' \in [Task -> TaskState] BY DEF TypeOK, CancelJobs, TaskState
<1>4. job_state' \in [Job -> JobState] BY DEF TypeOK, CancelJobs, JobState
<1>5. lease_epoch' \in [Task -> Nat] BY DEF TypeOK, CancelJobs
<1>6. lease_left' \in [Task -> 0..LeaseSecs] BY DEF TypeOK, CancelJobs
<1>7. lease_owner' \in [Task -> Proc \cup {NoOwner}] BY DEF TypeOK, CancelJobs
<1>8. cancel_requested' \in [Job -> BOOLEAN] BY DEF TypeOK, CancelJobs
<1>9. stopped' \in [Job -> BOOLEAN] BY DEF TypeOK, CancelJobs
<1>10. UNCHANGED <<attempts, recoveries>> BY DEF CancelJobs
<1>11. QED
  BY <1>2, <1>3, <1>4, <1>5, <1>6, <1>7, <1>8, <1>9, <1>10
  DEF TypeOK, outVars, procVars, workVars

LEMMA PurgeSpares ==
  ASSUME NEW S, PurgeTrees(S)
  PROVE  UNCHANGED workVars
BY DEF PurgeTrees

LEMMA DropType ==
  ASSUME TypeOK, NEW w \in Worker, Drop(w)
  PROVE  /\ held' \in [Worker -> Task \cup {NoTask}]
         /\ held_epoch' \in [Worker -> Nat]
         /\ phase' \in [Worker -> {"idle", "working", "settling"}]
BY DEF TypeOK, Drop

\* What an executor keeps in memory: a task while it works or settles, nothing
\* while it is idle.  TypeOK alone is not inductive: the operations of an
\* executor write the row of held[w].
HeldShape ==
  \A w \in Worker : IF phase[w] = "idle" THEN held[w] = NoTask
                    ELSE held[w] \in Task /\ held_epoch[w] > 0

TypeInv == TypeOK /\ HeldShape

\* The operations that leave the executors alone.
LEMMA SameHolders ==
  ASSUME HeldShape, UNCHANGED workVars
  PROVE  HeldShape'
BY DEF HeldShape, workVars

LEMMA DropShape ==
  ASSUME TypeInv, NEW w \in Worker, Drop(w)
  PROVE  HeldShape'
BY DEF TypeInv, TypeOK, HeldShape, Drop

LEMMA ClaimShape ==
  ASSUME TypeInv, NEW w \in Worker, NEW t \in Task, ClaimRow(w, t)
  PROVE  HeldShape'
BY DEF TypeInv, TypeOK, HeldShape, ClaimRow

LEMMA CommitType ==
  ASSUME TypeInv, NEW w \in Worker, NEW replied \in BOOLEAN, CommitStage(w, replied)
  PROVE  TypeInv'
<1> USE DEF TypeInv
<1> DEFINE t == held[w]
           st == [state EXCEPT ![t] = "completed"]
<1>1. t \in Task /\ JobOf[t] \in Job /\ held_epoch[w] \in Nat
  BY DEF CommitStage, HeldShape, TypeOK
<1>2. state' \in [Task -> TaskState]
  BY <1>1 DEF CommitStage, TypeOK, TaskState
<1>3. /\ lease_owner' \in [Task -> Proc \cup {NoOwner}]
      /\ lease_left' \in [Task -> 0..LeaseSecs]
      /\ stage_output' \in [Task -> Nat]
      /\ receipts' \subseteq Task \X Nat
  BY <1>1 DEF CommitStage, TypeOK
<1>4. job_state' \in [Job -> JobState]
  BY <1>1, SettledType DEF CommitStage, TypeOK
<1>5. attempt' \subseteq Attempt
  BY CloseType DEF CommitStage, TypeOK
<1>6. /\ held' \in [Worker -> Task \cup {NoTask}]
      /\ held_epoch' \in [Worker -> Nat]
      /\ phase' \in [Worker -> {"idle", "working", "settling"}]
      /\ HeldShape'
  BY DropType, DropShape, SameHolders DEF CommitStage, TypeOK, workVars
<1>7. QED
  BY <1>2, <1>3, <1>4, <1>5, <1>6 DEF CommitStage, TypeOK, procVars

LEMMA FailType ==
  ASSUME TypeInv, NEW w \in Worker, Fail(w)
  PROVE  TypeInv'
<1> USE DEF TypeInv
<1>1. held[w] \in Task
  BY DEF Fail, HeldShape, TypeOK
<1>2. state' \in [Task -> TaskState]
  BY <1>1 DEF Fail, TypeOK, TaskState
<1>3. /\ lease_owner' \in [Task -> Proc \cup {NoOwner}]
      /\ lease_left' \in [Task -> 0..LeaseSecs]
  BY <1>1 DEF Fail, TypeOK
<1>4. attempt' \subseteq Attempt
  BY CloseType DEF Fail, TypeOK
<1>5. phase' \in [Worker -> {"idle", "working", "settling"}] /\ HeldShape'
  BY DEF Fail, TypeOK, HeldShape
<1>6. QED
  BY <1>2, <1>3, <1>4, <1>5 DEF Fail, TypeOK, procVars, jobVars, outVars

LEMMA SettleBlockedType ==
  ASSUME TypeInv, NEW w \in Worker, SettleBlocked(w)
  PROVE  TypeInv'
<1> USE DEF TypeInv
<1>1. held[w] \in Task /\ JobOf[held[w]] \in Job
  BY DEF SettleBlocked, HeldShape, TypeOK
<1>2. state' \in [Task -> TaskState]
  BY <1>1, PassesType DEF SettleBlocked, TypeOK
<1>3. job_state' \in [Job -> JobState]
  BY <1>1, SettledType DEF SettleBlocked, TypeOK
<1>4. HeldShape'
  BY DropShape DEF SettleBlocked
<1>5. QED
  BY <1>2, <1>3, <1>4, DropType DEF SettleBlocked, TypeOK, procVars, outVars

LEMMA RenewType ==
  ASSUME TypeInv, NEW w \in Worker, Renew(w)
  PROVE  TypeInv'
<1>1. held[w] \in Task
  BY DEF Renew, TypeInv, HeldShape, TypeOK
<1>2. lease_left' \in [Task -> 0..LeaseSecs]
  BY <1>1 DEF Renew, TypeInv, TypeOK
<1>3. QED
  BY <1>2, SameHolders DEF Renew, TypeInv, TypeOK, procVars, jobVars, outVars, workVars

LEMMA ChainType ==
  ASSUME TypeInv, NEW j \in Job, EnsureChain(j)
  PROVE  TypeInv'
<1>1. /\ state' \in [Task -> TaskState]
      /\ lease_epoch' \in [Task -> Nat]
  BY DEF EnsureChain, TypeInv, TypeOK, TaskState
<1>2. /\ lease_owner' \in [Task -> Proc \cup {NoOwner}]
      /\ lease_left' \in [Task -> 0..LeaseSecs]
  BY DEF EnsureChain, TypeInv, TypeOK
<1>3. job_state' \in [Job -> JobState] /\ cancel_requested' \in [Job -> BOOLEAN]
  BY DEF EnsureChain, TypeInv, TypeOK, JobState
<1>4. UNCHANGED <<attempts, recoveries, attempt, outVars, stopped, job_age, retired,
                  procVars, workVars, stopping>>
  BY DEF EnsureChain
<1>5. QED
  BY <1>1, <1>2, <1>3, <1>4, SameHolders DEF TypeInv, TypeOK, outVars, procVars, workVars

LEMMA TypeStep ==
  ASSUME TypeInv, [Next]_vars
  PROVE  TypeInv'
<1> USE DEF taskVars, outVars, jobVars, procVars, workVars, TypeInv
<1>1. CASE UNCHANGED vars
  BY <1>1, SameHolders DEF TypeOK, vars
<1>2. CASE Next
  <2>1. Tick => TypeInv'
    BY SameHolders DEF Tick, TypeOK
  <2>2. ReapExpired => TypeInv'
    BY RequeueType, SameHolders DEF ReapExpired
  <2>3. Cleanup => TypeInv'
    BY PurgeType, PurgeSpares, SameHolders DEF Cleanup, Roots
  <2>4. \A s \in JobState : ClearJobs(s) => TypeInv'
    BY PurgeType, PurgeSpares, SameHolders DEF ClearJobs, Roots
  <2>5. \A w \in Worker : \A t \in Task : ClaimNext(w, t) => TypeInv'
    BY ClaimType, ClaimShape DEF ClaimNext
  <2>6. \A w \in Worker : \A t \in Task : ClaimTask(w, t) => TypeInv'
    BY ClaimType, ClaimShape DEF ClaimTask
  <2>7. \A w \in Worker : Renew(w) => TypeInv'
    BY RenewType
  <2>8. \A w \in Worker : GiveUp(w) => TypeInv'
    BY DropType, DropShape DEF GiveUp, TypeOK
  <2>9. \A w \in Worker : \A replied \in BOOLEAN : CommitStage(w, replied) => TypeInv'
    BY CommitType
  <2>10. \A w \in Worker : CommitWithoutWrite(w) => TypeInv'
    BY DropType, DropShape DEF CommitWithoutWrite, TypeOK
  <2>11. \A w \in Worker : Fail(w) => TypeInv'
    BY FailType
  <2>12. \A w \in Worker : SettleBlocked(w) => TypeInv'
    BY SettleBlockedType
  <2>13. \A p \in Proc : Beat(p) => TypeInv'
    BY SameHolders DEF Beat, TypeOK
  <2>14. \A p \in Proc : RecoverOrphans(p) => TypeInv'
    BY RequeueType, SameHolders DEF RecoverOrphans
  <2>15. \A p \in Proc : Crash(p) => TypeInv'
    BY DEF Crash, TypeOK, HeldShape
  <2>16. \A j \in Job : CreateJob(j) => TypeInv'
    BY SameHolders DEF CreateJob, TypeOK, TaskState, JobState
  <2>17. \A j \in Job : SettleFinished(j) => TypeInv'
    BY SettledType, SameHolders DEF SettleFinished, TypeOK
  <2>18. \A j \in Job : StopRequest(j) => TypeInv'
    BY SameHolders DEF StopRequest, TypeOK
  <2>19. \A j \in Job : StopLast(j) => TypeInv'
    <3> SUFFICES ASSUME NEW j \in Job, StopLast(j) PROVE TypeInv'
      OBVIOUS
    <3>1. stopping' \in SUBSET Job BY DEF StopLast, TypeOK
    <3>2. {j} \in SUBSET Job OBVIOUS
    <3>3. QED BY <3>1, <3>2, CancelType, SameHolders DEF StopLast
  <2>20. \A j \in Job : StopAbandoned(j) => TypeInv'
    BY SameHolders DEF StopAbandoned, TypeOK
  <2>21. \A j \in Job : \A S \in SUBSET Job : StopBatch(j, S) => TypeInv'
    <3> SUFFICES ASSUME NEW j \in Job, NEW S \in SUBSET Job, StopBatch(j, S)
                 PROVE  TypeInv'
      OBVIOUS
    <3>1. stopping' \in SUBSET Job BY DEF StopBatch, TypeOK
    <3>2. QED BY <3>1, CancelType, SameHolders DEF StopBatch
  <2>22. \A j \in Job : EnsureChain(j) => TypeInv'
    BY ChainType
  <2>23. QED
    BY <1>2, <2>1, <2>2, <2>3, <2>4, <2>5, <2>6, <2>7, <2>8, <2>9, <2>10, <2>11, <2>12,
       <2>13, <2>14, <2>15, <2>16, <2>17, <2>18, <2>19, <2>20, <2>21, <2>22, NextCases
<1>3. QED BY <1>1, <1>2

LEMMA TypeInvariant == Spec => []TypeInv
<1>1. Init => TypeInv
  BY DEF Init, TypeInv, TypeOK, HeldShape, TaskState, JobState
<1>2. TypeInv /\ [Next]_vars => TypeInv'
  BY TypeStep
<1>3. QED BY <1>1, <1>2, PTL DEF Spec

\* Every field of every table keeps its type through every operation of
\* storage/jobs.rs and storage/processes.rs.
THEOREM TypeCorrect == Spec => []TypeOK
<1>1. TypeInv => TypeOK
  BY DEF TypeInv
<1>2. QED BY <1>1, TypeInvariant, PTL
-----------------------------------------------------------------------------
\* A row never outlives its job.
JobInv == \A t \in Task : job_state[JobOf[t]] = "absent" => state[t] = "absent"

\* Steps that bring no job and no row back to life.
LEMMA JobInvSame ==
  ASSUME JobInv,
         \A j \in Job : job_state'[j] = "absent" <=> job_state[j] = "absent",
         \A t \in Task : state[t] = "absent" => state'[t] = "absent"
  PROVE  JobInv'
BY DEF JobInv

\* settle_blocked_job cancels queued rows of its job and touches no other.
LEMMA PassesEffect ==
  ASSUME NEW st \in [Task -> TaskState], NEW j \in Job, NEW t \in Task
  PROVE  \/ BlockedPasses(st, j)[t] = st[t]
         \/ st[t] = "queued" /\ BlockedPasses(st, j)[t] = "cancelled"
<1>1. ASSUME NEW s \in [Task -> TaskState]
      PROVE  /\ BlockedPass(s, j) \in [Task -> TaskState]
             /\ \/ BlockedPass(s, j)[t] = s[t]
                \/ s[t] = "queued" /\ BlockedPass(s, j)[t] = "cancelled"
  BY <1>1 DEF BlockedPass, TaskState
<1>2. QED BY <1>1 DEF BlockedPasses

LEMMA SettleBlockedEffect ==
  ASSUME TypeInv, NEW w \in Worker, SettleBlocked(w), NEW t \in Task
  PROVE  state'[t] = state[t] \/ (state[t] = "queued" /\ state'[t] = "cancelled")
<1>1. JobOf[held[w]] \in Job
  BY DEF SettleBlocked, TypeInv, HeldShape, TypeOK
<1>2. state' = BlockedPasses(state, JobOf[held[w]])
  BY DEF SettleBlocked
<1>3. state \in [Task -> TaskState]
  BY DEF TypeInv, TypeOK
<1>4. QED BY <1>1, <1>2, <1>3, PassesEffect

LEMMA PurgeJobs ==
  ASSUME TypeInv, JobInv, NEW S \in SUBSET Job, PurgeTrees(S)
  PROVE  JobInv'
BY DEF TypeInv, TypeOK, JobInv, PurgeTrees, RootOf

LEMMA CancelJobsInv ==
  ASSUME TypeInv, JobInv, NEW S \in SUBSET Job, CancelJobs(S)
  PROVE  JobInv'
<1>1. \A j \in Job : job_state'[j] = "absent" <=> job_state[j] = "absent"
  BY DEF CancelJobs, TypeInv, TypeOK, JobState
<1>2. \A t \in Task : state[t] = "absent" => state'[t] = "absent"
  BY DEF CancelJobs, TypeInv, TypeOK, TaskState
<1>3. QED BY <1>1, <1>2, JobInvSame

LEMMA RequeueJobs ==
  ASSUME TypeInv, JobInv, NEW S \in SUBSET Task, RequeueRunning(S),
         \A t \in S : state[t] = "running", UNCHANGED jobVars
  PROVE  JobInv'
BY JobInvSame DEF RequeueRunning, jobVars

LEMMA JobStepInv ==
  ASSUME TypeInv, JobInv, [Next]_vars
  PROVE  JobInv'
<1> USE DEF taskVars, jobVars
<1>1. CASE UNCHANGED vars
  BY <1>1, JobInvSame DEF vars
<1>2. CASE Next
  <2>1. Tick => JobInv'
    BY JobInvSame DEF Tick
  <2>2. ReapExpired => JobInv'
    BY RequeueJobs DEF ReapExpired
  <2>3. Cleanup => JobInv'
    BY PurgeJobs DEF Cleanup, Roots
  <2>4. \A s \in JobState : ClearJobs(s) => JobInv'
    BY PurgeJobs DEF ClearJobs, Roots
  <2>5. ASSUME NEW w \in Worker, NEW t \in Task, ClaimRow(w, t), state[t] = "queued"
        PROVE  JobInv'
    BY <2>5, JobInvSame DEF ClaimRow, TypeInv, TypeOK
  <2>6. \A w \in Worker : \A t \in Task : ClaimNext(w, t) => JobInv'
    BY <2>5 DEF ClaimNext, Claimable
  <2>7. \A w \in Worker : \A t \in Task : ClaimTask(w, t) => JobInv'
    BY <2>5 DEF ClaimTask, Claimable
  <2>8. \A w \in Worker : Renew(w) \/ GiveUp(w) \/ CommitWithoutWrite(w) => JobInv'
    BY JobInvSame DEF Renew, GiveUp, CommitWithoutWrite
  <2>9. \A w \in Worker : \A replied \in BOOLEAN : CommitStage(w, replied) => JobInv'
    <3> SUFFICES ASSUME NEW w \in Worker, NEW replied \in BOOLEAN, CommitStage(w, replied)
                 PROVE  JobInv'
      OBVIOUS
    <3>1. held[w] \in Task /\ JobOf[held[w]] \in Job
      BY DEF CommitStage, TypeInv, HeldShape, TypeOK
    <3>2. \A j \in Job : job_state'[j] = "absent" <=> job_state[j] = "absent"
      BY <3>1, SettledType DEF CommitStage, TypeInv, TypeOK
    <3>3. \A t \in Task : state[t] = "absent" => state'[t] = "absent"
      BY <3>1 DEF CommitStage, Holds, TypeInv, TypeOK
    <3>4. QED BY <3>2, <3>3, JobInvSame DEF CommitStage
  <2>10. \A w \in Worker : Fail(w) => JobInv'
    <3> SUFFICES ASSUME NEW w \in Worker, Fail(w) PROVE JobInv'
      OBVIOUS
    <3>1. held[w] \in Task
      BY DEF Fail, TypeInv, HeldShape, TypeOK
    <3>2. \A t \in Task : state[t] = "absent" => state'[t] = "absent"
      BY <3>1 DEF Fail, Holds, TypeInv, TypeOK
    <3>3. QED BY <3>2, JobInvSame DEF Fail
  <2>11. \A w \in Worker : SettleBlocked(w) => JobInv'
    <3> SUFFICES ASSUME NEW w \in Worker, SettleBlocked(w) PROVE JobInv'
      OBVIOUS
    <3>1. held[w] \in Task /\ JobOf[held[w]] \in Job
      BY DEF SettleBlocked, TypeInv, HeldShape, TypeOK
    <3>2. \A j \in Job : job_state'[j] = "absent" <=> job_state[j] = "absent"
      BY <3>1, SettledType DEF SettleBlocked, TypeInv, TypeOK
    <3>3. \A t \in Task : state[t] = "absent" => state'[t] = "absent"
      BY SettleBlockedEffect
    <3>4. QED BY <3>2, <3>3, JobInvSame DEF SettleBlocked
  <2>12. \A p \in Proc : Beat(p) \/ Crash(p) => JobInv'
    BY JobInvSame DEF Beat, Crash
  <2>13. \A p \in Proc : RecoverOrphans(p) => JobInv'
    BY RequeueJobs DEF RecoverOrphans
  <2>14. \A j \in Job : CreateJob(j) => JobInv'
    BY DEF CreateJob, TypeInv, TypeOK, JobInv
  <2>19. \A j \in Job : EnsureChain(j) => JobInv'
    BY DEF EnsureChain, TypeInv, TypeOK, JobInv
  <2>15. \A j \in Job : SettleFinished(j) => JobInv'
    BY JobInvSame, SettledType DEF SettleFinished, TypeInv, TypeOK
  <2>16. \A j \in Job : StopRequest(j) \/ StopAbandoned(j) => JobInv'
    BY JobInvSame DEF StopRequest, StopAbandoned
  <2>17. \A j \in Job : StopLast(j) => JobInv'
    <3> SUFFICES ASSUME NEW j \in Job, StopLast(j) PROVE JobInv'
      OBVIOUS
    <3>1. {j} \in SUBSET Job OBVIOUS
    <3>2. QED BY <3>1, CancelJobsInv DEF StopLast
  <2>18. \A j \in Job : \A S \in SUBSET Job : StopBatch(j, S) => JobInv'
    BY CancelJobsInv DEF StopBatch
  <2>20. QED
    BY <1>2, <2>1, <2>2, <2>3, <2>4, <2>6, <2>7, <2>8, <2>9, <2>10, <2>11, <2>12,
       <2>13, <2>14, <2>15, <2>16, <2>17, <2>18, <2>19, NextCases
<1>3. QED BY <1>1, <1>2
-----------------------------------------------------------------------------
(* The refinement: each operation is one step of TaskLease or a stutter.   *)

LEMMA RowValues ==
  /\ RowOf["absent"] = "absent" /\ RowOf["queued"] = "open"
  /\ RowOf["running"] = "leased" /\ RowOf["completed"] = "done"
  /\ RowOf["failed"] = "closed" /\ RowOf["cancelled"] = "closed"
BY DEF RowOf

\* Steps the lease does not see.
LEMMA RefineSame ==
  ASSUME UNCHANGED <<state, lease_epoch, stage_output, workVars, retired>>
  PROVE  UNCHANGED L!lvars
BY DEF L!lvars, MapRow, MapClaim, workVars

LEMMA DropClaim ==
  ASSUME TypeInv, NEW w \in Worker, Drop(w)
  PROVE  /\ MapClaim' = [MapClaim EXCEPT ![w] = {}]
         /\ MapClaim' = [v \in Worker |-> IF v \in {w} THEN {} ELSE MapClaim[v]]
BY DEF Drop, MapClaim, TypeInv, TypeOK

LEMMA RefineDrop ==
  ASSUME TypeInv, NEW w \in Worker, Drop(w),
         UNCHANGED <<state, lease_epoch, stage_output, retired>>
  PROVE  L!LNext
<1>1. L!LetGo({w}, {})
  <2>1. MapRow' = [t \in Task |-> IF t \in {} THEN "closed" ELSE MapRow[t]]
    BY DEF MapRow
  <2>2. QED BY <2>1, DropClaim DEF L!LetGo
<1>2. {w} \in SUBSET Worker /\ {} \in SUBSET L!Those({"open"})
  OBVIOUS
<1>3. QED BY <1>1, <1>2 DEF L!LNext

LEMMA RefineClaim ==
  ASSUME TypeInv, NEW w \in Worker, NEW t \in Task, ClaimRow(w, t),
         phase[w] = "idle", Claimable(t)
  PROVE  L!LNext
<1>1. MapClaim[w] = {} /\ MapRow[t] = "open" /\ MapTree[t] \notin retired
  BY RowValues DEF MapClaim, MapRow, MapTree, Claimable, Eligible, RootOf
<1>2. MapRow' = [MapRow EXCEPT ![t] = "leased"]
  BY RowValues DEF MapRow, ClaimRow, TypeInv, TypeOK
<1>3. MapClaim' = [MapClaim EXCEPT ![w] = {<<t, lease_epoch[t] + 1>>}]
  BY DEF MapClaim, ClaimRow, TypeInv, TypeOK
<1>4. L!Lease(w, t)
  BY <1>1, <1>2, <1>3 DEF L!Lease, ClaimRow, outVars, jobVars
<1>5. QED BY <1>4 DEF L!LNext

LEMMA RefineRequeue ==
  ASSUME TypeInv, NEW S \in SUBSET Task, RequeueRunning(S),
         \A t \in S : state[t] = "running",
         UNCHANGED <<outVars, jobVars, workVars>>
  PROVE  L!LNext
<1> DEFINE K == {t \in S : recoveries[t] + 1 < MaxRecoveries}
<1>1. \A t \in S : MapRow[t] \in {"open", "leased"}
  BY RowValues DEF MapRow
<1>2. MapRow' = [t \in Task |->
        IF t \in S THEN IF t \in K THEN "open" ELSE "closed" ELSE MapRow[t]]
  BY RowValues DEF MapRow, RequeueRunning, Exhausted, TypeInv, TypeOK
<1>3. MapClaim' = MapClaim
  BY DEF MapClaim, workVars
<1>4. L!Revoke(S, K)
  BY <1>1, <1>2, <1>3 DEF L!Revoke, RequeueRunning, outVars, jobVars
<1>5. S \in SUBSET L!Those({"open", "leased"}) /\ K \in SUBSET S
  BY <1>1 DEF L!Those
<1>6. QED BY <1>4, <1>5 DEF L!LNext

LEMMA RefineCancel ==
  ASSUME TypeInv, NEW S \in SUBSET Job, CancelJobs(S),
         UNCHANGED <<outVars, retired, workVars>>
  PROVE  L!LNext
<1> DEFINE H == {t \in Task : /\ JobOf[t] \in S /\ job_state[JobOf[t]] # "absent"
                              /\ state[t] \in {"queued", "running"}}
<1>1. \A t \in H : MapRow[t] \in {"open", "leased"}
  BY RowValues DEF MapRow
<1>2. MapRow' = [t \in Task |->
        IF t \in H THEN IF t \in {} THEN "open" ELSE "closed" ELSE MapRow[t]]
  BY RowValues DEF MapRow, CancelJobs, TypeInv, TypeOK
<1>3. lease_epoch' = [t \in Task |-> IF t \in H THEN lease_epoch[t] + 1 ELSE lease_epoch[t]]
  BY DEF CancelJobs, TypeInv, TypeOK
<1>4. MapClaim' = MapClaim
  BY DEF MapClaim, workVars
<1>5. L!Revoke(H, {})
  BY <1>1, <1>2, <1>3, <1>4 DEF L!Revoke, outVars
<1>6. H \in SUBSET L!Those({"open", "leased"}) /\ {} \in SUBSET H
  BY <1>1 DEF L!Those
<1>7. QED BY <1>5, <1>6 DEF L!LNext

LEMMA RefinePurge ==
  ASSUME TypeInv, NEW S \in SUBSET Job, PurgeTrees(S),
         \A r \in S : ~ TreeBusy(r, FALSE)
  PROVE  L!LNext
<1>1. \A t \in Task : MapTree[t] \in S => MapRow[t] # "leased"
  <2> SUFFICES ASSUME NEW t \in Task, MapTree[t] \in S
               PROVE  MapRow[t] # "leased"
    OBVIOUS
  <2>1. RootOf(t) \in S /\ MapRow[t] = RowOf[state[t]]
    BY DEF MapTree, MapRow, RootOf
  <2>2. state[t] # "running"
    BY <2>1 DEF TreeBusy
  <2>3. state[t] \in TaskState
    BY DEF TypeInv, TypeOK
  <2>4. QED BY <2>1, <2>2, <2>3, RowValues DEF TaskState
<1>2. MapRow' = [t \in Task |-> IF MapTree[t] \in S THEN "absent" ELSE MapRow[t]]
  BY RowValues DEF MapRow, MapTree, PurgeTrees, RootOf
<1>3. /\ lease_epoch' = [t \in Task |-> IF MapTree[t] \in S THEN 0 ELSE lease_epoch[t]]
      /\ stage_output' = [t \in Task |-> IF MapTree[t] \in S THEN 0 ELSE stage_output[t]]
  BY DEF MapTree, PurgeTrees, RootOf
<1>4. MapClaim' = MapClaim
  BY DEF MapClaim, PurgeTrees, workVars
<1>5. L!Retire(S)
  BY <1>1, <1>2, <1>3, <1>4 DEF L!Retire, PurgeTrees
<1>6. QED BY <1>5 DEF L!LNext

LEMMA RefineCreate ==
  ASSUME TypeInv, JobInv, NEW j \in Job, CreateJob(j)
  PROVE  L!LNext
<1>1. \A t \in TasksOf(j) : MapRow[t] = "absent"
  BY RowValues DEF CreateJob, Insertable, JobInv, MapRow, TasksOf
<1>2. MapRow' = [t \in Task |-> IF t \in TasksOf(j) THEN "open"
                                ELSE IF t \in {} THEN "closed" ELSE MapRow[t]]
  BY RowValues DEF MapRow, CreateJob, TasksOf
<1>3. lease_epoch' = [t \in Task |-> IF t \in {} THEN lease_epoch[t] + 1 ELSE lease_epoch[t]]
  BY DEF CreateJob, TypeInv, TypeOK
<1>4. L!Create(TasksOf(j), {})
  BY <1>2, <1>3 DEF L!Create, CreateJob, outVars, MapClaim, workVars
<1>5. TasksOf(j) \in SUBSET L!Those({"absent"}) /\ {} \in SUBSET L!Those({"open", "leased"})
  BY <1>1 DEF TasksOf, L!Those
<1>6. QED BY <1>4, <1>5 DEF L!LNext

LEMMA RefineChain ==
  ASSUME TypeInv, JobInv, NEW j \in Job, EnsureChain(j)
  PROVE  L!LNext
<1> DEFINE H == {t \in Task : /\ JobOf[t] \in Earlier[j] /\ job_state[JobOf[t]] = "running"
                              /\ state[t] \in {"queued", "running"}}
<1>1. \A t \in TasksOf(j) : MapRow[t] = "absent"
  BY RowValues DEF EnsureChain, Made, JobInv, MapRow, TasksOf
<1>2. \A t \in H : MapRow[t] \in {"open", "leased"}
  BY RowValues DEF MapRow
<1>3. MapRow' = [t \in Task |-> IF t \in TasksOf(j) THEN "open"
                                ELSE IF t \in H THEN "closed" ELSE MapRow[t]]
  <2>1. \A t \in Task : state'[t] = IF t \in TasksOf(j) THEN "queued"
                                    ELSE IF t \in H THEN "cancelled" ELSE state[t]
    BY DEF EnsureChain, TasksOf
  <2>2. QED BY <2>1, RowValues DEF MapRow
<1>4. lease_epoch' = [t \in Task |-> IF t \in H THEN lease_epoch[t] + 1 ELSE lease_epoch[t]]
  BY DEF EnsureChain
<1>5. UNCHANGED <<stage_output, MapClaim, retired>>
  BY DEF EnsureChain, outVars, MapClaim, workVars
<1>6. L!Create(TasksOf(j), H)
  BY <1>3, <1>4, <1>5 DEF L!Create
<1>7. TasksOf(j) \in SUBSET L!Those({"absent"}) /\ H \in SUBSET L!Those({"open", "leased"})
  BY <1>1, <1>2 DEF TasksOf, L!Those
<1>8. QED BY <1>6, <1>7 DEF L!LNext

LEMMA RefineCommit ==
  ASSUME TypeInv, NEW w \in Worker, NEW replied \in BOOLEAN, CommitStage(w, replied)
  PROVE  L!LNext
<1> DEFINE c == <<held[w], held_epoch[w]>>
<1>1. held[w] \in Task /\ c[1] = held[w] /\ c[2] = held_epoch[w]
  BY DEF CommitStage, TypeInv, HeldShape, TypeOK
<1>2. c \in MapClaim[w]
  BY DEF MapClaim, CommitStage
<1>3. MapRow[held[w]] = "leased" /\ lease_epoch[held[w]] = held_epoch[w]
  BY <1>1, RowValues DEF MapRow, CommitStage, Holds
<1>4. MapRow' = [MapRow EXCEPT ![held[w]] = "done"]
  BY <1>1, RowValues DEF MapRow, CommitStage, TypeInv, TypeOK
<1>5. MapClaim' = IF replied THEN [MapClaim EXCEPT ![w] = {}] ELSE MapClaim
  BY DropClaim DEF CommitStage, MapClaim, workVars
<1>6. stage_output' = [stage_output EXCEPT ![held[w]] = held_epoch[w]]
  BY DEF CommitStage
<1> HIDE DEF c
<1>7. L!End(w, c, TRUE, replied)
  BY <1>1, <1>3, <1>4, <1>5, <1>6 DEF L!End, CommitStage
<1>8. \E done, learns \in BOOLEAN : L!End(w, c, done, learns)
  BY <1>7, Zenon
<1>9. QED BY <1>2, <1>8, Zenon DEF L!LNext

LEMMA RefineFail ==
  ASSUME TypeInv, NEW w \in Worker, Fail(w)
  PROVE  L!LNext
<1> DEFINE c == <<held[w], held_epoch[w]>>
<1>1. held[w] \in Task /\ c[1] = held[w] /\ c[2] = held_epoch[w]
  BY DEF Fail, TypeInv, HeldShape, TypeOK
<1>2. c \in MapClaim[w]
  BY DEF MapClaim, Fail
<1>3. MapRow[held[w]] = "leased" /\ lease_epoch[held[w]] = held_epoch[w]
  BY <1>1, RowValues DEF MapRow, Fail, Holds
<1>4. MapRow' = [MapRow EXCEPT ![held[w]] = "closed"]
  BY <1>1, RowValues DEF MapRow, Fail, TypeInv, TypeOK
<1>5. MapClaim' = MapClaim
  BY DEF Fail, MapClaim, TypeInv, TypeOK
<1> HIDE DEF c
<1>6. L!End(w, c, FALSE, FALSE)
  BY <1>1, <1>3, <1>4, <1>5 DEF L!End, Fail, outVars, jobVars
<1>7. QED BY <1>2, <1>6 DEF L!LNext

LEMMA RefineSettle ==
  ASSUME TypeInv, NEW w \in Worker, SettleBlocked(w)
  PROVE  L!LNext
<1> DEFINE S == {t \in Task : state'[t] # state[t]}
<1>1. \A t \in S : state[t] = "queued" /\ state'[t] = "cancelled"
  BY SettleBlockedEffect
<1>2. \A t \in S : MapRow[t] = "open"
  BY <1>1, RowValues DEF MapRow
<1>3. MapRow' = [t \in Task |-> IF t \in S THEN "closed" ELSE MapRow[t]]
  BY <1>1, RowValues DEF MapRow
<1>4. L!LetGo({w}, S)
  BY <1>2, <1>3, DropClaim DEF L!LetGo, SettleBlocked, outVars
<1>5. {w} \in SUBSET Worker /\ S \in SUBSET L!Those({"open"})
  BY <1>2 DEF L!Those
<1>6. QED BY <1>4, <1>5 DEF L!LNext

LEMMA RefineCrash ==
  ASSUME TypeInv, NEW p \in Proc, Crash(p)
  PROVE  L!LNext
<1> DEFINE W == {w \in Worker : ProcOf[w] = p}
<1>1. MapClaim' = [w \in Worker |-> IF w \in W THEN {} ELSE MapClaim[w]]
  BY DEF MapClaim, Crash
<1>2. MapRow' = [t \in Task |-> IF t \in {} THEN "closed" ELSE MapRow[t]]
  BY DEF MapRow, Crash, taskVars
<1>3. L!LetGo(W, {})
  BY <1>1, <1>2 DEF L!LetGo, Crash, taskVars, outVars, jobVars
<1>4. W \in SUBSET Worker /\ {} \in SUBSET L!Those({"open"})
  OBVIOUS
<1>5. QED BY <1>3, <1>4 DEF L!LNext

LEMMA RefineStep ==
  ASSUME TypeInv, JobInv, [Next]_vars
  PROVE  [L!LNext]_(L!lvars)
<1> DEFINE G == [L!LNext]_(L!lvars)
<1> USE DEF taskVars, jobVars, outVars
<1>1. CASE UNCHANGED vars
  BY <1>1, RefineSame DEF vars
<1>2. CASE Next
  <2>1. Tick => G
    BY RefineSame DEF Tick
  <2>2. ReapExpired => G
    BY RefineRequeue DEF ReapExpired
  <2>3. Cleanup => G
    BY RefinePurge DEF Cleanup, Roots
  <2>4. \A s \in JobState : ClearJobs(s) => G
    BY RefinePurge DEF ClearJobs, Roots, TreeBusy
  <2>5. \A w \in Worker : \A t \in Task : ClaimNext(w, t) => G
    BY RefineClaim DEF ClaimNext
  <2>6. \A w \in Worker : \A t \in Task : ClaimTask(w, t) => G
    BY RefineClaim DEF ClaimTask
  <2>7. \A w \in Worker : Renew(w) => G
    BY RefineSame DEF Renew
  <2>8. \A w \in Worker : GiveUp(w) \/ CommitWithoutWrite(w) => G
    BY RefineDrop DEF GiveUp, CommitWithoutWrite
  <2>9. \A w \in Worker : \A replied \in BOOLEAN : CommitStage(w, replied) => G
    BY RefineCommit
  <2>10. \A w \in Worker : Fail(w) => G
    BY RefineFail
  <2>11. \A w \in Worker : SettleBlocked(w) => G
    BY RefineSettle
  <2>12. \A p \in Proc : Beat(p) => G
    BY RefineSame DEF Beat
  <2>13. \A p \in Proc : RecoverOrphans(p) => G
    BY RefineRequeue DEF RecoverOrphans
  <2>14. \A p \in Proc : Crash(p) => G
    BY RefineCrash
  <2>15. \A j \in Job : CreateJob(j) => G
    BY RefineCreate
  <2>16. \A j \in Job : SettleFinished(j) \/ StopRequest(j) \/ StopAbandoned(j) => G
    BY RefineSame DEF SettleFinished, StopRequest, StopAbandoned
  <2>17. \A j \in Job : StopLast(j) => G
    <3> SUFFICES ASSUME NEW j \in Job, StopLast(j) PROVE G
      OBVIOUS
    <3>1. {j} \in SUBSET Job OBVIOUS
    <3>2. QED BY <3>1, RefineCancel DEF StopLast
  <2>18. \A j \in Job : \A S \in SUBSET Job : StopBatch(j, S) => G
    BY RefineCancel DEF StopBatch
  <2>19. \A j \in Job : EnsureChain(j) => G
    BY RefineChain
  <2> HIDE DEF G
  <2>20. G
    BY <1>2, <2>1, <2>2, <2>3, <2>4, <2>5, <2>6, <2>7, <2>8, <2>9, <2>10, <2>11, <2>12,
       <2>13, <2>14, <2>15, <2>16, <2>17, <2>18, <2>19, NextCases
  <2>21. QED BY <2>20 DEF G
<1>3. QED BY <1>1, <1>2

\* The durable job system implements the abstract fenced lease, for every tree
\* of jobs and every number of processes and executors.
THEOREM ImplementsLease == Spec => RefinesLease
<1>1. Init => L!LInit
  BY RowValues DEF Init, L!LInit, MapRow, MapClaim
<1>2. Init => JobInv
  BY DEF Init, JobInv
<1>3. TypeInv /\ JobInv /\ [Next]_vars => JobInv'
  BY JobStepInv
<1>4. TypeInv /\ JobInv /\ [Next]_vars => [L!LNext]_(L!lvars)
  BY RefineStep
<1>5. QED BY <1>1, <1>2, <1>3, <1>4, TypeInvariant, PTL DEF Spec, RefinesLease, L!LSpec

LEMMA LeaseShapeHolds == L!LeaseShape
BY DEF L!LeaseShape, MapTree

\* The fence is exclusive: a claim that passes holds() is the only one that
\* does, whoever was reaped, crashed or came back late.
THEOREM FenceExclusive == Spec => []OneFenceHolder
<1>1. TypeInv /\ L!ClaimsFenced => OneFenceHolder
  <2> SUFFICES ASSUME L!ClaimsFenced, NEW v \in Worker, NEW w \in Worker, v # w,
                      phase[v] = "working", phase[w] = "working", held[v] = held[w],
                      Holds(v), Holds(w)
               PROVE  FALSE
    BY DEF OneFenceHolder
  <2>1. MapClaim[v] = {<<held[v], held_epoch[v]>>} /\ MapClaim[w] = {<<held[w], held_epoch[w]>>}
    BY DEF MapClaim
  <2>2. held_epoch[v] = held_epoch[w]
    BY DEF Holds
  <2>3. QED BY <2>1, <2>2 DEF L!ClaimsFenced
<1>2. Spec => []L!ClaimsFenced
  BY ImplementsLease, LeaseShapeHolds, L!LeaseSafe, PTL DEF RefinesLease
<1>3. QED BY <1>1, <1>2, TypeInvariant, PTL

\* The output of a completed stage is the one its own lease published, and no
\* other row has an output: commit_stage is the only writer that ever wins.
THEOREM OutputExclusive == Spec => []OutputOfLease
<1>1. TypeInv /\ L!OutputFenced => OutputOfLease
  BY RowValues DEF TypeInv, TypeOK, TaskState, L!OutputFenced, OutputOfLease, MapRow
<1>2. Spec => []L!OutputFenced
  BY ImplementsLease, LeaseShapeHolds, L!LeaseSafe, PTL DEF RefinesLease
<1>3. QED BY <1>1, <1>2, TypeInvariant, PTL

\* A purged tree whose rows are created anew stays without effect: its tasks
\* never run, complete or have an output, although their epochs started over and
\* executors may still hold claims of the former rows (purge_tree_in, eligible).
THEOREM RetiredStaysInert == Spec => []RetiredInert
<1>1. TypeInv /\ L!ClaimsFenced /\ L!OutputFenced => RetiredInert
  <2> SUFFICES ASSUME TypeInv, L!ClaimsFenced, L!OutputFenced,
                      NEW t \in Task, RootOf(t) \in retired
               PROVE  state[t] \notin {"running", "completed"} /\ stage_output[t] = 0
    BY DEF RetiredInert
  <2>1. MapTree[t] \in retired
    BY DEF MapTree, RootOf
  <2>2. MapRow[t] \notin {"leased", "done"}
    BY <2>1 DEF L!ClaimsFenced
  <2>3. state[t] \notin {"running", "completed"}
    BY <2>2, RowValues DEF MapRow
  <2>4. stage_output[t] = 0
    BY <2>2 DEF L!OutputFenced
  <2>5. QED BY <2>3, <2>4
<1>2. Spec => [](L!ClaimsFenced /\ L!OutputFenced)
  BY ImplementsLease, LeaseShapeHolds, L!LeaseSafe, PTL DEF RefinesLease
<1>3. QED BY <1>1, <1>2, TypeInvariant, PTL
-----------------------------------------------------------------------------
(* The safety properties that relate a row to others: its dependencies, its  *)
(* job, its tree and its attempt log.  A step of the store is first reduced  *)
(* to what it does to one task (RowStep); each property is then a statement  *)
(* about these few kinds of change.                                          *)

\* The open rows of a task in the attempt log.
Open(t) == {a \in attempt : a.task = t /\ a.status = "open"}

SameCounts(t) == recoveries'[t] = recoveries[t]

\* No transition of the row; if it runs, its open attempt stays.
Stays(t) ==
  /\ state'[t] = state[t] /\ SameCounts(t) /\ lease_epoch'[t] = lease_epoch[t]
  /\ Open(t)' \subseteq Open(t)
  /\ state[t] = "running" => Open(t)' = Open(t)

\* claim_in
Starts(t) ==
  /\ state[t] = "queued" /\ Eligible(t) /\ state'[t] = "running" /\ SameCounts(t)
  /\ lease_epoch'[t] = lease_epoch[t] + 1
  /\ \E a : a.epoch = lease_epoch'[t] /\ Open(t)' = Open(t) \cup {a}
  /\ UNCHANGED jobVars

\* requeue_running_in
Loses(t) ==
  /\ state[t] = "running"
  /\ state'[t] = IF Exhausted(t) THEN "failed" ELSE "queued"
  /\ recoveries'[t] = recoveries[t] + 1
  /\ lease_epoch'[t] = lease_epoch[t] + 1
  /\ Open(t)' = {a \in Open(t) : a.epoch # lease_epoch[t]}

\* commit_stage and the first transaction of fail
Ends(t) ==
  /\ state[t] = "running" /\ state'[t] \in {"completed", "failed"} /\ SameCounts(t)
  /\ lease_epoch'[t] = lease_epoch[t]
  /\ Open(t)' = {a \in Open(t) : a.epoch # lease_epoch[t]}

\* cancel_one_in
Cancels(t) ==
  /\ state[t] \in {"queued", "running"} /\ state'[t] = "cancelled" /\ SameCounts(t)
  /\ job_state'[JobOf[t]] # "absent"
  /\ job_state[JobOf[t]] = "running" => job_state'[JobOf[t]] = "cancelled"
  /\ Open(t)' = {}

\* ensure_chain, in the generation it supersedes
Supersedes(t) ==
  /\ state[t] \in {"queued", "running"} /\ state'[t] = "cancelled" /\ SameCounts(t)
  /\ job_state'[JobOf[t]] = "superseded"
  /\ lease_epoch'[t] = lease_epoch[t] + 1
  /\ Open(t)' = Open(t)

\* settle_blocked_job
Blocks(t) ==
  /\ state[t] = "queued" /\ state'[t] = "cancelled" /\ SameCounts(t)
  /\ lease_epoch'[t] = lease_epoch[t]
  /\ \E u \in TasksOf(JobOf[t]) : state[u] \in {"failed", "cancelled"}
  /\ Open(t)' = Open(t)

\* create_job, ensure_chain
Appears(t) ==
  /\ state[t] = "absent" /\ state'[t] = "queued" /\ SameCounts(t)
  /\ job_state[JobOf[t]] = "absent"
  /\ Open(t)' = Open(t)

\* purge_tree_in
Goes(t) ==
  /\ state[t] # "running" /\ state'[t] = "absent" /\ recoveries'[t] = 0
  /\ job_state'[JobOf[t]] = "absent"
  /\ Open(t)' = {}

RowChange(t) ==
  \/ Stays(t) \/ Starts(t) \/ Loses(t) \/ Ends(t)
  \/ Cancels(t) \/ Supersedes(t) \/ Blocks(t) \/ Appears(t) \/ Goes(t)

\* Closing the rows of some epochs takes exactly them from the open ones.
LEMMA CloseOpen ==
  ASSUME attempt \subseteq Attempt, NEW S, attempt' = CloseAttempts(S), NEW t
  PROVE  Open(t)' = {a \in Open(t) : <<t, a.epoch>> \notin S}
<1>1. ASSUME NEW a \in attempt
      PROVE  [a EXCEPT !.status = "closed"].status = "closed"
  BY <1>1 DEF Attempt
<1>2. Open(t)' \subseteq {a \in Open(t) : <<t, a.epoch>> \notin S}
  <2> SUFFICES ASSUME NEW b \in Open(t)' PROVE b \in Open(t) /\ <<t, b.epoch>> \notin S
    OBVIOUS
  <2>1. b \in attempt' /\ b.task = t /\ b.status = "open"
    BY DEF Open
  <2>2. PICK a \in attempt :
          b = IF <<a.task, a.epoch>> \in S THEN [a EXCEPT !.status = "closed"] ELSE a
    BY <2>1 DEF CloseAttempts
  <2>3. b = a /\ <<a.task, a.epoch>> \notin S
    BY <1>1, <2>1, <2>2
  <2>4. QED BY <2>1, <2>3 DEF Open
<1>3. {a \in Open(t) : <<t, a.epoch>> \notin S} \subseteq Open(t)'
  <2> SUFFICES ASSUME NEW a \in Open(t), <<t, a.epoch>> \notin S
               PROVE  a \in Open(t)'
    OBVIOUS
  <2>1. a \in attempt /\ a.task = t /\ a.status = "open"
    BY DEF Open
  <2>2. a = IF <<a.task, a.epoch>> \in S THEN [a EXCEPT !.status = "closed"] ELSE a
    BY <2>1
  <2>3. a \in attempt'
    BY <2>1, <2>2 DEF CloseAttempts
  <2>4. QED BY <2>1, <2>3 DEF Open
<1>4. QED BY <1>2, <1>3

LEMMA SameRow ==
  ASSUME NEW t, UNCHANGED <<state, recoveries, attempt, lease_epoch>>
  PROVE  RowChange(t)
BY DEF RowChange, Stays, SameCounts, Open

LEMMA ClaimChange ==
  ASSUME TypeInv, NEW w \in Worker, NEW u \in Task, Claimable(u), ClaimRow(w, u),
         NEW t \in Task
  PROVE  RowChange(t)
<1> DEFINE row == [task |-> u, number |-> AttemptNumber(u), epoch |-> lease_epoch[u] + 1,
                   status |-> "open"]
<1>1. attempt' = attempt \cup {row}
  BY DEF ClaimRow
<1>2. row.task = u /\ row.epoch = lease_epoch[u] + 1 /\ row.status = "open"
  OBVIOUS
<1> HIDE DEF row
<1>3. CASE t = u
  <2>1. state[t] = "queued" /\ Eligible(t) /\ state'[t] = "running"
        /\ lease_epoch'[t] = lease_epoch[t] + 1 /\ SameCounts(t) /\ UNCHANGED jobVars
    BY <1>3 DEF Claimable, ClaimRow, TypeInv, TypeOK, SameCounts
  <2>2. Open(t)' = Open(t) \cup {row}
    BY <1>1, <1>2, <1>3 DEF Open
  <2>3. QED BY <1>2, <1>3, <2>1, <2>2 DEF RowChange, Starts
<1>4. CASE t # u
  <2>1. state'[t] = state[t] /\ lease_epoch'[t] = lease_epoch[t] /\ SameCounts(t)
    BY <1>4 DEF ClaimRow, TypeInv, TypeOK, SameCounts
  <2>2. Open(t)' = Open(t)
    BY <1>1, <1>2, <1>4 DEF Open
  <2>3. QED BY <2>1, <2>2 DEF RowChange, Stays
<1>5. QED BY <1>3, <1>4

LEMMA RequeueChange ==
  ASSUME TypeInv, NEW S \in SUBSET Task, RequeueRunning(S),
         \A u \in S : state[u] = "running", NEW t \in Task
  PROVE  RowChange(t)
<1>1. Open(t)' = {a \in Open(t) : <<t, a.epoch>> \notin {<<u, lease_epoch[u]>> : u \in S}}
  <2>1. attempt \subseteq Attempt
    BY DEF TypeInv, TypeOK
  <2>2. attempt' = CloseAttempts({<<u, lease_epoch[u]>> : u \in S})
    BY DEF RequeueRunning
  <2>3. QED BY ONLY <2>1, <2>2, CloseOpen
<1>2. CASE t \in S
  <2>1. Open(t)' = {a \in Open(t) : a.epoch # lease_epoch[t]}
    BY <1>1, <1>2
  <2>2. QED BY <1>2, <2>1 DEF RowChange, Loses, RequeueRunning
<1>3. CASE t \notin S
  <2>1. Open(t)' = Open(t)
    BY <1>1, <1>3
  <2>2. QED BY <1>3, <2>1 DEF RowChange, Stays, SameCounts, RequeueRunning
<1>4. QED BY <1>2, <1>3

LEMMA CancelChange ==
  ASSUME TypeInv, NEW S \in SUBSET Job, CancelJobs(S), NEW t \in Task
  PROVE  RowChange(t)
<1> DEFINE live == {j \in S : job_state[j] # "absent"}
<1>1. ASSUME NEW a \in attempt
      PROVE  /\ [a EXCEPT !.status = "closed"].status = "closed"
             /\ [a EXCEPT !.status = "closed"].task = a.task
  BY <1>1 DEF Attempt, TypeInv, TypeOK
<1>2. attempt' = {IF JobOf[a.task] \in live THEN [a EXCEPT !.status = "closed"] ELSE a :
                    a \in attempt}
  BY DEF CancelJobs
<1>3. CASE JobOf[t] \in live
  <2>1. Open(t)' = {}
    <3> SUFFICES ASSUME NEW b \in attempt', b.task = t, b.status = "open" PROVE FALSE
      BY DEF Open
    <3>1. PICK a \in attempt :
            b = IF JobOf[a.task] \in live THEN [a EXCEPT !.status = "closed"] ELSE a
      BY <1>2
    <3>2. QED BY <1>1, <1>3, <3>1
  <2>2. CASE state[t] \in {"queued", "running"}
    <3>1. state'[t] = "cancelled" /\ SameCounts(t)
      BY <1>3, <2>2 DEF CancelJobs, SameCounts
    <3>2. /\ job_state'[JobOf[t]] # "absent"
          /\ job_state[JobOf[t]] = "running" => job_state'[JobOf[t]] = "cancelled"
      BY <1>3 DEF CancelJobs
    <3>3. QED BY <2>1, <2>2, <3>1, <3>2 DEF RowChange, Cancels
  <2>3. CASE state[t] \notin {"queued", "running"}
    <3>1. state'[t] = state[t] /\ SameCounts(t) /\ lease_epoch'[t] = lease_epoch[t]
      BY <2>3 DEF CancelJobs, SameCounts
    <3>2. QED BY <2>1, <2>3, <3>1 DEF RowChange, Stays
  <2>4. QED BY <2>2, <2>3
<1>4. CASE JobOf[t] \notin live
  <2>1. state'[t] = state[t] /\ lease_epoch'[t] = lease_epoch[t] /\ SameCounts(t)
    BY <1>4 DEF CancelJobs, SameCounts
  <2>2. Open(t)' \subseteq Open(t)
    <3> SUFFICES ASSUME NEW b \in attempt', b.task = t, b.status = "open"
                 PROVE  b \in attempt
      BY DEF Open
    <3>1. PICK a \in attempt :
            b = IF JobOf[a.task] \in live THEN [a EXCEPT !.status = "closed"] ELSE a
      BY <1>2
    <3>2. QED BY <1>1, <1>4, <3>1
  <2>3. ASSUME NEW a \in Open(t) PROVE a \in Open(t)'
    <3>1. a \in attempt /\ a.task = t /\ a.status = "open"
      BY <2>3 DEF Open
    <3>2. a = IF JobOf[a.task] \in live THEN [a EXCEPT !.status = "closed"] ELSE a
      BY <1>4, <3>1
    <3>3. a \in attempt'
      BY <1>2, <3>1, <3>2
    <3>4. QED BY <3>1, <3>3 DEF Open
  <2>4. QED BY <2>1, <2>2, <2>3 DEF RowChange, Stays
<1>5. QED BY <1>3, <1>4

LEMMA PurgeChange ==
  ASSUME TypeInv, NEW S \in SUBSET Job, PurgeTrees(S),
         \A r \in S : ~ TreeBusy(r, FALSE), NEW t \in Task
  PROVE  RowChange(t)
<1>1. CASE RootOf(t) \in S
  <2>1. state[t] # "running" /\ state'[t] = "absent" /\ recoveries'[t] = 0
        /\ job_state'[JobOf[t]] = "absent"
    BY <1>1 DEF PurgeTrees, TreeBusy, RootOf
  <2>2. Open(t)' = {}
    BY <1>1 DEF PurgeTrees, Open
  <2>3. QED BY <2>1, <2>2 DEF RowChange, Goes
<1>2. CASE RootOf(t) \notin S
  <2>1. Open(t)' = Open(t)
    BY <1>2 DEF PurgeTrees, Open
  <2>2. QED BY <1>2, <2>1 DEF RowChange, Stays, SameCounts, PurgeTrees
<1>3. QED BY <1>1, <1>2

\* commit_stage and fail: the row of the held task ends, every other one stays.
LEMMA EndChange ==
  ASSUME TypeInv, NEW w \in Worker, held[w] \in Task, Holds(w),
         NEW end \in {"completed", "failed"},
         state' = [state EXCEPT ![held[w]] = end],
         attempt' = CloseAttempts({<<held[w], held_epoch[w]>>}),
         UNCHANGED <<lease_epoch, recoveries>>, NEW t \in Task
  PROVE  RowChange(t)
<1>1. Open(t)' = {a \in Open(t) : <<t, a.epoch>> \notin {<<held[w], held_epoch[w]>>}}
  <2>1. attempt \subseteq Attempt
    BY DEF TypeInv, TypeOK
  <2>2. QED BY <2>1, CloseOpen
<1>2. CASE t = held[w]
  <2>1. Open(t)' = {a \in Open(t) : a.epoch # lease_epoch[t]}
    BY <1>1, <1>2 DEF Holds
  <2>2. state[t] = "running" /\ state'[t] \in {"completed", "failed"} /\ SameCounts(t)
    BY <1>2 DEF Holds, TypeInv, TypeOK, SameCounts
  <2>3. QED BY <2>1, <2>2 DEF RowChange, Ends
<1>3. CASE t # held[w]
  <2>1. Open(t)' = Open(t)
    BY <1>1, <1>3
  <2>2. state'[t] = state[t] /\ lease_epoch'[t] = lease_epoch[t] /\ SameCounts(t)
    BY <1>3 DEF TypeInv, TypeOK, SameCounts
  <2>3. QED BY <2>1, <2>2 DEF RowChange, Stays
<1>4. QED BY <1>2, <1>3

\* settle_blocked_job cancels nothing in a job where nothing failed or was cancelled.
LEMMA BlockChange ==
  ASSUME TypeInv, NEW w \in Worker, SettleBlocked(w), NEW t \in Task
  PROVE  RowChange(t)
<1> DEFINE j == JobOf[held[w]]
           bad == \E u \in TasksOf(j) : state[u] \in {"failed", "cancelled"}
<1>1. state \in [Task -> TaskState] /\ state' = BlockedPasses(state, j)
  BY DEF SettleBlocked, TypeInv, TypeOK
<1>2. ~ bad => state' = state
  <2> SUFFICES ASSUME ~ bad PROVE state' = state
    OBVIOUS
  <2>1. BlockedPass(state, j) = state
    <3>1. ASSUME NEW u \in Task PROVE BlockedPass(state, j)[u] = state[u]
      BY DepsAssumption DEF BlockedPass, TasksOf
    <3>2. QED BY <1>1, <3>1 DEF BlockedPass
  <2>2. QED BY <1>1, <2>1 DEF BlockedPasses
<1>3. state'[t] # state[t] => JobOf[t] = j
  <2>1. ASSUME NEW st \in [Task -> TaskState], JobOf[t] # j
        PROVE  BlockedPass(st, j) \in [Task -> TaskState] /\ BlockedPass(st, j)[t] = st[t]
    BY <2>1 DEF BlockedPass, TaskState
  <2>2. JobOf[t] # j => BlockedPasses(state, j)[t] = state[t]
    BY <1>1, <2>1 DEF BlockedPasses
  <2>3. QED BY <1>1, <2>2
<1>4. SameCounts(t) /\ Open(t)' = Open(t) /\ lease_epoch'[t] = lease_epoch[t]
  BY DEF SettleBlocked, SameCounts, Open
<1>5. state'[t] = state[t] \/ (state[t] = "queued" /\ state'[t] = "cancelled")
  BY SettleBlockedEffect
<1>6. CASE state'[t] = state[t]
  BY <1>4, <1>6 DEF RowChange, Stays
<1>7. CASE state'[t] # state[t]
  BY <1>2, <1>3, <1>4, <1>5, <1>7 DEF RowChange, Blocks
<1>8. QED BY <1>6, <1>7

\* ensure_chain: its own rows appear, those of the superseded generation end.
LEMMA ChainChange ==
  ASSUME TypeInv, JobInv, NEW j \in Job, EnsureChain(j), NEW t \in Task
  PROVE  RowChange(t)
<1> DEFINE old == {i \in Earlier[j] : job_state[i] = "running"}
           hit == JobOf[t] \in old /\ state[t] \in {"queued", "running"}
<1>1. SameCounts(t) /\ Open(t)' = Open(t)
  BY DEF EnsureChain, SameCounts, Open
<1>2. JobOf[t] \in Job /\ job_state[j] = "absent" /\ j \notin old
  BY DEF EnsureChain, Made
<1>3. CASE JobOf[t] = j
  <2>1. state'[t] = "queued" /\ state[t] = "absent"
    BY <1>2, <1>3 DEF EnsureChain, JobInv
  <2>2. QED BY <1>1, <1>2, <1>3, <2>1 DEF RowChange, Appears
<1>4. CASE JobOf[t] # j /\ hit
  <2>1. state'[t] = "cancelled" /\ lease_epoch'[t] = lease_epoch[t] + 1
    BY <1>4 DEF EnsureChain
  <2>2. job_state'[JobOf[t]] = "superseded"
    BY <1>2, <1>4 DEF EnsureChain
  <2>3. QED BY <1>1, <1>4, <2>1, <2>2 DEF RowChange, Supersedes
<1>5. CASE JobOf[t] # j /\ ~ hit
  <2>1. state'[t] = state[t] /\ lease_epoch'[t] = lease_epoch[t]
    BY <1>5 DEF EnsureChain
  <2>2. QED BY <1>1, <2>1 DEF RowChange, Stays
<1>6. QED BY <1>3, <1>4, <1>5

\* Every step of the store changes a row in one of the nine ways.
LEMMA RowStep ==
  ASSUME TypeInv, JobInv, [Next]_vars, NEW t \in Task
  PROVE  RowChange(t)
<1> USE DEF taskVars
<1>1. CASE UNCHANGED vars
  BY <1>1, SameRow DEF vars
<1>2. CASE Next
  <2> DEFINE G == RowChange(t)
  <2>1. Tick => G
    BY SameRow DEF Tick
  <2>2. ReapExpired => G
    BY RequeueChange DEF ReapExpired
  <2>3. Cleanup => G
    BY PurgeChange DEF Cleanup, Roots
  <2>4. \A s \in JobState : ClearJobs(s) => G
    BY PurgeChange DEF ClearJobs, Roots, TreeBusy
  <2>5. \A w \in Worker : \A u \in Task : ClaimNext(w, u) => G
    BY ClaimChange DEF ClaimNext
  <2>6. \A w \in Worker : \A u \in Task : ClaimTask(w, u) => G
    BY ClaimChange DEF ClaimTask
  <2>7. \A w \in Worker : Renew(w) => G
    BY SameRow DEF Renew
  <2>8. \A w \in Worker : GiveUp(w) \/ CommitWithoutWrite(w) => G
    BY SameRow DEF GiveUp, CommitWithoutWrite
  <2>9. \A w \in Worker : \A replied \in BOOLEAN : CommitStage(w, replied) => G
    BY EndChange DEF CommitStage, TypeInv, HeldShape, TypeOK
  <2>10. \A w \in Worker : Fail(w) => G
    BY EndChange DEF Fail, TypeInv, HeldShape, TypeOK
  <2>11. \A w \in Worker : SettleBlocked(w) => G
    BY BlockChange
  <2>12. \A p \in Proc : Beat(p) \/ Crash(p) => G
    BY SameRow DEF Beat, Crash
  <2>13. \A p \in Proc : RecoverOrphans(p) => G
    BY RequeueChange DEF RecoverOrphans
  <2>14. ASSUME NEW j \in Job, CreateJob(j) PROVE G
    <3>1. SameCounts(t) /\ Open(t)' = Open(t)
      BY <2>14 DEF CreateJob, SameCounts, Open
    <3>2. CASE JobOf[t] = j
      BY <2>14, <3>1, <3>2 DEF CreateJob, Insertable, JobInv, RowChange, Appears
    <3>3. CASE JobOf[t] # j
      BY <2>14, <3>1, <3>3 DEF CreateJob, RowChange, Stays
    <3>4. QED BY <3>2, <3>3
  <2>19. ASSUME NEW j \in Job, EnsureChain(j) PROVE G
    BY <2>19, ChainChange
  <2>15. \A j \in Job : SettleFinished(j) \/ StopRequest(j) \/ StopAbandoned(j) => G
    BY SameRow DEF SettleFinished, StopRequest, StopAbandoned
  <2>16. ASSUME NEW j \in Job, StopLast(j) PROVE G
    <3>1. {j} \in SUBSET Job OBVIOUS
    <3>2. QED BY <2>16, <3>1, CancelChange DEF StopLast
  <2>17. \A j \in Job : \A S \in SUBSET Job : StopBatch(j, S) => G
    BY CancelChange DEF StopBatch
  <2> HIDE DEF G
  <2>20. G
    BY <1>2, <2>1, <2>2, <2>3, <2>4, <2>5, <2>6, <2>7, <2>8, <2>9, <2>10, <2>11,
       <2>12, <2>13, <2>14, <2>15, <2>16, <2>17, <2>19, NextCases
  <2>21. QED BY <2>20 DEF G
<1>3. QED BY <1>1, <1>2

LEMMA Grounds == Spec => [](TypeInv /\ JobInv)
<1>1. Init => JobInv
  BY DEF Init, JobInv
<1>2. TypeInv /\ JobInv /\ [Next]_vars => JobInv'
  BY JobStepInv
<1>3. QED BY <1>1, <1>2, TypeInvariant, PTL DEF Spec
-----------------------------------------------------------------------------
LEMMA DepsStep ==
  ASSUME TypeInv, JobInv, DepsCompleted, [Next]_vars
  PROVE  DepsCompleted'
<1> SUFFICES ASSUME NEW t \in Task, state'[t] \in {"running", "completed"},
                    NEW d \in Deps[t]
             PROVE  state'[d] = "completed"
  BY DEF DepsCompleted
<1>1. d \in Task /\ JobOf[d] = JobOf[t]
  BY DepsAssumption
<1>2. RowChange(t) /\ RowChange(d) /\ JobInv'
  BY <1>1, RowStep, JobStepInv
<1>3. state[d] = "completed"
  <2>1. state[t] \in {"running", "completed"} \/ Starts(t)
    BY <1>2 DEF RowChange, Stays, Starts, Loses, Ends, Cancels, Supersedes, Blocks, Appears, Goes
  <2>2. QED BY <2>1 DEF DepsCompleted, Starts, Eligible
<1>4. job_state'[JobOf[d]] # "absent"
  BY <1>1, <1>2 DEF JobInv
<1>5. ~ Goes(d)
  BY <1>4 DEF Goes
<1>6. QED
  BY <1>2, <1>3, <1>5
  DEF RowChange, Stays, Starts, Loses, Ends, Cancels, Supersedes, Blocks, Appears

\* What runs or has completed stands on completed stages (Candidate::eligible):
\* no recovery, cancellation or purge takes a dependency from under it.
THEOREM DepsStand == Spec => []DepsCompleted
<1>1. Init => DepsCompleted
  BY DEF Init, DepsCompleted
<1>2. TypeInv /\ JobInv /\ DepsCompleted /\ [Next]_vars => DepsCompleted'
  BY DepsStep
<1>3. QED BY <1>1, <1>2, Grounds, PTL DEF Spec
-----------------------------------------------------------------------------
\* Only a failed task may have used up its recoveries.
RecoveryInv ==
  \A t \in Task : /\ recoveries[t] <= MaxRecoveries
                  /\ state[t] # "failed" => recoveries[t] < MaxRecoveries

LEMMA RecoveryStep ==
  ASSUME TypeInv, JobInv, RecoveryInv, [Next]_vars
  PROVE  RecoveryInv'
<1> SUFFICES ASSUME NEW t \in Task
             PROVE  /\ recoveries'[t] <= MaxRecoveries
                    /\ state'[t] # "failed" => recoveries'[t] < MaxRecoveries
  BY DEF RecoveryInv
<1>1. recoveries[t] \in Nat /\ MaxRecoveries \in Nat \ {0}
  BY DEF TypeInv, TypeOK
<1>2. RowChange(t)
  BY RowStep
<1>3. CASE SameCounts(t) /\ (state[t] = "failed" => state'[t] = "failed")
  BY <1>3 DEF SameCounts, RecoveryInv
<1>4. CASE Loses(t)
  BY <1>1, <1>4 DEF Loses, Exhausted, RecoveryInv
<1>5. CASE Goes(t)
  BY <1>1, <1>5 DEF Goes
<1>6. QED
  BY <1>2, <1>3, <1>4, <1>5
  DEF RowChange, Stays, Starts, Ends, Cancels, Supersedes, Blocks, Appears

\* The recovery that reaches MAX_WORKER_RECOVERIES fails the task, and nothing
\* brings it back (requeue_running_in against every other transition).
THEOREM RecoveriesBounded == Spec => []RecoveryBound
<1>1. Init => RecoveryInv
  BY DEF Init, RecoveryInv
<1>2. TypeInv /\ JobInv /\ RecoveryInv /\ [Next]_vars => RecoveryInv'
  BY RecoveryStep
<1>3. TypeInv /\ RecoveryInv => RecoveryBound
  BY DEF TypeInv, TypeOK, RecoveryInv, RecoveryBound
<1>4. QED BY <1>1, <1>2, <1>3, Grounds, PTL DEF Spec
-----------------------------------------------------------------------------
\* Closing rows renumbers none and merges none.
LEMMA CloseNumbers ==
  ASSUME TypeInv, AttemptNumbers, UNCHANGED attempts, NEW S, attempt' = CloseAttempts(S)
  PROVE  AttemptNumbers'
<1>1. ASSUME NEW a \in attempt
      PROVE  /\ [a EXCEPT !.status = "closed"].task = a.task
             /\ [a EXCEPT !.status = "closed"].number = a.number
  BY <1>1 DEF Attempt, TypeInv, TypeOK
<1>2. ASSUME NEW b \in attempt'
      PROVE  \E a \in attempt :
               /\ b = IF <<a.task, a.epoch>> \in S THEN [a EXCEPT !.status = "closed"] ELSE a
               /\ a.task = b.task /\ a.number = b.number
  <2>1. PICK a \in attempt :
          b = IF <<a.task, a.epoch>> \in S THEN [a EXCEPT !.status = "closed"] ELSE a
    BY <1>2 DEF CloseAttempts
  <2>2. a.task = b.task /\ a.number = b.number
    BY <1>1, <2>1
  <2>3. QED BY <2>1, <2>2
<1>3. attempts' = attempts
  OBVIOUS
<1>4. \A b \in attempt' : b.number <= attempts'[b.task]
  BY <1>2, <1>3 DEF AttemptNumbers
<1>5. ASSUME NEW b \in attempt', NEW c \in attempt', b.task = c.task, b.number = c.number
      PROVE  b = c
  <2>1. PICK a \in attempt :
          /\ b = IF <<a.task, a.epoch>> \in S THEN [a EXCEPT !.status = "closed"] ELSE a
          /\ a.task = b.task /\ a.number = b.number
    BY <1>2
  <2>2. PICK d \in attempt :
          /\ c = IF <<d.task, d.epoch>> \in S THEN [d EXCEPT !.status = "closed"] ELSE d
          /\ d.task = c.task /\ d.number = c.number
    BY <1>2
  <2>3. a = d
    BY <1>5, <2>1, <2>2 DEF AttemptNumbers
  <2>4. QED BY <2>1, <2>2, <2>3
<1>6. QED BY <1>4, <1>5 DEF AttemptNumbers

LEMMA CancelNumbers ==
  ASSUME TypeInv, AttemptNumbers, NEW S \in SUBSET Job, CancelJobs(S)
  PROVE  AttemptNumbers'
<1> DEFINE live == {j \in S : job_state[j] # "absent"}
<1>1. ASSUME NEW a \in attempt
      PROVE  /\ [a EXCEPT !.status = "closed"].task = a.task
             /\ [a EXCEPT !.status = "closed"].number = a.number
  BY <1>1 DEF Attempt, TypeInv, TypeOK
<1>2. ASSUME NEW b \in attempt'
      PROVE  \E a \in attempt :
               /\ b = IF JobOf[a.task] \in live THEN [a EXCEPT !.status = "closed"] ELSE a
               /\ a.task = b.task /\ a.number = b.number
  <2>1. PICK a \in attempt :
          b = IF JobOf[a.task] \in live THEN [a EXCEPT !.status = "closed"] ELSE a
    BY <1>2 DEF CancelJobs
  <2>2. a.task = b.task /\ a.number = b.number
    BY <1>1, <2>1
  <2>3. QED BY <2>1, <2>2
<1>3. attempts' = attempts
  BY DEF CancelJobs
<1>4. \A b \in attempt' : b.number <= attempts'[b.task]
  BY <1>2, <1>3 DEF AttemptNumbers
<1>5. ASSUME NEW b \in attempt', NEW c \in attempt', b.task = c.task, b.number = c.number
      PROVE  b = c
  <2>1. PICK a \in attempt :
          /\ b = IF JobOf[a.task] \in live THEN [a EXCEPT !.status = "closed"] ELSE a
          /\ a.task = b.task /\ a.number = b.number
    BY <1>2
  <2>2. PICK d \in attempt :
          /\ c = IF JobOf[d.task] \in live THEN [d EXCEPT !.status = "closed"] ELSE d
          /\ d.task = c.task /\ d.number = c.number
    BY <1>2
  <2>3. a = d
    BY <1>5, <2>1, <2>2 DEF AttemptNumbers
  <2>4. QED BY <2>1, <2>2, <2>3
<1>6. QED BY <1>4, <1>5 DEF AttemptNumbers

LEMMA ClaimNumbers ==
  ASSUME TypeInv, AttemptNumbers, NEW w \in Worker, NEW u \in Task, ClaimRow(w, u)
  PROVE  AttemptNumbers'
<1> DEFINE row == [task |-> u, number |-> AttemptNumber(u), epoch |-> lease_epoch[u] + 1,
                   status |-> "open"]
<1>1. attempt' = attempt \cup {row}
  BY DEF ClaimRow
<1>2. row.task = u /\ row.number = attempts[u] + 1
  BY DEF AttemptNumber
<1> HIDE DEF row
<1>3. attempts' = [attempts EXCEPT ![u] = attempts[u] + 1] /\ attempts \in [Task -> Nat]
  BY DEF ClaimRow, TypeInv, TypeOK
<1>4. \A a \in attempt : a.task \in Task /\ a.number \in Nat /\ a.number <= attempts[a.task]
  BY DEF AttemptNumbers, Attempt, TypeInv, TypeOK
<1>5. \A a \in attempt' : a.number <= attempts'[a.task]
  BY <1>1, <1>2, <1>3, <1>4
<1>6. \A a \in attempt : a.task = u => a.number # row.number
  BY <1>2, <1>3, <1>4
<1>7. \A a, b \in attempt' : a.task = b.task /\ a.number = b.number => a = b
  BY <1>1, <1>2, <1>6 DEF AttemptNumbers
<1>8. QED BY <1>5, <1>7 DEF AttemptNumbers

LEMMA PurgeNumbers ==
  ASSUME TypeInv, AttemptNumbers, NEW S \in SUBSET Job, PurgeTrees(S)
  PROVE  AttemptNumbers'
<1>1. \A a \in attempt' : a \in attempt /\ a.task \in Task /\ RootOf(a.task) \notin S
  BY DEF PurgeTrees, TypeInv, TypeOK, Attempt
<1>2. \A a \in attempt' : attempts'[a.task] = attempts[a.task]
  BY <1>1 DEF PurgeTrees
<1>3. QED BY <1>1, <1>2 DEF AttemptNumbers

LEMMA NumbersStep ==
  ASSUME TypeInv, AttemptNumbers, [Next]_vars
  PROVE  AttemptNumbers'
<1> USE DEF taskVars
<1>1. UNCHANGED <<attempt, attempts>> => AttemptNumbers'
  BY DEF AttemptNumbers
<1>2. CASE UNCHANGED vars
  BY <1>1, <1>2 DEF vars
<1>3. CASE Next
  <2> DEFINE G == AttemptNumbers'
  <2>1. Tick => G
    BY <1>1 DEF Tick
  <2>2. ReapExpired => G
    BY CloseNumbers DEF ReapExpired, RequeueRunning
  <2>3. Cleanup => G
    BY PurgeNumbers DEF Cleanup, Roots
  <2>4. \A s \in JobState : ClearJobs(s) => G
    BY PurgeNumbers DEF ClearJobs, Roots
  <2>5. \A w \in Worker : \A u \in Task : ClaimNext(w, u) => G
    BY ClaimNumbers DEF ClaimNext
  <2>6. \A w \in Worker : \A u \in Task : ClaimTask(w, u) => G
    BY ClaimNumbers DEF ClaimTask
  <2>7. \A w \in Worker : Renew(w) \/ GiveUp(w) \/ CommitWithoutWrite(w) => G
    BY <1>1 DEF Renew, GiveUp, CommitWithoutWrite
  <2>8. \A w \in Worker : \A replied \in BOOLEAN : CommitStage(w, replied) => G
    BY CloseNumbers DEF CommitStage
  <2>9. \A w \in Worker : Fail(w) => G
    BY CloseNumbers DEF Fail
  <2>10. \A w \in Worker : SettleBlocked(w) => G
    BY <1>1 DEF SettleBlocked
  <2>11. \A p \in Proc : Beat(p) \/ Crash(p) => G
    BY <1>1 DEF Beat, Crash
  <2>12. \A p \in Proc : RecoverOrphans(p) => G
    BY CloseNumbers DEF RecoverOrphans, RequeueRunning
  <2>13. \A j \in Job : CreateJob(j) => G
    BY <1>1 DEF CreateJob
  <2>14. \A j \in Job : SettleFinished(j) \/ StopRequest(j) \/ StopAbandoned(j) => G
    BY <1>1 DEF SettleFinished, StopRequest, StopAbandoned
  <2>15. ASSUME NEW j \in Job, StopLast(j) PROVE G
    <3>1. {j} \in SUBSET Job OBVIOUS
    <3>2. QED BY <2>15, <3>1, CancelNumbers DEF StopLast
  <2>16. \A j \in Job : \A S \in SUBSET Job : StopBatch(j, S) => G
    BY CancelNumbers DEF StopBatch
  <2>19. \A j \in Job : EnsureChain(j) => G
    BY <1>1 DEF EnsureChain
  <2> HIDE DEF G
  <2>17. G
    BY <1>3, <2>19, <2>1, <2>2, <2>3, <2>4, <2>5, <2>6, <2>7, <2>8, <2>9, <2>10, <2>11,
       <2>12, <2>13, <2>14, <2>15, <2>16, NextCases
  <2>18. QED BY <2>17 DEF G
<1>4. QED BY <1>2, <1>3

\* In a brief chain the unique index attempt_task never refuses a claim: the number
\* the claim is about to use is free, whatever was claimed, closed and purged before.
THEOREM AttemptNumbersUnique == Spec => []AttemptNumbers
<1>1. Init => AttemptNumbers
  BY DEF Init, AttemptNumbers
<1>2. TypeInv /\ AttemptNumbers /\ [Next]_vars => AttemptNumbers'
  BY NumbersStep
<1>3. QED BY <1>1, <1>2, TypeInvariant, PTL DEF Spec
-----------------------------------------------------------------------------
\* Who writes outputs: a commit, never under a cancel flag, and a purge.
LEMMA OutputStep ==
  ASSUME TypeInv, [Next]_vars
  PROVE  \A t \in Task : stage_output'[t] \in {stage_output[t], 0} \/ ~ Cancelled(t)
<1> USE DEF outVars, jobVars
<1> DEFINE G == \A t \in Task : stage_output'[t] \in {stage_output[t], 0} \/ ~ Cancelled(t)
<1>1. UNCHANGED stage_output => G
  OBVIOUS
<1>2. \A S : PurgeTrees(S) => G
  BY DEF PurgeTrees
<1>3. CASE UNCHANGED vars
  BY <1>1, <1>3 DEF vars
<1>4. CASE Next
  <2>1. \A w \in Worker : \A replied \in BOOLEAN : CommitStage(w, replied) => G
    BY DEF CommitStage, TypeInv, TypeOK
  <2>2. Cleanup => G
    BY <1>2 DEF Cleanup
  <2>3. \A s \in JobState : ClearJobs(s) => G
    BY <1>2 DEF ClearJobs
  <2>4. Tick \/ ReapExpired => G
    BY <1>1 DEF Tick, ReapExpired
  <2>5. \A w \in Worker : \A u \in Task : ClaimNext(w, u) \/ ClaimTask(w, u) => G
    BY <1>1 DEF ClaimNext, ClaimTask, ClaimRow
  <2>6. \A w \in Worker : Renew(w) \/ GiveUp(w) \/ CommitWithoutWrite(w)
                            \/ Fail(w) \/ SettleBlocked(w) => G
    BY <1>1 DEF Renew, GiveUp, CommitWithoutWrite, Fail, SettleBlocked
  <2>7. \A p \in Proc : Beat(p) \/ RecoverOrphans(p) \/ Crash(p) => G
    BY <1>1 DEF Beat, RecoverOrphans, Crash
  <2>8. \A j \in Job : CreateJob(j) \/ EnsureChain(j) \/ SettleFinished(j) \/ StopRequest(j)
                         \/ StopLast(j) \/ StopAbandoned(j) => G
    BY <1>1 DEF CreateJob, EnsureChain, SettleFinished, StopRequest, StopLast, StopAbandoned
  <2>9. \A j \in Job : \A S \in SUBSET Job : StopBatch(j, S) => G
    BY <1>1 DEF StopBatch
  <2> HIDE DEF G
  <2>10. G
    BY <1>4, <2>1, <2>2, <2>3, <2>4, <2>5, <2>6, <2>7, <2>8, <2>9, NextCases
  <2>11. QED BY <2>10 DEF G
<1>5. QED BY <1>3, <1>4

\* From the first transaction of stop_job on, the subtree starts and publishes
\* nothing more: claims and commits read the flag of every ancestor.
THEOREM CancelStaysFinal == Spec => CancelIsFinal
<1> DEFINE A == \A t \in Task : Cancelled(t) =>
                  /\ state'[t] = "running" => state[t] = "running"
                  /\ stage_output'[t] # 0 => stage_output'[t] = stage_output[t]
<1>1. TypeInv /\ JobInv /\ [Next]_vars => A
  <2> SUFFICES ASSUME TypeInv, JobInv, [Next]_vars, NEW t \in Task, Cancelled(t)
               PROVE  /\ state'[t] = "running" => state[t] = "running"
                      /\ stage_output'[t] # 0 => stage_output'[t] = stage_output[t]
    OBVIOUS
  <2>1. stage_output'[t] # 0 => stage_output'[t] = stage_output[t]
    BY OutputStep
  <2>2. state'[t] = "running" => state[t] = "running"
    BY RowStep
    DEF RowChange, Stays, Starts, Eligible, Loses, Ends, Cancels, Supersedes, Blocks, Appears, Goes
  <2>3. QED BY <2>1, <2>2
<1>2. QED BY <1>1, Grounds, PTL DEF Spec, CancelIsFinal
-----------------------------------------------------------------------------
\* What a step does to one job row.
JobKept(j) == job_state'[j] = job_state[j]
JobAppears(j) ==
  /\ job_state[j] = "absent" /\ job_state'[j] = "running"
  /\ \A t \in TasksOf(j) : state'[t] = "queued"
JobSettles(j) == job_state'[j] = SettledState(state', j)
JobCancelled(j) == job_state[j] = "running" /\ job_state'[j] = "cancelled"
JobSuperseded(j) == job_state[j] = "running" /\ job_state'[j] = "superseded"
JobGoes(j) == job_state'[j] = "absent"

JobChange(j) ==
  \/ JobKept(j) \/ JobAppears(j) \/ JobSettles(j)
  \/ JobCancelled(j) \/ JobSuperseded(j) \/ JobGoes(j)

LEMMA JobStepChange ==
  ASSUME TypeInv, [Next]_vars, NEW j \in Job
  PROVE  JobChange(j)
<1> USE DEF jobVars, taskVars
<1> DEFINE G == JobChange(j)
<1>1. UNCHANGED job_state => G
  BY DEF JobChange, JobKept
<1>2. \A S \in SUBSET Job : PurgeTrees(S) => G
  BY DEF PurgeTrees, JobChange, JobKept, JobGoes
<1>3. \A S \in SUBSET Job : CancelJobs(S) => G
  BY DEF CancelJobs, JobChange, JobKept, JobCancelled
<1>4. ASSUME NEW i \in Job, job_state' = [job_state EXCEPT ![i] = SettledState(state', i)]
      PROVE  G
  BY <1>4 DEF TypeInv, TypeOK, JobChange, JobKept, JobSettles
<1>5. CASE UNCHANGED vars
  BY <1>1, <1>5 DEF vars
<1>6. CASE Next
  <2>1. Cleanup => G
    BY <1>2 DEF Cleanup, Roots
  <2>2. \A s \in JobState : ClearJobs(s) => G
    BY <1>2 DEF ClearJobs, Roots
  <2>3. Tick \/ ReapExpired => G
    BY <1>1 DEF Tick, ReapExpired
  <2>4. \A w \in Worker : \A u \in Task : ClaimNext(w, u) \/ ClaimTask(w, u) => G
    BY <1>1 DEF ClaimNext, ClaimTask, ClaimRow
  <2>5. \A w \in Worker : Renew(w) \/ GiveUp(w) \/ CommitWithoutWrite(w) \/ Fail(w) => G
    BY <1>1 DEF Renew, GiveUp, CommitWithoutWrite, Fail
  <2>6. ASSUME NEW w \in Worker, NEW replied \in BOOLEAN, CommitStage(w, replied)
        PROVE  G
    <3>1. JobOf[held[w]] \in Job
      BY <2>6 DEF CommitStage, TypeInv, HeldShape, TypeOK
    <3>2. job_state' = [job_state EXCEPT ![JobOf[held[w]]] = SettledState(state', JobOf[held[w]])]
      BY <2>6 DEF CommitStage
    <3>3. QED BY <1>4, <3>1, <3>2
  <2>7. ASSUME NEW w \in Worker, SettleBlocked(w) PROVE G
    <3>1. JobOf[held[w]] \in Job
      BY <2>7 DEF SettleBlocked, TypeInv, HeldShape, TypeOK
    <3>2. job_state' = [job_state EXCEPT ![JobOf[held[w]]] = SettledState(state', JobOf[held[w]])]
      BY <2>7 DEF SettleBlocked
    <3>3. QED BY <1>4, <3>1, <3>2
  <2>8. \A p \in Proc : Beat(p) \/ RecoverOrphans(p) \/ Crash(p) => G
    BY <1>1 DEF Beat, RecoverOrphans, Crash
  <2>9. ASSUME NEW i \in Job, CreateJob(i) PROVE G
    BY <2>9 DEF CreateJob, Insertable, TypeInv, TypeOK, JobChange, JobKept, JobAppears, TasksOf
  <2>16. ASSUME NEW i \in Job, EnsureChain(i) PROVE G
    <3>1. CASE j = i
      BY <2>16, <3>1 DEF EnsureChain, Made, JobChange, JobAppears, TasksOf
    <3>2. CASE j # i
      BY <2>16, <3>2 DEF EnsureChain, JobChange, JobKept, JobSuperseded
    <3>3. QED BY <3>1, <3>2
  <2>10. ASSUME NEW i \in Job, SettleFinished(i) PROVE G
    <3>1. job_state' = [job_state EXCEPT ![i] = SettledState(state', i)]
      BY <2>10 DEF SettleFinished, SettledState
    <3>2. QED BY <1>4, <3>1
  <2>11. \A i \in Job : StopRequest(i) \/ StopAbandoned(i) => G
    BY <1>1 DEF StopRequest, StopAbandoned
  <2>12. ASSUME NEW i \in Job, StopLast(i) PROVE G
    <3>1. {i} \in SUBSET Job OBVIOUS
    <3>2. QED BY <1>3, <2>12, <3>1 DEF StopLast
  <2>13. \A i \in Job : \A S \in SUBSET Job : StopBatch(i, S) => G
    BY <1>3 DEF StopBatch
  <2> HIDE DEF G
  <2>14. G
    BY <1>6, <2>1, <2>2, <2>3, <2>4, <2>5, <2>6, <2>7, <2>8, <2>9, <2>10, <2>11,
       <2>12, <2>13, <2>16, NextCases
  <2>15. QED BY <2>14 DEF G
<1>7. QED BY <1>5, <1>6

-----------------------------------------------------------------------------
\* A purged row has no attempt rows.
OpenInv == OpenAttempts /\ (\A t \in Task : state[t] = "absent" => Open(t) = {})

LEMMA OpenStep ==
  ASSUME TypeInv, JobInv, OpenInv, [Next]_vars
  PROVE  OpenInv'
<1> DEFINE Follows(t) ==
             /\ \A a \in Open(t) :
                  \/ state[t] = "running" /\ a.epoch = lease_epoch[t]
                  \/ job_state[JobOf[t]] = "superseded" /\ a.epoch < lease_epoch[t]
             /\ state[t] = "running" => \E a \in Open(t) : a.epoch = lease_epoch[t]
<1>0. OpenAttempts <=> \A t \in Task : Follows(t)
  BY DEF OpenAttempts, Open
<1> SUFFICES ASSUME NEW t \in Task
             PROVE  Follows(t)' /\ (state'[t] = "absent" => Open(t)' = {})
  BY DEF OpenInv, OpenAttempts, Open
<1>1. Follows(t) /\ (state[t] = "absent" => Open(t) = {})
  BY <1>0 DEF OpenInv
<1>2. JobInv' /\ JobOf[t] \in Job /\ RowChange(t) /\ JobChange(JobOf[t])
  BY RowStep, JobStepChange, JobStepInv
<1>3. /\ lease_epoch[t] \in Nat
      /\ \A a \in Open(t) : a.epoch \in Nat
  BY DEF TypeInv, TypeOK, Open, Attempt
<1>4. job_state[JobOf[t]] = "superseded" => job_state'[JobOf[t]] \in {"superseded", "absent"}
  BY <1>2 DEF JobChange, JobKept, JobAppears, JobSettles, JobCancelled, JobSuperseded,
              JobGoes, SettledState
<1>5. job_state'[JobOf[t]] = "absent" => state'[t] = "absent"
  BY <1>2 DEF JobInv
<1>6. CASE Stays(t)
  <2>1. CASE state'[t] = "absent"
    BY <1>1, <1>6, <2>1 DEF Stays
  <2>2. CASE state'[t] # "absent"
    BY <1>1, <1>4, <1>5, <1>6, <2>2 DEF Stays
  <2>3. QED BY <2>1, <2>2
<1>7. CASE Starts(t)
  <2>1. PICK a : a.epoch = lease_epoch'[t] /\ Open(t)' = Open(t) \cup {a}
    BY <1>7 DEF Starts
  <2>2. \A b \in Open(t) : job_state'[JobOf[t]] = "superseded" /\ b.epoch < lease_epoch'[t]
    BY <1>1, <1>3, <1>4, <1>5, <1>7 DEF Starts
  <2>3. state'[t] = "running"
    BY <1>7 DEF Starts
  <2>4. QED BY <2>1, <2>2, <2>3
<1>8. CASE Loses(t) \/ Ends(t)
  <2>1. state'[t] # "absent" /\ state'[t] # "running"
    BY <1>8 DEF Loses, Ends
  <2>2. \A b \in Open(t)' : b \in Open(t) /\ b.epoch # lease_epoch[t]
    BY <1>8 DEF Loses, Ends
  <2>3. lease_epoch[t] <= lease_epoch'[t] /\ lease_epoch'[t] \in Nat
    BY <1>3, <1>8 DEF Loses, Ends
  <2>4. \A b \in Open(t)' : job_state[JobOf[t]] = "superseded" /\ b.epoch < lease_epoch[t]
    BY <1>1, <2>2
  <2>5. QED BY <1>3, <1>4, <1>5, <2>1, <2>2, <2>3, <2>4
<1>9. CASE Cancels(t) \/ Goes(t)
  BY <1>9 DEF Cancels, Goes
<1>10. CASE Supersedes(t)
  <2>1. \A a \in Open(t) : a.epoch <= lease_epoch[t]
    BY <1>1, <1>3
  <2>2. QED BY <1>3, <1>10, <2>1 DEF Supersedes
<1>11. CASE Blocks(t)
  BY <1>1, <1>4, <1>5, <1>11 DEF Blocks
<1>12. CASE Appears(t)
  BY <1>1, <1>12 DEF Appears
<1>13. QED
  BY <1>2, <1>6, <1>7, <1>8, <1>9, <1>10, <1>11, <1>12 DEF RowChange

\* The attempt log follows the task row through claims, commits, failures,
\* recoveries, stops and purges.  Only ensure_chain leaves a row open behind it,
\* of an epoch that is over and in a generation that is superseded.
THEOREM OpenAttemptsFollow == Spec => []OpenAttempts
<1>1. Init => OpenInv
  BY DEF Init, OpenInv, OpenAttempts, Open
<1>2. TypeInv /\ JobInv /\ OpenInv /\ [Next]_vars => OpenInv'
  BY OpenStep
<1>3. OpenInv => OpenAttempts
  BY DEF OpenInv
<1>4. QED BY <1>1, <1>2, <1>3, Grounds, PTL DEF Spec
-----------------------------------------------------------------------------
\* Why a settlement cannot call a job completed over a cancelled task: the tasks
\* of an open job are all there, and one is cancelled only beside a failed one.
SettleInv ==
  \A j \in Job :
    /\ job_state[j] # "absent" => \A t \in TasksOf(j) : state[t] # "absent"
    /\ job_state[j] = "running" /\ (\E t \in TasksOf(j) : state[t] = "cancelled")
         => \E t \in TasksOf(j) : state[t] = "failed"

\* A task that ended in a job that is still there stays as it ended.
LEMMA EndedStays ==
  ASSUME NEW t \in Task, RowChange(t), job_state'[JobOf[t]] # "absent",
         state[t] \in {"completed", "failed", "cancelled"}
  PROVE  state'[t] = state[t]
BY DEF RowChange, Stays, Starts, Loses, Ends, Cancels, Supersedes, Blocks, Appears, Goes

LEMMA CancelledBeside ==
  ASSUME TypeInv, JobInv, SettleInv, [Next]_vars, NEW j \in Job,
         job_state[j] = "running", job_state'[j] \notin {"absent", "cancelled", "superseded"},
         NEW t \in TasksOf(j), state'[t] = "cancelled"
  PROVE  \E u \in TasksOf(j) : state'[u] = "failed"
<1>1. JobInv' /\ (\A u \in Task : RowChange(u))
  BY RowStep, JobStepInv
<1>2. t \in Task /\ JobOf[t] = j
  BY DEF TasksOf
<1>3. \E u \in TasksOf(j) : state[u] \in {"failed", "cancelled"}
  <2>1. state[t] = "cancelled" \/ Blocks(t)
    BY <1>1, <1>2
    DEF RowChange, Stays, Starts, Loses, Ends, Cancels, Supersedes, Blocks, Appears, Goes
  <2>2. QED BY <1>2, <2>1 DEF Blocks
<1>4. PICK u \in TasksOf(j) : state[u] = "failed"
  BY <1>3 DEF SettleInv
<1>5. u \in Task /\ JobOf[u] = j
  BY DEF TasksOf
<1>6. state'[u] = "failed"
  BY <1>1, <1>4, <1>5, EndedStays
<1>7. QED BY <1>6

LEMMA SettleStep ==
  ASSUME TypeInv, JobInv, SettleInv, [Next]_vars
  PROVE  SettleInv'
<1>1. JobInv' /\ (\A u \in Task : RowChange(u)) /\ (\A j \in Job : JobChange(j))
  BY RowStep, JobStepInv, JobStepChange
<1>2. ASSUME NEW j \in Job, job_state'[j] # "absent", NEW t \in TasksOf(j)
      PROVE  state'[t] # "absent"
  <2>1. t \in Task /\ JobOf[t] = j
    BY DEF TasksOf
  <2>2. CASE JobAppears(j)
    BY <2>2 DEF JobAppears
  <2>3. CASE ~ JobAppears(j)
    <3>1. job_state[j] # "absent"
      BY <1>1, <1>2, <2>3
      DEF JobChange, JobKept, JobSettles, JobCancelled, JobSuperseded, JobGoes, SettledState
    <3>2. state[t] # "absent" /\ ~ Goes(t)
      BY <1>2, <2>1, <3>1 DEF SettleInv, Goes
    <3>3. QED
      BY <1>1, <2>1, <3>2
      DEF RowChange, Stays, Starts, Loses, Ends, Cancels, Supersedes, Blocks, Appears
  <2>4. QED BY <2>2, <2>3
<1>3. ASSUME NEW j \in Job, job_state'[j] = "running",
             NEW t \in TasksOf(j), state'[t] = "cancelled"
      PROVE  \E u \in TasksOf(j) : state'[u] = "failed"
  <2>1. ~ JobAppears(j)
    BY <1>3 DEF JobAppears
  <2>2. job_state[j] = "running"
    BY <1>1, <1>3, <2>1
    DEF JobChange, JobKept, JobSettles, JobCancelled, JobSuperseded, JobGoes, SettledState
  <2>3. QED BY <1>3, <2>2, CancelledBeside
<1>4. QED BY <1>2, <1>3 DEF SettleInv, TasksOf

LEMMA SettledStep ==
  ASSUME TypeInv, JobInv, SettleInv, SettledJobs, TypeInv', SettleInv', [Next]_vars
  PROVE  SettledJobs'
<1>1. JobInv' /\ (\A u \in Task : RowChange(u)) /\ (\A j \in Job : JobChange(j))
  BY RowStep, JobStepInv, JobStepChange
<1> SUFFICES ASSUME NEW j \in Job, job_state'[j] \in {"completed", "failed"}
             PROVE  /\ job_state'[j] = "completed" => \A t \in TasksOf(j) : state'[t] = "completed"
                    /\ job_state'[j] = "failed" =>
                         /\ \E t \in TasksOf(j) : state'[t] = "failed"
                         /\ \A t \in TasksOf(j) : state'[t] \notin {"queued", "running"}
  BY DEF SettledJobs, TasksOf
<1>2. \A t \in TasksOf(j) : t \in Task /\ JobOf[t] = j /\ state'[t] \in TaskState \ {"absent"}
  BY DEF TasksOf, SettleInv, TypeInv, TypeOK
<1>3. CASE job_state[j] = job_state'[j]
  <2>1. \A t \in TasksOf(j) : state[t] \in {"completed", "failed", "cancelled"}
    BY <1>2, <1>3 DEF SettledJobs, SettleInv, TypeInv, TypeOK, TaskState
  <2>2. \A t \in TasksOf(j) : state'[t] = state[t]
    BY <1>1, <1>2, <2>1, EndedStays
  <2>3. QED BY <1>3, <2>1, <2>2 DEF SettledJobs
<1>4. CASE job_state[j] = "running" /\ job_state'[j] = SettledState(state', j)
  <2>1. /\ \A t \in TasksOf(j) : state'[t] \notin {"queued", "running"}
        /\ job_state'[j] = "failed" <=> \E t \in TasksOf(j) : state'[t] = "failed"
    BY <1>2, <1>4 DEF SettledState
  <2>2. \A t \in TasksOf(j) : state'[t] = "cancelled" => \E u \in TasksOf(j) : state'[u] = "failed"
    BY <1>4, CancelledBeside
  <2>3. QED BY <1>2, <2>1, <2>2 DEF TaskState
<1>5. ~ JobAppears(j)
  BY DEF JobAppears
<1>6. QED
  BY <1>1, <1>3, <1>4, <1>5
  DEF JobChange, JobKept, JobSettles, JobCancelled, JobSuperseded, JobGoes, SettledState
\* A job row tells the truth about its tasks: neither a recovery, a late failure,
\* a cancellation nor a settlement from a list view makes it lie.
THEOREM JobsSettledTruly == Spec => []SettledJobs
<1>1. Init => SettleInv /\ SettledJobs
  BY DEF Init, SettleInv, SettledJobs
<1>2. TypeInv /\ JobInv /\ SettleInv /\ [Next]_vars => SettleInv'
  BY SettleStep
<1>3. TypeInv /\ TypeInv' /\ JobInv /\ SettleInv /\ SettledJobs /\ [Next]_vars => SettledJobs'
  BY SettleStep, SettledStep
<1>4. QED BY <1>1, <1>2, <1>3, Grounds, PTL DEF Spec
-----------------------------------------------------------------------------
LEMMA RootsAlone ==
  ASSUME NEW r \in Roots
  PROVE  Ancestors[r] = {}
<1> SUFFICES ASSUME NEW a \in Ancestors[r] PROVE FALSE
  OBVIOUS
<1>1. r \in Job /\ Root[r] = r /\ a \in Job
  BY DEF Roots
<1>2. Root[a] = r /\ Ancestors[a] \subseteq Ancestors[r] /\ r \notin Ancestors[r]
  BY <1>1, TreeAssumption
<1>3. r \in Ancestors[a] \cup {a}
  BY <1>1, <1>2, TreeAssumption
<1>4. QED BY <1>2, <1>3

\* A stopped job stays cancelled and has nothing open left; a stopped root also
\* has no running task anywhere below it.
StopInv ==
  /\ \A j \in Job : stopped[j] =>
       /\ job_state[j] # "absent" /\ cancel_requested[j]
       /\ \A t \in TasksOf(j) : state[t] \notin {"queued", "running"}
  /\ StoppedTreeQuiet

\* What a step does to the flags of one job.
FlagsKept(j) ==
  /\ stopped'[j] = stopped[j]
  /\ cancel_requested[j] => cancel_requested'[j]
  /\ job_state[j] # "absent" => job_state'[j] # "absent"
FlagsGone(j) == ~ stopped'[j]
FlagsSet(j) ==
  /\ cancel_requested'[j] /\ job_state'[j] # "absent"
  /\ \A t \in TasksOf(j) : state'[t] \notin {"queued", "running"}
  /\ j \in Roots => /\ Unstopped(j) = {}
                    /\ \A t \in Task : state'[t] = "running" => state[t] = "running"

FlagChange(j) == FlagsKept(j) \/ FlagsGone(j) \/ FlagsSet(j)

LEMMA CancelFlags ==
  ASSUME TypeInv, NEW S \in SUBSET Job, CancelJobs(S), NEW j \in Job,
         j \in S /\ j \in Roots => Unstopped(j) = {}
  PROVE  FlagChange(j)
<1>1. CASE j \in S /\ job_state[j] # "absent"
  <2>1. cancel_requested'[j] /\ job_state'[j] # "absent"
    BY <1>1 DEF CancelJobs
  <2>2. \A t \in TasksOf(j) : state'[t] \notin {"queued", "running"}
    BY <1>1 DEF CancelJobs, TasksOf
  <2>3. \A t \in Task : state'[t] = "running" => state[t] = "running"
    BY DEF CancelJobs
  <2>4. QED BY <1>1, <2>1, <2>2, <2>3 DEF FlagChange, FlagsSet
<1>2. CASE ~ (j \in S /\ job_state[j] # "absent")
  <2>1. /\ stopped'[j] = stopped[j]
        /\ cancel_requested'[j] = cancel_requested[j]
        /\ job_state'[j] = job_state[j]
    BY <1>2, Zenon DEF CancelJobs, TypeInv, TypeOK
  <2>2. QED BY <2>1 DEF FlagChange, FlagsKept
<1>3. QED BY <1>1, <1>2
LEMMA FlagStep ==
  ASSUME TypeInv, [Next]_vars, NEW j \in Job
  PROVE  FlagChange(j)
<1> USE DEF jobVars, taskVars
<1> DEFINE G == FlagChange(j)
<1>1. UNCHANGED <<stopped, cancel_requested, job_state>> => G
  BY DEF FlagChange, FlagsKept
<1>2. \A S \in SUBSET Job : PurgeTrees(S) => G
  <2> SUFFICES ASSUME NEW S \in SUBSET Job, PurgeTrees(S) PROVE G
    OBVIOUS
  <2>1. CASE Root[j] \in S
    BY <2>1, Zenon DEF PurgeTrees, FlagChange, FlagsGone
  <2>2. CASE Root[j] \notin S
    <3>1. stopped[j] \in BOOLEAN /\ cancel_requested[j] \in BOOLEAN
      BY DEF TypeInv, TypeOK
    <3>2. stopped'[j] = stopped[j] /\ cancel_requested'[j] = cancel_requested[j]
      BY <2>2, <3>1, Zenon DEF PurgeTrees
    <3>3. job_state'[j] = job_state[j]
      BY <2>2 DEF PurgeTrees
    <3>4. QED BY <3>2, <3>3 DEF FlagChange, FlagsKept
  <2>3. QED BY <2>1, <2>2
<1>3. ASSUME NEW i \in Job, job_state' = [job_state EXCEPT ![i] = SettledState(state', i)],
             UNCHANGED <<stopped, cancel_requested>>
      PROVE  G
  BY <1>3, SettledType DEF TypeInv, TypeOK, FlagChange, FlagsKept
<1>4. CASE UNCHANGED vars
  BY <1>1, <1>4 DEF vars
<1>5. CASE Next
  <2>1. Cleanup => G
    BY <1>2 DEF Cleanup, Roots
  <2>2. \A s \in JobState : ClearJobs(s) => G
    BY <1>2 DEF ClearJobs, Roots
  <2>3. Tick \/ ReapExpired => G
    BY <1>1 DEF Tick, ReapExpired
  <2>4. \A w \in Worker : \A u \in Task : ClaimNext(w, u) \/ ClaimTask(w, u) => G
    BY <1>1 DEF ClaimNext, ClaimTask, ClaimRow
  <2>5. \A w \in Worker : Renew(w) \/ GiveUp(w) \/ CommitWithoutWrite(w) \/ Fail(w) => G
    BY <1>1 DEF Renew, GiveUp, CommitWithoutWrite, Fail
  <2>6. ASSUME NEW w \in Worker, NEW replied \in BOOLEAN, CommitStage(w, replied)
        PROVE  G
    <3>1. JobOf[held[w]] \in Job
      BY <2>6 DEF CommitStage, TypeInv, HeldShape, TypeOK
    <3>2. job_state' = [job_state EXCEPT ![JobOf[held[w]]] = SettledState(state', JobOf[held[w]])]
      BY <2>6 DEF CommitStage
    <3>3. UNCHANGED <<stopped, cancel_requested>>
      BY <2>6 DEF CommitStage
    <3>4. QED BY <1>3, <3>1, <3>2, <3>3
  <2>7. ASSUME NEW w \in Worker, SettleBlocked(w) PROVE G
    <3>1. JobOf[held[w]] \in Job
      BY <2>7 DEF SettleBlocked, TypeInv, HeldShape, TypeOK
    <3>2. job_state' = [job_state EXCEPT ![JobOf[held[w]]] = SettledState(state', JobOf[held[w]])]
      BY <2>7 DEF SettleBlocked
    <3>3. UNCHANGED <<stopped, cancel_requested>>
      BY <2>7 DEF SettleBlocked
    <3>4. QED BY <1>3, <3>1, <3>2, <3>3
  <2>8. \A p \in Proc : Beat(p) \/ RecoverOrphans(p) \/ Crash(p) => G
    BY <1>1 DEF Beat, RecoverOrphans, Crash
  <2>9. \A i \in Job : CreateJob(i) => G
    BY DEF CreateJob, TypeInv, TypeOK, FlagChange, FlagsKept
  <2>17. \A i \in Job : EnsureChain(i) => G
    BY Zenon DEF EnsureChain, TypeInv, TypeOK, FlagChange, FlagsKept
  <2>10. ASSUME NEW i \in Job, SettleFinished(i) PROVE G
    <3>1. job_state' = [job_state EXCEPT ![i] = SettledState(state', i)]
          /\ UNCHANGED <<stopped, cancel_requested>>
      BY <2>10 DEF SettleFinished, SettledState
    <3>2. QED BY <1>3, <3>1
  <2>11. \A i \in Job : StopRequest(i) => G
    BY DEF StopRequest, TypeInv, TypeOK, FlagChange, FlagsKept
  <2>12. \A i \in Job : StopAbandoned(i) => G
    BY <1>1 DEF StopAbandoned
  <2>13. ASSUME NEW i \in Job, StopLast(i) PROVE G
    <3>1. {i} \in SUBSET Job OBVIOUS
    <3>2. CancelJobs({i}) /\ Unstopped(i) = {}
      BY <2>13 DEF StopLast
    <3>3. QED BY <3>1, <3>2, CancelFlags
  <2>14. ASSUME NEW i \in Job, NEW S \in SUBSET Job, StopBatch(i, S) PROVE G
    <3>1. CancelJobs(S) /\ S \subseteq Descendants(i)
      BY <2>14 DEF StopBatch, Unstopped
    <3>2. j \in S => j \notin Roots
      BY <3>1, RootsAlone DEF Descendants
    <3>3. QED BY <3>1, <3>2, CancelFlags
  <2> HIDE DEF G
  <2>15. G
    BY <1>5, <2>1, <2>2, <2>3, <2>4, <2>5, <2>6, <2>7, <2>8, <2>9, <2>10, <2>11,
       <2>12, <2>13, <2>14, <2>17, NextCases
  <2>16. QED BY <2>15 DEF G
<1>6. QED BY <1>4, <1>5

LEMMA StopStep ==
  ASSUME TypeInv, JobInv, StopInv, [Next]_vars
  PROVE  StopInv'
<1>1. (\A t \in Task : RowChange(t)) /\ (\A j \in Job : FlagChange(j))
  BY RowStep, FlagStep
<1>2. ASSUME NEW j \in Job, stopped'[j]
      PROVE  /\ job_state'[j] # "absent" /\ cancel_requested'[j]
             /\ \A t \in TasksOf(j) : state'[t] \notin {"queued", "running"}
  <2>1. CASE FlagsKept(j)
    <3>1. stopped[j] /\ job_state'[j] # "absent" /\ cancel_requested'[j]
      BY <1>2, <2>1 DEF FlagsKept, StopInv
    <3>2. ASSUME NEW t \in TasksOf(j) PROVE state'[t] \notin {"queued", "running"}
      <4>1. t \in Task /\ JobOf[t] = j /\ job_state[j] # "absent"
            /\ state[t] \notin {"queued", "running"}
        BY <3>1 DEF TasksOf, StopInv
      <4>2. QED
        BY <1>1, <4>1 DEF RowChange, Stays, Starts, Loses, Ends, Cancels, Supersedes, Blocks, Appears, Goes
    <3>3. QED BY <3>1, <3>2
  <2>2. CASE FlagsSet(j)
    BY <2>2 DEF FlagsSet
  <2>3. QED BY <1>1, <1>2, <2>1, <2>2 DEF FlagChange, FlagsGone
<1>3. ASSUME NEW r \in Roots, stopped'[r], NEW t \in Task, RootOf(t) = r,
             state'[t] = "running"
      PROVE  FALSE
  <2>1. r \in Job /\ JobOf[t] \in Job /\ r \in Ancestors[JobOf[t]] \cup {JobOf[t]}
    BY <1>3, TreeAssumption DEF Roots, RootOf
  <2>2. CASE FlagsKept(r)
    <3>1. stopped[r] /\ cancel_requested[r] /\ state[t] # "running"
      BY <1>3, <2>1, <2>2 DEF FlagsKept, StopInv, StoppedTreeQuiet
    <3>2. Cancelled(t)
      BY <2>1, <3>1 DEF Cancelled
    <3>3. Starts(t)
      BY <1>1, <1>3, <3>1 DEF RowChange, Stays, Loses, Ends, Cancels, Supersedes, Blocks, Appears, Goes
    <3>4. QED BY <3>2, <3>3 DEF Starts, Eligible
  <2>3. CASE FlagsSet(r)
    <3>1. state[t] = "running" /\ Unstopped(r) = {} /\ JobOf[t] # r
      BY <1>3, <2>3 DEF FlagsSet, TasksOf
    <3>2. job_state[JobOf[t]] # "absent" /\ JobOf[t] \in Descendants(r)
      BY <2>1, <3>1 DEF JobInv, Descendants
    <3>3. stopped[JobOf[t]]
      BY <3>1, <3>2 DEF Unstopped
    <3>4. QED BY <2>1, <3>1, <3>3 DEF StopInv, TasksOf
  <2>4. QED BY <1>1, <1>3, <2>1, <2>2, <2>3 DEF FlagChange, FlagsGone
<1>4. StoppedTreeQuiet'
  BY <1>3 DEF StoppedTreeQuiet, Roots, RootOf
<1>5. QED BY <1>2, <1>4 DEF StopInv, TasksOf

\* Once stop_job has finished with a root nothing in its tree runs, in whatever
\* batches it went, however often it was abandoned and repeated, and whatever
\* children were created meanwhile.
THEOREM StoppedTreesQuiet == Spec => []StoppedTreeQuiet
<1>1. Init => StopInv
  BY DEF Init, StopInv, StoppedTreeQuiet, Roots
<1>2. TypeInv /\ JobInv /\ StopInv /\ [Next]_vars => StopInv'
  BY StopStep
<1>3. StopInv => StoppedTreeQuiet
  BY DEF StopInv
<1>4. QED BY <1>1, <1>2, <1>3, Grounds, PTL DEF Spec
=============================================================================
