------------------------------ MODULE JobStore ------------------------------
(***************************************************************************)
(* The durable job system of argos-osint-core: storage/jobs.rs and         *)
(* storage/processes.rs, with the stage executor of storage/brief_stages.rs *)
(* as its worker.                                                          *)
(*                                                                         *)
(* Every action is one database transaction (run_tx) or one step of a      *)
(* worker between two transactions.  Wall-clock timestamps appear as       *)
(* timers: lease_left is lease_until - now, beat_age is now - heartbeat_at  *)
(* and job_age is now - created_at.  The code only ever compares these     *)
(* differences, so time is unbounded and the state space still finite.     *)
(*                                                                         *)
(* Job holds the jobs that may have tasks.  Service jobs (kind 'service':  *)
(* the api_server and web_server entries of the job registry) are roots    *)
(* without tasks or children, so nothing here reads or writes their rows.  *)
(***************************************************************************)
EXTENDS Integers, FiniteSets

CONSTANTS
  Job,           \* job ids
  Task,          \* task ids
  Proc,          \* process ids: scheduler::process_owner()
  Worker,        \* executor slots; the slots of a process share its owner id
  NoTask, NoOwner,
  JobOf,         \* [Task -> Job]
  Deps,          \* [Task -> SUBSET Task]
  Priority,      \* [Task -> Nat], smaller is served first
  Brief,         \* the tasks of pool intel_brief
  Ancestors,     \* [Job -> SUBSET Job], the job's ancestors column
  Root,          \* [Job -> Job]
  Chain,         \* the brief jobs, created by ensure_chain, one per generation
  Earlier,       \* [Job -> SUBSET Chain], the earlier generations of the brief
  ProcOf,        \* [Worker -> Proc]
  Crashable,     \* the processes that may die
  LeaseSecs,     \* lease length, in ticks
  StaleSecs,     \* PROCESS_STALE_SECS, in ticks
  Window,        \* EXECUTION_WINDOW_HOURS, in ticks
  MaxRecoveries, \* MAX_WORKER_RECOVERIES
  StopBatchSize  \* jobs cancelled per stop transaction (STOP_BATCH)

ASSUME SentinelAssumption == NoTask \notin Task /\ NoOwner \notin Proc
ASSUME ShapeAssumption ==
  /\ JobOf \in [Task -> Job]
  /\ Deps \in [Task -> SUBSET Task]
  /\ Priority \in [Task -> Nat]
  /\ Brief \subseteq Task
  /\ Ancestors \in [Job -> SUBSET Job]
  /\ Root \in [Job -> Job]
  /\ Chain \subseteq Job
  /\ Earlier \in [Job -> SUBSET Chain]
  /\ ProcOf \in [Worker -> Proc]
  /\ Crashable \subseteq Proc
ASSUME DepsAssumption ==
  \A t \in Task : \A d \in Deps[t] : JobOf[d] = JobOf[t] /\ d # t
ASSUME TreeAssumption ==
  \A j \in Job : /\ Root[Root[j]] = Root[j]
                 /\ Root[j] \in Ancestors[j] \cup {j}
                 /\ j \notin Ancestors[j]
                 /\ \A a \in Ancestors[j] : /\ Root[a] = Root[j]
                                            /\ Ancestors[a] \subseteq Ancestors[j]
ASSUME ChainAssumption ==
  \A j \in Chain : Ancestors[j] = {} /\ j \notin Earlier[j]
ASSUME BoundAssumption ==
  /\ LeaseSecs \in Nat \ {0}
  /\ StaleSecs \in Nat
  /\ Window \in Nat
  /\ MaxRecoveries \in Nat \ {0}
  /\ StopBatchSize \in Nat \ {0}

VARIABLES
  \* table task
  state, lease_owner, lease_epoch, lease_left, attempts, recoveries,
  \* tables attempt, stage_output, tx_receipt (commit receipts)
  attempt, stage_output, receipts,
  \* table job and the job_retirement markers
  job_state, cancel_requested, stopped, job_age, retired,
  \* table process; alive is the operating system's view
  beat_age, alive,
  \* the executors' memory, and the stop_job calls in progress
  held, held_epoch, phase, stopping

taskVars == <<state, lease_owner, lease_epoch, lease_left, attempts, recoveries>>
outVars == <<stage_output, receipts>>
jobVars == <<job_state, cancel_requested, stopped, job_age, retired>>
procVars == <<beat_age, alive>>
workVars == <<held, held_epoch, phase>>
vars == <<taskVars, attempt, outVars, jobVars, procVars, workVars, stopping>>

TaskState == {"absent", "queued", "running", "completed", "failed", "cancelled"}
JobState == {"absent", "running", "completed", "failed", "cancelled", "superseded"}
Attempt == [task : Task, number : Nat, epoch : Nat, status : {"open", "closed"}]

TypeOK ==
  /\ state \in [Task -> TaskState]
  /\ lease_owner \in [Task -> Proc \cup {NoOwner}]
  /\ lease_epoch \in [Task -> Nat]
  /\ lease_left \in [Task -> 0..LeaseSecs]
  /\ attempts \in [Task -> Nat]
  /\ recoveries \in [Task -> Nat]
  /\ attempt \subseteq Attempt
  /\ stage_output \in [Task -> Nat]
  /\ receipts \subseteq Task \X Nat
  /\ job_state \in [Job -> JobState]
  /\ cancel_requested \in [Job -> BOOLEAN]
  /\ stopped \in [Job -> BOOLEAN]
  /\ job_age \in [Job -> 0..(Window + 1)]
  /\ retired \in SUBSET Job
  /\ beat_age \in [Proc -> 0..(StaleSecs + 1)]
  /\ alive \in SUBSET Proc
  /\ held \in [Worker -> Task \cup {NoTask}]
  /\ held_epoch \in [Worker -> Nat]
  /\ phase \in [Worker -> {"idle", "working", "settling"}]
  /\ stopping \in SUBSET Job

-----------------------------------------------------------------------------
TasksOf(j) == {t \in Task : JobOf[t] = j}
RootOf(t) == Root[JobOf[t]]
Descendants(j) == {d \in Job : j \in Ancestors[d]}
Roots == {r \in Job : Root[r] = r}

\* job.cancel_requested OR array::any(job.ancestors.cancel_requested)
Cancelled(t) ==
  \E j \in {JobOf[t]} \cup Ancestors[JobOf[t]] : cancel_requested[j]

\* A process row counts as live when heartbeat_at >= now - PROCESS_STALE_SECS;
\* a row that was never written or was deleted has age StaleSecs + 1.
FreshProcs == {p \in Proc : beat_age[p] <= StaleSecs}

\* Faulty Eligible: the cancel flags of the ancestors are not read.
EligibleOwnCancel(t) ==
  /\ job_age[JobOf[t]] <= Window
  /\ ~ cancel_requested[JobOf[t]]
  /\ RootOf(t) \notin retired
  /\ \A d \in Deps[t] : state[d] = "completed"

\* Faulty Eligible: a dependency that still waits does not count.
EligibleWaitingDeps(t) ==
  /\ job_age[JobOf[t]] <= Window
  /\ ~ Cancelled(t)
  /\ RootOf(t) \notin retired
  /\ \A d \in Deps[t] : state[d] \in {"queued", "completed"}

\* Faulty Eligible: the retirement markers are not read.
EligibleRetired(t) ==
  /\ job_age[JobOf[t]] <= Window
  /\ ~ Cancelled(t)
  /\ \A d \in Deps[t] : state[d] = "completed"

\* Candidate::eligible
Eligible(t) ==
  /\ job_age[JobOf[t]] <= Window
  /\ ~ Cancelled(t)
  /\ RootOf(t) \notin retired
  /\ \A d \in Deps[t] : state[d] = "completed"

\* A dependent brief stage runs alone in its job; independent ones together.
StageBusy(t) ==
  /\ t \in Brief
  /\ \E u \in TasksOf(JobOf[t]) :
       u # t /\ state[u] = "running" /\ (Deps[t] # {} \/ Deps[u] # {})

Claimable(t) == state[t] = "queued" /\ Eligible(t) /\ ~ StageBusy(t)

\* Faulty Holds: the slots of a process share the owner, and no epoch is compared.
HoldsOwnerOnly(w) ==
  LET t == held[w] IN
  /\ state[t] = "running"
  /\ lease_owner[t] = ProcOf[w]
  /\ lease_left[t] > 0

\* fence and holds: what the worker's claim must still match in the task row.
Holds(w) ==
  LET t == held[w] IN
  /\ state[t] = "running"
  /\ lease_owner[t] = ProcOf[w]
  /\ lease_epoch[t] = held_epoch[w]
  /\ lease_left[t] > 0

\* Faulty CloseAttempts: the rows of the lost epoch stay open.
CloseNoAttempts(S) == attempt

\* Faulty CloseAttempts: the outcome is written to the status.
CloseWithOutcome(S) ==
  {IF <<a.task, a.epoch>> \in S THEN [a EXCEPT !.status = "lease_expired"] ELSE a :
     a \in attempt}

\* The attempt rows once the open rows of every <<task, epoch>> in S are closed.
CloseAttempts(S) ==
  {IF <<a.task, a.epoch>> \in S THEN [a EXCEPT !.status = "closed"] ELSE a :
     a \in attempt}

\* Faulty SettledState: only queued tasks keep the job open.
SettledBesideRunning(st, j) ==
  LET rows == {t \in TasksOf(j) : st[t] # "absent"} IN
  IF rows = {} \/ (\E t \in rows : st[t] = "queued") \/ job_state[j] # "running"
  THEN job_state[j]
  ELSE IF \E t \in rows : st[t] = "failed" THEN "failed" ELSE "completed"

\* settle_finished_job_in: the job's row once its tasks are in states st.
SettledState(st, j) ==
  LET rows == {t \in TasksOf(j) : st[t] # "absent"} IN
  IF \/ rows = {}
     \/ \E t \in rows : st[t] \in {"queued", "running"}
     \/ job_state[j] # "running"
  THEN job_state[j]
  ELSE IF \E t \in rows : st[t] = "failed" THEN "failed" ELSE "completed"

\* One pass of settle_blocked_job: cancel the queued tasks of j whose
\* dependencies have all ended, one of them badly.
BlockedPass(st, j) ==
  [t \in Task |->
     IF /\ JobOf[t] = j /\ st[t] = "queued" /\ Deps[t] # {}
        /\ \A d \in Deps[t] : st[d] \in {"completed", "failed", "cancelled"}
        /\ \E d \in Deps[t] : st[d] \in {"failed", "cancelled"}
     THEN "cancelled" ELSE st[t]]

BlockedPasses(st, j) ==
  BlockedPass(BlockedPass(BlockedPass(BlockedPass(st, j), j), j), j)

-----------------------------------------------------------------------------
Init ==
  /\ state = [t \in Task |-> "absent"]
  /\ lease_owner = [t \in Task |-> NoOwner]
  /\ lease_epoch = [t \in Task |-> 0]
  /\ lease_left = [t \in Task |-> 0]
  /\ attempts = [t \in Task |-> 0]
  /\ recoveries = [t \in Task |-> 0]
  /\ attempt = {}
  /\ stage_output = [t \in Task |-> 0]
  /\ receipts = {}
  /\ job_state = [j \in Job |-> "absent"]
  /\ cancel_requested = [j \in Job |-> FALSE]
  /\ stopped = [j \in Job |-> FALSE]
  /\ job_age = [j \in Job |-> 0]
  /\ retired = {}
  /\ beat_age = [p \in Proc |-> StaleSecs + 1]
  /\ alive = Proc
  /\ held = [w \in Worker |-> NoTask]
  /\ held_epoch = [w \in Worker |-> 0]
  /\ phase = [w \in Worker |-> "idle"]
  /\ stopping = {}

\* One unit of time passes for every timer.
Tick ==
  /\ lease_left' = [t \in Task |-> IF lease_left[t] > 0 THEN lease_left[t] - 1 ELSE 0]
  /\ beat_age' = [p \in Proc |->
       IF beat_age[p] <= StaleSecs THEN beat_age[p] + 1 ELSE beat_age[p]]
  /\ job_age' = [j \in Job |->
       IF job_state[j] # "absent" /\ job_age[j] <= Window
       THEN job_age[j] + 1 ELSE job_age[j]]
  /\ UNCHANGED <<state, lease_owner, lease_epoch, attempts, recoveries, attempt,
                 outVars, job_state, cancel_requested, stopped, retired, alive,
                 workVars, stopping>>

\* create_job_in's checks: the id is free and a child's parents exist.  No
\* retirement marker is read, so a caller that derives its ids from what the
\* job is about creates the rows of a purged tree anew.
Insertable(j) ==
  /\ job_state[j] = "absent"
  /\ \A a \in Ancestors[j] : job_state[a] # "absent"

\* create_job: the job and its tasks in one transaction.  Nothing looks
\* at the parents' cancel flags.
CreateJob(j) ==
  /\ j \notin Chain
  /\ Insertable(j)
  /\ job_state' = [job_state EXCEPT ![j] = "running"]
  /\ state' = [t \in Task |-> IF JobOf[t] = j THEN "queued" ELSE state[t]]
  /\ UNCHANGED <<lease_owner, lease_epoch, lease_left, attempts, recoveries,
                 attempt, outVars, cancel_requested, stopped, job_age, retired,
                 procVars, workVars, stopping>>

\* The guard's counter has handed the generation j out: it survives the purge.
Made(j) == job_state[j] # "absent" \/ j \in retired

\* ensure_chain where it does not attach: the next generation of a brief, which
\* supersedes the one before if that is still active.  The tasks of the old
\* generation move to a new epoch, but their attempt rows are not closed.
EnsureChain(j) ==
  LET old == {i \in Earlier[j] : job_state[i] = "running"}
      hit(t) == JobOf[t] \in old /\ state[t] \in {"queued", "running"}
  IN
  /\ j \in Chain
  /\ ~ Made(j)
  /\ \A i \in Earlier[j] : Made(i)
  /\ state' = [t \in Task |-> IF JobOf[t] = j THEN "queued"
                               ELSE IF hit(t) THEN "cancelled" ELSE state[t]]
  /\ lease_epoch' = [t \in Task |->
       IF hit(t) THEN lease_epoch[t] + 1 ELSE lease_epoch[t]]
  /\ lease_owner' = [t \in Task |-> IF hit(t) THEN NoOwner ELSE lease_owner[t]]
  /\ lease_left' = [t \in Task |-> IF hit(t) THEN 0 ELSE lease_left[t]]
  /\ job_state' = [i \in Job |-> IF i = j THEN "running"
                                 ELSE IF i \in old THEN "superseded" ELSE job_state[i]]
  /\ cancel_requested' = [i \in Job |-> cancel_requested[i] \/ i \in old]
  /\ UNCHANGED <<attempts, recoveries, attempt, outVars, stopped, job_age, retired,
                 procVars, workVars, stopping>>

\* Faulty AttemptNumber: the attempt is numbered by the lease epoch.
AttemptNumberByEpoch(t) == lease_epoch[t] + 1

\* The number of the attempt row a claim creates: task.attempts after += 1.
AttemptNumber(t) == attempts[t] + 1

\* The writes of claim_in on the chosen candidate, for executor w.
ClaimRow(w, t) ==
  LET number == AttemptNumber(t)
      epoch == lease_epoch[t] + 1
  IN
  /\ \A a \in attempt : a.task = t => a.number # number
  /\ state' = [state EXCEPT ![t] = "running"]
  /\ lease_owner' = [lease_owner EXCEPT ![t] = ProcOf[w]]
  /\ lease_epoch' = [lease_epoch EXCEPT ![t] = epoch]
  /\ lease_left' = [lease_left EXCEPT ![t] = LeaseSecs]
  /\ attempts' = [attempts EXCEPT ![t] = attempts[t] + 1]
  /\ attempt' = attempt \cup
       {[task |-> t, number |-> number, epoch |-> epoch, status |-> "open"]}
  /\ held' = [held EXCEPT ![w] = t]
  /\ held_epoch' = [held_epoch EXCEPT ![w] = epoch]
  /\ phase' = [phase EXCEPT ![w] = "working"]
  /\ UNCHANGED <<recoveries, outVars, jobVars, procVars, stopping>>

\* claim_next on the pool of t.  Among the best-priority eligible rows the
\* rotation by slot may start anywhere; a lower priority is reached only when
\* every better row is blocked by a running stage of its job.
ClaimNext(w, t) ==
  /\ ProcOf[w] \in alive
  /\ phase[w] = "idle"
  /\ Claimable(t)
  /\ \A u \in Task : Claimable(u) /\ (u \in Brief <=> t \in Brief)
                       => Priority[t] <= Priority[u]
  /\ ClaimRow(w, t)

\* claim_task: one specific task outside the brief pool, whatever its priority.
ClaimTask(w, t) ==
  /\ ProcOf[w] \in alive
  /\ phase[w] = "idle"
  /\ t \notin Brief
  /\ Claimable(t)
  /\ ClaimRow(w, t)

Drop(w) ==
  /\ held' = [held EXCEPT ![w] = NoTask]
  /\ held_epoch' = [held_epoch EXCEPT ![w] = 0]
  /\ phase' = [phase EXCEPT ![w] = "idle"]

\* renew_lease by the heartbeat of w.  It checks owner, epoch and state but not
\* that the lease is still live, so a late renewal revives an unreaped lease.
Renew(w) ==
  LET t == held[w] IN
  /\ phase[w] = "working"
  /\ state[t] = "running"
  /\ lease_owner[t] = ProcOf[w]
  /\ lease_epoch[t] = held_epoch[w]
  /\ lease_left' = [lease_left EXCEPT ![t] = LeaseSecs]
  /\ UNCHANGED <<state, lease_owner, lease_epoch, attempts, recoveries, attempt,
                 outVars, jobVars, procVars, workVars, stopping>>

\* The executor stops as Stale and writes nothing: its heartbeat found the lease
\* gone, or its drain was cancelled while the lease is live.  The row stays.
GiveUp(w) ==
  /\ phase[w] = "working"
  /\ Drop(w)
  /\ UNCHANGED <<taskVars, attempt, outVars, jobVars, procVars, stopping>>

\* Faulty Exhausted: one recovery too many.
ExhaustedLate(t) == recoveries[t] + 1 > MaxRecoveries

\* The recovery that fails the task instead of requeueing it.
Exhausted(t) == recoveries[t] + 1 >= MaxRecoveries

\* requeue_running_in on every task of S.
RequeueRunning(S) ==
  /\ state' = [t \in Task |->
       IF t \in S
       THEN IF Exhausted(t) THEN "failed" ELSE "queued"
       ELSE state[t]]
  /\ lease_epoch' = [t \in Task |->
       IF t \in S THEN lease_epoch[t] + 1 ELSE lease_epoch[t]]
  /\ recoveries' = [t \in Task |->
       IF t \in S THEN recoveries[t] + 1 ELSE recoveries[t]]
  /\ lease_owner' = [t \in Task |-> IF t \in S THEN NoOwner ELSE lease_owner[t]]
  /\ lease_left' = [t \in Task |-> IF t \in S THEN 0 ELSE lease_left[t]]
  /\ attempt' = CloseAttempts({<<t, lease_epoch[t]>> : t \in S})
  /\ UNCHANGED attempts

\* Faulty ReapExpired: an expired lease of a process that still beats is left.
ReapExpiredOfDead ==
  LET expired == {t \in Task : /\ state[t] = "running" /\ lease_left[t] = 0
                               /\ lease_owner[t] \notin FreshProcs}
  IN
  /\ expired # {}
  /\ RequeueRunning(expired)
  /\ UNCHANGED <<outVars, jobVars, procVars, workVars, stopping>>

\* interrupt_expired_leases: every claim call of the brief pool starts with it.
ReapExpired ==
  LET expired == {t \in Task : state[t] = "running" /\ lease_left[t] = 0} IN
  /\ expired # {}
  /\ RequeueRunning(expired)
  /\ UNCHANGED <<outVars, jobVars, procVars, workVars, stopping>>

\* processes::beat
Beat(p) ==
  /\ p \in alive
  /\ beat_age[p] # 0
  /\ beat_age' = [beat_age EXCEPT ![p] = 0]
  /\ UNCHANGED <<taskVars, attempt, outVars, jobVars, alive, workVars, stopping>>

\* processes::recover_orphans by process p, skipped while its own beat is stale.
RecoverOrphans(p) ==
  LET orphans == {t \in Task : /\ state[t] = "running"
                               /\ lease_owner[t] \notin FreshProcs}
  IN
  /\ p \in alive \cap FreshProcs
  /\ orphans # {}
  /\ RequeueRunning(orphans)
  /\ UNCHANGED <<outVars, jobVars, procVars, workVars, stopping>>

\* The process exits; its executors' memory goes with it, the rows stay.
Crash(p) ==
  /\ p \in alive \cap Crashable
  /\ alive' = alive \ {p}
  /\ held' = [w \in Worker |-> IF ProcOf[w] = p THEN NoTask ELSE held[w]]
  /\ held_epoch' = [w \in Worker |-> IF ProcOf[w] = p THEN 0 ELSE held_epoch[w]]
  /\ phase' = [w \in Worker |-> IF ProcOf[w] = p THEN "idle" ELSE phase[w]]
  /\ UNCHANGED <<taskVars, attempt, outVars, jobVars, beat_age, stopping>>

\* commit_stage by w under its fence: output, completion, receipt and the
\* job's settlement in one transaction.  When the answer is lost (~ replied)
\* the executor still believes it holds the task and may call again.
CommitStage(w, replied) ==
  LET t == held[w]
      j == JobOf[t]
      st == [state EXCEPT ![t] = "completed"]
  IN
  /\ phase[w] = "working"
  /\ <<t, held_epoch[w]>> \notin receipts
  /\ Holds(w)
  /\ ~ Cancelled(t)
  /\ stage_output' = [stage_output EXCEPT ![t] = held_epoch[w]]
  /\ receipts' = receipts \cup {<<t, held_epoch[w]>>}
  /\ state' = st
  /\ lease_owner' = [lease_owner EXCEPT ![t] = NoOwner]
  /\ lease_left' = [lease_left EXCEPT ![t] = 0]
  /\ attempt' = CloseAttempts({<<t, held_epoch[w]>>})
  /\ job_state' = [job_state EXCEPT ![j] = SettledState(st, j)]
  /\ IF replied THEN Drop(w) ELSE UNCHANGED workVars
  /\ UNCHANGED <<lease_epoch, attempts, recoveries, cancel_requested, stopped,
                 job_age, retired, procVars, stopping>>

\* The other answers of commit_stage: Committed replayed from the receipt,
\* LeaseLost, or Cancelled.  None of them writes, and the executor lets go.
CommitWithoutWrite(w) ==
  /\ phase[w] = "working"
  /\ \/ <<held[w], held_epoch[w]>> \in receipts
     \/ ~ Holds(w)
     \/ Cancelled(held[w])
  /\ Drop(w)
  /\ UNCHANGED <<taskVars, attempt, outVars, jobVars, procVars, stopping>>

\* brief_stages::fail, its fenced transaction.  It does not look at the cancel
\* flag.  The executor then owes the job a settle_blocked_job.
Fail(w) ==
  LET t == held[w] IN
  /\ phase[w] = "working"
  /\ Holds(w)
  /\ state' = [state EXCEPT ![t] = "failed"]
  /\ lease_owner' = [lease_owner EXCEPT ![t] = NoOwner]
  /\ lease_left' = [lease_left EXCEPT ![t] = 0]
  /\ attempt' = CloseAttempts({<<t, held_epoch[w]>>})
  /\ phase' = [phase EXCEPT ![w] = "settling"]
  /\ UNCHANGED <<lease_epoch, attempts, recoveries, outVars, jobVars, procVars,
                 held, held_epoch, stopping>>

\* settle_blocked_job, the second transaction of brief_stages::fail.
SettleBlocked(w) ==
  LET j == JobOf[held[w]]
      st == BlockedPasses(state, j)
  IN
  /\ phase[w] = "settling"
  /\ state' = st
  /\ job_state' = [job_state EXCEPT ![j] = SettledState(st, j)]
  /\ Drop(w)
  /\ UNCHANGED <<lease_owner, lease_epoch, lease_left, attempts, recoveries,
                 attempt, outVars, cancel_requested, stopped, job_age, retired,
                 procVars, stopping>>

\* settle_running_intel_briefs and the live view's settle_finished_job: the
\* readers of the job list heal a brief job whose tasks have all ended.
SettleFinished(j) ==
  /\ TasksOf(j) \subseteq Brief
  /\ job_state[j] = "running"
  /\ SettledState(state, j) # job_state[j]
  /\ job_state' = [job_state EXCEPT ![j] = SettledState(state, j)]
  /\ UNCHANGED <<taskVars, attempt, outVars, cancel_requested, stopped, job_age,
                 retired, procVars, workVars, stopping>>

-----------------------------------------------------------------------------
\* cancel_one_in on every job of S whose row still exists.
CancelJobs(S) ==
  LET live == {j \in S : job_state[j] # "absent"}
      hit(t) == JobOf[t] \in live /\ state[t] \in {"queued", "running"}
  IN
  /\ state' = [t \in Task |-> IF hit(t) THEN "cancelled" ELSE state[t]]
  /\ lease_epoch' = [t \in Task |->
       IF hit(t) THEN lease_epoch[t] + 1 ELSE lease_epoch[t]]
  /\ lease_owner' = [t \in Task |-> IF hit(t) THEN NoOwner ELSE lease_owner[t]]
  /\ lease_left' = [t \in Task |-> IF hit(t) THEN 0 ELSE lease_left[t]]
  /\ attempt' = {IF JobOf[a.task] \in live THEN [a EXCEPT !.status = "closed"] ELSE a :
                   a \in attempt}
  /\ job_state' = [j \in Job |->
       IF j \in live /\ job_state[j] = "running" THEN "cancelled" ELSE job_state[j]]
  /\ cancel_requested' = [j \in Job |-> cancel_requested[j] \/ j \in live]
  /\ stopped' = [j \in Job |-> stopped[j] \/ j \in live]
  /\ UNCHANGED <<attempts, recoveries>>

\* stop_job, first transaction: the cancel flag that claims and fences read.
StopRequest(j) ==
  /\ job_state[j] # "absent"
  /\ j \notin stopping
  /\ cancel_requested' = [cancel_requested EXCEPT ![j] = TRUE]
  /\ stopping' = stopping \cup {j}
  /\ UNCHANGED <<taskVars, attempt, outVars, job_state, stopped, job_age, retired,
                 procVars, workVars>>

\* Faulty Unstopped: only the children of j are looked at.
UnstoppedChildren(j) ==
  {d \in Job : Ancestors[d] = Ancestors[j] \cup {j} /\ job_state[d] # "absent" /\ ~ stopped[d]}

\* Descendants of j the stop loop has still to cancel (STOP_DESCENDANTS_SURQL).
Unstopped(j) == {d \in Descendants(j) : job_state[d] # "absent" /\ ~ stopped[d]}

\* stop_job, one batch of descendants.
StopBatch(j, S) ==
  /\ j \in stopping
  /\ S \subseteq Unstopped(j)
  /\ S # {}
  /\ \/ Cardinality(S) = StopBatchSize
     \/ S = Unstopped(j) /\ Cardinality(S) < StopBatchSize
  /\ CancelJobs(S)
  /\ UNCHANGED <<outVars, job_age, retired, procVars, workVars, stopping>>

\* stop_job, the last batch: the job itself, and the call returns done.
StopLast(j) ==
  /\ j \in stopping
  /\ Unstopped(j) = {}
  /\ CancelJobs({j})
  /\ stopping' = stopping \ {j}
  /\ UNCHANGED <<outVars, job_age, retired, procVars, workVars>>

\* The process running stop_job dies between two transactions.
StopAbandoned(j) ==
  /\ j \in stopping
  /\ stopping' = stopping \ {j}
  /\ UNCHANGED <<taskVars, attempt, outVars, jobVars, procVars, workVars>>

-----------------------------------------------------------------------------
\* tree_busy, whose active service jobs no tree of tasks has.
TreeBusy(r, protectActive) ==
  \/ \E t \in Task : RootOf(t) = r /\ state[t] = "running"
  \/ protectActive /\ \E j \in Job : Root[j] = r /\ job_state[j] = "running"

\* purge_tree_in on every root of S: the rows go (their fields read as those of
\* a row never written), a retirement marker stays, and so do the receipts.
PurgeTrees(S) ==
  LET gone(t) == RootOf(t) \in S IN
  /\ state' = [t \in Task |-> IF gone(t) THEN "absent" ELSE state[t]]
  /\ lease_owner' = [t \in Task |-> IF gone(t) THEN NoOwner ELSE lease_owner[t]]
  /\ lease_epoch' = [t \in Task |-> IF gone(t) THEN 0 ELSE lease_epoch[t]]
  /\ lease_left' = [t \in Task |-> IF gone(t) THEN 0 ELSE lease_left[t]]
  /\ attempts' = [t \in Task |-> IF gone(t) THEN 0 ELSE attempts[t]]
  /\ recoveries' = [t \in Task |-> IF gone(t) THEN 0 ELSE recoveries[t]]
  /\ attempt' = {a \in attempt : ~ gone(a.task)}
  /\ stage_output' = [t \in Task |-> IF gone(t) THEN 0 ELSE stage_output[t]]
  /\ job_state' = [j \in Job |-> IF Root[j] \in S THEN "absent" ELSE job_state[j]]
  /\ cancel_requested' = [j \in Job |-> Root[j] \notin S /\ cancel_requested[j]]
  /\ stopped' = [j \in Job |-> Root[j] \notin S /\ stopped[j]]
  /\ job_age' = [j \in Job |-> IF Root[j] \in S THEN 0 ELSE job_age[j]]
  /\ retired' = retired \cup S
  /\ UNCHANGED <<receipts, procVars, workVars, stopping>>

\* cleanup_batch: root trees older than the execution window, unless a task runs.
Cleanup ==
  LET old == {r \in Roots : /\ job_state[r] # "absent"
                            /\ job_age[r] > Window
                            /\ ~ TreeBusy(r, FALSE)}
  IN old # {} /\ PurgeTrees(old)

\* clear_jobs_by_status: history trees in the terminal state s.
ClearJobs(s) ==
  LET old == {r \in Roots : job_state[r] = s /\ ~ TreeBusy(r, TRUE)} IN
  /\ s \in JobState \ {"absent", "running"}
  /\ old # {}
  /\ PurgeTrees(old)

-----------------------------------------------------------------------------
WorkerStep(w) ==
  \/ \E t \in Task : ClaimNext(w, t) \/ ClaimTask(w, t)
  \/ Renew(w) \/ GiveUp(w)
  \/ \E replied \in BOOLEAN : CommitStage(w, replied)
  \/ CommitWithoutWrite(w)
  \/ Fail(w) \/ SettleBlocked(w)

ProcStep(p) == Beat(p) \/ RecoverOrphans(p) \/ Crash(p)

JobStep(j) ==
  \/ CreateJob(j) \/ EnsureChain(j) \/ SettleFinished(j)
  \/ StopRequest(j) \/ StopLast(j) \/ StopAbandoned(j)
  \/ \E S \in SUBSET Job : StopBatch(j, S)

Next ==
  \/ Tick \/ ReapExpired \/ Cleanup
  \/ \E s \in JobState : ClearJobs(s)
  \/ \E w \in Worker : WorkerStep(w)
  \/ \E p \in Proc : ProcStep(p)
  \/ \E j \in Job : JobStep(j)

Spec == Init /\ [][Next]_vars

\* Only what every process that runs the pools does for as long as it lives:
\* claims sweep expired leases, and an executor that is alive ends what it runs.
\* Nobody owes a claim, a beat, an orphan recovery, a stop, a creation, a clear,
\* a renewal or the retention sweep, which only the TUI runs.
Finish(w) ==
  \/ CommitStage(w, TRUE) \/ CommitWithoutWrite(w) \/ SettleBlocked(w)

Fairness ==
  /\ WF_vars(Tick) /\ WF_vars(ReapExpired)
  /\ \A w \in Worker : WF_vars(Finish(w))

FairSpec == Spec /\ Fairness

-----------------------------------------------------------------------------
\* Publication is exclusive: whatever was reaped, requeued and claimed again,
\* at most one executor passes the fence (holds) of a task.  Slots of one
\* process share the owner id, so only the epoch tells them apart.
OneFenceHolder ==
  \A v, w \in Worker :
    /\ phase[v] = "working" /\ phase[w] = "working"
    /\ held[v] = held[w]
    /\ Holds(v) /\ Holds(w)
    => v = w

\* A stage output belongs to the lease that completed the task: it exists
\* exactly for completed tasks and carries the epoch of the row (commit_stage),
\* so no late executor ever replaced it.
OutputOfLease ==
  \A t \in Task : IF state[t] = "completed"
                  THEN stage_output[t] = lease_epoch[t] /\ stage_output[t] > 0
                  ELSE stage_output[t] = 0

\* The attempt log follows the task row: a running task has an open attempt of
\* the row's epoch, and any other open attempt is one that ensure_chain left
\* behind in a superseded generation, of an epoch the row has passed (claim_in,
\* requeue_running_in, complete_in and cancel_one_in close what they end).
OpenAttempts ==
  \A t \in Task :
    LET open == {a \in attempt : a.task = t /\ a.status = "open"} IN
    /\ \A a \in open :
         \/ state[t] = "running" /\ a.epoch = lease_epoch[t]
         \/ job_state[JobOf[t]] = "superseded" /\ a.epoch < lease_epoch[t]
    /\ state[t] = "running" => \E a \in open : a.epoch = lease_epoch[t]

\* Within a brief chain attempt(task, number) is unique and the next claim's
\* number is unused, so no claim of a stage is refused by the unique index
\* attempt_task.  The retry of a summary or index task breaks it (SummaryFlush).
AttemptNumbers ==
  \A a \in attempt :
    /\ a.number <= attempts[a.task]
    /\ \A b \in attempt : a.task = b.task /\ a.number = b.number => a = b

\* A task that runs or has completed stands on completed dependencies, also
\* after recoveries, stops and purges (Candidate::eligible).
DepsCompleted ==
  \A t \in Task : state[t] \in {"running", "completed"}
                    => \A d \in Deps[t] : state[d] = "completed"

\* A job row tells the truth about its tasks: completed means all completed,
\* failed means something failed and nothing is left open
\* (settle_finished_job_in against every later task transition).
SettledJobs ==
  \A j \in Job :
    /\ job_state[j] = "completed" => \A t \in TasksOf(j) : state[t] = "completed"
    /\ job_state[j] = "failed" =>
         /\ \E t \in TasksOf(j) : state[t] = "failed"
         /\ \A t \in TasksOf(j) : state[t] \notin {"queued", "running"}

\* Once stop_job has finished with a root, nothing in its tree runs, though
\* descendants were cancelled in arbitrary batches, the call may have died and
\* been repeated, and children may have been created meanwhile.
StoppedTreeQuiet ==
  \A r \in Roots : stopped[r] =>
    \A t \in Task : RootOf(t) = r => state[t] # "running"

\* A retired tree stays without effect, though its rows may be created anew with
\* epochs that start over, beside executors that still hold claims of its former
\* rows: no task of it runs, completes or has an output (purge_tree_in's marker,
\* read by Candidate::eligible).
RetiredInert ==
  \A t \in Task : RootOf(t) \in retired =>
    state[t] \notin {"running", "completed"} /\ stage_output[t] = 0

\* Lost workers of a brief chain are tolerated a bounded number of times: the
\* recovery that reaches MAX_WORKER_RECOVERIES fails the stage, and it is never
\* run again.  (retry_failed_tasks requeues summary and index tasks only.)
RecoveryBound ==
  \A t \in Task : /\ recoveries[t] <= MaxRecoveries
                  /\ recoveries[t] = MaxRecoveries => state[t] \in {"failed", "absent"}

\* A cancelled subtree starts and publishes nothing more, from the first
\* transaction of stop_job on.
CancelIsFinal ==
  [][\A t \in Task : Cancelled(t) =>
       /\ state'[t] = "running" => state[t] = "running"
       /\ stage_output'[t] # 0 => stage_output'[t] = stage_output[t]]_vars

\* No task is run for ever, neither in one lease nor in one lease after another:
\* executors may die, stall, give up with a live lease or be stopped, trees may be
\* created, purged and created again, and still every task is at some point no
\* longer running and never run again.
NoneRunsForever == \A t \in Task : <>[](state[t] # "running")

\* What brief_stages::fail says of a failed stage: the stages that cannot start
\* any more are closed, and the job with them, instead of leaving the chain
\* running.  Stated once every executor has finished its part.
NoStrandedChain ==
  \A j \in Job :
    /\ \E t \in TasksOf(j) : state[t] = "failed" /\ ~ Cancelled(t)
    /\ \A t \in TasksOf(j) : state[t] # "running" /\ ~ Claimable(t)
    /\ job_age[j] <= Window
    /\ \A w \in Worker : phase[w] = "idle"
    => job_state[j] # "running"
=============================================================================
