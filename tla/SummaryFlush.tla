---------------------------- MODULE SummaryFlush ----------------------------
(***************************************************************************)
(* The summary pool: storage/summary_flush.rs and                          *)
(* storage/neighborhood_brief.rs, with the two retry operations            *)
(* (neighborhood_brief::retry and jobs_view::retry_failed_tasks).          *)
(*                                                                         *)
(* A summary request is identified by its cache key, and the job and task  *)
(* ids are made from that key, so a key names one job of one task.  The    *)
(* claim, fence, reaper, stop and retention transactions are those of      *)
(* JobStore for such a job.  Results are numbers: 0 is none, Fallback is a *)
(* deterministic summary and e > 0 is a model result computed under the    *)
(* lease with epoch e.                                                     *)
(***************************************************************************)
EXTENDS Integers

CONSTANTS
  Key,        \* cache keys
  Topology,   \* the keys of topology_neighborhood requests
  Drainer,    \* elected workers; an old one may still run after a new election
  Caller,     \* threads that publish summaries
  NoKey,
  LeaseSecs, Window, MaxRecoveries,
  MaxEpoch,   \* bound of the state space: claims stop once an epoch reaches it
  MaxRetries  \* bound of the state space: retries a user asks for

ASSUME KeyAssumption == NoKey \notin Key /\ Topology \subseteq Key
ASSUME FlushBounds ==
  /\ LeaseSecs \in Nat \ {0} /\ Window \in Nat /\ MaxRecoveries \in Nat \ {0}
  /\ MaxEpoch \in Nat /\ MaxRetries \in Nat

VARIABLES
  \* the task row of a key
  state, lease_owner, lease_epoch, lease_left, attempts, recoveries, output_hash,
  used,               \* numbers of the key's attempt rows
  \* its job row, and the retirement markers
  cancel_requested, job_age, retired,
  \* derived_summary rows under the exact and the local key
  exact, local,
  \* the drainers and the publish calls
  held, held_epoch, phase, lost, tag, publishing,
  retries

rowVars == <<state, lease_owner, lease_epoch, lease_left, attempts, recoveries,
             output_hash, used, cancel_requested, job_age, retired>>
cacheVars == <<exact, local>>
drainVars == <<held, held_epoch, phase, lost, tag>>
vars == <<rowVars, cacheVars, drainVars, publishing, retries>>

NoOwner == NoKey
Fallback == -1
\* output_hash tags: what the drainer says it delivered.
Tag == {"", "generated", "already_upgraded", "fallback", "failure"}

TypeOK ==
  /\ state \in [Key -> {"absent", "queued", "running", "completed", "failed", "cancelled"}]
  /\ lease_owner \in [Key -> Drainer \cup {NoOwner}]
  /\ lease_epoch \in [Key -> 0..(MaxEpoch + 1)]
  /\ lease_left \in [Key -> 0..LeaseSecs]
  /\ attempts \in [Key -> Nat]
  /\ recoveries \in [Key -> Nat]
  /\ output_hash \in [Key -> Tag]
  /\ used \in [Key -> SUBSET Nat]
  /\ cancel_requested \in [Key -> BOOLEAN]
  /\ job_age \in [Key -> 0..(Window + 1)]
  /\ retired \subseteq Key
  /\ exact \in [Key -> Int]
  /\ local \subseteq Key
  /\ held \in [Drainer -> Key \cup {NoKey}]
  /\ held_epoch \in [Drainer -> Nat]
  /\ phase \in [Drainer -> {"idle", "claimed", "running", "ending"}]
  /\ lost \in [Drainer -> BOOLEAN]
  /\ tag \in [Drainer -> Tag]
  /\ publishing \in [Caller -> Key \cup {NoKey}]
  /\ retries \in 0..MaxRetries
  /\ \A d \in Drainer : phase[d] = "idle" => held[d] = NoKey /\ ~ lost[d] /\ tag[d] = ""

-----------------------------------------------------------------------------
Eligible(k) ==
  /\ job_age[k] <= Window
  /\ ~ cancel_requested[k]
  /\ k \notin retired

\* Faulty Holds: the late drainer's epoch is not compared.
HoldsAnyEpoch(d) == state[held[d]] = "running" /\ lease_left[held[d]] > 0

\* jobs::fence and jobs::holds; neither end nor finish looks at the cancel flag.
Holds(d) ==
  LET k == held[d] IN
  /\ state[k] = "running"
  /\ lease_owner[k] = d
  /\ lease_epoch[k] = held_epoch[d]
  /\ lease_left[k] > 0

\* Faulty Put: the last writer wins, whatever it writes.
PutAlways(k, r) == [exact EXCEPT ![k] = r]

\* cache_put: a fallback never replaces a model result.
Put(k, r) == IF exact[k] > 0 /\ r = Fallback THEN exact ELSE [exact EXCEPT ![k] = r]

Init ==
  /\ state = [k \in Key |-> "absent"]
  /\ lease_owner = [k \in Key |-> NoOwner]
  /\ lease_epoch = [k \in Key |-> 0]
  /\ lease_left = [k \in Key |-> 0]
  /\ attempts = [k \in Key |-> 0]
  /\ recoveries = [k \in Key |-> 0]
  /\ output_hash = [k \in Key |-> ""]
  /\ used = [k \in Key |-> {}]
  /\ cancel_requested = [k \in Key |-> FALSE]
  /\ job_age = [k \in Key |-> 0]
  /\ retired = {}
  /\ exact = [k \in Key |-> 0]
  /\ local = {}
  /\ held = [d \in Drainer |-> NoKey]
  /\ held_epoch = [d \in Drainer |-> 0]
  /\ phase = [d \in Drainer |-> "idle"]
  /\ lost = [d \in Drainer |-> FALSE]
  /\ tag = [d \in Drainer |-> ""]
  /\ publishing = [c \in Caller |-> NoKey]
  /\ retries = 0

Tick ==
  /\ lease_left' = [k \in Key |-> IF lease_left[k] > 0 THEN lease_left[k] - 1 ELSE 0]
  /\ job_age' = [k \in Key |->
       IF state[k] # "absent" /\ job_age[k] <= Window THEN job_age[k] + 1 ELSE job_age[k]]
  /\ UNCHANGED <<state, lease_owner, lease_epoch, attempts, recoveries, output_hash,
                 used, cancel_requested, retired, cacheVars, drainVars, publishing,
                 retries>>

-----------------------------------------------------------------------------
\* publish up to its look at the task row: a model result answers at once,
\* otherwise the local summary and the request are stored.
Publish(c, k) ==
  /\ publishing[c] = NoKey
  /\ exact[k] <= 0
  /\ local' = local \cup {k}
  /\ publishing' = IF state[k] = "absent" THEN [publishing EXCEPT ![c] = k] ELSE publishing
  /\ UNCHANGED <<rowVars, exact, drainVars, retries>>

\* publish found no task: create_job.  When another caller was faster the
\* creation fails on the existing id and the call is content with its task.
PublishCreate(c) ==
  LET k == publishing[c] IN
  /\ k # NoKey
  /\ state' = IF state[k] = "absent" THEN [state EXCEPT ![k] = "queued"] ELSE state
  /\ publishing' = [publishing EXCEPT ![c] = NoKey]
  /\ UNCHANGED <<lease_owner, lease_epoch, lease_left, attempts, recoveries,
                 output_hash, used, cancel_requested, job_age, retired, cacheVars,
                 drainVars, retries>>

-----------------------------------------------------------------------------
\* jobs::claim_next on the summary pool.  The unique index attempt_task makes the
\* whole claim fail when the attempt number exists already.
Claim(d, k) ==
  /\ phase[d] = "idle"
  /\ state[k] = "queued"
  /\ Eligible(k)
  /\ lease_epoch[k] < MaxEpoch
  /\ attempts[k] + 1 \notin used[k]
  /\ state' = [state EXCEPT ![k] = "running"]
  /\ lease_owner' = [lease_owner EXCEPT ![k] = d]
  /\ lease_epoch' = [lease_epoch EXCEPT ![k] = lease_epoch[k] + 1]
  /\ lease_left' = [lease_left EXCEPT ![k] = LeaseSecs]
  /\ attempts' = [attempts EXCEPT ![k] = attempts[k] + 1]
  /\ used' = [used EXCEPT ![k] = used[k] \cup {attempts[k] + 1}]
  /\ held' = [held EXCEPT ![d] = k]
  /\ held_epoch' = [held_epoch EXCEPT ![d] = lease_epoch[k] + 1]
  /\ phase' = [phase EXCEPT ![d] = "claimed"]
  /\ UNCHANGED <<recoveries, output_hash, cancel_requested, job_age, retired,
                 cacheVars, lost, tag, publishing, retries>>

\* The drainer d goes to phase p with tag s.
Goto(d, p, s) ==
  /\ phase' = [phase EXCEPT ![d] = p]
  /\ tag' = [tag EXCEPT ![d] = s]
  /\ UNCHANGED <<held, held_epoch, lost>>

\* Faulty LetGo: the flag of the old heartbeat meets the next claim.
LetGoKeepsLost(d) ==
  /\ held' = [held EXCEPT ![d] = NoKey]
  /\ held_epoch' = [held_epoch EXCEPT ![d] = 0]
  /\ phase' = [phase EXCEPT ![d] = "idle"]
  /\ tag' = [tag EXCEPT ![d] = ""]
  /\ UNCHANGED lost

\* The drainer d lets its claim go.
LetGo(d) ==
  /\ held' = [held EXCEPT ![d] = NoKey]
  /\ held_epoch' = [held_epoch EXCEPT ![d] = 0]
  /\ phase' = [phase EXCEPT ![d] = "idle"]
  /\ lost' = [lost EXCEPT ![d] = FALSE]
  /\ tag' = [tag EXCEPT ![d] = ""]

\* After the claim: the request cannot be read, a model result is cached
\* already, no secret is configured for a flush, or the model starts.  The
\* fallback tag stands for every answer that carries no model result.
Begin(d) ==
  /\ phase[d] = "claimed"
  /\ \/ Goto(d, "ending", "failure")
     \/ exact[held[d]] > 0 /\ Goto(d, "ending", "already_upgraded")
     \/ exact[held[d]] <= 0 /\ held[d] \notin Topology /\ Goto(d, "ending", "fallback")
     \/ exact[held[d]] <= 0 /\ Goto(d, "running", "")
  /\ UNCHANGED <<rowVars, cacheVars, publishing, retries>>

\* The heartbeat task of d.  It sets the lost flag once and stops, also when the
\* store only failed to answer.
Renew(d) ==
  LET k == held[d] IN
  /\ phase[d] = "running"
  /\ ~ lost[d]
  /\ \/ /\ state[k] = "running" /\ lease_owner[k] = d /\ lease_epoch[k] = held_epoch[d]
        /\ lease_left' = [lease_left EXCEPT ![k] = LeaseSecs]
        /\ UNCHANGED lost
     \/ lost' = [lost EXCEPT ![d] = TRUE] /\ UNCHANGED lease_left
  /\ UNCHANGED <<state, lease_owner, lease_epoch, attempts, recoveries, output_hash,
                 used, cancel_requested, job_age, retired, cacheVars, held, held_epoch,
                 phase, tag, publishing, retries>>

\* complete_summary returns a model result or a fallback, and upgrade writes it
\* to the cache at once: no fence protects this write.  The write may fail.
Upgrade(d, model) ==
  LET k == held[d] IN
  /\ phase[d] = "running"
  /\ k \notin Topology
  /\ \/ /\ exact' = Put(k, IF model THEN held_epoch[d] ELSE Fallback)
        /\ Goto(d, "ending", IF model THEN "generated" ELSE "fallback")
     \/ UNCHANGED exact /\ Goto(d, "ending", "failure")
  /\ UNCHANGED <<rowVars, local, publishing, retries>>

\* generate returns for a topology request; its result waits for finish.
Generate(d, model) ==
  /\ phase[d] = "running"
  /\ held[d] \in Topology
  /\ Goto(d, "ending", IF model THEN "generated" ELSE "fallback")
  /\ UNCHANGED <<rowVars, cacheVars, publishing, retries>>

\* The fenced end: end(failed), end(completed) for a flushed summary, or finish,
\* which stores the generated topology result in the same transaction.
End(d) ==
  LET k == held[d]
      failed == tag[d] = "failure"
  IN
  /\ phase[d] = "ending"
  /\ ~ lost[d]
  /\ Holds(d)
  /\ state' = [state EXCEPT ![k] = IF failed THEN "failed" ELSE "completed"]
  /\ output_hash' = IF failed THEN output_hash ELSE [output_hash EXCEPT ![k] = tag[d]]
  /\ lease_owner' = [lease_owner EXCEPT ![k] = NoOwner]
  /\ lease_left' = [lease_left EXCEPT ![k] = 0]
  /\ exact' = IF k \in Topology /\ tag[d] = "generated"
              THEN [exact EXCEPT ![k] = held_epoch[d]] ELSE exact
  /\ LetGo(d)
  /\ UNCHANGED <<lease_epoch, attempts, recoveries, used, cancel_requested, job_age,
                 retired, local, publishing, retries>>

\* The drainer gives up: its heartbeat or the fence says the lease is lost.
EndLost(d) ==
  /\ phase[d] = "ending"
  /\ lost[d] \/ ~ Holds(d)
  /\ LetGo(d)
  /\ UNCHANGED <<rowVars, cacheVars, publishing, retries>>

\* The drainer's process dies.
Crash(d) ==
  /\ phase[d] # "idle"
  /\ LetGo(d)
  /\ UNCHANGED <<rowVars, cacheVars, publishing, retries>>

-----------------------------------------------------------------------------
\* requeue_running_in: this recovery is the last one, the task fails.
Exhausted(k) == recoveries[k] + 1 >= MaxRecoveries

\* interrupt_expired_leases, run by the brief drainer of any process.
Reap(k) ==
  /\ state[k] = "running"
  /\ lease_left[k] = 0
  /\ state' = [state EXCEPT ![k] =
       IF Exhausted(k) THEN "failed" ELSE "queued"]
  /\ lease_epoch' = [lease_epoch EXCEPT ![k] = lease_epoch[k] + 1]
  /\ recoveries' = [recoveries EXCEPT ![k] = recoveries[k] + 1]
  /\ lease_owner' = [lease_owner EXCEPT ![k] = NoOwner]
  /\ UNCHANGED <<lease_left, attempts, output_hash, used, cancel_requested, job_age,
                 retired, cacheVars, drainVars, publishing, retries>>

\* stop_job on the key's job.
Stop(k) ==
  LET open == state[k] \in {"queued", "running"} IN
  /\ state[k] # "absent"
  /\ ~ cancel_requested[k]
  /\ cancel_requested' = [cancel_requested EXCEPT ![k] = TRUE]
  /\ state' = IF open THEN [state EXCEPT ![k] = "cancelled"] ELSE state
  /\ lease_epoch' = IF open THEN [lease_epoch EXCEPT ![k] = lease_epoch[k] + 1]
                    ELSE lease_epoch
  /\ lease_owner' = IF open THEN [lease_owner EXCEPT ![k] = NoOwner] ELSE lease_owner
  /\ lease_left' = IF open THEN [lease_left EXCEPT ![k] = 0] ELSE lease_left
  /\ lease_epoch[k] < MaxEpoch
  /\ UNCHANGED <<attempts, recoveries, output_hash, used, job_age, retired, cacheVars,
                 drainVars, publishing, retries>>

\* purge_tree_in: the tree leaves its marker behind, the cached results stay.
Purge(k) ==
  /\ state' = [state EXCEPT ![k] = "absent"]
  /\ lease_epoch' = [lease_epoch EXCEPT ![k] = 0]
  /\ attempts' = [attempts EXCEPT ![k] = 0]
  /\ recoveries' = [recoveries EXCEPT ![k] = 0]
  /\ output_hash' = [output_hash EXCEPT ![k] = ""]
  /\ used' = [used EXCEPT ![k] = {}]
  /\ cancel_requested' = [cancel_requested EXCEPT ![k] = FALSE]
  /\ job_age' = [job_age EXCEPT ![k] = 0]
  /\ retired' = retired \cup {k}
  /\ UNCHANGED <<lease_owner, lease_left, cacheVars, drainVars, publishing, retries>>

\* cleanup_batch: trees older than the window.
Cleanup(k) ==
  /\ state[k] \notin {"absent", "running"}
  /\ job_age[k] > Window
  /\ Purge(k)

\* clear_jobs_by_status: the user clears the stopped jobs.  No operation settles
\* a summary job, so its row is running until stop_job cancels it.
ClearStopped(k) ==
  /\ state[k] \notin {"absent", "running"}
  /\ cancel_requested[k]
  /\ Purge(k)

\* neighborhood_brief::retry: any finished task of a published request.
RetryTopology(k) ==
  /\ k \in Topology
  /\ retries < MaxRetries
  /\ state[k] \in {"completed", "failed", "cancelled"}
  /\ state' = [state EXCEPT ![k] = "queued"]
  /\ attempts' = [attempts EXCEPT ![k] = 0]
  /\ output_hash' = [output_hash EXCEPT ![k] = ""]
  /\ cancel_requested' = [cancel_requested EXCEPT ![k] = FALSE]
  /\ retries' = retries + 1
  /\ UNCHANGED <<lease_owner, lease_epoch, lease_left, recoveries, used, job_age,
                 retired, cacheVars, drainVars, publishing>>

\* jobs_view::retry_failed_tasks from the Jobs pane, for a job it still shows.
RetryFailed(k) ==
  /\ retries < MaxRetries
  /\ state[k] = "failed"
  /\ Eligible(k)
  /\ state' = [state EXCEPT ![k] = "queued"]
  /\ attempts' = [attempts EXCEPT ![k] = 0]
  /\ retries' = retries + 1
  /\ UNCHANGED <<lease_owner, lease_epoch, lease_left, recoveries, output_hash, used,
                 cancel_requested, job_age, retired, cacheVars, drainVars, publishing>>

DrainStep(d) ==
  \/ \E k \in Key : Claim(d, k)
  \/ Begin(d) \/ Renew(d)
  \/ \E model \in BOOLEAN : Upgrade(d, model) \/ Generate(d, model)
  \/ End(d) \/ EndLost(d) \/ Crash(d)

Next ==
  \/ Tick
  \/ \E c \in Caller : PublishCreate(c) \/ \E k \in Key : Publish(c, k)
  \/ \E d \in Drainer : DrainStep(d)
  \/ \E k \in Key : Reap(k) \/ Stop(k) \/ Cleanup(k) \/ ClearStopped(k)
                    \/ RetryTopology(k) \/ RetryFailed(k)

Spec == Init /\ [][Next]_vars

-----------------------------------------------------------------------------
\* A model result is never lost to a fallback, though a drainer whose lease was
\* reaped may write the flush cache after its successor (cache_put).
ModelSticks == [][\A k \in Key : exact[k] > 0 => exact'[k] > 0]_vars

\* A topology summary changes only together with the completion of its task, by
\* the drainer whose lease the row carries (neighborhood_brief::finish).
TopologyPublishFenced ==
  [][\A k \in Topology : exact'[k] # exact[k] =>
       /\ state[k] = "running" /\ state'[k] = "completed"
       /\ exact'[k] = lease_epoch[k]]_vars

\* A task that says it delivered a model result has one in the cache, also when
\* the drainer only saw it there before its own transaction, after retries,
\* purges and republications.
CompletedDelivered ==
  \A k \in Key : state[k] = "completed" /\ output_hash[k] \in {"generated", "already_upgraded"}
                   => exact[k] > 0

\* What neighborhood_brief::publish promises: it queues one upgrade, so what poll
\* reports as pending can be picked up while its job is young and not stopped.
PendingIsEligible ==
  \A k \in Key :
    state[k] = "queued" /\ job_age[k] <= Window /\ ~ cancel_requested[k] => Eligible(k)

\* What both retry operations promise: the requeued task can be claimed again.
RetryIsClaimable ==
  \A k \in Key : state[k] = "queued" => attempts[k] + 1 \notin used[k]
=============================================================================
