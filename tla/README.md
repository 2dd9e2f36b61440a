# Argos OSINT: a TLA+ verification of the storage core

Argos collects public sources, extracts claims from them and answers questions with
citations. Nearly all of its control lives in `crates/argos-osint-core/src/storage/`:
a durable job system on SurrealDB that several processes (a terminal interface, the
API host, one-shot commands) share, worker pools on top of it, and a memory store
whose vector index is kept up to date after the fact. This project models that
control. Paths below are relative to `src/crates/argos-osint-core/src/`.

## 1. Inventory

| Component | State | Operations | Hard because |
|---|---|---|---|
| Durable job store, `storage/jobs.rs` | tables `job`, `task`, `attempt`, `stage_output`, `tx_receipt`, `job_retirement`, guard records | create, claim, renew, commit, settle, stop in batches, reap, retain, clear | leases end while their owners live on; slots share an owner id; stop and purge walk trees that grow |
| Transactions, `storage/tx.rs` | snapshots, write sets | begin, commit, retry, give up | only writes are checked for conflicts, so two transactions that read each other's rows need a guard row |
| Process registry, `storage/processes.rs` | `process` heartbeats | beat, recover_orphans | a late beat looks like a death; two recoveries of one task |
| Brief stages, `storage/brief_stages.rs` | the lease in a slot's memory | claim, renew, run, commit, fail | one stage fails beside another; work after the lease is lost |
| Summary flush and neighborhood briefs, `storage/summary_flush.rs`, `storage/neighborhood_brief.rs` | the cache, one task per key | publish, poll, upgrade, retry | cache writes outside the fence; ids derived from the key outlive the rows |
| Memory publication, `storage/memory.rs`, `storage/outbox.rs`, `storage/publisher.rs` | memories, `index_change`, `index_work`, `memory_index_state` | write, retire, reactivate, delete, enqueue, acknowledge | the write commits first, the index follows, and several indexers exist |
| Index drain and vectors, `storage/index_drain.rs`, `storage/vectors.rs` | `memory_embeddings`, the serving generation | drain in groups, retry row by row, remove, reindex | state read before an embedding run is written after it |
| Scheduler, `scheduler.rs` | `scheduler_lease` | elect, one drainer thread per pool | the old drainer finishes its pass beside the new one |
| Brief chain, `storage/brief.rs`, `storage/brief_publish.rs` | generations, stage inputs, the published brief | ensure, supersede, publish_stage, merge | a replaced generation still runs; the writes after a stage's commit are outside its fence |
| Memory publisher, `storage/publisher.rs` | a bounded queue, a batch | publish, commit, split, shutdown | one bad write aborts a batch of others; a commit may have an unknown outcome |
| Provider admission and retry, `tasks.rs`, `provider_chain.rs` | slots, waiters, cooldowns, budgets | acquire, release, attempt, recover, switch route | interactive callers go first; callers vanish while they wait; every path must pay |
| Configuration commit, `config_commit.rs` | lockfile, journal, backups, three files | acquire, take over, land, roll back, recover | processes share only files; a death between any two file operations |
| Article refresh, insight extraction, actor identity, atlas, recon, investigation | tables of their own | pipelines around model calls | merging of text and verdicts |
| Home lock, server ownership | operating system locks | lock, spawn | child processes |
| TUI, CLI, API, web desktop, collectors, NLP | none that is shared | render, parse, fetch | input and output, not control |

Components call each other through the tables: a pool's drainer claims in `jobs.rs`,
works without a transaction, and ends its task in a transaction that re-reads the
lease (the fence). Nothing is locked across transactions. So the questions are what a
component may believe when it comes back to the database, and what is left when it
never does. `PROJECT.json` lists every component and every hazard with its line.

## 2. Modules

| Module | Models | State and actions |
|---|---|---|
| `JobStore` | `jobs.rs`, `processes.rs`, executor of `brief_stages.rs` | the tables and each executor's memory as variables; one action per transaction or worker step |
| `TaskLease` | what the job store promises its executors | rows, epochs, outputs, claims; proves its own safety |
| `JobStoreRefines` | the refinement mapping from `JobStore` to `TaskLease` | |
| `JobStoreProofs` | theorems about `JobStore` | |
| `GuardedTx` | `run_tx` and the job transactions as functions of a snapshot | database, open transactions, conflicts and retries |
| `GuardedTxProofs` | theorems about `GuardedTx` | |
| `SummaryFlush` | `summary_flush.rs`, `neighborhood_brief.rs`, retries of `jobs_view.rs` | one task row per cache key, the two caches, drainers |
| `SummaryFlushProofs` | theorems about `SummaryFlush` | |
| `MemoryIndex` | `memory.rs`, `outbox.rs`, `index_drain.rs`, `vectors.rs`, the fence of `recall.rs` | memory rows, recorded revisions, vectors, outbox, lock per work key, indexers |
| `Recall` | what semantic recall promises | per memory: the text it has, the text recall returns, whether work is owed or was given up |
| `MemoryRefines` | the refinement mapping from `MemoryIndex` to `Recall` | |
| `MemoryIndexProofs` | theorems about `MemoryIndex` and `Recall` | |
| `BriefPublication` | `ensure` and `publish_stage` of `brief_stages.rs`, `ensure_chain`, the merge of `brief.rs` | generations with their stages and inputs, openers, stage workers, the publication |
| `BriefPublicationProofs` | theorems about `BriefPublication` | |
| `ProviderChain` | the gate of `tasks.rs`, `provider_chain.rs`, `summarization/exec.rs` | a record per call, slots and cooldowns per account; one action per stretch between two awaits |
| `Publisher` | `publisher.rs` | writers, queue, batch, what was committed |
| `ServiceProofs` | theorems about `ProviderChain` and `Publisher` | |
| `ConfigCommit` | `config_commit.rs` | the files of the configuration root and what each process has in memory; one action per file operation |
| `ConfigCommitProofs` | theorems about `ConfigCommit` | |

`MC*` modules give the constants their values. Definitions marked *Faulty* are
variants with one plausible mistake; they are not used by any specification and show
that each property notices such a mistake.

**JobStore.** Timestamps become timers (`lease_left`, `beat_age`, `job_age`): the code
only compares differences to now, so time is unbounded in a finite state space. A
claim tells its worker the epoch of the row; `Holds` is the fence. `CommitStage` may
succeed without the worker learning of it (`replied = FALSE`), and the receipt then
makes the repeated call return the first result. `StopBatch` takes any set of at most
`StopBatchSize` descendants, because the query has no order. `Crash` forgets the
slots' memory and leaves the rows. The claim query's pages and pool shards only decide
which eligible task is tried first; the model keeps priorities and lets any best task
be taken. The statements that `brief_stages::commit` issues after its commit write
side records and, after the last stage, set the job and its run to completed. The
last stage depends on all others, so by then the commit has settled the job itself.
`EnsureChain` is the transaction of `ensure_chain` that creates a generation: it cancels
what is open of an earlier one that still runs and marks that one superseded, but closes
no attempt, so the attempts of its running stages stay open. A call that attaches to the
latest generation writes nothing. `CreateJob` does not look at the retirement marker, as
`create_job_in` does not: a purged row may come back under a retired root, for which ids
derived from keys are enough (`summary_flush.rs:166`). `GiveUp` is the executor that
finds itself lost or cancelled and returns without a write (`brief_stages.rs:794-796`).
`TreeBusy` looks at tasks only. The other thing that keeps `tree_busy` from letting a
tree go is an active service job; those are registry rows of `traffic.rs:87`, roots
without tasks or children, which cleanup and stop leave out by their kind, so no tree of
tasks has one.

**GuardedTx.** `JobStore` takes a transaction as one step. `GuardedTx` examines that:
bodies run on the snapshot they began with, and a commit fails only if another commit
wrote one of the same rows. `Conflicts` stands for SurrealDB and is the one external
definition. `GuardedAreSerial` says that what a guarded transaction writes to the stages
is what it would have written had it run at its commit.

**SummaryFlush.** The model's caches hold the epoch of the lease whose run produced
the result, and zero for a fallback, which is enough to tell who overwrote whom.

**MemoryIndex.** A text stands for its revision, which is a hash of the text. The
publisher's group commit is a sequence of writes nobody sees the middle of. An indexer
goes through `read`, `put`, `record` and `ack`, each a transaction, with the embedding
between the first two. `Moves` chooses what the environment does in an instance.
`Recall` says the same without vectors, generations, rows or passes: a memory is
returned with the text it has or not at all; one that is returned stays until it changes
or, while its text is owed, older work on it ends (`Hide`); and what is owed ends by
returning the memory or by giving up its text (`Settle`). `Hide` is real: an
older row is indexed with the text the memory has by then, so a memory may be found
before its turn, be taken out by its older removal row and come back with the row of its
text. With `Hide` taken out of
`Recall` TLC refutes the refinement.

**BriefPublication.** A generation goes from `ensure_chain` to its inputs and its
mirrored run; a worker claims, runs, commits, checks the generation and publishes. The
leases are those of `JobStore`, so a worker that lost its stage is one whose `own` is
false. The publication is a generation per list, which is what `publish_in` merges.

**ProviderChain.** An answer is a failure kind with the number of ticks it asks to wait.
`Together` says which calls one behaviour makes, so that an instance can hold pairs
rather than all calls at once. A background summary backs off on its own after a server
error or a rate limit, and notes the delay on the account only for a rate limit, with or
without a retry-after and up to a cap (`summarization/exec.rs:274-282`).

**Publisher.** A failed batch is split and its writes committed one by one. A commit
whose outcome is unknown is answered as such and not repeated. An abort does not need a
bad write: the counter of changed memories may return no value (`publisher.rs:286-288`).
`BatchPanics` is the backstop of `run` (`publisher.rs:153-171`), which answers every
write of the batch with an `Abort`, those included that a split has committed already.
The reply is named `panicked` in the model. For it, what `tx.rs:102-103` says of
`TxError::Abort`, that nothing was written, does not hold, and `RepliesTrue` does not
claim it.

**ConfigCommit.** A body is the number of the commit that wrote it. `expected`,
`attempted`, `disturbed` and `suspect` are observations no step reads. `disturbed` has
the processes that had another writer or a recovery beside their commit. `suspect` has the
files that may be damaged: those of a commit that died, failed in its last journal write
or was disturbed, those a rollback could not restore, those a recovery touched. The next
commit of a file that runs alone takes it out. Every file operation may fail, the renames
and removals of a rollback and of the recovery included, and the rollback is then still
journaled as `restored`. Abstracted: the staged sibling of a target, a backup that was
copied in part, the renames of one rollback (one step, which may pass over any of the
files), and the look and the removal of `lock_is_ours` (one step). Generations are per
process (`GENERATION` is a static that starts at zero), so two processes may use one
backup name; the model keeps that.

## 3. Runs

| Run | Result | Shows |
|---|---|---|
| `brief_chain` | holds | `OneFenceHolder`: exclusive publication among slots with one owner id. `OpenAttempts`, `AttemptNumbers`: a running stage has its open attempt, another one is open only where a supersession left it, and the unique index never refuses a claim of the chain. `DepsCompleted`, `SettledJobs`, `RecoveryBound`. `RefinesLease`: every transaction is a step of `TaskLease`, so outputs are published by the lease they carry |
| `brief_stranded` | violated | `NoStrandedChain`: a stage fails beside a running one, and the chain stays `running` |
| `job_tree` | holds | `StoppedTreeQuiet`, `CancelIsFinal` on three levels. `RetiredInert`: rows may come back under a retired root, but nothing there runs or publishes. `NoneRunsForever`: the executor may die or give up, and no task keeps running |
| `tx_guards` | holds | Transactions: `NoClaimSkew`, `JobRowTrue`, `GuardedAreSerial`. Publication: `DisplayedCommitted`, `DisplayedUnlessCut`, `PublicationForward`, `OldRunsQuiet`. Outbox with two indexers and every move: `WideLocks` |
| `brief_inputs` | violated | `RootsReadCaptured`: a root stage is claimed before its captured input is written |
| `takeover` | holds | Summaries: `CompletedDelivered`, `ModelSticks`, `TopologyPublishFenced`. Configuration, with two writers, stalls, a death, failing rollbacks and recoveries: `LastCommitStands` |
| `summary_retry` | violated | `RetryIsClaimable`: a retried task runs into the unique index on attempts |
| `summary_retired` | violated | `PendingIsEligible`: a purged key is queued again where no claim looks |
| `config_torn` | violated | `AllOrNothing`: a process dies right after it has opened the journal, and the recovery deletes both files |
| `config_race` | violated | `OneHolder`: a process takes the release of a lock for a dead holder, and removes the live lock of the next one |
| `memory_lost` | violated | `DurableWork`: a memory reactivated while a pass that skipped it is in flight loses its work |
| `background` | holds | Memory: `DurableWork`, `RemovalDurable`, `EventuallyServed` across failed groups, abandoned passes and deletes in the middle of one. `RefinesRecall`: every step is a step of `Recall`, so a removal takes the vector of an active memory only while its text is owed. `LockNamesPending`. Providers: `GateCounts`, `BudgetKept`, `RetryAfterShared`, `InteractiveFirst`, `EveryCallEnds`. Publisher: `RepliesTrue`, `EveryWriteAnswered` |

`takeover`, `tx_guards` and `background` hold two or three instances that share no state.
A behaviour is of one of them, chosen in its first step or initial state, so the state
space is the sum of them and not their product.

The violated runs state what a comment of the code says; the quotations are in
`PROJECT.json`. What else `DurableWork` depends on: with two indexers the slower one
puts an older text over a newer one and records it; when a text returns while the text
between is in flight, its work is skipped or coalesces into a row about to be
acknowledged; a reindex replaces each memory's one vector row by one of the next
generation, so its memories leave recall before the switch, though the header of
`vectors.rs` says recall never sees a half-built generation. The instance of
`background` therefore has one indexer, texts that never return, no reactivation and no
reindex; the one of `tx_guards` has all of them, for `WideLocks`.

`tx_guards` has a dependent stage beside an unrelated one, because in the real chain a
dependent stage waits for all earlier ones and a claim's look at the other stages
decides nothing. In that shape an unguarded `settle_blocked_job` and a commit may miss
each other on the job row, which then stays `running` until a reader settles it;
`GuardedAreSerial` is about the stage rows and the retirement marker, `JobRowTrue`
about the job row.

Seen while modelling, without a line of the repository that says otherwise:

- *Brief.* An `ensure` that is dropped between `ensure_chain` and `mirror_runs` leaves a
  generation whose inputs are never written. An open that races a reload replaces it. A
  generation whose claims are published before its inferences shows lists of two
  generations until then. A purge between a stage's commit and `run_of` loses its
  publication. After the publication `publish_stage` writes leads, canonical memories and
  index state without a fence, so a slow worker of an older run may overwrite newer ones.
- *Providers.* `provider_chain.rs:199-202` promises the normal retry rules to a stalled
  call with no later dispatchable route; when the later routes turn out dead, the call
  ends without a retry.
- *Publisher.* A second `shutdown()` returns while the first one still drains.
- *Configuration.* The recovery takes no lock, so a command that starts beside a live
  commit rolls part of it back. A backup left by another process with the same generation
  number may be restored. A failed last journal write is returned as an error without a
  rollback, and a later start then undoes the files it finds pending. A rename or removal
  that fails in a rollback is passed over and the journal still says `restored`, so "the
  targets never hold a mix of revisions" (`config_commit.rs:199-201`) fails without any
  death or race: one file new, one old. `LastCommitStands` bounds this to the files that
  were not restored; that the mix occurs needs two failures and has no run of its own.

### Bounds

- A lease and a heartbeat last one tick, the window one to three: each deadline can
  pass before, between and after any two other steps, which is all they are compared
  for. `MaxRecoveries` is 2 and not 3: one recovery that requeues, one that fails.
- Two slots of one process and a second process: the least in which owner ids collide
  and a survivor recovers. `brief_chain` has the real four stages. `job_tree` has one
  stage of the brief pool and one of another pool, as claims differ between them.
- `brief_chain` has one later generation, of which only the job exists: its stages would
  repeat the chain. `NewerBound`, a CONSTRAINT, leaves out stops and purges of that job,
  which has no tasks here, and lets it age by one tick.
- `MaxEpoch`, `MaxRetries`, `MaxRows` and `MaxGen` cap counters in the guards. Three
  epochs allow a lease, its successor and a late writer. Three outbox rows allow two
  memories, a changed text and a removal in several groups of one pass; a pass reads all
  of them, as its limits of 32 and 512 rows would. `Chunk` is 2 in place of 32, so a
  pass has several groups. Two rows are enough for two indexers to hold an old and a new
  row of one work key.
- The brief has two generations (`MaxRun`), so one replaces the other, and one
  publication cut short (`MaxCut`). Only inferences may fail: it is the stage with both
  earlier and later ones. `tx_guards` leaves out the body stage, which publishes no list;
  `brief_inputs` has it.
- `background`: two calls at a time under one slot, two routes, caps of one to four
  attempts, a retry-after of two ticks, a back-off of a summary (`OwnBackoff`) that equals
  its cap (`SummaryMaxBackoff`). A queue and a batch of two for three writers, so that a
  writer waits for room and a batch is split.
- `takeover`: two drainers, a topology key and a flushed one. Two processes that both save
  two of the three files, of which the first may be missing, two commits, stalls at any moment, one death and two failures:
  enough for two holders at once, a failing rollback under a takeover, and a recovery
  beside a live commit.
- Symmetry is used for slots, drainers, clients, processes, workers and indexers, in runs
  of safety properties only.
- Deadlock is not checked: a system whose work is done, or whose bound is reached, stops.

### Fairness

`job_tree` takes weak fairness for ticks, for the sweep of lapsed leases, which every
claim of every live process begins with (`ReapExpired`), and for the end of a claimed
stage by an executor that lives (`Finish`: `run_claimed` commits, or ends without a
write). Nothing is asked of retention, whose only caller is the hourly thread of the
terminal interface (`tui/surreal_brain.rs:286-296`): the API host runs the pools without
it, so a stranded stage may stay queued there, and `NoneRunsForever` claims nothing of
queued tasks. Nothing is asked of claim, stop, creation, history clearing, renewal, beats or orphan
recovery either, and `Crash` may take the process that ran the task.

In `background` the memory side has weak fairness for the drain step, and assumes that
passes are cut short only finitely often: a pass that is always abandoned serves nobody.
The provider side has it for the clock and for every call's own next step, because a
request has a timeout and a sleep an end; the publisher side for the publisher's task and
a writer's send while the process lives. Nobody owes a cancel or a drop.

## 4. Proofs

`TaskLease` proves `LeaseSafe` of the abstract lease: claims in memory are never ahead
of their row and never share an epoch. `JobStoreProofs` proves, for every set of jobs,
tasks, processes and slots and all bounds:

| Theorem | Argument |
|---|---|
| `TypeCorrect` | `TypeInv`, that is `TypeOK` with `HeldShape` (a slot holds a task and an epoch exactly when it is not idle): without the shape a step could index by `NoTask` |
| `ImplementsLease` | under `TypeInv` each action maps to one abstract step or to a stutter: one lemma per kind of step (`RefineClaim`, `RefineCommit`, `RefinePurge`, ...). `JobInv`, rows of tasks exist only with their job, is there because otherwise a purge could miss a task whose job row is absent |
| `FenceExclusive`, `OutputExclusive`, `RetiredStaysInert` | from `LeaseSafe` through the refinement. A row created under a retired root is only queued, and the abstract lease gives no lease in a retired tree. `OutputOfLease` has no run of its own: it follows from `RefinesLease`, which has one |

It also proves the properties that relate a row to others. `RowStep` first
reduces every transaction to what it does to one task (it stays, starts, loses its lease,
ends, is cancelled, is blocked, appears or goes) with its open attempts, so that each
property needs a handful of cases instead of one per action:

| Theorem | Argument |
|---|---|
| `DepsStand` | a completed task changes only by a purge, and a purge takes the whole tree, the dependents included (`JobInv`) |
| `RecoveriesBounded` | `RecoveryInv`: only a failed task may have used up its recoveries |
| `OpenAttemptsFollow` | inductive on `RowStep`: whatever takes a row out of `running` closes the rows of its epoch, but for a supersession, which moves the epoch past them; a superseded job stays superseded or goes with its rows |
| `AttemptNumbersUnique` | closing rows is injective on numbers, a claim numbers above all rows of the task, a purge takes rows and counter together |
| `CancelStaysFinal` | from `RowStep` and `OutputStep` |
| `JobsSettledTruly` | `SettleInv`: the tasks of an existing job are all there, and in an open job a task is cancelled only beside a failed one. Without it a settlement could count cancelled work as completed |
| `StoppedTreesQuiet` | `StopInv`: a stopped job keeps its flag and has nothing open; a child created later finds the flag of its root, so it is never claimed. It needs that a root has no ancestors (`RootsAlone`) |

`GuardedTxProofs` proves, for any stages, dependencies, threads and retries:

| Theorem | Argument |
|---|---|
| `ClaimsNotSkewed`, `JobRowStaysTrue` | `GuardedInv`. What a body reads is its snapshot, what it disturbs is the store, so the invariant relates the two (`MovedOn`): a row that no commit has made stale is as it was (`FreshRows`); while the guard is not stale only unguarded settlements have happened (`OnlySettled`); what had ended has not changed (`EndedStays`, `JobStaysClosed`). A commit lands when none of its own rows is stale, and then what the body saw is still what matters of the store. `Wipes` and `Edits` say once what any body may write |
| `GuardedSerial` | from `MovedOn`: if the guard is not stale, store and snapshot differ in queued stages an unguarded settlement cancelled, and no body that writes the guard and lands decides on those (`BodySame`) |

`SummaryFlushProofs` proves `TypeOK`, `CompletedDelivered`, `ModelSticks` and
`TopologyPublishFenced` of `SummaryFlush`, for any keys, drainers and callers. The
completion of a task follows its cache write, and its drainer remembers in between what
it will claim; so the invariant adds `TagTrue`: what a drainer is about to say it delivered is in
the cache already, unless the end itself puts it there. That survives other drainers
because no step takes a model result out of the cache (`CachedStays`).

`MemoryIndexProofs` proves, for any memories, texts, chunk size and number of rows:

| Theorem | Argument |
|---|---|
| `OutboxCoalesces` | that is `LockNamesPending`, and so also `WideLocks`, which is the same formula of the wide instance. It needs `TextType`: a reactivation enqueues the text the row has, so that has to be a text. `AckInv` takes its rows from `work` as any set, so it does not matter which pass acknowledges them |
| `IndexTypeCorrect` | `IndexInv`, for every move and any number of indexers: an attempt has read one text per memory, and in a row by row retry it has a row left (`Fits`) |

The module goes on with lemmas about the case the run `background` checks. `Calm` is that
case: one indexer at a time, texts that never return, no reactivation and no reindex. The
program does not keep to it (`scheduler.rs:357`, `store_bridge.rs:599-650`), so these are
conditional lemmas and not results about the program; they say that what breaks
`DurableWork` is outside of `Calm`, for any number of memories, texts and rows.
`WorkIsDurable` and `RemovalIsDurable` rest on `DurableInv`, `ImplementsRecall` on
`DurableInv` with `ForwardInv`: each action maps to one step of `Recall` or to a stutter.
`RecallForgetsNone` carries `Recall`'s own promise through that: recall returns no text but
the current one, and every active memory is returned, owed or given up.

`DurableWork` says what is queued for a memory that is not served; what makes it true is
spread over a pass. `Pass`: the group comes before the rest of the pass, which comes
before every later row. `RemovalFirst`: pending removal work of a memory that is active
comes before the row of its text, so that a vector is only removed while the row that
puts it back is still to come. `OwnRow`: an active memory that is not served has a row of
the very text it has, pending or failed (more than `DurableWork` asks). `ReadSound`: an
indexer that holds an old text between its read and its put has a later row to correct
it. `Delivered`: a row of the current text whose attempt is over, and which did not
fail, is served, so that acknowledging it loses nothing; `Removed` is the same for
removals. Coalescing is harmless there because a new text is ahead of every row
(`RowsBehind`), so a write always appends its own. Without `Calm`
`DurableWork` is false, as `memory_lost` shows for a reactivation and section 3 lists for
two indexers, returning texts and reindexing. `background` is an instance of `Calm`; the
lemmas also allow `index_new`.

The refinement reads the parts of `DurableInv` as what a step may do to recall. A removal
hides an active memory only while its text is owed, by `RemovalFirst`. An acknowledgment
as completed settles what is served, by `Delivered`. A write always finds its key free,
so it owes the new text (`RowsBehind`). A put was missing: that it shows a memory and
never hides one. `ForwardInv` says so: no vector is newer than the text of its memory, and
what an indexer is about to put is no older than the vector in place. That is true of one
indexer and false of two, which is the race of `scheduler.rs:357` again.

`BriefPublicationProofs` proves `BriefDisplayedCommitted`, `BriefDisplayedUnlessCut`,
`BriefPublicationForward` and `BriefOldRunsQuiet` for any openers, workers, stages and
bounds. None of them is inductive alone. `Inv` adds that generations appear in order and
only the newest is not superseded (`RunsInOrder`, `OpenIsLatest`), that the publication
and its lists are no newer than that (`PubInOrder`), and that what a worker is about to
publish was committed by the stage it names (`PublishesCommitted`): the worker reads the
generation before it publishes, and the invariant carries what it may believe.

`ConfigCommitProofs` proves `LastCommitStands` (`CommitStands`) for any processes, files,
deaths, stalls and failures, with any number of holders of the lock. `CommitInv` says of
each entry of the batch under way of an undisturbed writer what is in place
(`SteadyFile`): the body up to the last landed entry, what the last commit left after it,
and a backup to return to. A failed entry then rolls back to `expected`, a finished batch
replaces it, and what a death, a recovery or a rename that fails does is confined to
`suspect`. Beside an undisturbed writer there is no other (`AloneFacts`); one that is
disturbed may do to its own files what it likes, since they become suspect when it
finishes or rolls back (`CrowdKept`). It needs that no file is twice in a batch and that
its generation has a backup slot (`ShapeInv`). `OneHolder` is false (`config_race`), and
nothing of the proof uses it.

`ServiceProofs` proves the safety properties of the provider gate, for any calls,
routes, accounts and limits, and of the publisher, for any writes, queue and batch size:

| Theorem | Argument |
|---|---|
| `GateCountsTrue` | `GateInv`: a step moves one call, so each account's senders and waiters gain or lose that call or stay (`Moved`), and the gate's counters do the same (`SendGained`, `WaitLost`, ...). `GateType` knows the route of a call that goes on, so that it gives back the slot it took |
| `InteractiveGoFirst` | an admission without priority saw the counter at zero, and by `GateInv` the counter is the number of waiting calls |
| `RetryAfterKept` | `RetryInv`: an announcement never shortens a cooldown, and a tick shortens cooldown and sleep alike |
| `BudgetsHold` | `Spent`: a call has sent at most one request per configured route it reached (`Through`) and one per extra it was charged, and an extra is charged before its request. A route that is given up after its extra was charged costs the extra and sends nothing |
| `PublisherReplies` | `PubInv`: a write is in the queue, in the batch, or neither, and at most once (`OnceEach`); the writes of the batch up to the last answer have their result, those behind it are not stored yet (`Answered`); what a writer was told is true (`Replied`). A batch is answered as a whole or not yet, unless it was split (`Whole`). The backstop replaces the answers of the batch by ones that promise nothing |

The theorems rest on the named `ASSUME`s of their modules and on nothing else. Those of
`JobStore`: `NoTask` and `NoOwner` are no task and no process, the constant functions
have their types, dependencies stay in their job, the ancestor relation is transitive and that of trees with one root each, the job of a
chain has no ancestors and does not supersede itself, the bounds are positive. Those of `ConfigCommit`: a batch is a non-empty sequence of
different files (`validate_batch`). Those of `ProviderChain`: calls are finitely many
and a route allows at least one attempt. Those of `GuardedTx`: the job, the guard and
the marker are rows of their own beside the stages (`RowsApart`), and the value for no
transaction is none (`NoClaimIsNone`). Those of `SummaryFlush`: `NoKey` is no key, and
times and bounds are natural numbers. Those of `MemoryIndex`: texts are positive numbers
and the first generation is within `MaxGen`. Those of `Publisher`: writes are finitely
many, queue and batch hold at least one. TLC evaluates them on every run.

Of the safety properties the passing runs check, `DurableWork`, `RemovalDurable` and
`RefinesRecall` are proved only under `Calm`; every other one has a theorem. For two
indexers the first two are false: the slower of two passes that read different texts puts
its vector last, and both acknowledge, so an old text is served, or the vector of a retired
memory stays, with no work left (the hazard at `scheduler.rs:357`). Only model-checked are
the four liveness properties `NoneRunsForever`, `EventuallyServed`, `EveryCallEnds` and
`EveryWriteAnswered`: they need fairness and `ENABLED`, which the prover does not handle.

## 5. Plan

The modules above were written in the order of this plan: the job store and its lease,
transactions, summaries and memory; then the brief's publication, the publisher, the
provider gate and the configuration commit; then the abstract recall. What would come next:

1. What `publish_stage` writes after the publication: leads, canonical memories.
2. `try_elect` with the drainer loops, composed with `SummaryFlush`.
3. App jobs (`recon_jobs::begin_app_job`), which join a tree without its guard.

## 6. Not modelled

- Rendering, parsing, HTTP, model inference and SQL wording have no control to check.
  The terminal interface and the command line, the largest part of the source, are of
  this kind, and so are the investigation harness, recon and atlas, whose control is one
  thread around model calls that go through the modelled gate, leases and publisher.
- Article refresh (`refresh*.rs`): nothing outside tests records a refresh intent, since
  `add_refresh_intent` has no caller, and `enqueue_refresh` is only reached from a retry
  of a task that exists. No refresh task is created on this store. If one were, a
  paused refresh that is resumed would reuse its attempt number, which
  `jobs.surql:117` makes unique.
- Insight extraction and actor identity: upserts keyed by digests, and merges decided by
  comparisons of text.
- `finalize_job` of `jobs.rs` has no caller outside tests.
- Ranking and token caps in `recall.rs` are pure functions. Telemetry, credits and event
  logs are counters and appends of one transaction each.
- The reload epoch of `config_commit.rs` and the secure write of single files.
- The legacy SQLite store is built only without the default storage feature.
- Home lock, server ownership and installation use operating system locks and processes.
