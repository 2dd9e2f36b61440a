------------------------------ MODULE GuardedTx ------------------------------
(***************************************************************************)
(* The transactions of one brief job under SurrealDB's snapshot isolation:  *)
(* storage/tx.rs run_tx with the guard records of storage/jobs.rs.          *)
(*                                                                         *)
(* A transaction reads the snapshot it began with and commits its writes    *)
(* unless another transaction has committed a write to one of the same rows *)
(* since; then the whole body runs again on a new snapshot.  Reads are not  *)
(* validated, so transactions that only read each other's rows would miss   *)
(* each other (write skew) if they did not both write the guard record.     *)
(* JobStore and SummaryFlush take each transaction as one atomic step; this *)
(* module is where that is examined.                                        *)
(***************************************************************************)
EXTENDS Integers

CONSTANTS
  Stage,       \* the stages of the chain
  Deps,        \* [Stage -> SUBSET Stage]
  Client,      \* threads that run transactions
  NoClaim,
  MaxAttempts, \* RetryPolicy::max_attempts
  MaxRecoveries \* MAX_WORKER_RECOVERIES

ASSUME GuardShape ==
  /\ Deps \in [Stage -> SUBSET Stage]
  /\ MaxAttempts \in Nat \ {0}
  /\ MaxRecoveries \in Nat \ {0}

VARIABLES
  db,      \* [Row -> value]
  tx,      \* [Client -> the open transaction, or NoClaim]
  claimed, \* [Client -> the claim the client holds, or NoClaim]
  owes     \* clients that have yet to call settle_blocked_job

vars == <<db, tx, claimed, owes>>

Job == "job"
Guard == "job_guard"
Marker == "job_retirement"
Row == Stage \cup {Job, Guard, Marker}

\* Tasks, jobs, guards and markers are rows of different tables.
ASSUME RowsApart == Stage \cap {Job, Guard, Marker} = {}

Open == {"queued", "running"}
Terminal == {"completed", "failed", "cancelled"}

Ops ==
  [op : {"claim", "requeue"}, stage : Stage] \cup
  [op : {"commit", "fail", "settle_blocked", "settle_finished", "stop_request",
         "stop_tasks", "clear"}]

\* What a row holds, and an open transaction: its call, the snapshot, the rows with a
\* newer version by now, and the attempts made.
Value ==
  [state : Open \cup Terminal \cup {"absent"}, epoch : Nat] \cup
  [state : Terminal \cup {"running", "absent"}, cancel : BOOLEAN] \cup
  {"bumped"} \cup BOOLEAN
Transaction ==
  [call : Ops, snap : [Row -> Value], stale : SUBSET Row, tries : 1..MaxAttempts]

\* NoClaim stands for no transaction, so it is none.
ASSUME NoClaimIsNone == NoClaim \notin Transaction

-----------------------------------------------------------------------------
\* Bodies.  Each maps a snapshot s to its writes: a function on the rows it writes.
Bump == [r \in {Guard} |-> "bumped"]
Merge(f, g) == [r \in DOMAIN f \cup DOMAIN g |-> IF r \in DOMAIN g THEN g[r] ELSE f[r]]
NoWrite == [r \in {} |-> "none"]

\* Faulty Settle: a stage that still runs does not keep the job open.
SettleBesideRunning(s, st) ==
  IF \/ s[Job].state # "running"
     \/ \E t \in Stage : st[t] = "queued"
  THEN NoWrite
  ELSE [r \in {Job} |-> [s[Job] EXCEPT !.state =
          IF \E t \in Stage : st[t] = "failed" THEN "failed" ELSE "completed"]]

\* settle_finished_job_in on the stage states st.
Settle(s, st) ==
  IF \/ s[Job].state # "running"
     \/ \E t \in Stage : st[t] \in Open
  THEN NoWrite
  ELSE [r \in {Job} |-> [s[Job] EXCEPT !.state =
          IF \E t \in Stage : st[t] = "failed" THEN "failed" ELSE "completed"]]

StatesOf(s) == [t \in Stage |-> s[t].state]

\* A snapshot in which client c still passes the fence of its claim.
Fenced(s, c) ==
  /\ claimed[c] # NoClaim
  /\ s[claimed[c].stage].state = "running"
  /\ s[claimed[c].stage].epoch = claimed[c].epoch

\* Faulty Busy: only a dependent candidate looks at the other stages.
BusyForDependent(s, t) == Deps[t] # {} /\ \E u \in Stage \ {t} : s[u].state = "running"

\* The busy count of claim_in.
Busy(s, t) == \E u \in Stage \ {t} : s[u].state = "running" /\ (Deps[t] # {} \/ Deps[u] # {})

\* Faulty Claim: a claim races other claims on the task row only.
ClaimUnguarded(s, t) ==
  IF /\ s[t].state = "queued"
     /\ ~ s[Job].cancel /\ ~ s[Marker]
     /\ \A d \in Deps[t] : s[d].state = "completed"
     /\ ~ Busy(s, t)
  THEN [r \in {t} |-> [state |-> "running", epoch |-> s[t].epoch + 1]]
  ELSE NoWrite

\* claim_in for a brief stage: job_guard is written once a row was claimed.
Claim(s, t) ==
  IF /\ s[t].state = "queued"
     /\ ~ s[Job].cancel /\ ~ s[Marker]
     /\ \A d \in Deps[t] : s[d].state = "completed"
     /\ ~ Busy(s, t)
  THEN Merge(Bump, [r \in {t} |-> [state |-> "running", epoch |-> s[t].epoch + 1]])
  ELSE NoWrite

\* commit_stage
Commit(s, c) ==
  IF ~ Fenced(s, c) \/ s[Job].cancel THEN Bump
  ELSE LET t == claimed[c].stage
           st == [StatesOf(s) EXCEPT ![t] = "completed"]
       IN Merge(Bump, Merge(Settle(s, st),
                            [r \in {t} |-> [s[t] EXCEPT !.state = "completed"]]))

\* brief_stages::fail
Fail(s, c) ==
  IF ~ Fenced(s, c) THEN Bump
  ELSE LET t == claimed[c].stage
       IN Merge(Bump, [r \in {t} |-> [s[t] EXCEPT !.state = "failed"]])

\* The recovery that fails the stage.  Claims and recoveries alternate and each moves
\* the epoch by one, so a running stage's epoch is twice its recoveries plus one.
Exhausted(s, t) == s[t].epoch + 1 >= 2 * MaxRecoveries

\* requeue_running_in for one stage, from the reaper or recover_orphans.
Requeue(s, t) ==
  IF s[t].state # "running" THEN NoWrite
  ELSE Merge(Bump, [r \in {t} |->
         [state |-> IF Exhausted(s, t) THEN "failed" ELSE "queued",
          epoch |-> s[t].epoch + 1]])

\* One pass of settle_blocked_job over the stage states; it runs four times.
Blocked(st) ==
  [t \in Stage |->
     IF /\ st[t] = "queued" /\ Deps[t] # {}
        /\ \A d \in Deps[t] : st[d] \in Terminal
        /\ \E d \in Deps[t] : st[d] \in {"failed", "cancelled"}
     THEN "cancelled" ELSE st[t]]

\* settle_blocked_job writes no guard.
SettleBlocked(s) ==
  LET st == Blocked(Blocked(Blocked(Blocked(StatesOf(s))))) IN
  Merge(Settle(s, st),
        [r \in {t \in Stage : st[t] # s[t].state} |-> [s[r] EXCEPT !.state = st[r]]])

\* settle_finished_job from the readers of the job list, without a guard.
SettleFinished(s) == Settle(s, StatesOf(s))

\* stop_job: the flag, and the cancellation of the job itself.
StopRequest(s) ==
  IF s[Job].state = "absent" THEN NoWrite
  ELSE Merge(Bump, [r \in {Job} |-> [s[Job] EXCEPT !.cancel = TRUE]])

StopTasks(s) ==
  IF s[Job].state = "absent" \/ ~ s[Job].cancel THEN NoWrite
  ELSE Merge(Bump,
         [r \in {Job} \cup {t \in Stage : s[t].state \in Open} |->
            IF r = Job
            THEN [cancel |-> TRUE, state |-> IF s[Job].state = "running" THEN "cancelled"
                                             ELSE s[Job].state]
            ELSE [state |-> "cancelled", epoch |-> s[r].epoch + 1]])

\* clear_jobs_by_status: a terminal tree without a running task is purged.
Clear(s) ==
  IF \/ s[Job].state \notin Terminal
     \/ \E t \in Stage : s[t].state = "running"
  THEN NoWrite
  ELSE Merge(Bump,
         [r \in Stage \cup {Job, Marker} |->
            CASE r \in Stage -> [state |-> "absent", epoch |-> 0]
              [] r = Job -> [state |-> "absent", cancel |-> FALSE]
              [] r = Marker -> TRUE])

Body(c, o, s) ==
  CASE o.op = "claim" -> Claim(s, o.stage)
    [] o.op = "requeue" -> Requeue(s, o.stage)
    [] o.op = "commit" -> Commit(s, c)
    [] o.op = "fail" -> Fail(s, c)
    [] o.op = "settle_blocked" -> SettleBlocked(s)
    [] o.op = "settle_finished" -> SettleFinished(s)
    [] o.op = "stop_request" -> StopRequest(s)
    [] o.op = "stop_tasks" -> StopTasks(s)
    [] o.op = "clear" -> Clear(s)

-----------------------------------------------------------------------------
Init ==
  /\ db = [r \in Row |->
       CASE r \in Stage -> [state |-> "queued", epoch |-> 0]
         [] r = Job -> [state |-> "running", cancel |-> FALSE]
         [] r = Guard -> "bumped"
         [] r = Marker -> FALSE]
  /\ tx = [c \in Client |-> NoClaim]
  /\ claimed = [c \in Client |-> NoClaim]
  /\ owes = {}

\* A client that holds a claim ends it; one that failed its stage settles the
\* job; a free client may start anything else.
MayCall(c, o) ==
  /\ o.op \in {"commit", "fail"} <=> claimed[c] # NoClaim
  /\ o.op = "settle_blocked" <=> c \in owes

\* run_tx: BEGIN takes the snapshot.
Begin(c, o) ==
  /\ tx[c] = NoClaim
  /\ MayCall(c, o)
  /\ tx' = [tx EXCEPT ![c] = [call |-> o, snap |-> db, stale |-> {}, tries |-> 1]]
  /\ UNCHANGED <<db, claimed, owes>>

\* The rows whose newer versions make the commit of c fail.
Conflicts(c) == DOMAIN Body(c, tx[c].call, tx[c].snap) \cap tx[c].stale

\* What client c knows after its transaction with writes w.
Learn(c, o, w) ==
  /\ claimed' =
       CASE o.op = "claim" /\ w # NoWrite ->
              [claimed EXCEPT ![c] = [stage |-> o.stage, epoch |-> w[o.stage].epoch]]
         [] o.op \in {"commit", "fail"} -> [claimed EXCEPT ![c] = NoClaim]
         [] OTHER -> claimed
  /\ owes' = IF o.op = "fail" /\ claimed[c].stage \in DOMAIN w THEN owes \cup {c}
             ELSE IF o.op = "settle_blocked" THEN owes \ {c} ELSE owes

\* COMMIT: no written row has a newer version.
CommitTx(c) ==
  LET o == tx[c].call
      w == Body(c, o, tx[c].snap)
  IN
  /\ tx[c] # NoClaim
  /\ Conflicts(c) = {}
  /\ db' = [r \in Row |-> IF r \in DOMAIN w THEN w[r] ELSE db[r]]
  /\ tx' = [d \in Client |->
       IF d = c THEN NoClaim
       ELSE IF tx[d] = NoClaim THEN NoClaim
       ELSE [tx[d] EXCEPT !.stale = @ \cup DOMAIN w]]
  /\ Learn(c, o, w)

\* A conflict: the whole body again, on a new snapshot.
Retry(c) ==
  /\ tx[c] # NoClaim
  /\ Conflicts(c) # {}
  /\ tx[c].tries < MaxAttempts
  /\ tx' = [tx EXCEPT ![c] =
       [call |-> tx[c].call, snap |-> db, stale |-> {}, tries |-> tx[c].tries + 1]]
  /\ UNCHANGED <<db, claimed, owes>>

\* TxError::Contention: the call fails and nothing was written.  The executor
\* drops its claim; the reaper will find the row.
Contention(c) ==
  /\ tx[c] # NoClaim
  /\ Conflicts(c) # {}
  /\ tx[c].tries = MaxAttempts
  /\ tx' = [tx EXCEPT ![c] = NoClaim]
  /\ claimed' = [claimed EXCEPT ![c] = NoClaim]
  /\ owes' = owes \ {c}
  /\ UNCHANGED db

Next ==
  \E c \in Client :
    \/ \E o \in Ops : Begin(c, o)
    \/ CommitTx(c) \/ Retry(c) \/ Contention(c)

Spec == Init /\ [][Next]_vars

-----------------------------------------------------------------------------
\* No write skew between claims: a dependent stage never runs beside another
\* stage, though each claim only looked at its snapshot (job_guard in claim_in).
NoClaimSkew ==
  \A t, u \in Stage :
    t # u /\ db[t].state = "running" /\ db[u].state = "running" => Deps[t] = {} /\ Deps[u] = {}

\* The job row stays true to the stages although both settle operations write it
\* without a guard, from snapshots that may be old.
JobRowTrue ==
  /\ db[Job].state = "completed" => \A t \in Stage : db[t].state = "completed"
  /\ db[Job].state = "failed" =>
       /\ \A t \in Stage : db[t].state \notin Open
       /\ \E t \in Stage : db[t].state = "failed"

\* Guarded operations are serialised in commit order: what one writes to the
\* stages and the marker is what its body would write on the store as it is when
\* it commits.  This is what lets JobStore take them as atomic steps.  The job row
\* is JobRowTrue's: the unguarded settle operations write it too.
GuardedOps == {"claim", "requeue", "commit", "fail", "stop_request", "stop_tasks", "clear"}
GuardedAreSerial ==
  [][\A c \in Client :
       /\ tx[c] # NoClaim /\ tx'[c] = NoClaim /\ db' # db
       /\ tx[c].call.op \in GuardedOps
       /\ Conflicts(c) = {}
       => LET then == Body(c, tx[c].call, tx[c].snap)
              now == Body(c, tx[c].call, db)
          IN \A r \in Stage \cup {Marker} :
               /\ r \in DOMAIN then <=> r \in DOMAIN now
               /\ r \in DOMAIN then => then[r] = now[r]]_vars

=============================================================================
