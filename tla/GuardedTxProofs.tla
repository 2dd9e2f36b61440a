--------------------------- MODULE GuardedTxProofs ---------------------------
(***************************************************************************)
(* What the guard record makes of snapshot isolation, for every set of      *)
(* stages, dependencies and threads, and every retry bound.                 *)
(***************************************************************************)
EXTENDS GuardedTx, TLAPS

StageState == Open \cup Terminal \cup {"absent"}
StageVal == [state : StageState, epoch : Nat]
JobVal == [state : Terminal \cup {"running", "absent"}, cancel : BOOLEAN]

\* A store or a snapshot of it.
StoreType(s) ==
  /\ s \in [Row -> Value]
  /\ \A t \in Stage : s[t] \in StageVal
  /\ s[Job] \in JobVal /\ s[Guard] = "bumped" /\ s[Marker] \in BOOLEAN

TxType ==
  /\ StoreType(db)
  /\ tx \in [Client -> Transaction \cup {NoClaim}]
  /\ \A c \in Client : tx[c] # NoClaim => StoreType(tx[c].snap)
  /\ claimed \in [Client -> [stage : Stage, epoch : Nat] \cup {NoClaim}]

\* In a store: a cancelled stage has a cause, and stages go with their job.
Caused(s) ==
  (\E t \in Stage : s[t].state = "cancelled") =>
    (\E t \in Stage : s[t].state = "failed") \/ s[Job].state \in {"cancelled", "absent"}
GoTogether(s) == (\E t \in Stage : s[t].state = "absent") => s[Job].state = "absent"
StoreTrue(s) == Caused(s) /\ GoTogether(s)

(* How the store has moved on from the snapshot x.snap of an open            *)
(* transaction x.  A row that is not stale has not changed.  While the guard *)
(* is not stale nothing happened but what settles without a guard: a queued  *)
(* stage was cancelled, a running job was settled.  A stage that had ended   *)
(* is as it was, unless the whole tree is gone, and so is the end of a job.  *)
FreshRows(x, d) == \A r \in Row \ x.stale : d[r] = x.snap[r]
OnlySettled(x, d) ==
  Guard \notin x.stale =>
    /\ \A t \in Stage \cap x.stale :
         x.snap[t].state = "queued" /\ d[t] = [x.snap[t] EXCEPT !.state = "cancelled"]
    /\ d[Marker] = x.snap[Marker]
    /\ d[Job].cancel = x.snap[Job].cancel
    /\ d[Job].state = "absent" <=> x.snap[Job].state = "absent"
EndedStays(x) ==
  \/ x.stale = Row
  \/ \A t \in Stage : x.snap[t].state \in Terminal => t \notin x.stale
JobStaysClosed(x, d) ==
  x.snap[Job].state \in {"cancelled", "absent"} => d[Job].state \in {"cancelled", "absent"}
MovedOn(x, d) == FreshRows(x, d) /\ OnlySettled(x, d) /\ EndedStays(x) /\ JobStaysClosed(x, d)

TxInv ==
  /\ TxType
  /\ StoreTrue(db)
  /\ \A c \in Client : tx[c] # NoClaim => StoreTrue(tx[c].snap) /\ MovedOn(tx[c], db)

GuardedInv == TxInv /\ NoClaimSkew /\ JobRowTrue

-----------------------------------------------------------------------------
(* What the bodies write.  Wipes is clear_jobs_by_status; every other body    *)
(* edits: only stages that are open, and a job that is still there.           *)
Wipes(w, s) ==
  /\ DOMAIN w = Row /\ s[Job].state \in Terminal
  /\ \A t \in Stage : w[t] = [state |-> "absent", epoch |-> 0]
  /\ w[Job] = [state |-> "absent", cancel |-> FALSE]
  /\ w[Guard] = "bumped" /\ w[Marker] = TRUE

EditsRows(w, s) ==
  /\ DOMAIN w \subseteq Row \ {Marker}
  /\ Guard \in DOMAIN w => w[Guard] = "bumped"
  /\ \A t \in Stage \cap DOMAIN w :
       s[t].state \in Open /\ w[t] \in StageVal /\ w[t].state # "absent"
  /\ Job \in DOMAIN w =>
       /\ s[Job].state # "absent" /\ w[Job] \in JobVal /\ w[Job].state # "absent"
       /\ s[Job].state = "cancelled" => w[Job].state = "cancelled"

\* Without the guard: queued stages are cancelled, and the job's flag is not touched.
Unguarded(w, s) ==
  Guard \notin DOMAIN w =>
    /\ \A t \in Stage \cap DOMAIN w :
         s[t].state = "queued" /\ w[t] = [s[t] EXCEPT !.state = "cancelled"]
    /\ Job \in DOMAIN w => w[Job].cancel = s[Job].cancel

\* The job is settled for stages that have all ended.
StageAfter(w, s, t) == IF t \in DOMAIN w THEN w[t].state ELSE s[t].state
SettlesJob(w, s) ==
  Job \in DOMAIN w /\ w[Job].state # s[Job].state =>
    /\ s[Job].state = "running"
    /\ w[Job].state # "cancelled" =>
         /\ \A t \in Stage : StageAfter(w, s, t) \notin Open
         /\ w[Job].state = IF \E t \in Stage : StageAfter(w, s, t) = "failed"
                           THEN "failed" ELSE "completed"

\* What is cancelled has a cause: the job's stop, or a stage that did not complete.
HasCause(w, s) ==
  (\E t \in Stage \cap DOMAIN w : w[t].state = "cancelled") =>
    \/ \E u \in Stage : s[u].state \in {"failed", "cancelled"}
    \/ Job \in DOMAIN w /\ (w[Job].state = "cancelled" \/ s[Job].state \in Terminal)

\* A stage starts under the guard, alone unless no dependency is involved.
Alone(s, t) ==
  \A u \in Stage \ {t} : s[u].state = "running" => Deps[t] = {} /\ Deps[u] = {}
StartsAlone(w, s) ==
  \A t \in Stage \cap DOMAIN w : w[t].state = "running" =>
    Guard \in DOMAIN w /\ Stage \cap DOMAIN w = {t} /\ Alone(s, t)

Edits(w, s) ==
  EditsRows(w, s) /\ Unguarded(w, s) /\ SettlesJob(w, s) /\ HasCause(w, s) /\ StartsAlone(w, s)

LEMMA NoWriteEdits ==
  ASSUME NEW s PROVE Edits(NoWrite, s)
BY DEF Edits, EditsRows, Unguarded, SettlesJob, HasCause, StartsAlone, NoWrite

LEMMA BumpEdits ==
  ASSUME NEW s PROVE Edits(Bump, s)
<1>1. DOMAIN Bump = {Guard} /\ Bump[Guard] = "bumped" /\ Stage \cap {Guard} = {}
      /\ Job # Guard /\ Marker # Guard /\ Guard \in Row
  BY RowsApart DEF Bump, Guard, Job, Marker, Row
<1>2. EditsRows(Bump, s) /\ Unguarded(Bump, s)
  BY <1>1 DEF EditsRows, Unguarded
<1>3. SettlesJob(Bump, s) /\ HasCause(Bump, s) /\ StartsAlone(Bump, s)
  BY <1>1 DEF SettlesJob, HasCause, StartsAlone
<1>4. QED BY <1>2, <1>3 DEF Edits

\* One stage row written beside the guard.
LEMMA OneStage ==
  ASSUME NEW s, NEW t \in Stage, NEW v,
         s[t].state \in Open, v \in StageVal, v.state \notin {"absent", "cancelled"},
         v.state = "running" => Alone(s, t)
  PROVE  Edits(Merge(Bump, [r \in {t} |-> v]), s)
<1>1. PICK w : w = Merge(Bump, [r \in {t} |-> v])
  OBVIOUS
<1>2. t # Guard /\ t # Job /\ t # Marker /\ Guard # Marker /\ Guard # Job
      /\ t \in Row /\ Guard \in Row /\ Guard \notin Stage
  BY RowsApart DEF Guard, Job, Marker, Row
<1>3. DOMAIN w = {t, Guard} /\ w[t] = v /\ w[Guard] = "bumped"
  BY <1>1, <1>2 DEF Merge, Bump
<1>4. Stage \cap DOMAIN w = {t} /\ Job \notin DOMAIN w /\ Marker \notin DOMAIN w
  BY <1>2, <1>3
<1>5. EditsRows(w, s) /\ Unguarded(w, s)
  BY <1>2, <1>3, <1>4 DEF EditsRows, Unguarded
<1>6. SettlesJob(w, s) /\ HasCause(w, s) /\ StartsAlone(w, s)
  BY <1>3, <1>4 DEF SettlesJob, HasCause, StartsAlone
<1>7. QED BY <1>1, <1>3, <1>5, <1>6 DEF Edits

LEMMA ClaimEdits ==
  ASSUME NEW s, StoreType(s), NEW t \in Stage
  PROVE  /\ Edits(Claim(s, t), s)
         /\ Claim(s, t) # NoWrite => t \in DOMAIN Claim(s, t) /\ Claim(s, t)[t].epoch \in Nat
<1>1. PICK v : v = [state |-> "running", epoch |-> s[t].epoch + 1]
  OBVIOUS
<1>2. s[t].epoch + 1 \in Nat
  BY DEF StoreType, StageVal
<1>3. v \in StageVal /\ v.state = "running" /\ v.epoch \in Nat
  BY <1>1, <1>2 DEF StageVal, StageState, Open
<1>4. CASE Claim(s, t) = NoWrite
  BY <1>4, NoWriteEdits
<1>5. CASE Claim(s, t) # NoWrite
  <2>1. /\ s[t].state = "queued" /\ ~ Busy(s, t)
        /\ Claim(s, t) = Merge(Bump, [r \in {t} |-> v])
    BY <1>5, <1>1 DEF Claim
  <2>2. Alone(s, t)
    BY <2>1 DEF Busy, Alone
  <2>3. s[t].state \in Open /\ v.state \notin {"absent", "cancelled"}
    BY <2>1, <1>3 DEF Open
  <2>4. Edits(Merge(Bump, [r \in {t} |-> v]), s)
    BY <2>2, <2>3, <1>3, OneStage
  <2>5. t \in DOMAIN Claim(s, t) /\ Claim(s, t)[t] = v
    BY <2>1, RowsApart DEF Merge, Bump, Guard
  <2>6. QED BY <2>1, <2>4, <2>5, <1>3
<1>6. QED BY <1>4, <1>5

LEMMA RequeueEdits ==
  ASSUME NEW s, StoreType(s), NEW t \in Stage
  PROVE  Edits(Requeue(s, t), s)
<1>1. PICK v : v = [state |-> IF Exhausted(s, t) THEN "failed" ELSE "queued",
                    epoch |-> s[t].epoch + 1]
  OBVIOUS
<1>2. s[t].epoch + 1 \in Nat
  BY DEF StoreType, StageVal
<1>3. v \in StageVal /\ v.state \in {"queued", "failed"}
  BY <1>1, <1>2 DEF StageVal, StageState, Open, Terminal
<1>4. CASE s[t].state # "running"
  BY <1>4, NoWriteEdits DEF Requeue
<1>5. CASE s[t].state = "running"
  <2>1. Requeue(s, t) = Merge(Bump, [r \in {t} |-> v])
    BY <1>1, <1>5 DEF Requeue
  <2>2. s[t].state \in Open /\ v.state \notin {"absent", "cancelled", "running"}
    BY <1>3, <1>5 DEF Open
  <2>3. Edits(Merge(Bump, [r \in {t} |-> v]), s)
    BY <2>2, <1>3, OneStage
  <2>4. QED BY <2>1, <2>3
<1>6. QED BY <1>4, <1>5

LEMMA FailEdits ==
  ASSUME NEW s, StoreType(s), NEW c \in Client,
         claimed[c] # NoClaim => claimed[c].stage \in Stage
  PROVE  Edits(Fail(s, c), s)
<1>1. CASE ~ Fenced(s, c)
  BY <1>1, BumpEdits DEF Fail
<1>2. CASE Fenced(s, c)
  <2>1. PICK t \in Stage : t = claimed[c].stage
    BY <1>2 DEF Fenced
  <2>2. PICK v : v = [s[t] EXCEPT !.state = "failed"]
    OBVIOUS
  <2>3. s[t].state = "running" /\ v \in StageVal /\ v.state = "failed"
    BY <1>2, <2>1, <2>2 DEF Fenced, StoreType, StageVal, StageState, Terminal
  <2>4. Fail(s, c) = Merge(Bump, [r \in {t} |-> v])
    BY <1>2, <2>1, <2>2 DEF Fail
  <2>5. s[t].state \in Open /\ v.state \notin {"absent", "cancelled", "running"}
    BY <2>3 DEF Open
  <2>6. Edits(Merge(Bump, [r \in {t} |-> v]), s)
    BY <2>3, <2>5, OneStage
  <2>7. QED BY <2>4, <2>6
<1>3. QED BY <1>1, <1>2

\* Settle writes nothing, or the job's end on stages that have all ended.
Ended(s, st) ==
  [s[Job] EXCEPT !.state = IF \E t \in Stage : st[t] = "failed" THEN "failed" ELSE "completed"]
LEMMA SettleCases ==
  ASSUME NEW s, NEW st, StoreType(s)
  PROVE  \/ Settle(s, st) = NoWrite
         \/ /\ s[Job].state = "running" /\ \A t \in Stage : st[t] \notin Open
            /\ Settle(s, st) = [r \in {Job} |-> Ended(s, st)]
            /\ Ended(s, st) \in JobVal /\ Ended(s, st).cancel = s[Job].cancel
            /\ Ended(s, st).state =
                 IF \E t \in Stage : st[t] = "failed" THEN "failed" ELSE "completed"
BY DEF Settle, Ended, StoreType, JobVal, Terminal

LEMMA SettleFinishedEdits ==
  ASSUME NEW s, StoreType(s) PROVE Edits(SettleFinished(s), s)
<1> DEFINE st == StatesOf(s)
<1>1. CASE Settle(s, st) = NoWrite
  BY <1>1, NoWriteEdits DEF SettleFinished
<1>2. CASE Settle(s, st) # NoWrite
  <2>1. PICK w : w = SettleFinished(s)
    OBVIOUS
  <2>2. /\ DOMAIN w = {Job} /\ w[Job] = Ended(s, st)
        /\ s[Job].state = "running" /\ \A t \in Stage : s[t].state \notin Open
        /\ w[Job] \in JobVal /\ w[Job].cancel = s[Job].cancel
        /\ w[Job].state =
             IF \E t \in Stage : s[t].state = "failed" THEN "failed" ELSE "completed"
    BY <1>2, <2>1, SettleCases DEF SettleFinished, StatesOf
  <2>3. Job # Guard /\ Job # Marker /\ Job \in Row /\ Stage \cap DOMAIN w = {}
    BY <2>2, RowsApart DEF Job, Guard, Marker, Row
  <2>4. EditsRows(w, s) /\ Unguarded(w, s)
    BY <2>2, <2>3 DEF EditsRows, Unguarded
  <2>5. HasCause(w, s) /\ StartsAlone(w, s)
    BY <2>3 DEF HasCause, StartsAlone
  <2>6. \A t \in Stage : StageAfter(w, s, t) = s[t].state
    BY <2>3 DEF StageAfter
  <2>7. SettlesJob(w, s)
    BY <2>2, <2>6 DEF SettlesJob
  <2>8. QED BY <2>1, <2>4, <2>5, <2>7 DEF Edits
<1>3. QED BY <1>1, <1>2

LEMMA CommitEdits ==
  ASSUME NEW s, StoreType(s), NEW c \in Client,
         claimed[c] # NoClaim => claimed[c].stage \in Stage
  PROVE  Edits(Commit(s, c), s)
<1>1. CASE ~ Fenced(s, c) \/ s[Job].cancel
  BY <1>1, BumpEdits DEF Commit
<1>2. CASE Fenced(s, c) /\ ~ s[Job].cancel
  <2>1. PICK t \in Stage : t = claimed[c].stage
    BY <1>2 DEF Fenced
  <2>2. PICK v : v = [s[t] EXCEPT !.state = "completed"]
    OBVIOUS
  <2>3. s[t].state = "running" /\ v \in StageVal /\ v.state = "completed"
    BY <1>2, <2>1, <2>2 DEF Fenced, StoreType, StageVal, StageState, Terminal
  <2>4. PICK st : st = [StatesOf(s) EXCEPT ![t] = "completed"]
    OBVIOUS
  <2>5. \A u \in Stage : st[u] = IF u = t THEN "completed" ELSE s[u].state
    BY <2>4 DEF StatesOf
  <2>6. PICK w : w = Merge(Bump, Merge(Settle(s, st), [r \in {t} |-> v]))
    OBVIOUS
  <2>7. Commit(s, c) = w
    BY <1>2, <2>1, <2>2, <2>4, <2>6 DEF Commit
  <2>8. s[t].state \in Open /\ v.state \notin {"absent", "cancelled", "running"}
    BY <2>3 DEF Open
  <2>9. CASE Settle(s, st) = NoWrite
    <3>1. Merge(Settle(s, st), [r \in {t} |-> v]) = [r \in {t} |-> v]
      BY <2>9 DEF Merge, NoWrite
    <3>2. Edits(Merge(Bump, [r \in {t} |-> v]), s)
      BY <2>3, <2>8, OneStage
    <3>3. QED BY <2>6, <2>7, <3>1, <3>2
  <2>10. CASE Settle(s, st) # NoWrite
    <3>1. t # Guard /\ t # Job /\ t # Marker /\ Guard # Marker /\ Guard # Job /\ Job # Marker
          /\ t \in Row /\ Guard \in Row /\ Guard \notin Stage /\ Job \in Row /\ Job \notin Stage
      BY RowsApart DEF Guard, Job, Marker, Row
    <3>2. PICK e : e = Ended(s, st)
      OBVIOUS
    <3>3. /\ s[Job].state = "running" /\ \A u \in Stage : st[u] \notin Open
          /\ Settle(s, st) = [r \in {Job} |-> e] /\ e \in JobVal
          /\ e.state = IF \E u \in Stage : st[u] = "failed" THEN "failed" ELSE "completed"
      BY <2>10, <3>2, SettleCases
    <3>4. PICK f : f = Merge(Settle(s, st), [r \in {t} |-> v])
      OBVIOUS
    <3>5. DOMAIN f = {t, Job} /\ f[t] = v /\ f[Job] = e
      BY <3>1, <3>3, <3>4 DEF Merge
    <3>6. /\ DOMAIN w = {t, Job, Guard} /\ w[t] = v /\ w[Job] = e /\ w[Guard] = "bumped"
      BY <3>1, <3>4, <3>5, <2>6 DEF Merge, Bump
    <3>7. Stage \cap DOMAIN w = {t} /\ Marker \notin DOMAIN w
      BY <3>1, <3>6
    <3>8. EditsRows(w, s)
      BY <3>1, <3>3, <3>6, <3>7, <2>3, <2>8 DEF EditsRows
    <3>9. Unguarded(w, s) /\ HasCause(w, s) /\ StartsAlone(w, s)
      BY <3>6, <3>7, <2>3 DEF Unguarded, HasCause, StartsAlone
    <3>10. \A u \in Stage : StageAfter(w, s, u) = st[u]
      BY <3>6, <3>7, <2>3, <2>5 DEF StageAfter
    <3>11. SettlesJob(w, s)
      BY <3>3, <3>6, <3>10 DEF SettlesJob
    <3>12. QED BY <2>7, <3>8, <3>9, <3>11 DEF Edits
  <2>11. QED BY <2>9, <2>10
<1>3. QED BY <1>1, <1>2

LEMMA StopRequestEdits ==
  ASSUME NEW s, StoreType(s) PROVE Edits(StopRequest(s), s)
<1>1. CASE s[Job].state = "absent"
  BY <1>1, NoWriteEdits DEF StopRequest
<1>2. CASE s[Job].state # "absent"
  <2>1. PICK v : v = [s[Job] EXCEPT !.cancel = TRUE]
    OBVIOUS
  <2>2. v \in JobVal /\ v.state = s[Job].state
    BY <2>1 DEF StoreType, JobVal
  <2>3. PICK w : w = StopRequest(s)
    OBVIOUS
  <2>4. Guard # Job /\ Job # Marker /\ Guard # Marker /\ Guard \in Row /\ Job \in Row
        /\ Guard \notin Stage /\ Job \notin Stage
    BY RowsApart DEF Guard, Job, Marker, Row
  <2>5. DOMAIN w = {Job, Guard} /\ w[Job] = v /\ w[Guard] = "bumped"
    BY <1>2, <2>1, <2>3, <2>4 DEF StopRequest, Merge, Bump
  <2>6. EditsRows(w, s) /\ Unguarded(w, s)
    BY <1>2, <2>2, <2>4, <2>5 DEF EditsRows, Unguarded
  <2>7. SettlesJob(w, s) /\ HasCause(w, s) /\ StartsAlone(w, s)
    BY <2>2, <2>4, <2>5 DEF SettlesJob, HasCause, StartsAlone
  <2>8. QED BY <2>3, <2>6, <2>7 DEF Edits
<1>3. QED BY <1>1, <1>2

\* What stop_tasks writes.
StopsTasks(w, s) ==
  /\ DOMAIN w = {Job, Guard} \cup {t \in Stage : s[t].state \in Open}
  /\ w[Guard] = "bumped"
  /\ w[Job] = [cancel |-> TRUE, state |-> IF s[Job].state = "running" THEN "cancelled"
                                          ELSE s[Job].state]
  /\ \A t \in Stage : s[t].state \in Open =>
       w[t] = [state |-> "cancelled", epoch |-> s[t].epoch + 1]
LEMMA StopTasksWrites ==
  ASSUME NEW s, ~ (s[Job].state = "absent" \/ ~ s[Job].cancel)
  PROVE  StopsTasks(StopTasks(s), s)
<1>0. PICK w : w = StopTasks(s)
  OBVIOUS
<1>1. PICK f : f = [r \in {Job} \cup {t \in Stage : s[t].state \in Open} |->
            IF r = Job
            THEN [cancel |-> TRUE, state |-> IF s[Job].state = "running" THEN "cancelled"
                                             ELSE s[Job].state]
            ELSE [state |-> "cancelled", epoch |-> s[r].epoch + 1]]
  OBVIOUS
<1>2. w = Merge(Bump, f)
  BY <1>0, <1>1 DEF StopTasks
<1>3. DOMAIN f = {Job} \cup {t \in Stage : s[t].state \in Open}
  BY <1>1
<1>4. Guard \notin DOMAIN f /\ Job \notin Stage /\ Job # Guard
  BY <1>3, RowsApart DEF Guard, Job
<1>5. DOMAIN w = DOMAIN f \cup {Guard} /\ w[Guard] = "bumped" /\ \A r \in DOMAIN f : w[r] = f[r]
  BY <1>2, <1>4 DEF Merge, Bump
<1>6. w[Job] = [cancel |-> TRUE, state |-> IF s[Job].state = "running" THEN "cancelled"
                                           ELSE s[Job].state]
  BY <1>1, <1>3, <1>5
<1>7. \A t \in Stage : s[t].state \in Open =>
              w[t] = [state |-> "cancelled", epoch |-> s[t].epoch + 1]
  BY <1>1, <1>3, <1>4, <1>5
<1>8. QED BY <1>0, <1>3, <1>5, <1>6, <1>7 DEF StopsTasks

LEMMA StopTasksEdits ==
  ASSUME NEW s, StoreType(s) PROVE Edits(StopTasks(s), s)
<1>1. CASE s[Job].state = "absent" \/ ~ s[Job].cancel
  BY <1>1, NoWriteEdits DEF StopTasks
<1>2. CASE ~ (s[Job].state = "absent" \/ ~ s[Job].cancel)
  <2>1. PICK w : w = StopTasks(s)
    OBVIOUS
  <2>2. /\ DOMAIN w = {Job, Guard} \cup {t \in Stage : s[t].state \in Open}
        /\ w[Guard] = "bumped"
        /\ w[Job] = [cancel |-> TRUE, state |-> IF s[Job].state = "running" THEN "cancelled"
                                                ELSE s[Job].state]
        /\ \A t \in Stage : s[t].state \in Open =>
              w[t] = [state |-> "cancelled", epoch |-> s[t].epoch + 1]
    BY <1>2, <2>1, StopTasksWrites DEF StopsTasks
  <2>3. Guard # Job /\ Job # Marker /\ Guard # Marker /\ Guard \in Row /\ Job \in Row
        /\ Guard \notin Stage /\ Job \notin Stage /\ Marker \notin Stage /\ Stage \subseteq Row
    BY RowsApart DEF Guard, Job, Marker, Row
  <2>4. /\ w[Job] \in JobVal /\ w[Job].state # "absent"
        /\ w[Job].state = (IF s[Job].state = "running" THEN "cancelled" ELSE s[Job].state)
    BY <1>2, <2>2 DEF StoreType, JobVal, Terminal
  <2>5. \A t \in Stage \cap DOMAIN w : 
          s[t].state \in Open /\ w[t] \in StageVal /\ w[t].state = "cancelled"
    <3> TAKE t \in Stage \cap DOMAIN w
    <3>1. s[t].state \in Open
      BY <2>2, <2>3
    <3>2. s[t].epoch + 1 \in Nat
      BY DEF StoreType, StageVal
    <3>3. w[t] = [state |-> "cancelled", epoch |-> s[t].epoch + 1]
      BY <3>1, <2>2
    <3>4. QED BY <3>1, <3>2, <3>3 DEF StageVal, StageState, Terminal
  <2>6. EditsRows(w, s) /\ Unguarded(w, s)
    <3>1. DOMAIN w \subseteq Row \ {Marker}
      BY <2>2, <2>3
    <3>2. QED BY <1>2, <3>1, <2>2, <2>4, <2>5 DEF EditsRows, Unguarded
  <2>7. s[Job].state \in Terminal \cup {"running"}
    BY <1>2 DEF StoreType, JobVal
  <2>8. HasCause(w, s)
    BY <2>2, <2>4, <2>7 DEF HasCause
  <2>9. SettlesJob(w, s) /\ StartsAlone(w, s)
    BY <2>4, <2>5 DEF SettlesJob, StartsAlone
  <2>10. QED BY <2>1, <2>6, <2>8, <2>9 DEF Edits
<1>3. QED BY <1>1, <1>2

LEMMA ClearWipes ==
  ASSUME NEW s, StoreType(s), Clear(s) # NoWrite PROVE Wipes(Clear(s), s)
<1>1. PICK f : f = [r \in Stage \cup {Job, Marker} |->
            CASE r \in Stage -> [state |-> "absent", epoch |-> 0]
              [] r = Job -> [state |-> "absent", cancel |-> FALSE]
              [] r = Marker -> TRUE]
  OBVIOUS
<1>2. Clear(s) = Merge(Bump, f) /\ s[Job].state \in Terminal
  BY <1>1 DEF Clear
<1>3. Guard # Job /\ Job # Marker /\ Guard # Marker
        /\ Guard \notin Stage /\ Job \notin Stage /\ Marker \notin Stage
    BY RowsApart DEF Guard, Job, Marker
<1>4. PICK w : w = Clear(s)
  OBVIOUS
<1>5. DOMAIN w = DOMAIN f \cup {Guard} /\ w[Guard] = "bumped" /\ \A r \in DOMAIN f : w[r] = f[r]
  BY <1>1, <1>2, <1>3, <1>4 DEF Merge, Bump
<1>6. DOMAIN w = Row
  BY <1>1, <1>5 DEF Row
<1>7. \A t \in Stage : w[t] = [state |-> "absent", epoch |-> 0]
  BY <1>1, <1>3, <1>5
<1>8. w[Job] = [state |-> "absent", cancel |-> FALSE] /\ w[Marker] = TRUE
  BY <1>1, <1>3, <1>5
<1>9. QED BY <1>2, <1>4, <1>5, <1>6, <1>7, <1>8 DEF Wipes

\* A pass of settle_blocked_job only cancels queued stages, and none unless some
\* stage has failed or was cancelled before.
Swept(a, b) ==
  /\ \A t \in Stage : b[t] = a[t] \/ (a[t] = "queued" /\ b[t] = "cancelled")
  /\ (\E t \in Stage : b[t] # a[t]) => \E u \in Stage : a[u] \in {"failed", "cancelled"}

LEMMA PassSweeps ==
  ASSUME NEW st PROVE Swept(st, Blocked(st))
BY GuardShape DEF Swept, Blocked

LEMMA SweepAgain ==
  ASSUME NEW a, NEW b, NEW c, Swept(a, b), Swept(b, c) PROVE Swept(a, c)
BY DEF Swept

LEMMA SettleBlockedEdits ==
  ASSUME NEW s, StoreType(s) PROVE Edits(SettleBlocked(s), s)
<1>1. PICK a : a = StatesOf(s)
  OBVIOUS
<1>2. PICK st : st = Blocked(Blocked(Blocked(Blocked(a))))
  OBVIOUS
<1>3. Swept(a, st)
  <2>1. PICK b1 : b1 = Blocked(a)
    OBVIOUS
  <2>2. PICK b2 : b2 = Blocked(b1)
    OBVIOUS
  <2>3. PICK b3 : b3 = Blocked(b2)
    OBVIOUS
  <2>4. st = Blocked(b3)
    BY <1>2, <2>1, <2>2, <2>3
  <2>5. Swept(a, b1) /\ Swept(b1, b2) /\ Swept(b2, b3) /\ Swept(b3, st)
    BY <2>1, <2>2, <2>3, <2>4, PassSweeps
  <2>6. Swept(a, b2)
    BY <2>5, SweepAgain
  <2>7. Swept(a, b3)
    BY <2>5, <2>6, SweepAgain
  <2>8. QED BY <2>5, <2>7, SweepAgain
<1>4. \A t \in Stage : a[t] = s[t].state
  BY <1>1 DEF StatesOf
<1>5. PICK f : f = [r \in {t \in Stage : st[t] # s[t].state} |-> [s[r] EXCEPT !.state = st[r]]]
  OBVIOUS
<1>6. PICK w : w = SettleBlocked(s)
  OBVIOUS
<1>7. w = Merge(Settle(s, st), f)
  BY <1>1, <1>2, <1>5, <1>6 DEF SettleBlocked
<1>8. DOMAIN f = {t \in Stage : st[t] # s[t].state}
  BY <1>5
<1>9. Guard # Job /\ Job # Marker /\ Guard # Marker /\ Guard \in Row /\ Job \in Row
      /\ Guard \notin Stage /\ Job \notin Stage /\ Marker \notin Stage /\ Stage \subseteq Row
  BY RowsApart DEF Guard, Job, Marker, Row
<1>10. \A t \in DOMAIN f : s[t].state = "queued" /\ f[t] = [s[t] EXCEPT !.state = "cancelled"]
  BY <1>3, <1>4, <1>5, <1>8 DEF Swept
<1>11. DOMAIN Settle(s, st) \subseteq {Job}
  BY SettleCases DEF NoWrite
<1>12. /\ Stage \cap DOMAIN w = DOMAIN f /\ \A t \in Stage \cap DOMAIN w : w[t] = f[t]
       /\ DOMAIN w \subseteq Stage \cup {Job}
  BY <1>7, <1>8, <1>9, <1>11 DEF Merge
<1>13. \A t \in Stage \cap DOMAIN w :
         /\ s[t].state = "queued" /\ w[t] = [s[t] EXCEPT !.state = "cancelled"]
         /\ w[t] \in StageVal /\ w[t].state = "cancelled"
  <2> TAKE t \in Stage \cap DOMAIN w
  <2>1. s[t].state = "queued" /\ w[t] = [s[t] EXCEPT !.state = "cancelled"]
    BY <1>10, <1>12
  <2>2. s[t] \in StageVal
    BY DEF StoreType
  <2>3. QED BY <2>1, <2>2 DEF StageVal, StageState, Terminal
<1>14. \A t \in Stage : StageAfter(w, s, t) = st[t]
  <2> TAKE t \in Stage
  <2>1. CASE t \in DOMAIN f
    BY <2>1, <1>3, <1>4, <1>8, <1>12, <1>13 DEF StageAfter, Swept
  <2>2. CASE t \notin DOMAIN f
    BY <2>2, <1>8, <1>12 DEF StageAfter
  <2>3. QED BY <2>1, <2>2
<1>15. HasCause(w, s)
  <2>1. (\E t \in Stage : st[t] # a[t]) => \E u \in Stage : a[u] \in {"failed", "cancelled"}
    BY <1>3 DEF Swept
  <2>2. (\E t \in DOMAIN f : TRUE) => \E u \in Stage : s[u].state \in {"failed", "cancelled"}
    BY <2>1, <1>4, <1>8
  <2>3. QED BY <2>2, <1>12 DEF HasCause
<1>16. StartsAlone(w, s)
  BY <1>13 DEF StartsAlone
<1>17. Job \in DOMAIN w =>
         /\ s[Job].state = "running" /\ \A t \in Stage : st[t] \notin Open
         /\ w[Job] \in JobVal /\ w[Job].cancel = s[Job].cancel
         /\ w[Job].state = IF \E t \in Stage : st[t] = "failed" THEN "failed" ELSE "completed"
  <2>1. SUFFICES ASSUME Job \in DOMAIN w
                 PROVE  /\ s[Job].state = "running" /\ \A t \in Stage : st[t] \notin Open
                        /\ w[Job] \in JobVal /\ w[Job].cancel = s[Job].cancel
                        /\ w[Job].state = IF \E t \in Stage : st[t] = "failed"
                                          THEN "failed" ELSE "completed"
    OBVIOUS
  <2>2. Job \in DOMAIN Settle(s, st) /\ w[Job] = Settle(s, st)[Job]
    BY <2>1, <1>7, <1>8, <1>9 DEF Merge
  <2>3. /\ s[Job].state = "running" /\ \A t \in Stage : st[t] \notin Open
        /\ Settle(s, st) = [r \in {Job} |-> Ended(s, st)]
        /\ Ended(s, st) \in JobVal /\ Ended(s, st).cancel = s[Job].cancel
        /\ Ended(s, st).state =
             IF \E t \in Stage : st[t] = "failed" THEN "failed" ELSE "completed"
    <3>1. Settle(s, st) # NoWrite
      BY <2>2 DEF NoWrite
    <3>2. QED BY <3>1, SettleCases
  <2>4. w[Job] = Ended(s, st)
    BY <2>2, <2>3
  <2>5. QED BY <2>3, <2>4
<1>18. EditsRows(w, s)
  <2>1. DOMAIN w \subseteq Row \ {Marker} /\ Guard \notin DOMAIN w
    BY <1>9, <1>12
  <2>2. \A t \in Stage \cap DOMAIN w :
          s[t].state \in Open /\ w[t] \in StageVal /\ w[t].state # "absent"
    BY <1>13 DEF Open
  <2>3. QED BY <2>1, <2>2, <1>17 DEF EditsRows
<1>19. Unguarded(w, s)
  BY <1>13, <1>17 DEF Unguarded
<1>20. SettlesJob(w, s)
  BY <1>14, <1>17 DEF SettlesJob
<1>21. QED BY <1>6, <1>15, <1>16, <1>18, <1>19, <1>20 DEF Edits

LEMMA BodyEffect ==
  ASSUME NEW s, StoreType(s), NEW c \in Client, NEW o \in Ops,
         claimed[c] # NoClaim => claimed[c].stage \in Stage
  PROVE  Edits(Body(c, o, s), s) \/ Wipes(Body(c, o, s), s)
<1>1. CASE o \in [op : {"claim", "requeue"}, stage : Stage]
  <2>1. o.stage \in Stage /\ o.op \in {"claim", "requeue"}
    BY <1>1
  <2>2. CASE o.op = "claim"
    BY <2>1, <2>2, ClaimEdits DEF Body
  <2>3. CASE o.op = "requeue"
    BY <2>1, <2>3, RequeueEdits DEF Body
  <2>4. QED BY <2>1, <2>2, <2>3
<1>2. CASE o.op = "commit"
  BY <1>2, CommitEdits DEF Body
<1>3. CASE o.op = "fail"
  BY <1>3, FailEdits DEF Body
<1>4. CASE o.op = "settle_blocked"
  BY <1>4, SettleBlockedEdits DEF Body
<1>5. CASE o.op = "settle_finished"
  BY <1>5, SettleFinishedEdits DEF Body
<1>6. CASE o.op = "stop_request"
  BY <1>6, StopRequestEdits DEF Body
<1>7. CASE o.op = "stop_tasks"
  BY <1>7, StopTasksEdits DEF Body
<1>8. CASE o.op = "clear"
  <2>1. Body(c, o, s) = Clear(s)
    BY <1>8 DEF Body
  <2>2. QED BY <2>1, ClearWipes, NoWriteEdits
<1>9. QED BY <1>1, <1>2, <1>3, <1>4, <1>5, <1>6, <1>7, <1>8 DEF Ops

-----------------------------------------------------------------------------
(* A commit of the writes w of transaction x on the store d: none of the rows  *)
(* it writes has changed since its snapshot.                                   *)
Applied(w, d) == [r \in Row |-> IF r \in DOMAIN w THEN w[r] ELSE d[r]]
Lands(w, x, d) ==
  /\ StoreType(x.snap) /\ StoreType(d) /\ StoreTrue(x.snap) /\ StoreTrue(d) /\ MovedOn(x, d)
  /\ DOMAIN w \cap x.stale = {}
  /\ Edits(w, x.snap) \/ Wipes(w, x.snap)

LEMMA RowSorts ==
  /\ Guard # Job /\ Job # Marker /\ Guard # Marker
  /\ Guard \in Row /\ Job \in Row /\ Marker \in Row /\ Stage \subseteq Row
  /\ Guard \notin Stage /\ Job \notin Stage /\ Marker \notin Stage
  /\ Row = Stage \cup {Job, Guard, Marker}
BY RowsApart DEF Guard, Job, Marker, Row

LEMMA Landing ==
  ASSUME NEW w, NEW x, NEW d, Lands(w, x, d)
  PROVE  /\ DOMAIN w \subseteq Row
         /\ \A r \in DOMAIN w : r \notin x.stale /\ d[r] = x.snap[r]
         /\ DOMAIN Applied(w, d) = Row
         /\ \A r \in DOMAIN w : Applied(w, d)[r] = w[r]
         /\ \A r \in Row \ DOMAIN w : Applied(w, d)[r] = d[r]
<1>1. DOMAIN w \subseteq Row
  BY DEF Lands, Edits, EditsRows, Wipes
<1>2. QED BY <1>1 DEF Lands, MovedOn, FreshRows, Applied

LEMMA LandingType ==
  ASSUME NEW w, NEW x, NEW d, Lands(w, x, d)
  PROVE  StoreType(Applied(w, d))
<1>1. PICK e : e = Applied(w, d)
  OBVIOUS
<1>2. /\ DOMAIN e = Row /\ \A r \in DOMAIN w : e[r] = w[r]
      /\ \A r \in Row \ DOMAIN w : e[r] = d[r]
      /\ e = [r \in Row |-> IF r \in DOMAIN w THEN w[r] ELSE d[r]]
  BY <1>1, Landing DEF Applied
<1>3. StoreType(d) /\ StoreType(x.snap)
  BY DEF Lands
<1>4. (\A t \in Stage : e[t] \in StageVal) /\ e[Job] \in JobVal
      /\ e[Guard] = "bumped" /\ e[Marker] \in BOOLEAN
  <2>1. CASE Edits(w, x.snap)
    <3>1. \A t \in Stage : e[t] \in StageVal
      BY <2>1, <1>2, <1>3, RowSorts DEF Edits, EditsRows, StoreType
    <3>2. e[Job] \in JobVal
      BY <2>1, <1>2, <1>3, RowSorts DEF Edits, EditsRows, StoreType
    <3>3. e[Guard] = "bumped"
      BY <2>1, <1>2, <1>3, RowSorts DEF Edits, EditsRows, StoreType
    <3>4. e[Marker] = d[Marker]
      BY <2>1, <1>2, RowSorts DEF Edits, EditsRows
    <3>5. QED BY <3>1, <3>2, <3>3, <3>4, <1>3 DEF StoreType
  <2>2. CASE Wipes(w, x.snap)
    <3>1. \A t \in Stage : e[t] = [state |-> "absent", epoch |-> 0]
      BY <2>2, <1>2, RowSorts DEF Wipes
    <3>2. /\ e[Job] = [state |-> "absent", cancel |-> FALSE]
          /\ e[Guard] = "bumped" /\ e[Marker] = TRUE
      BY <2>2, <1>2, RowSorts DEF Wipes
    <3>3. \A t \in Stage : e[t] \in StageVal
      <4>1. "absent" \in StageState /\ 0 \in Nat
        BY DEF StageState
      <4>2. [state |-> "absent", epoch |-> 0] \in StageVal
        BY <4>1 DEF StageVal
      <4>3. QED BY <3>1, <4>2
    <3>4. e[Job] \in JobVal
      BY <3>2 DEF JobVal
    <3>5. e[Guard] = "bumped" /\ e[Marker] \in BOOLEAN
      BY <3>2
    <3>6. QED BY <3>3, <3>4, <3>5
  <2>3. QED BY <2>1, <2>2 DEF Lands
<1>5. e \in [Row -> Value]
  <2>1. StageVal \subseteq Value /\ JobVal \subseteq Value /\ "bumped" \in Value
        /\ BOOLEAN \subseteq Value
    BY DEF StageVal, JobVal, StageState, Value
  <2>2. \A r \in Row : e[r] \in Value
    BY <2>1, <1>4, RowSorts
  <2>3. QED BY <2>2, <1>2
<1>6. QED BY <1>1, <1>4, <1>5 DEF StoreType

JobRow(d) ==
  /\ d[Job].state = "completed" => \A t \in Stage : d[t].state = "completed"
  /\ d[Job].state = "failed" =>
       /\ \A t \in Stage : d[t].state \notin Open
       /\ \E t \in Stage : d[t].state = "failed"

LEMMA WipedTrue ==
  ASSUME NEW w, NEW x, NEW d, Lands(w, x, d), Wipes(w, x.snap)
  PROVE  StoreTrue(Applied(w, d)) /\ JobRow(Applied(w, d))
<1>1. PICK e : e = Applied(w, d)
  OBVIOUS
<1>2. e[Job].state = "absent"
  BY <1>1, Landing, RowSorts DEF Wipes
<1>3. StoreTrue(e) /\ JobRow(e)
  BY <1>2 DEF StoreTrue, Caused, GoTogether, JobRow
<1>4. QED BY <1>1, <1>3

LEMMA LandingTrue ==
  ASSUME NEW w, NEW x, NEW d, Lands(w, x, d), JobRow(d)
  PROVE  StoreTrue(Applied(w, d))
<1>1. PICK e : e = Applied(w, d)
  OBVIOUS
<1>2. PICK s : s = x.snap
  OBVIOUS
<1>3. /\ DOMAIN w \subseteq Row
      /\ \A r \in DOMAIN w : r \notin x.stale /\ d[r] = s[r] /\ e[r] = w[r]
      /\ \A r \in Row \ DOMAIN w : e[r] = d[r]
  BY <1>1, <1>2, Landing
<1>4. /\ StoreTrue(s) /\ StoreTrue(d) /\ EndedStays(x) /\ JobStaysClosed(x, d)
      /\ FreshRows(x, d)
  BY <1>2 DEF Lands, MovedOn
<1>5. CASE Wipes(w, s)
  BY <1>2, <1>5, WipedTrue
<1>6. CASE Edits(w, s)
  <2>1. \A t \in Stage : d[t].state = "failed" => e[t].state = "failed"
    <3> SUFFICES ASSUME NEW t \in Stage, d[t].state = "failed" PROVE e[t].state = "failed"
      OBVIOUS
    <3>1. t \notin DOMAIN w
      BY <1>3, <1>6 DEF Edits, EditsRows, Open
    <3>2. QED BY <3>1, <1>3, RowSorts
  <2>2. d[Job].state \in {"cancelled", "absent"} => e[Job].state \in {"cancelled", "absent"}
    BY <1>3, <1>6, RowSorts DEF Edits, EditsRows
  <2>3. Caused(e)
    <3> SUFFICES ASSUME NEW t \in Stage, e[t].state = "cancelled"
                 PROVE  \/ \E u \in Stage : e[u].state = "failed"
                        \/ e[Job].state \in {"cancelled", "absent"}
      BY DEF Caused
    <3>1. CASE t \notin DOMAIN w
      <4>1. d[t].state = "cancelled"
        BY <3>1, <1>3, RowSorts
      <4>2. (\E u \in Stage : d[u].state = "failed") \/ d[Job].state \in {"cancelled", "absent"}
        BY <4>1, <1>4 DEF StoreTrue, Caused
      <4>3. QED BY <4>2, <2>1, <2>2
    <3>2. CASE t \in DOMAIN w
      <4>1. s[t].state \in Open /\ d[t] = s[t] /\ w[t].state = "cancelled" /\ t \in Stage \cap DOMAIN w
        BY <3>2, <1>3, <1>6 DEF Edits, EditsRows
      <4>2. \/ \E u \in Stage : s[u].state \in {"failed", "cancelled"}
            \/ Job \in DOMAIN w /\ (w[Job].state = "cancelled" \/ s[Job].state \in Terminal)
        BY <4>1, <1>6 DEF Edits, HasCause
      <4>3. CASE \E u \in Stage : s[u].state = "failed"
        <5>1. PICK u \in Stage : s[u].state = "failed"
          BY <4>3
        <5>2. u \notin x.stale
          <6>1. x.stale # Row
            BY <3>2, <1>3
          <6>2. QED BY <5>1, <6>1, <1>2, <1>4 DEF EndedStays, Terminal
        <5>3. d[u].state = "failed"
          BY <5>1, <5>2, <1>2, <1>4, RowSorts DEF FreshRows
        <5>4. QED BY <5>3, <2>1
      <4>4. CASE \E u \in Stage : s[u].state = "cancelled"
        <5>1. (\E u \in Stage : s[u].state = "failed") \/ s[Job].state \in {"cancelled", "absent"}
          BY <4>4, <1>4 DEF StoreTrue, Caused
        <5>2. CASE s[Job].state \in {"cancelled", "absent"}
          BY <5>2, <1>2, <1>4, <2>2 DEF JobStaysClosed
        <5>3. QED BY <5>1, <5>2, <4>3
      <4>5. CASE Job \in DOMAIN w /\ w[Job].state = "cancelled"
        BY <4>5, <1>3
      <4>6. CASE Job \in DOMAIN w /\ s[Job].state \in Terminal
        <5>1. d[Job] = s[Job]
          BY <4>6, <1>3
        <5>2. d[t].state \in Open
          BY <4>1
        <5>3. s[Job].state \notin {"completed", "failed"}
          BY <5>1, <5>2 DEF JobRow, Open
        <5>4. w[Job].state = "cancelled"
          BY <5>3, <4>6, <1>6 DEF Edits, EditsRows, Terminal
        <5>5. QED BY <5>4, <4>6, <1>3
      <4>7. QED BY <4>2, <4>3, <4>4, <4>5, <4>6
    <3>3. QED BY <3>1, <3>2
  <2>4. GoTogether(e)
    <3> SUFFICES ASSUME NEW t \in Stage, e[t].state = "absent" PROVE e[Job].state = "absent"
      BY DEF GoTogether
    <3>1. t \notin DOMAIN w
      BY <1>3, <1>6 DEF Edits, EditsRows
    <3>2. d[Job].state = "absent"
      BY <3>1, <1>3, <1>4, RowSorts DEF StoreTrue, GoTogether
    <3>3. Job \notin DOMAIN w
      BY <3>2, <1>3, <1>6 DEF Edits, EditsRows
    <3>4. QED BY <3>2, <3>3, <1>3, RowSorts
  <2>5. QED BY <1>1, <2>3, <2>4 DEF StoreTrue
<1>7. QED BY <1>2, <1>5, <1>6 DEF Lands

LEMMA LandingJobRow ==
  ASSUME NEW w, NEW x, NEW d, Lands(w, x, d), JobRow(d)
  PROVE  JobRow(Applied(w, d))
<1>1. PICK e : e = Applied(w, d)
  OBVIOUS
<1>2. PICK s : s = x.snap
  OBVIOUS
<1>3. /\ DOMAIN w \subseteq Row
      /\ \A r \in DOMAIN w : r \notin x.stale /\ d[r] = s[r] /\ e[r] = w[r]
      /\ \A r \in Row \ DOMAIN w : e[r] = d[r]
  BY <1>1, <1>2, Landing
<1>4. /\ StoreTrue(s) /\ StoreType(s) /\ StoreTrue(e) /\ EndedStays(x) /\ FreshRows(x, d)
  BY <1>1, <1>2, LandingTrue DEF Lands, MovedOn
<1>5. CASE Wipes(w, s)
  BY <1>2, <1>5, WipedTrue
<1>6. CASE Edits(w, s)
  <2>1. CASE e[Job].state = d[Job].state
    <3>1. ASSUME d[Job].state \in {"completed", "failed"}
          PROVE  \A t \in Stage : e[t] = d[t]
      <4> TAKE t \in Stage
      <4>1. d[t].state \notin Open
        BY <3>1 DEF JobRow, Open
      <4>2. t \notin DOMAIN w
        BY <4>1, <1>3, <1>6 DEF Edits, EditsRows
      <4>3. QED BY <4>2, <1>3, RowSorts
    <3>2. JobRow(e)
      BY <2>1, <3>1 DEF JobRow
    <3>3. QED BY <1>1, <3>2
  <2>2. CASE e[Job].state # d[Job].state
    <3>1. Job \in DOMAIN w /\ w[Job].state # s[Job].state /\ e[Job] = w[Job]
      BY <2>2, <1>3, RowSorts
    <3>2. /\ s[Job].state = "running"
          /\ w[Job].state # "cancelled" =>
               /\ \A t \in Stage : StageAfter(w, s, t) \notin Open
               /\ w[Job].state = IF \E t \in Stage : StageAfter(w, s, t) = "failed"
                                 THEN "failed" ELSE "completed"
      BY <3>1, <1>6 DEF Edits, SettlesJob
    <3>3. CASE w[Job].state = "cancelled"
      <4>1. JobRow(e)
        BY <3>1, <3>3 DEF JobRow
      <4>2. QED BY <1>1, <4>1
    <3>4. CASE w[Job].state # "cancelled"
      <4>1. x.stale # Row
        BY <3>1, <1>3
      <4>2. \A t \in Stage : e[t].state = StageAfter(w, s, t) /\ e[t].state # "absent"
        <5> TAKE t \in Stage
        <5>1. CASE t \in DOMAIN w
          BY <5>1, <1>3, <1>6 DEF StageAfter, Edits, EditsRows
        <5>2. CASE t \notin DOMAIN w
          <6>1. s[t].state \notin Open /\ StageAfter(w, s, t) = s[t].state
            BY <5>2, <3>2, <3>4 DEF StageAfter
          <6>2. s[t].state # "absent"
            BY <3>2, <1>4 DEF StoreTrue, GoTogether
          <6>3. s[t].state \in Terminal
            BY <6>1, <6>2, <1>4 DEF StoreType, StageVal, StageState
          <6>4. t \notin x.stale
            BY <6>3, <4>1, <1>2, <1>4 DEF EndedStays
          <6>5. d[t] = s[t] /\ e[t] = d[t]
            BY <6>4, <5>2, <1>2, <1>3, <1>4, RowSorts DEF FreshRows
          <6>6. QED BY <6>1, <6>2, <6>5
        <5>3. QED BY <5>1, <5>2
      <4>3. \A t \in Stage : e[t].state \notin Open
        BY <3>2, <3>4, <4>2
      <4>4. e[Job].state = IF \E t \in Stage : e[t].state = "failed" THEN "failed" ELSE "completed"
        BY <3>1, <3>2, <3>4, <4>2
      <4>5. CASE \E t \in Stage : e[t].state = "failed"
        <5>1. JobRow(e)
          BY <4>3, <4>4, <4>5 DEF JobRow
        <5>2. QED BY <1>1, <5>1
      <4>6. CASE ~ \E t \in Stage : e[t].state = "failed"
        <5>1. e[Job].state = "completed"
          BY <4>4, <4>6
        <5>2. \A t \in Stage : e[t].state # "cancelled"
          BY <5>1, <4>6, <1>4 DEF StoreTrue, Caused
        <5>3. \A t \in Stage : e[t].state \in StageState
          BY <1>1, LandingType DEF StoreType, StageVal
        <5>4. \A t \in Stage : e[t].state = "completed"
          BY <5>2, <5>3, <4>2, <4>3, <4>6 DEF StageState, Terminal
        <5>5. JobRow(e)
          BY <5>1, <5>4 DEF JobRow
        <5>6. QED BY <1>1, <5>5
      <4>7. QED BY <4>5, <4>6
    <3>5. QED BY <3>3, <3>4
  <2>3. QED BY <2>1, <2>2
<1>7. QED BY <1>2, <1>5, <1>6 DEF Lands

Skew(d, t, u) ==
  d[t].state = "running" /\ d[u].state = "running" => Deps[t] = {} /\ Deps[u] = {}
NoSkew(d) == \A t, u \in Stage : t # u => Skew(d, t, u)

LEMMA LandingNoSkew ==
  ASSUME NEW w, NEW x, NEW d, Lands(w, x, d), NoSkew(d)
  PROVE  NoSkew(Applied(w, d))
<1>1. PICK e : e = Applied(w, d)
  OBVIOUS
<1>2. PICK s : s = x.snap
  OBVIOUS
<1>3. /\ DOMAIN w \subseteq Row
      /\ \A r \in DOMAIN w : r \notin x.stale /\ d[r] = s[r] /\ e[r] = w[r]
      /\ \A r \in Row \ DOMAIN w : e[r] = d[r]
  BY <1>1, <1>2, Landing
<1>4. FreshRows(x, d) /\ OnlySettled(x, d) /\ StoreType(s)
  BY <1>2 DEF Lands, MovedOn
<1>5. CASE Wipes(w, s)
  <2>0. \A t \in Stage : e[t] = [state |-> "absent", epoch |-> 0]
    BY <1>3, <1>5, RowSorts DEF Wipes
  <2>1. \A t \in Stage : e[t].state = "absent"
    <3>1. PICK v : v = [state |-> "absent", epoch |-> 0]
      OBVIOUS
    <3>2. v.state = "absent"
      BY <3>1
    <3>3. QED BY <2>0, <3>1, <3>2
  <2>2. NoSkew(e)
    BY <2>1 DEF NoSkew, Skew
  <2>3. QED BY <1>1, <2>2
<1>6. CASE Edits(w, s)
  \* A stage that runs after the commit did before, or starts by it.
  <2>1. ASSUME NEW t \in Stage, NEW u \in Stage, t # u, t \in DOMAIN w,
               e[t].state = "running", e[u].state = "running"
        PROVE  Deps[t] = {} /\ Deps[u] = {}
    <3>1. Guard \in DOMAIN w /\ Stage \cap DOMAIN w = {t} /\ Alone(s, t)
      BY <2>1, <1>3, <1>6 DEF Edits, StartsAlone
    <3>2. d[u].state = "running"
      BY <2>1, <3>1, <1>3, RowSorts
    <3>3. u \notin x.stale
      <4>1. ASSUME u \in x.stale PROVE FALSE
        <5>1. d[u] = [s[u] EXCEPT !.state = "cancelled"]
          BY <3>1, <4>1, <1>2, <1>3, <1>4 DEF OnlySettled
        <5>2. d[u].state = "cancelled"
          BY <5>1, <1>4 DEF StoreType, StageVal
        <5>3. QED BY <5>2, <3>2
      <4>2. QED BY <4>1
    <3>4. s[u].state = "running"
      BY <3>2, <3>3, <1>2, <1>4, RowSorts DEF FreshRows
    <3>5. QED BY <2>1, <3>1, <3>4 DEF Alone
  <2>2. ASSUME NEW t \in Stage, NEW u \in Stage, t # u,
               e[t].state = "running", e[u].state = "running"
        PROVE  Deps[t] = {} /\ Deps[u] = {}
    <3>1. CASE t \in DOMAIN w
      BY <2>1, <2>2, <3>1
    <3>2. CASE u \in DOMAIN w
      BY <2>1, <2>2, <3>2
    <3>3. CASE t \notin DOMAIN w /\ u \notin DOMAIN w
      <4>1. d[t].state = "running" /\ d[u].state = "running"
        BY <2>2, <3>3, <1>3, RowSorts
      <4>2. Skew(d, t, u)
        BY <2>2 DEF NoSkew
      <4>3. QED BY <4>1, <4>2 DEF Skew
    <3>4. QED BY <3>1, <3>2, <3>3
  <2>3. NoSkew(e)
    BY <2>2 DEF NoSkew, Skew
  <2>4. QED BY <1>1, <2>3
<1>7. QED BY <1>2, <1>5, <1>6 DEF Lands

\* What an open transaction y learns of it: its rows become stale.
Outdated(y, w) == [y EXCEPT !.stale = y.stale \cup DOMAIN w]
LEMMA OutdatedType ==
  ASSUME NEW y \in Transaction, NEW w, DOMAIN w \subseteq Row
  PROVE  Outdated(y, w) \in Transaction /\ Outdated(y, w).snap = y.snap
BY DEF Outdated, Transaction

LEMMA LandingMovesOn ==
  ASSUME NEW w, NEW x, NEW d, Lands(w, x, d),
         NEW y \in Transaction, StoreType(y.snap), MovedOn(y, d)
  PROVE  MovedOn(Outdated(y, w), Applied(w, d))
<1>1. PICK e : e = Applied(w, d)
  OBVIOUS
<1>2. PICK s : s = x.snap
  OBVIOUS
<1>3. /\ DOMAIN w \subseteq Row
      /\ \A r \in DOMAIN w : r \notin x.stale /\ d[r] = s[r] /\ e[r] = w[r]
      /\ \A r \in Row \ DOMAIN w : e[r] = d[r]
  BY <1>1, <1>2, Landing
<1>4. PICK z : z = Outdated(y, w)
  OBVIOUS
<1>5. z.snap = y.snap /\ z.stale = y.stale \cup DOMAIN w /\ y.stale \subseteq Row
  BY <1>4 DEF Outdated, Transaction
<1>6. FreshRows(y, d) /\ OnlySettled(y, d) /\ EndedStays(y) /\ JobStaysClosed(y, d)
  BY DEF MovedOn
<1>7. FreshRows(z, e)
  BY <1>3, <1>5, <1>6 DEF FreshRows
<1>8. Edits(w, s) \/ Wipes(w, s)
  BY <1>2 DEF Lands
<1>9. OnlySettled(z, e)
  <2> SUFFICES ASSUME Guard \notin z.stale
               PROVE  /\ \A t \in Stage \cap z.stale :
                           z.snap[t].state = "queued" /\ e[t] = [z.snap[t] EXCEPT !.state = "cancelled"]
                      /\ e[Marker] = z.snap[Marker]
                      /\ e[Job].cancel = z.snap[Job].cancel
                      /\ e[Job].state = "absent" <=> z.snap[Job].state = "absent"
    BY DEF OnlySettled
  <2>1. Guard \notin y.stale /\ Guard \notin DOMAIN w
    BY <1>5
  <2>2. Edits(w, s)
    BY <2>1, <1>8, RowSorts DEF Wipes
  <2>3. /\ \A t \in Stage \cap DOMAIN w :
             s[t].state = "queued" /\ w[t] = [s[t] EXCEPT !.state = "cancelled"]
        /\ Job \in DOMAIN w => w[Job].cancel = s[Job].cancel
    BY <2>1, <2>2 DEF Edits, Unguarded
  <2>4. /\ \A t \in Stage \cap y.stale :
             y.snap[t].state = "queued" /\ d[t] = [y.snap[t] EXCEPT !.state = "cancelled"]
        /\ d[Marker] = y.snap[Marker]
        /\ d[Job].cancel = y.snap[Job].cancel
        /\ d[Job].state = "absent" <=> y.snap[Job].state = "absent"
    BY <2>1, <1>6 DEF OnlySettled
  <2>5. \A t \in Stage \cap z.stale :
          z.snap[t].state = "queued" /\ e[t] = [z.snap[t] EXCEPT !.state = "cancelled"]
    <3> TAKE t \in Stage \cap z.stale
    <3>1. CASE t \in DOMAIN w
      <4>1. d[t].state = "queued" /\ e[t] = [d[t] EXCEPT !.state = "cancelled"]
        BY <3>1, <2>3, <1>3
      <4>2. t \notin y.stale
        <5>1. ASSUME t \in y.stale PROVE FALSE
          <6>1. d[t] = [y.snap[t] EXCEPT !.state = "cancelled"]
            BY <5>1, <2>4
          <6>2. d[t].state = "cancelled"
            BY <6>1 DEF StoreType, StageVal
          <6>3. QED BY <6>2, <4>1
        <5>2. QED BY <5>1
      <4>3. d[t] = y.snap[t]
        BY <4>2, <1>6, RowSorts DEF FreshRows
      <4>4. QED BY <4>1, <4>3, <1>5
    <3>2. CASE t \notin DOMAIN w
      BY <3>2, <2>4, <1>3, <1>5, RowSorts
    <3>3. QED BY <3>1, <3>2
  <2>6. e[Marker] = z.snap[Marker]
    <3>1. Marker \notin DOMAIN w
      BY <2>2 DEF Edits, EditsRows
    <3>2. QED BY <3>1, <2>4, <1>3, <1>5, RowSorts
  <2>7. e[Job].cancel = z.snap[Job].cancel
    BY <2>3, <2>4, <1>3, <1>5, RowSorts
  <2>8. e[Job].state = "absent" <=> z.snap[Job].state = "absent"
    <3>1. CASE Job \in DOMAIN w
      BY <3>1, <2>2, <2>4, <1>3, <1>5 DEF Edits, EditsRows
    <3>2. CASE Job \notin DOMAIN w
      BY <3>2, <2>4, <1>3, <1>5, RowSorts
    <3>3. QED BY <3>1, <3>2
  <2>9. QED BY <2>5, <2>6, <2>7, <2>8
<1>10. EndedStays(z)
  <2>1. CASE Wipes(w, s) \/ y.stale = Row
    BY <2>1, <1>3, <1>5 DEF Wipes, EndedStays
  <2>2. CASE Edits(w, s) /\ y.stale # Row
    <3>1. \A t \in Stage : z.snap[t].state \in Terminal => t \notin z.stale
      <4> SUFFICES ASSUME NEW t \in Stage, z.snap[t].state \in Terminal PROVE t \notin z.stale
        OBVIOUS
      <4>1. t \notin y.stale
        BY <2>2, <1>5, <1>6 DEF EndedStays
      <4>2. d[t] = y.snap[t]
        BY <4>1, <1>6, RowSorts DEF FreshRows
      <4>3. ASSUME t \in DOMAIN w PROVE FALSE
        <5>1. d[t].state \in Open
          BY <4>3, <2>2, <1>3 DEF Edits, EditsRows
        <5>2. QED BY <5>1, <4>2, <1>5 DEF Open, Terminal
      <4>4. QED BY <4>1, <4>3, <1>5
    <3>2. QED BY <3>1 DEF EndedStays
  <2>3. QED BY <2>1, <2>2, <1>8
<1>11. JobStaysClosed(z, e)
  <2>1. SUFFICES ASSUME z.snap[Job].state \in {"cancelled", "absent"}
                 PROVE  e[Job].state \in {"cancelled", "absent"}
    BY DEF JobStaysClosed
  <2>2. d[Job].state \in {"cancelled", "absent"}
    BY <2>1, <1>5, <1>6 DEF JobStaysClosed
  <2>3. CASE Job \notin DOMAIN w
    BY <2>2, <2>3, <1>3, RowSorts
  <2>4. CASE Job \in DOMAIN w /\ Edits(w, s)
    BY <2>2, <2>4, <1>3 DEF Edits, EditsRows
  <2>5. CASE Job \in DOMAIN w /\ Wipes(w, s)
    BY <2>5, <1>3 DEF Wipes
  <2>6. QED BY <2>3, <2>4, <2>5, <1>8
<1>12. QED BY <1>1, <1>4, <1>7, <1>9, <1>10, <1>11 DEF MovedOn

-----------------------------------------------------------------------------
(* The steps of the runner.                                                   *)
LEMMA TxCases ==
  ASSUME Next, NEW G,
         \A c \in Client : \A o \in Ops : Begin(c, o) => G,
         \A c \in Client : CommitTx(c) => G,
         \A c \in Client : Retry(c) => G,
         \A c \in Client : Contention(c) => G
  PROVE  G
BY DEF Next

LEMMA InvForms ==
  /\ JobRowTrue <=> JobRow(db)
  /\ NoClaimSkew <=> NoSkew(db)
<1>1. JobRowTrue <=> JobRow(db)
  BY DEF JobRowTrue, JobRow
<1>2. NoClaimSkew <=> NoSkew(db)
  BY DEF NoClaimSkew, NoSkew, Skew
<1>3. QED BY <1>1, <1>2

LEMMA TxInit == Init => GuardedInv
<1> SUFFICES ASSUME Init PROVE GuardedInv
  OBVIOUS
<1>1. /\ \A t \in Stage : db[t] = [state |-> "queued", epoch |-> 0]
      /\ db[Job] = [state |-> "running", cancel |-> FALSE]
      /\ db[Guard] = "bumped" /\ db[Marker] = FALSE /\ DOMAIN db = Row
      /\ db = [r \in Row |-> db[r]]
  BY RowSorts DEF Init
<1>2. \A t \in Stage : db[t] \in StageVal
  <2>1. "queued" \in StageState /\ 0 \in Nat
    BY DEF StageState, Open
  <2>2. [state |-> "queued", epoch |-> 0] \in StageVal
    BY <2>1 DEF StageVal
  <2>3. QED BY <1>1, <2>2
<1>3. db[Job] \in JobVal
  BY <1>1 DEF JobVal
<1>4. db \in [Row -> Value]
  <2>1. StageVal \subseteq Value /\ JobVal \subseteq Value /\ "bumped" \in Value
        /\ BOOLEAN \subseteq Value
    BY DEF StageVal, JobVal, StageState, Value
  <2>2. \A r \in Row : db[r] \in Value
    BY <2>1, <1>1, <1>2, <1>3, RowSorts
  <2>3. QED BY <2>2, <1>1
<1>5. StoreType(db)
  BY <1>1, <1>2, <1>3, <1>4 DEF StoreType
<1>6. (\A t \in Stage : db[t].state = "queued") /\ db[Job].state = "running"
  <2>1. PICK v : v = [state |-> "queued", epoch |-> 0]
    OBVIOUS
  <2>2. PICK j : j = [state |-> "running", cancel |-> FALSE]
    OBVIOUS
  <2>3. v.state = "queued" /\ j.state = "running"
    BY <2>1, <2>2
  <2>4. QED BY <1>1, <2>1, <2>2, <2>3
<1>7. NoSkew(db) /\ JobRow(db)
  BY <1>6 DEF NoSkew, Skew, JobRow
<1>8. TxInv
  <2>1. (\A c \in Client : tx[c] = NoClaim) /\ TxType
    BY <1>5 DEF Init, TxType
  <2>3. StoreTrue(db)
    BY <1>6 DEF StoreTrue, Caused, GoTogether
  <2>4. QED BY <2>1, <2>3 DEF TxInv
<1>9. QED BY <1>7, <1>8, InvForms DEF GuardedInv

\* A transaction opened or tried again on the store as it is.
LEMMA OpenedNow ==
  ASSUME TxInv, NEW x \in Transaction, x.snap = db, x.stale = {}
  PROVE  StoreType(x.snap) /\ StoreTrue(x.snap) /\ MovedOn(x, db)
<1>1. StoreType(x.snap) /\ StoreTrue(x.snap)
  BY DEF TxInv, TxType
<1>2. FreshRows(x, db) /\ OnlySettled(x, db) /\ EndedStays(x) /\ JobStaysClosed(x, db)
  BY DEF FreshRows, OnlySettled, EndedStays, JobStaysClosed
<1>3. QED BY <1>1, <1>2 DEF MovedOn

LEMMA OpensInv ==
  ASSUME TxInv, NEW c \in Client, NEW x \in Transaction, x.snap = db, x.stale = {},
         tx' = [tx EXCEPT ![c] = x], UNCHANGED <<db, claimed>>
  PROVE  TxInv'
<1>1. StoreType(x.snap) /\ StoreTrue(x.snap) /\ MovedOn(x, db)
  BY OpenedNow
<1>2. \A e \in Client : tx'[e] = IF e = c THEN x ELSE tx[e]
  BY DEF TxInv, TxType
<1>3. TxType'
  BY <1>1, <1>2 DEF TxInv, TxType
<1>4. \A e \in Client : tx'[e] # NoClaim => StoreTrue(tx'[e].snap) /\ MovedOn(tx'[e], db)
  BY <1>1, <1>2 DEF TxInv
<1>5. QED BY <1>3, <1>4 DEF TxInv

LEMMA BeginInv ==
  ASSUME TxInv, NEW c \in Client, NEW o \in Ops, Begin(c, o) PROVE TxInv'
<1>1. PICK x : x = [call |-> o, snap |-> db, stale |-> {}, tries |-> 1]
  OBVIOUS
<1>2. db \in [Row -> Value]
  BY DEF TxInv, TxType, StoreType
<1>3. 1 \in 1..MaxAttempts
  BY GuardShape
<1>4. x \in Transaction /\ x.snap = db /\ x.stale = {}
  BY <1>1, <1>2, <1>3 DEF Transaction
<1>5. tx' = [tx EXCEPT ![c] = x] /\ UNCHANGED <<db, claimed>>
  BY <1>1 DEF Begin
<1>6. QED BY <1>4, <1>5, OpensInv

LEMMA RetryInv ==
  ASSUME TxInv, NEW c \in Client, Retry(c) PROVE TxInv'
<1>1. PICK x : x = [call |-> tx[c].call, snap |-> db, stale |-> {}, tries |-> tx[c].tries + 1]
  OBVIOUS
<1>2. db \in [Row -> Value] /\ tx[c] \in Transaction
  BY DEF TxInv, TxType, StoreType, Retry
<1>3. tx[c].tries + 1 \in 1..MaxAttempts
  BY <1>2, GuardShape DEF Retry, Transaction
<1>4. x \in Transaction /\ x.snap = db /\ x.stale = {}
  BY <1>1, <1>2, <1>3 DEF Transaction
<1>5. tx' = [tx EXCEPT ![c] = x] /\ UNCHANGED <<db, claimed>>
  BY <1>1 DEF Retry
<1>6. QED BY <1>4, <1>5, OpensInv

LEMMA ContentionInv ==
  ASSUME TxInv, NEW c \in Client, Contention(c) PROVE TxInv'
<1>1. \A e \in Client : tx'[e] = IF e = c THEN NoClaim ELSE tx[e]
  BY DEF TxInv, TxType, Contention
<1>2. TxType'
  BY <1>1 DEF TxInv, TxType, Contention
<1>3. QED BY <1>1, <1>2 DEF TxInv, Contention

\* A commit applies its writes, which have landed.
LEMMA CommitLands ==
  ASSUME TxInv, NEW c \in Client, CommitTx(c)
  PROVE  /\ tx[c] \in Transaction
         /\ Lands(Body(c, tx[c].call, tx[c].snap), tx[c], db)
         /\ db' = Applied(Body(c, tx[c].call, tx[c].snap), db)
<1>1. tx[c] \in Transaction /\ tx[c].call \in Ops
  BY DEF TxInv, TxType, CommitTx, Transaction
<1>2. PICK w : w = Body(c, tx[c].call, tx[c].snap)
  OBVIOUS
<1>3. /\ StoreType(tx[c].snap) /\ StoreType(db) /\ StoreTrue(tx[c].snap) /\ StoreTrue(db)
      /\ MovedOn(tx[c], db)
  BY DEF TxInv, TxType, CommitTx
<1>4. claimed[c] # NoClaim => claimed[c].stage \in Stage
  BY DEF TxInv, TxType
<1>5. Edits(w, tx[c].snap) \/ Wipes(w, tx[c].snap)
  BY <1>1, <1>2, <1>3, <1>4, BodyEffect
<1>6. DOMAIN w \cap tx[c].stale = {}
  BY <1>2 DEF CommitTx, Conflicts
<1>7. Lands(w, tx[c], db)
  BY <1>3, <1>5, <1>6 DEF Lands
<1>8. db' = Applied(w, db)
  BY <1>2 DEF CommitTx, Applied
<1>9. QED BY <1>1, <1>2, <1>7, <1>8

LEMMA ClaimedTyped ==
  ASSUME TxInv, NEW c \in Client, CommitTx(c)
  PROVE  claimed' \in [Client -> [stage : Stage, epoch : Nat] \cup {NoClaim}]
<1>1. PICK o : o = tx[c].call
  OBVIOUS
<1>2. PICK w : w = Body(c, o, tx[c].snap)
  OBVIOUS
<1>3. o \in Ops /\ StoreType(tx[c].snap)
  BY <1>1 DEF TxInv, TxType, CommitTx, Transaction
<1>4. claimed' =
       CASE o.op = "claim" /\ w # NoWrite ->
              [claimed EXCEPT ![c] = [stage |-> o.stage, epoch |-> w[o.stage].epoch]]
         [] o.op \in {"commit", "fail"} -> [claimed EXCEPT ![c] = NoClaim]
         [] OTHER -> claimed
  BY <1>1, <1>2 DEF CommitTx, Learn
<1>5. claimed \in [Client -> [stage : Stage, epoch : Nat] \cup {NoClaim}]
  BY DEF TxInv, TxType
<1>6. CASE o.op = "claim" /\ w # NoWrite
  <2>1. o.stage \in Stage
    BY <1>3, <1>6 DEF Ops
  <2>2. w = Claim(tx[c].snap, o.stage)
    BY <1>2, <1>6 DEF Body
  <2>3. w[o.stage].epoch \in Nat
    BY <2>1, <2>2, <1>3, <1>6, ClaimEdits
  <2>4. claimed' = [claimed EXCEPT ![c] = [stage |-> o.stage, epoch |-> w[o.stage].epoch]]
    BY <1>4, <1>6
  <2>5. QED BY <2>1, <2>3, <2>4, <1>5
<1>7. CASE o.op \in {"commit", "fail"}
  <2>1. claimed' = [claimed EXCEPT ![c] = NoClaim]
    BY <1>4, <1>7
  <2>2. QED BY <2>1, <1>5
<1>8. CASE ~ (o.op = "claim" /\ w # NoWrite) /\ o.op \notin {"commit", "fail"}
  <2>1. claimed' = claimed
    BY <1>4, <1>8
  <2>2. QED BY <2>1, <1>5
<1>9. QED BY <1>6, <1>7, <1>8

LEMMA CommitTxInv ==
  ASSUME TxInv, JobRow(db), NEW c \in Client, CommitTx(c) PROVE TxInv'
<1>1. PICK w : w = Body(c, tx[c].call, tx[c].snap)
  OBVIOUS
<1>2. tx[c] \in Transaction /\ Lands(w, tx[c], db) /\ db' = Applied(w, db)
  BY <1>1, CommitLands
<1>3. StoreType(db') /\ StoreTrue(db')
  BY <1>2, LandingType, LandingTrue
<1>4. tx' = [e \in Client |-> IF e = c THEN NoClaim
                             ELSE IF tx[e] = NoClaim THEN NoClaim ELSE Outdated(tx[e], w)]
  BY <1>1 DEF CommitTx, Outdated
<1>5. DOMAIN w \subseteq Row
  BY <1>2, Landing
<1>6. \A e \in Client : tx'[e] # NoClaim =>
        /\ tx[e] # NoClaim /\ tx[e] \in Transaction /\ tx'[e] = Outdated(tx[e], w)
        /\ StoreType(tx[e].snap) /\ StoreTrue(tx[e].snap) /\ MovedOn(tx[e], db)
  BY <1>4 DEF TxInv, TxType
<1>7. \A e \in Client : tx'[e] # NoClaim =>
        /\ tx'[e] \in Transaction /\ tx'[e].snap = tx[e].snap
  BY <1>5, <1>6, OutdatedType
<1>8. TxType'
  <2>1. tx' \in [Client -> Transaction \cup {NoClaim}]
    BY <1>4, <1>7
  <2>2. \A e \in Client : tx'[e] # NoClaim => StoreType(tx'[e].snap)
    BY <1>6, <1>7
  <2>3. QED BY <2>1, <2>2, <1>3, ClaimedTyped DEF TxType
<1>9. \A e \in Client : tx'[e] # NoClaim => StoreTrue(tx'[e].snap) /\ MovedOn(tx'[e], db')
  <2> SUFFICES ASSUME NEW e \in Client, tx'[e] # NoClaim
               PROVE  StoreTrue(tx'[e].snap) /\ MovedOn(tx'[e], db')
    OBVIOUS
  <2>1. MovedOn(Outdated(tx[e], w), Applied(w, db))
    BY <1>2, <1>6, LandingMovesOn
  <2>2. QED BY <2>1, <1>2, <1>6, <1>7
<1>10. QED BY <1>3, <1>8, <1>9 DEF TxInv

LEMMA TxStep ==
  ASSUME GuardedInv, [Next]_vars PROVE GuardedInv'
<1>1. CASE UNCHANGED vars
  BY <1>1 DEF GuardedInv, TxInv, TxType, NoClaimSkew, JobRowTrue, vars
<1>2. CASE Next
  <2>1. TxInv /\ NoSkew(db) /\ JobRow(db)
    BY InvForms DEF GuardedInv
  <2> DEFINE G == TxInv' /\ NoSkew(db') /\ JobRow(db')
  <2>2. \A c \in Client : \A o \in Ops : Begin(c, o) => G
    BY <2>1, BeginInv DEF Begin
  <2>3. \A c \in Client : Retry(c) => G
    BY <2>1, RetryInv DEF Retry
  <2>4. \A c \in Client : Contention(c) => G
    BY <2>1, ContentionInv DEF Contention
  <2>5. \A c \in Client : CommitTx(c) => G
    <3> SUFFICES ASSUME NEW c \in Client, CommitTx(c) PROVE G
      OBVIOUS
    <3>1. PICK w : w = Body(c, tx[c].call, tx[c].snap)
      OBVIOUS
    <3>2. Lands(w, tx[c], db) /\ db' = Applied(w, db)
      BY <2>1, <3>1, CommitLands
    <3>3. NoSkew(db') /\ JobRow(db')
      BY <2>1, <3>2, LandingNoSkew, LandingJobRow
    <3>4. QED BY <2>1, <3>3, CommitTxInv
  <2> HIDE DEF G
  <2>6. G
    BY <1>2, <2>2, <2>3, <2>4, <2>5, TxCases, Zenon
  <2>7. JobRowTrue' /\ NoClaimSkew'
    <3>1. JobRow(db') /\ NoSkew(db')
      BY <2>6 DEF G
    <3>2. QED BY <3>1 DEF JobRow, JobRowTrue, NoSkew, Skew, NoClaimSkew
  <2>8. QED BY <2>6, <2>7 DEF G, GuardedInv
<1>3. QED BY <1>1, <1>2

LEMMA GuardedInvariant == Spec => []GuardedInv
<1>1. QED BY TxInit, TxStep, PTL DEF Spec

\* Claims that each looked only at their own snapshot never end up beside each other
\* when a dependency is involved: job_guard in claim_in, for every set of stages,
\* every dependencies, threads and retry bounds.
THEOREM ClaimsNotSkewed == Spec => []NoClaimSkew
<1>1. GuardedInv => NoClaimSkew
  BY DEF GuardedInv
<1>2. QED BY <1>1, GuardedInvariant, PTL

\* The job row says completed or failed only when that is true of its stages, although
\* the settle operations write it from old snapshots without the guard.
THEOREM JobRowStaysTrue == Spec => []JobRowTrue
<1>1. GuardedInv => JobRowTrue
  BY DEF GuardedInv
<1>2. QED BY <1>1, GuardedInvariant, PTL

-----------------------------------------------------------------------------
(* Serialisation.  A guarded transaction that writes anything writes the       *)
(* guard; if it commits, nothing but settlement happened since its snapshot,    *)
(* and its body, run on the store as it is, writes the same.                    *)
SameEffect(a, b) ==
  \A r \in Stage \cup {Marker} :
    /\ r \in DOMAIN a <=> r \in DOMAIN b
    /\ r \in DOMAIN a => a[r] = b[r]

\* The store d and the snapshot s, with the rows in W not written since.
Alike(s, d, W) ==
  /\ StoreType(s) /\ StoreType(d)
  /\ \A r \in W : r \in Row /\ s[r] = d[r]
  /\ \A t \in Stage : s[t] = d[t] \/ (s[t].state = "queued" /\ d[t].state = "cancelled")
  /\ d[Marker] = s[Marker] /\ d[Job].cancel = s[Job].cancel
  /\ d[Job].state = "absent" <=> s[Job].state = "absent"

LEMMA LandsAlike ==
  ASSUME NEW w, NEW x, NEW d, Lands(w, x, d), Guard \in DOMAIN w
  PROVE  Alike(x.snap, d, DOMAIN w)
<1>1. PICK s : s = x.snap
  OBVIOUS
<1>2. /\ StoreType(s) /\ StoreType(d) /\ FreshRows(x, d) /\ OnlySettled(x, d)
      /\ DOMAIN w \cap x.stale = {}
  BY <1>1 DEF Lands, MovedOn
<1>3. \A r \in DOMAIN w : r \in Row /\ s[r] = d[r]
  BY <1>1, Landing
<1>4. /\ \A t \in Stage \cap x.stale :
           s[t].state = "queued" /\ d[t] = [s[t] EXCEPT !.state = "cancelled"]
      /\ d[Marker] = s[Marker]
      /\ d[Job].cancel = s[Job].cancel
      /\ d[Job].state = "absent" <=> s[Job].state = "absent"
  BY <1>1, <1>2 DEF OnlySettled
<1>5. \A t \in Stage : s[t] = d[t] \/ (s[t].state = "queued" /\ d[t].state = "cancelled")
  <2> TAKE t \in Stage
  <2>1. CASE t \in x.stale
    BY <2>1, <1>2, <1>4 DEF StoreType, StageVal
  <2>2. CASE t \notin x.stale
    BY <2>2, <1>1, <1>2, RowSorts DEF FreshRows
  <2>3. QED BY <2>1, <2>2
<1>6. QED BY <1>1, <1>2, <1>3, <1>4, <1>5 DEF Alike

LEMMA AlikeFacts ==
  ASSUME NEW s, NEW d, NEW W, Alike(s, d, W)
  PROVE  /\ \A t \in Stage : s[t].state = "running" <=> d[t].state = "running"
         /\ \A t \in Stage : s[t].state = "running" => s[t] = d[t]
         /\ \A t \in Stage : s[t].state = "completed" <=> d[t].state = "completed"
BY DEF Alike

LEMMA ClaimSame ==
  ASSUME NEW s, NEW d, NEW t \in Stage, Claim(s, t) # NoWrite,
         Alike(s, d, DOMAIN Claim(s, t))
  PROVE  Claim(d, t) = Claim(s, t)
<1>1. /\ s[t].state = "queued" /\ ~ s[Job].cancel /\ ~ s[Marker]
      /\ \A u \in Deps[t] : s[u].state = "completed"
      /\ ~ Busy(s, t)
  BY DEF Claim
<1>2. t \in DOMAIN Claim(s, t)
  BY ClaimEdits DEF Alike
<1>3. s[t] = d[t] /\ d[Marker] = s[Marker] /\ d[Job].cancel = s[Job].cancel
  BY <1>2 DEF Alike
<1>4. \A u \in Deps[t] : u \in Stage
  BY GuardShape
<1>5. \A u \in Deps[t] : d[u].state = "completed"
  BY <1>1, <1>4, AlikeFacts
<1>6. ~ Busy(d, t)
  BY <1>1, AlikeFacts DEF Busy
<1>7. /\ d[t].state = "queued" /\ ~ d[Job].cancel /\ ~ d[Marker]
  BY <1>1, <1>3
<1>8. Claim(d, t) = Merge(Bump, [r \in {t} |-> [state |-> "running", epoch |-> d[t].epoch + 1]])
  BY <1>5, <1>6, <1>7 DEF Claim
<1>9. Claim(s, t) = Merge(Bump, [r \in {t} |-> [state |-> "running", epoch |-> s[t].epoch + 1]])
  BY <1>1 DEF Claim
<1>10. QED BY <1>3, <1>8, <1>9

LEMMA RequeueSame ==
  ASSUME NEW s, NEW d, NEW W, NEW t \in Stage, Requeue(s, t) # NoWrite, Alike(s, d, W)
  PROVE  Requeue(d, t) = Requeue(s, t)
<1>1. s[t].state = "running"
  BY DEF Requeue
<1>2. s[t] = d[t]
  BY <1>1, AlikeFacts
<1>3. QED BY <1>1, <1>2 DEF Requeue, Exhausted

LEMMA FencedSame ==
  ASSUME NEW s, NEW d, NEW W, NEW c \in Client, Alike(s, d, W),
         claimed[c] # NoClaim => claimed[c].stage \in Stage
  PROVE  Fenced(s, c) <=> Fenced(d, c)
BY AlikeFacts DEF Fenced

LEMMA FailSame ==
  ASSUME NEW s, NEW d, NEW W, NEW c \in Client, Alike(s, d, W),
         claimed[c] # NoClaim => claimed[c].stage \in Stage
  PROVE  Fail(d, c) = Fail(s, c)
<1>1. CASE ~ Fenced(s, c)
  BY <1>1, FencedSame DEF Fail
<1>2. CASE Fenced(s, c)
  <2>1. Fenced(d, c) /\ s[claimed[c].stage] = d[claimed[c].stage]
    BY <1>2, FencedSame, AlikeFacts DEF Fenced
  <2>2. QED BY <1>2, <2>1 DEF Fail
<1>3. QED BY <1>1, <1>2

\* The rows a stage commit writes beside the job.
LEMMA CommitRows ==
  ASSUME NEW s, NEW c \in Client, StoreType(s), Fenced(s, c), ~ s[Job].cancel,
         claimed[c].stage \in Stage
  PROVE  /\ Stage \cap DOMAIN Commit(s, c) = {claimed[c].stage}
         /\ Marker \notin DOMAIN Commit(s, c)
         /\ Commit(s, c)[claimed[c].stage] = [s[claimed[c].stage] EXCEPT !.state = "completed"]
<1>1. PICK t \in Stage : t = claimed[c].stage
  OBVIOUS
<1>2. PICK v : v = [s[t] EXCEPT !.state = "completed"]
  OBVIOUS
<1>3. PICK f : f = Settle(s, [StatesOf(s) EXCEPT ![t] = "completed"])
  OBVIOUS
<1>4. DOMAIN f \subseteq {Job}
  BY <1>3, SettleCases DEF NoWrite
<1>5. PICK w : w = Merge(Bump, Merge(f, [r \in {t} |-> v]))
  OBVIOUS
<1>6. Commit(s, c) = w
  BY <1>1, <1>2, <1>3, <1>5 DEF Commit
<1>7. PICK h : h = Merge(f, [r \in {t} |-> v])
  OBVIOUS
<1>8. DOMAIN h = DOMAIN f \cup {t} /\ h[t] = v
  BY <1>7 DEF Merge
<1>9. DOMAIN w = {Guard} \cup DOMAIN f \cup {t} /\ w[t] = v
  BY <1>5, <1>7, <1>8 DEF Merge, Bump
<1>10. Stage \cap DOMAIN w = {t} /\ Marker \notin DOMAIN w
  BY <1>4, <1>9, RowSorts
<1>11. QED BY <1>1, <1>2, <1>6, <1>9, <1>10

LEMMA CommitSame ==
  ASSUME NEW s, NEW d, NEW W, NEW c \in Client, Alike(s, d, W),
         claimed[c] # NoClaim => claimed[c].stage \in Stage
  PROVE  SameEffect(Commit(s, c), Commit(d, c))
<1>1. (Fenced(s, c) <=> Fenced(d, c)) /\ s[Job].cancel = d[Job].cancel
  BY FencedSame DEF Alike
<1>2. CASE ~ Fenced(s, c) \/ s[Job].cancel
  <2>1. Commit(s, c) = Bump /\ Commit(d, c) = Bump
    BY <1>1, <1>2 DEF Commit
  <2>2. QED BY <2>1 DEF SameEffect
<1>3. CASE Fenced(s, c) /\ ~ s[Job].cancel
  <2>1. claimed[c].stage \in Stage /\ s[claimed[c].stage] = d[claimed[c].stage]
    BY <1>3, AlikeFacts DEF Fenced
  <2>2. /\ Stage \cap DOMAIN Commit(s, c) = {claimed[c].stage}
        /\ Marker \notin DOMAIN Commit(s, c)
        /\ Commit(s, c)[claimed[c].stage] = [s[claimed[c].stage] EXCEPT !.state = "completed"]
    BY <1>3, <2>1, CommitRows DEF Alike
  <2>3. /\ Stage \cap DOMAIN Commit(d, c) = {claimed[c].stage}
        /\ Marker \notin DOMAIN Commit(d, c)
        /\ Commit(d, c)[claimed[c].stage] = [d[claimed[c].stage] EXCEPT !.state = "completed"]
    BY <1>1, <1>3, <2>1, CommitRows DEF Alike
  <2>4. QED BY <2>1, <2>2, <2>3 DEF SameEffect
<1>4. QED BY <1>2, <1>3

LEMMA StopRequestSame ==
  ASSUME NEW s, NEW d, NEW W, Alike(s, d, W)
  PROVE  SameEffect(StopRequest(s), StopRequest(d))
<1>1. ASSUME NEW e PROVE DOMAIN StopRequest(e) \subseteq {Job, Guard}
  BY DEF StopRequest, Merge, Bump, NoWrite
<1>2. Stage \cup {Marker} \subseteq Row \ {Job, Guard}
  BY RowSorts
<1>3. QED BY <1>1, <1>2, RowSorts DEF SameEffect

LEMMA StopTasksSame ==
  ASSUME NEW s, NEW d, StopTasks(s) # NoWrite, Alike(s, d, DOMAIN StopTasks(s))
  PROVE  SameEffect(StopTasks(s), StopTasks(d))
<1>1. ~ (s[Job].state = "absent" \/ ~ s[Job].cancel)
  BY DEF StopTasks
<1>2. ~ (d[Job].state = "absent" \/ ~ d[Job].cancel)
  BY <1>1 DEF Alike
<1>3. PICK a : a = StopTasks(s)
  OBVIOUS
<1>4. PICK b : b = StopTasks(d)
  OBVIOUS
<1>5. StopsTasks(a, s) /\ StopsTasks(b, d)
  BY <1>1, <1>2, <1>3, <1>4, StopTasksWrites
<1>6. \A t \in Stage : (s[t].state \in Open <=> d[t].state \in Open)
                      /\ (s[t].state \in Open => s[t] = d[t])
  <2> TAKE t \in Stage
  <2>1. s[t].state \in Open => s[t] = d[t]
    BY <1>3, <1>5 DEF StopsTasks, Alike
  <2>2. s[t].state \notin Open => s[t] = d[t]
    BY DEF Alike, Open
  <2>3. QED BY <2>1, <2>2
<1>7. /\ Marker \notin DOMAIN a /\ Marker \notin DOMAIN b
      /\ \A t \in Stage : (t \in DOMAIN a <=> s[t].state \in Open) /\ (t \in DOMAIN b <=> d[t].state \in Open)
  BY <1>5, RowSorts DEF StopsTasks
<1>8. \A t \in Stage : t \in DOMAIN a => a[t] = b[t]
  BY <1>5, <1>6, <1>7 DEF StopsTasks
<1>9. QED BY <1>3, <1>4, <1>6, <1>7, <1>8 DEF SameEffect

LEMMA ClearSame ==
  ASSUME NEW s, NEW d, Clear(s) # NoWrite, Alike(s, d, DOMAIN Clear(s))
  PROVE  SameEffect(Clear(s), Clear(d))
<1>1. Wipes(Clear(s), s)
  BY ClearWipes DEF Alike
<1>2. \A r \in Row : s[r] = d[r]
  BY <1>1 DEF Wipes, Alike
<1>3. s[Job] = d[Job] /\ \A t \in Stage : s[t] = d[t]
  BY <1>2, RowSorts
<1>4. /\ s[Job].state \in Terminal
      /\ ~ \E t \in Stage : s[t].state = "running"
  BY DEF Clear
<1>5. Clear(d) # NoWrite
  <2>1. Clear(d) = Clear(s)
    BY <1>3, <1>4 DEF Clear
  <2>2. QED BY <2>1
<1>6. Wipes(Clear(d), d)
  BY <1>5, ClearWipes DEF Alike
<1>7. QED BY <1>1, <1>6, RowSorts DEF SameEffect, Wipes

\* A guarded body that writes anything writes the guard.
LEMMA GuardWritten ==
  ASSUME NEW s, StoreType(s), NEW c, NEW o \in Ops, o.op \in GuardedOps,
         Body(c, o, s) # NoWrite
  PROVE  Guard \in DOMAIN Body(c, o, s)
<1>1. ASSUME NEW f PROVE Guard \in DOMAIN Merge(Bump, f)
  BY DEF Merge, Bump
<1>2. Guard \in DOMAIN Bump
  BY DEF Bump
<1>3. CASE o.op = "claim"
  BY <1>1, <1>3 DEF Body, Claim
<1>4. CASE o.op = "requeue"
  BY <1>1, <1>4 DEF Body, Requeue
<1>5. CASE o.op = "commit"
  BY <1>1, <1>2, <1>5 DEF Body, Commit
<1>6. CASE o.op = "fail"
  BY <1>1, <1>2, <1>6 DEF Body, Fail
<1>7. CASE o.op = "stop_request"
  BY <1>1, <1>7 DEF Body, StopRequest
<1>8. CASE o.op = "stop_tasks"
  BY <1>1, <1>8 DEF Body, StopTasks
<1>9. CASE o.op = "clear"
  BY <1>1, <1>9 DEF Body, Clear
<1>10. QED BY <1>3, <1>4, <1>5, <1>6, <1>7, <1>8, <1>9 DEF GuardedOps

LEMMA BodySame ==
  ASSUME NEW s, NEW d, NEW c \in Client, NEW o \in Ops, o.op \in GuardedOps,
         Body(c, o, s) # NoWrite, Alike(s, d, DOMAIN Body(c, o, s)),
         claimed[c] # NoClaim => claimed[c].stage \in Stage
  PROVE  SameEffect(Body(c, o, s), Body(c, o, d))
<1>0. ASSUME NEW a PROVE SameEffect(a, a)
  BY DEF SameEffect
<1>1. o.op \in {"claim", "requeue"} => o.stage \in Stage
  BY DEF Ops
<1>2. CASE o.op = "claim"
  <2>1. Body(c, o, s) = Claim(s, o.stage) /\ Body(c, o, d) = Claim(d, o.stage)
    BY <1>2 DEF Body
  <2>2. Claim(d, o.stage) = Claim(s, o.stage)
    BY <1>1, <1>2, <2>1, ClaimSame
  <2>3. QED BY <1>0, <2>1, <2>2
<1>3. CASE o.op = "requeue"
  <2>1. Body(c, o, s) = Requeue(s, o.stage) /\ Body(c, o, d) = Requeue(d, o.stage)
    BY <1>3 DEF Body
  <2>2. Requeue(d, o.stage) = Requeue(s, o.stage)
    BY <1>1, <1>3, <2>1, RequeueSame
  <2>3. QED BY <1>0, <2>1, <2>2
<1>4. CASE o.op = "commit"
  <2>1. Body(c, o, s) = Commit(s, c) /\ Body(c, o, d) = Commit(d, c)
    BY <1>4 DEF Body
  <2>2. QED BY <2>1, CommitSame
<1>5. CASE o.op = "fail"
  <2>1. Body(c, o, s) = Fail(s, c) /\ Body(c, o, d) = Fail(d, c)
    BY <1>5 DEF Body
  <2>2. QED BY <1>0, <2>1, FailSame
<1>6. CASE o.op = "stop_request"
  <2>1. Body(c, o, s) = StopRequest(s) /\ Body(c, o, d) = StopRequest(d)
    BY <1>6 DEF Body
  <2>2. QED BY <2>1, StopRequestSame
<1>7. CASE o.op = "stop_tasks"
  <2>1. Body(c, o, s) = StopTasks(s) /\ Body(c, o, d) = StopTasks(d)
    BY <1>7 DEF Body
  <2>2. QED BY <2>1, StopTasksSame
<1>8. CASE o.op = "clear"
  <2>1. Body(c, o, s) = Clear(s) /\ Body(c, o, d) = Clear(d)
    BY <1>8 DEF Body
  <2>2. QED BY <2>1, ClearSame
<1>9. QED BY <1>2, <1>3, <1>4, <1>5, <1>6, <1>7, <1>8 DEF GuardedOps

\* Only the commit of c ends its transaction and changes the store.
LEMMA OwnCommit ==
  ASSUME TxInv, [Next]_vars, NEW c \in Client,
         tx[c] # NoClaim, tx'[c] = NoClaim, db' # db
  PROVE  CommitTx(c)
<1>1. Next
  BY DEF vars
<1>2. \A e \in Client : \A o \in Ops : Begin(e, o) => CommitTx(c)
  BY DEF Begin
<1>3. \A e \in Client : Retry(e) => CommitTx(c)
  BY DEF Retry
<1>4. \A e \in Client : Contention(e) => CommitTx(c)
  BY DEF Contention
<1>5. \A e \in Client : CommitTx(e) => CommitTx(c)
  <2> SUFFICES ASSUME NEW e \in Client, CommitTx(e), e # c PROVE FALSE
    OBVIOUS
  <2>1. PICK w : w = Body(e, tx[e].call, tx[e].snap)
    OBVIOUS
  <2>2. DOMAIN w \subseteq Row
    BY <2>1, CommitLands, Landing
  <2>3. tx'[c] = Outdated(tx[c], w)
    BY <2>1 DEF CommitTx, Outdated
  <2>4. tx[c] \in Transaction
    BY DEF TxInv, TxType
  <2>5. Outdated(tx[c], w) \in Transaction
    BY <2>2, <2>4, OutdatedType
  <2>6. QED BY <2>3, <2>5, NoClaimIsNone
<1>6. QED BY <1>1, <1>2, <1>3, <1>4, <1>5, TxCases, Zenon

LEMMA SerialStep ==
  ASSUME TxInv, [Next]_vars, NEW c \in Client,
         tx[c] # NoClaim, tx'[c] = NoClaim, db' # db, tx[c].call.op \in GuardedOps
  PROVE  SameEffect(Body(c, tx[c].call, tx[c].snap), Body(c, tx[c].call, db))
<1>1. CommitTx(c)
  BY OwnCommit
<1>2. PICK w : w = Body(c, tx[c].call, tx[c].snap)
  OBVIOUS
<1>3. tx[c] \in Transaction /\ Lands(w, tx[c], db) /\ db' = Applied(w, db)
  BY <1>1, <1>2, CommitLands
<1>4. w # NoWrite
  <2>1. ASSUME w = NoWrite PROVE FALSE
    <3>1. \A r \in Row : db'[r] = db[r]
      BY <1>3, <2>1 DEF Applied, NoWrite
    <3>2. db \in [Row -> Value] /\ db' = [r \in Row |-> db'[r]]
      BY <1>3 DEF Applied, Lands, StoreType
    <3>3. QED BY <3>1, <3>2
  <2>2. QED BY <2>1
<1>5. tx[c].call \in Ops /\ StoreType(tx[c].snap)
  BY <1>3 DEF Transaction, Lands
<1>6. Guard \in DOMAIN w
  BY <1>2, <1>4, <1>5, GuardWritten
<1>7. Alike(tx[c].snap, db, DOMAIN w)
  BY <1>3, <1>6, LandsAlike
<1>8. claimed[c] # NoClaim => claimed[c].stage \in Stage
  BY DEF TxInv, TxType
<1>9. QED BY <1>2, <1>4, <1>5, <1>7, <1>8, BodySame

\* Guarded transactions are serial in the order of their commits: what one writes to
\* stages and marker is what its body, run_tx's closure, would write on the store of
\* that moment.  It is what the atomic steps of JobStore and SummaryFlush rest on.
THEOREM GuardedSerial == Spec => GuardedAreSerial
<1> DEFINE A ==
      \A c \in Client :
       /\ tx[c] # NoClaim /\ tx'[c] = NoClaim /\ db' # db
       /\ tx[c].call.op \in GuardedOps
       /\ Conflicts(c) = {}
       => LET then == Body(c, tx[c].call, tx[c].snap)
              now == Body(c, tx[c].call, db)
          IN \A r \in Stage \cup {Marker} :
               /\ r \in DOMAIN then <=> r \in DOMAIN now
               /\ r \in DOMAIN then => then[r] = now[r]
<1>1. ASSUME GuardedInv, [Next]_vars PROVE A
  <2> SUFFICES ASSUME NEW c \in Client, tx[c] # NoClaim, tx'[c] = NoClaim, db' # db,
                      tx[c].call.op \in GuardedOps
               PROVE  SameEffect(Body(c, tx[c].call, tx[c].snap), Body(c, tx[c].call, db))
    BY DEF SameEffect
  <2>1. TxInv /\ [Next]_vars
    BY <1>1 DEF GuardedInv
  <2>2. QED BY <2>1, SerialStep
<1> HIDE DEF A
<1>2. GuardedInv /\ [Next]_vars => [A]_vars
  BY <1>1
<1>3. Spec => [][A]_vars
  BY <1>2, GuardedInvariant, PTL DEF Spec
<1>4. QED BY <1>3 DEF A, GuardedAreSerial
=============================================================================
