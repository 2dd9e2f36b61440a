----------------------------- MODULE Publisher -----------------------------
(***************************************************************************)
(* The memory publisher of one process (storage/publisher.rs): writers put  *)
(* their writes in a bounded queue, one task takes batches of them, commits  *)
(* a batch as one transaction and answers each writer.                       *)
(*                                                                         *)
(* committed is what the store got, in commit order.  The operators have a   *)
(* prefix of their own so that a module may extend this one beside others.   *)
(***************************************************************************)
EXTENDS Integers, Sequences, FiniteSets

CONSTANTS
  Writes,      \* the writes, one call of publish each
  Bad,        \* writes that always abort: a validation error, a panic, Abort
  Writing,    \* the sets of writes that are made in one behaviour
  QueueCap,   \* QUEUE_CAP
  BatchCap    \* BATCH_CAP

ASSUME PublisherShape ==
  /\ Bad \subseteq Writes /\ IsFiniteSet(Writes)
  /\ Writing \subseteq SUBSET Writes
  /\ QueueCap \in Nat \ {0} /\ BatchCap \in Nat \ {0}

VARIABLES
  writer,     \* where each write and its waiter are
  queue,      \* the channel, oldest first
  batch,      \* the batch being committed
  split,      \* its writes are committed one by one, the first first
  answer,     \* the results of the batch so far
  committed,  \* the writes the store got, in order
  task,       \* "open", "closing" or "ended"
  notified    \* shutdown has been called

pubVars == <<writer, queue, batch, split, answer, committed, task, notified>>

\* A reply: Ok, Abort, an error of the batch that may stand for a commit of unknown
\* outcome, or a refusal.  "panicked" is the Abort of the backstop around the batch.
Reply == {"ok", "abort", "panicked", "batch_error", "stopped"}
Elements(s) == {s[i] : i \in DOMAIN s}

PubInit ==
  /\ \E S \in Writing :
       writer = [w \in Writes |-> IF w \in S THEN "ready" ELSE "gone"]
  /\ queue = <<>> /\ batch = <<>>
  /\ split = FALSE /\ answer = <<>>
  /\ committed = <<>>
  /\ task = "open" /\ notified = FALSE

-----------------------------------------------------------------------------
\* The channel takes a write while it is open and has room.
Accepts == task = "open" /\ Len(queue) < QueueCap

\* publish: send waits for room, and fails once the receiver has closed.
Send(w) ==
  /\ writer[w] = "ready"
  /\ \/ /\ Accepts
        /\ queue' = Append(queue, w)
        /\ writer' = [writer EXCEPT ![w] = "queued"]
     \/ /\ task # "open"
        /\ writer' = [writer EXCEPT ![w] = "stopped"]
        /\ UNCHANGED queue
  /\ UNCHANGED <<batch, split, answer, committed, task, notified>>

\* The waiter is dropped: before its write is queued it never will be, afterwards
\* the write goes its way and nobody hears of it.
DropWaiter(w) ==
  /\ writer[w] \in {"ready", "queued"}
  /\ writer' = [writer EXCEPT ![w] = "gone"]
  /\ UNCHANGED <<queue, batch, split, answer, committed, task, notified>>

Shutdown ==
  /\ ~ notified
  /\ notified' = TRUE
  /\ UNCHANGED <<writer, queue, batch, split, answer, committed, task>>

\* run: the stop notice comes before the next write (a biased select).
Close ==
  /\ batch = <<>> /\ task = "open" /\ notified
  /\ task' = "closing"
  /\ UNCHANGED <<writer, queue, batch, split, answer, committed, notified>>

\* Faulty Delivers: after the close the stop notice keeps coming before the writes.
DeliversOpen == task = "open" /\ ~ notified

\* What is buffered is still delivered after the close.
Delivers == task = "closing" \/ (task = "open" /\ ~ notified)

\* The first write and what is queued behind it.
TakeBatch ==
  LET n == IF Len(queue) < BatchCap THEN Len(queue) ELSE BatchCap IN
  /\ batch = <<>> /\ queue # <<>>
  /\ Delivers
  /\ batch' = SubSeq(queue, 1, n)
  /\ queue' = SubSeq(queue, n + 1, Len(queue))
  /\ UNCHANGED <<writer, split, answer, committed, task, notified>>

\* recv ends when the closed channel is empty.
End ==
  /\ batch = <<>> /\ queue = <<>> /\ task = "closing"
  /\ task' = "ended"
  /\ UNCHANGED <<writer, queue, batch, split, answer, committed, notified>>

-----------------------------------------------------------------------------
\* The writes of the next transaction: all of the batch, or one of them.
Current == IF split THEN <<batch[Len(answer) + 1]>> ELSE batch

Results(r) == [i \in 1..Len(Current) |-> r]

\* commit: the writes and their outbox rows in one transaction.
Commit ==
  /\ Len(answer) < Len(batch)
  /\ Elements(Current) \cap Bad = {}
  /\ committed' = committed \o Current
  /\ answer' = answer \o Results("ok")
  /\ UNCHANGED <<writer, queue, batch, split, task, notified>>

\* publish_batch: a write-specific failure splits a batch of several.
Splits == ~ split /\ Len(batch) > 1

\* A write aborts, or the counter of changed memories returns no value: nothing of the
\* transaction is stored.
Abort ==
  /\ Len(answer) < Len(batch)
  /\ IF Splits THEN split' = TRUE /\ UNCHANGED answer
     ELSE answer' = answer \o Results("abort") /\ UNCHANGED split
  /\ UNCHANGED <<writer, queue, batch, committed, task, notified>>

\* Faulty Retries: an error of unknown outcome also splits the batch.
RetriesUnknown == ~ split /\ Len(batch) > 1

\* An error that is not a write's own never splits the batch.
Retries == FALSE

\* Contention, a timeout or a lost connection; the commit may have happened.
BatchError ==
  /\ Len(answer) < Len(batch)
  /\ \/ UNCHANGED committed
     \/ Elements(Current) \cap Bad = {} /\ committed' = committed \o Current
  /\ IF Retries THEN split' = TRUE /\ UNCHANGED answer
     ELSE answer' = answer \o Results("batch_error") /\ UNCHANGED split
  /\ UNCHANGED <<writer, queue, batch, task, notified>>

\* The backstop of run: anything but a write panics in publish_batch, before or after
\* commits of the batch, and every write of it is answered with an Abort.
BatchPanics ==
  /\ batch # <<>>
  /\ answer' = [i \in 1..Len(batch) |-> "panicked"]
  /\ UNCHANGED <<writer, queue, batch, split, committed, task, notified>>

\* Every waiter that is still there gets its result, in the order of the batch.
AnswerAll ==
  /\ batch # <<>> /\ Len(answer) = Len(batch)
  /\ writer' = [w \in Writes |->
       IF writer[w] = "queued" /\ w \in Elements(batch)
       THEN answer[CHOOSE i \in DOMAIN batch : batch[i] = w] ELSE writer[w]]
  /\ batch' = <<>> /\ answer' = <<>> /\ split' = FALSE
  /\ UNCHANGED <<queue, committed, task, notified>>

PublisherTask ==
  \/ Close \/ TakeBatch \/ End
  \/ Commit \/ Abort \/ BatchError \/ BatchPanics \/ AnswerAll

PubNext ==
  \/ Shutdown \/ PublisherTask
  \/ \E w \in Writes : Send(w) \/ DropWaiter(w)

\* The task runs while the process does, and a waiter sends as soon as there is room.
PubFairness == WF_pubVars(PublisherTask) /\ \A w \in Writes : WF_pubVars(Send(w))

PubSpec == PubInit /\ [][PubNext]_pubVars

-----------------------------------------------------------------------------
PubTypeOK ==
  /\ writer \in [Writes -> {"ready", "queued", "gone"} \cup Reply]
  /\ queue \in Seq(Writes) /\ batch \in Seq(Writes) /\ committed \in Seq(Writes)
  /\ answer \in Seq(Reply) /\ Len(answer) <= Len(batch)
  /\ split \in BOOLEAN /\ notified \in BOOLEAN
  /\ task \in {"open", "closing", "ended"}

\* A reply says what became of the write, through batches, splits, panics and lost
\* waiters: after Ok it is in the store, after an Abort that is not the backstop's or a
\* refusal it is not, and whatever the reply no write is stored twice (publish_batch).
RepliesTrue ==
  \A w \in Writes :
    LET times == Cardinality({i \in DOMAIN committed : committed[i] = w}) IN
    /\ times <= 1
    /\ writer[w] = "ok" => times = 1
    /\ writer[w] \in {"abort", "stopped", "ready"} => times = 0

\* Every write that was queued is answered, also after a shutdown, and a writer that
\* waits for room is let in or refused.
EveryWriteAnswered == <>(\A w \in Writes : writer[w] \in Reply \cup {"gone"})
=============================================================================
