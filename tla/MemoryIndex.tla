----------------------------- MODULE MemoryIndex -----------------------------
(***************************************************************************)
(* The memory index: storage/memory.rs (index_changes_in), storage/outbox.rs,*)
(* storage/index_drain.rs, storage/vectors.rs and the fence of             *)
(* storage/recall.rs.                                                      *)
(*                                                                         *)
(* A write commits together with the outbox row for the index work it      *)
(* implies.  Indexers (the elected drainer, the callers of ensure_memory_- *)
(* vectors and try_index_upsert, add_memory after its commit, `argos       *)
(* memories reindex`) then read, embed, write the vector, record the       *)
(* indexed revision and acknowledge, each in a transaction of its own.     *)
(* A text stands for its revision (a content hash); the publisher's group  *)
(* commit is a sequence of writes nobody sees the middle of.               *)
(***************************************************************************)
EXTENDS Integers, Sequences, FiniteSets

CONSTANTS
  Memory,
  Text,      \* texts, positive numbers
  Indexer,
  Chunk,     \* index_drain::CHUNK
  Moves,     \* what the environment does in this instance, a subset of AllMoves
  FirstGen,  \* the generation that serves at the start, 0 for none
  MaxRows,   \* bound of the state space: outbox rows
  MaxGen     \* bound of the state space: generations

AllMoves == {"edit", "revert", "retire", "reactivate", "delete", "index_new",
             "reindex", "fail", "stop"}

ASSUME IndexBounds ==
  /\ Text \subseteq Nat \ {0}
  /\ Chunk \in Nat \ {0}
  /\ Moves \subseteq AllMoves
  /\ FirstGen \in 0..MaxGen /\ MaxRows \in Nat /\ MaxGen \in Nat

VARIABLES
  text, life,  \* the memory rows
  recorded,    \* memory_index_state.revision, 0 for none
  vec,         \* memory_embeddings: one row per memory
  serving,     \* storage_meta:vectors.embedding_generation, 0 for none
  change,      \* index_change in seq order
  lock,        \* index_work: the seq that holds a work key, 0 for none
  dropping,    \* deleted memories whose vector delete_memory has yet to drop
  work         \* what each indexer is doing

outboxVars == <<change, lock>>
rowVars == <<text, life, dropping>>
vars == <<rowVars, recorded, vec, serving, outboxVars, work>>

Deleted == 0   \* DELETED_REVISION, of removal work
NoVec == [gen |-> 0, rev |-> 0]
Idle == [phase |-> "idle", todo |-> {}, rows |-> {}, new |-> {}, left |-> {},
         split |-> FALSE, failed |-> {}, gen |-> 0, read |-> {}]

\* work_key: kind, id, revision and operation; the revision tells the operation.
KeyOf(s) == <<change[s].mem, change[s].rev>>
Key == Memory \X (Text \cup {Deleted})
Pending == {s \in DOMAIN change : change[s].state = "pending"}
Least(S) == CHOOSE s \in S : \A u \in S : s <= u

TypeOK ==
  /\ text \in [Memory -> Text \cup {0}]
  /\ life \in [Memory -> {"none", "active", "retired", "deleted"}]
  /\ recorded \in [Memory -> Text \cup {0}]
  /\ vec \in [Memory -> [gen : Nat, rev : Text \cup {0}]]
  /\ serving \in 0..MaxGen
  /\ \A s \in DOMAIN change :
       /\ KeyOf(s) \in Key
       /\ change[s].state \in {"pending", "completed", "failed"}
  /\ lock \in [Key -> 0..MaxRows]
  /\ dropping \subseteq Memory
  /\ \A i \in Indexer :
       /\ work[i].rows \cup work[i].todo \subseteq DOMAIN change
       /\ work[i].phase = "read" /\ work[i].split => work[i].left # {}
       /\ work[i].failed \subseteq work[i].rows

Init ==
  /\ text = [m \in Memory |-> 0]
  /\ life = [m \in Memory |-> "none"]
  /\ recorded = [m \in Memory |-> 0]
  /\ vec = [m \in Memory |-> NoVec]
  /\ serving = FirstGen
  /\ change = <<>>
  /\ lock = [k \in Key |-> 0]
  /\ dropping = {}
  /\ work = [i \in Indexer |-> Idle]

-----------------------------------------------------------------------------
\* Faulty Enqueue: equivalent work does not coalesce.
EnqueueAgain(k) ==
  /\ change' = Append(change, [mem |-> k[1], rev |-> k[2], state |-> "pending"])
  /\ lock' = [lock EXCEPT ![k] = Len(change) + 1]

\* enqueue_in: equivalent pending work coalesces, otherwise a row and its lock.
\* No caller sets the running and blocked states.
Enqueue(k) ==
  IF lock[k] \in Pending THEN UNCHANGED outboxVars
  ELSE /\ change' = Append(change, [mem |-> k[1], rev |-> k[2], state |-> "pending"])
       /\ lock' = [lock EXCEPT ![k] = Len(change) + 1]

\* Faulty IndexUpsert: only a memory that was never indexed needs work.
IndexUpsertFirst(m, t) == IF recorded[m] # 0 THEN UNCHANGED outboxVars ELSE Enqueue(<<m, t>>)

\* index_changes_in for an active memory with text t.
IndexUpsert(m, t) == IF recorded[m] = t THEN UNCHANGED outboxVars ELSE Enqueue(<<m, t>>)

\* Faulty IndexRemove: only a memory recorded as indexed needs its vector removed.
IndexRemoveRecorded(m) ==
  IF recorded[m] = 0 THEN UNCHANGED outboxVars ELSE Enqueue(<<m, Deleted>>)

\* index_changes_in for a memory that is gone.
IndexRemove(m) == Enqueue(<<m, Deleted>>)

RoomFor == Len(change) < MaxRows
Rest == UNCHANGED <<recorded, vec, serving, work>>

\* put_typed_in, or the CREATE of add_memory, under write_then_index.
Write(m, t) ==
  /\ RoomFor
  /\ life[m] # "deleted"
  /\ t > text[m] \/ "revert" \in Moves
  /\ "edit" \in Moves \/ life[m] = "none"
  /\ text' = [text EXCEPT ![m] = t]
  /\ life' = [life EXCEPT ![m] = "active"]
  /\ IndexUpsert(m, t)
  /\ UNCHANGED dropping /\ Rest

\* set_lifecycle_in to retired.
Retire(m) ==
  /\ RoomFor /\ "retire" \in Moves
  /\ life[m] = "active"
  /\ life' = [life EXCEPT ![m] = "retired"]
  /\ IndexRemove(m)
  /\ UNCHANGED <<text, dropping>> /\ Rest

\* set_lifecycle_in back to active, with the text the memory has.
Reactivate(m) ==
  /\ RoomFor /\ "reactivate" \in Moves
  /\ life[m] = "retired"
  /\ life' = [life EXCEPT ![m] = "active"]
  /\ IndexUpsert(m, text[m])
  /\ UNCHANGED <<text, dropping>> /\ Rest

\* browse::delete_memory: the row goes in one publication, ...
Delete(m) ==
  /\ RoomFor /\ "delete" \in Moves
  /\ life[m] \in {"active", "retired"}
  /\ life' = [life EXCEPT ![m] = "deleted"]
  /\ dropping' = dropping \cup {m}
  /\ IndexRemove(m)
  /\ UNCHANGED text /\ Rest

\* ... its vector in the next transaction.
DropVector(m) ==
  /\ m \in dropping
  /\ dropping' = dropping \ {m}
  /\ vec' = [vec EXCEPT ![m] = NoVec]
  /\ UNCHANGED <<text, life, recorded, serving, outboxVars, work>>

-----------------------------------------------------------------------------
\* Faulty NextGroup: the upserts of a pass before its removals.
NextGroupUpserts(todo) ==
  LET upserts == {s \in todo : change[s].rev # Deleted}
      group == {s \in upserts : Cardinality({u \in upserts : u < s}) < Chunk}
  IN
  IF todo = {} THEN Idle
  ELSE IF upserts = {}
  THEN [Idle EXCEPT !.phase = "remove", !.rows = {Least(todo)}, !.todo = todo \ {Least(todo)}]
  ELSE [Idle EXCEPT !.phase = "read", !.rows = group, !.todo = todo \ group]

\* drain_index: the next group of the rows that are left of a pass, in seq order.
\* A removal is a group of its own, so the upserts before it are flushed first.
NextGroup(todo) ==
  LET first == {s \in todo : \A u \in todo : change[u].rev = Deleted => s < u}
      group == {s \in first : Cardinality({u \in first : u < s}) < Chunk}
  IN
  IF todo = {} THEN Idle
  ELSE IF first = {}
  THEN [Idle EXCEPT !.phase = "remove", !.rows = {Least(todo)}, !.todo = todo \ {Least(todo)}]
  ELSE [Idle EXCEPT !.phase = "read", !.rows = group, !.todo = todo \ group]

\* drain_index reads the pending rows once, in seq order.
Pull(i) ==
  /\ work[i].phase = "idle"
  /\ Pending # {}
  /\ work' = [work EXCEPT ![i] = NextGroup(Pending)]
  /\ UNCHANGED <<rowVars, recorded, vec, serving, outboxVars>>

\* index_new for one memory, without outbox rows.
IndexNew(i, m) ==
  /\ "index_new" \in Moves
  /\ work[i].phase = "idle"
  /\ life[m] = "active"
  /\ work' = [work EXCEPT ![i] = [Idle EXCEPT !.phase = "read", !.new = {m}]]
  /\ UNCHANGED <<rowVars, recorded, vec, serving, outboxVars>>

\* Faulty Ids: the row by row retry takes the first row of the group every time.
IdsOfFirst(w) ==
  IF w.split THEN {change[Least(w.rows)].mem}
  ELSE w.new \cup {change[s].mem : s \in w.rows}

\* The memories of the current attempt of w: the whole group, or one row of it.
Ids(w) ==
  IF w.split THEN {change[Least(w.left)].mem}
  ELSE w.new \cup {change[s].mem : s \in w.rows}

\* Faulty Advance: the row by row retry does not stop after the last row.
AdvancePastEnd(w) ==
  IF w.new # {} THEN Idle
  ELSE IF w.split THEN [w EXCEPT !.phase = "read", !.left = w.left \ {Least(w.left)}]
  ELSE [w EXCEPT !.phase = "ack"]

\* w after an attempt succeeded or was skipped.
Advance(w) ==
  IF w.new # {} THEN Idle
  ELSE IF w.split /\ w.left # {Least(w.left)}
  THEN [w EXCEPT !.phase = "read", !.left = w.left \ {Least(w.left)}]
  ELSE [w EXCEPT !.phase = "ack"]

\* index_new_batch: the serving generation, then the texts of the active ones.
Read(i) ==
  LET w == work[i]
      read == IF serving = 0 THEN {}
              ELSE {[mem |-> m, text |-> text[m]] : m \in {n \in Ids(w) : life[n] = "active"}}
  IN
  /\ w.phase = "read"
  /\ work' = [work EXCEPT ![i] =
       IF read = {} THEN Advance(w)
       ELSE [w EXCEPT !.phase = "put", !.gen = serving, !.read = read]]
  /\ UNCHANGED <<rowVars, recorded, vec, serving, outboxVars>>

TextIn(read, m) == (CHOOSE r \in read : r.mem = m).text
ReadIds(read) == {r.mem : r \in read}

\* put_multi: the row of a memory is replaced, whatever its generation.
PutVectors(read, S, g) ==
  vec' = [m \in Memory |->
    IF m \in S THEN [gen |-> g, rev |-> TextIn(read, m)] ELSE vec[m]]

\* record_index_states
RecordStates(read) ==
  recorded' = [m \in Memory |-> IF m \in ReadIds(read) THEN TextIn(read, m) ELSE recorded[m]]

Put(i) ==
  LET w == work[i] IN
  /\ w.phase = "put"
  /\ PutVectors(w.read, ReadIds(w.read), w.gen)
  /\ work' = [work EXCEPT ![i] = [w EXCEPT !.phase = "record"]]
  /\ UNCHANGED <<rowVars, recorded, serving, outboxVars>>

Record(i) ==
  LET w == work[i] IN
  /\ w.phase = "record"
  /\ RecordStates(w.read)
  /\ work' = [work EXCEPT ![i] = Advance(w)]
  /\ UNCHANGED <<rowVars, vec, serving, outboxVars>>

\* A read, the embedder or a transaction fails: flush goes on row by row, and a row that
\* fails on its own will be acknowledged as failed.
Fails(i) ==
  LET w == work[i] IN
  /\ "fail" \in Moves
  /\ w.phase \in {"read", "put", "record"}
  /\ work' = [work EXCEPT ![i] =
       IF w.new # {} THEN Idle
       ELSE IF ~ w.split THEN [w EXCEPT !.phase = "read", !.split = TRUE, !.left = w.rows]
       ELSE [Advance(w) EXCEPT !.failed = w.failed \cup {Least(w.left)}]]
  /\ UNCHANGED <<rowVars, recorded, vec, serving, outboxVars>>

\* apply_remove, or its failure.
RemoveVector(i) ==
  LET w == work[i] IN
  /\ w.phase = "remove"
  /\ \/ /\ vec' = [m \in Memory |-> IF m \in Ids(w) THEN NoVec ELSE vec[m]]
        /\ work' = [work EXCEPT ![i] = [w EXCEPT !.phase = "ack"]]
     \/ /\ "fail" \in Moves
        /\ work' = [work EXCEPT ![i] = [w EXCEPT !.phase = "ack", !.failed = w.rows]]
        /\ UNCHANGED vec
  /\ UNCHANGED <<rowVars, recorded, serving, outboxVars>>

\* Faulty Acked: a row that is terminal already is acknowledged again, and its
\* work key is released whoever holds it.
AckedAgain(rows) == rows

\* ack_many: the rows that are still active move.
Acked(rows) == rows \cap Pending

Ack(i) ==
  LET w == work[i]
      moved == Acked(w.rows)
      keys == {KeyOf(s) : s \in moved}
  IN
  /\ w.phase = "ack"
  /\ change' = [s \in DOMAIN change |->
       IF s \in moved
       THEN [change[s] EXCEPT !.state = IF s \in w.failed THEN "failed" ELSE "completed"]
       ELSE change[s]]
  /\ lock' = [k \in Key |-> IF k \in keys THEN 0 ELSE lock[k]]
  /\ work' = [work EXCEPT ![i] = NextGroup(w.todo)]
  /\ UNCHANGED <<rowVars, recorded, vec, serving>>

\* The pass ends early: its process dies or an acknowledgment fails.
Abandon(i) ==
  /\ "stop" \in Moves
  /\ work[i].phase # "idle"
  /\ work' = [work EXCEPT ![i] = Idle]
  /\ UNCHANGED <<rowVars, recorded, vec, serving, outboxVars>>

-----------------------------------------------------------------------------
\* reindex: every active memory into the next generation, a batch at a time
\* (here one memory), then their states, then the switch.
ReindexStart(i) ==
  LET all == {m \in Memory : life[m] = "active"} IN
  /\ "reindex" \in Moves
  /\ work[i].phase = "idle"
  /\ serving < MaxGen
  /\ work' = [work EXCEPT ![i] = [Idle EXCEPT
       !.phase = "re_put", !.gen = serving + 1, !.left = all,
       !.read = {[mem |-> m, text |-> text[m]] : m \in all}]]
  /\ UNCHANGED <<rowVars, recorded, vec, serving, outboxVars>>

ReindexPut(i) ==
  LET w == work[i] IN
  /\ w.phase = "re_put"
  /\ \E m \in w.left :
       /\ PutVectors(w.read, {m}, w.gen)
       /\ work' = [work EXCEPT ![i] = [w EXCEPT !.left = w.left \ {m}]]
  /\ UNCHANGED <<rowVars, recorded, serving, outboxVars>>

ReindexRecord(i) ==
  LET w == work[i] IN
  /\ w.phase = "re_put" /\ w.left = {}
  /\ RecordStates(w.read)
  /\ work' = [work EXCEPT ![i] = [w EXCEPT !.phase = "re_switch"]]
  /\ UNCHANGED <<rowVars, vec, serving, outboxVars>>

ReindexSwitch(i) ==
  LET w == work[i] IN
  /\ w.phase = "re_switch"
  /\ serving' = w.gen
  /\ vec' = [m \in Memory |-> IF vec[m].gen = w.gen THEN vec[m] ELSE NoVec]
  /\ work' = [work EXCEPT ![i] = Idle]
  /\ UNCHANGED <<rowVars, recorded, outboxVars>>

Writer(m) ==
  \/ \E t \in Text : Write(m, t)
  \/ Retire(m) \/ Reactivate(m) \/ Delete(m) \/ DropVector(m)

Drain(i) == Pull(i) \/ Read(i) \/ Put(i) \/ Record(i) \/ RemoveVector(i) \/ Ack(i)
Reindex(i) == ReindexStart(i) \/ ReindexPut(i) \/ ReindexRecord(i) \/ ReindexSwitch(i)

Next ==
  \/ \E m \in Memory : Writer(m)
  \/ \E i \in Indexer :
       \/ Drain(i) \/ Fails(i) \/ Abandon(i) \/ Reindex(i)
       \/ \E m \in Memory : IndexNew(i, m)

Spec == Init /\ [][Next]_vars

\* The scheduler's drainer loops for as long as its process lives, and from some
\* time on processes live: no pass can end if every pass is cut short.
FairSpec ==
  /\ Spec
  /\ \A i \in Indexer : WF_vars(Drain(i))
  /\ <>[][\A i \in Indexer : ~ Abandon(i)]_vars

-----------------------------------------------------------------------------
\* The fence of recall::vector_candidates: what a semantic recall can return.
Served(m) ==
  /\ life[m] = "active"
  /\ serving > 0
  /\ vec[m] = [gen |-> serving, rev |-> text[m]]

\* Equivalent work coalesces: a work key has at most one pending row, its lock
\* names it, and a late or repeated acknowledgment never frees a newer row's key.
LockNamesPending ==
  /\ \A s \in Pending : lock[KeyOf(s)] = s
  /\ \A k \in Key : lock[k] # 0 => lock[k] \in Pending /\ KeyOf(lock[k]) = k

\* The queued rows are the durable record (write_then_index): an active memory that
\* recall cannot return has a pending row, whose indexer will read its current
\* text, or a row for that very text that has failed.
DurableWork ==
  \A m \in Memory :
    life[m] = "active" /\ serving > 0 /\ ~ Served(m) =>
      \E s \in DOMAIN change :
        \/ change[s].mem = m /\ change[s].rev # Deleted /\ change[s].state = "pending"
        \/ KeyOf(s) = <<m, text[m]>> /\ change[s].state = "failed"

\* A vector of a memory that is gone has removal work, pending or failed, or the
\* call that deleted the memory is about to drop it.
RemovalDurable ==
  \A m \in Memory :
    life[m] \in {"retired", "deleted"} /\ vec[m] # NoVec =>
      \/ m \in dropping
      \/ \E s \in DOMAIN change :
           KeyOf(s) = <<m, Deleted>> /\ change[s].state \in {"pending", "failed"}

\* Every active memory gets a vector of its current text, unless indexing it
\* fails, through coalescing, grouping and the row by row retry.
EventuallyServed ==
  \A m \in Memory :
    life[m] = "active" ~>
      \/ Served(m) \/ life[m] # "active"
      \/ \E s \in DOMAIN change : KeyOf(s) = <<m, text[m]>> /\ change[s].state = "failed"
=============================================================================
