------------------------- MODULE MemoryIndexProofs -------------------------
(***************************************************************************)
(* MemoryIndex for every number of memories, texts and rows: the outbox     *)
(* coalesces and everything is well typed, for any number of indexers; and   *)
(* with one indexer and texts that never come back, no index work is lost    *)
(* and the index implements Recall.                                          *)
(***************************************************************************)
EXTENDS MemoryRefines, SequenceTheorems, FiniteSetTheorems, WellFoundedInduction, TLAPS

Rows == [mem : Memory, rev : Text \cup {Deleted},
         state : {"pending", "completed", "failed"}]

OutboxType == change \in Seq(Rows) /\ lock \in [Key -> Nat]
OutboxInv == OutboxType /\ LockNamesPending

\* A reactivated memory enqueues the text it has, so that has to be one.
TextType == text \in [Memory -> Text \cup {Deleted}]

\* A row has a key, and its number is not 0.
LEMMA RowKeys ==
  ASSUME OutboxType, NEW s \in DOMAIN change
  PROVE  /\ change[s] \in Rows /\ KeyOf(s) \in Key
         /\ s \in 1..Len(change)
<1>1. s \in 1..Len(change) /\ change[s] \in Rows
  BY DEF OutboxType
<1>2. QED BY <1>1 DEF Rows, KeyOf, Key

\* The step of enqueue_in that creates a row.
LEMMA EnqueueNew ==
  ASSUME OutboxInv, NEW k \in Key, lock[k] \notin Pending, Enqueue(k)
  PROVE  OutboxInv'
<1> DEFINE n == Len(change) + 1
           new == [mem |-> k[1], rev |-> k[2], state |-> "pending"]
<1>1. new \in Rows /\ k = <<k[1], k[2]>>
  BY DEF Key, Rows
<1>2. change' = Append(change, new) /\ lock' = [lock EXCEPT ![k] = n]
  BY DEF Enqueue
<1>3. /\ change' \in Seq(Rows) /\ Len(change') = n /\ Len(change) \in Nat
      /\ DOMAIN change = 1..(n - 1) /\ DOMAIN change' = 1..n
      /\ \A s \in 1..(n - 1) : change'[s] = change[s]
      /\ change'[n] = new
  BY <1>1, <1>2 DEF OutboxInv, OutboxType
<1>4. lock' \in [Key -> Nat] /\ lock'[k] = n
      /\ \A q \in Key \ {k} : lock'[q] = lock[q]
  BY <1>2, <1>3 DEF OutboxInv, OutboxType
<1>5. Pending' = Pending \cup {n}
  BY <1>3 DEF Pending
<1>6. /\ <<change'[n].mem, change'[n].rev>> = k
      /\ \A s \in Pending : change'[s] = change[s]
  BY <1>1, <1>3 DEF Pending
<1>7. ASSUME NEW s \in Pending'
      PROVE  lock'[<<change'[s].mem, change'[s].rev>>] = s
  <2>1. CASE s = n
    BY <2>1, <1>4, <1>6
  <2>2. CASE s \in Pending
    <3>1. KeyOf(s) \in Key
      BY <2>2, RowKeys DEF OutboxInv, Pending
    <3>2. lock[KeyOf(s)] = s
      BY <2>2 DEF OutboxInv, LockNamesPending
    <3>3. KeyOf(s) # k
      BY <3>2, <2>2
    <3>4. <<change'[s].mem, change'[s].rev>> = KeyOf(s)
      BY <2>2, <1>6 DEF KeyOf
    <3>5. QED BY <3>1, <3>2, <3>3, <3>4, <1>4
  <2>3. QED BY <1>5, <2>1, <2>2
<1>8. ASSUME NEW q \in Key, lock'[q] # 0
      PROVE  /\ lock'[q] \in Pending'
             /\ <<change'[lock'[q]].mem, change'[lock'[q]].rev>> = q
  <2>1. CASE q = k
    BY <2>1, <1>4, <1>5, <1>6
  <2>2. CASE q # k
    <3>1. lock'[q] = lock[q]
      BY <2>2, <1>4
    <3>2. lock[q] \in Pending /\ KeyOf(lock[q]) = q
      BY <3>1, <1>8 DEF OutboxInv, LockNamesPending
    <3>3. change'[lock[q]] = change[lock[q]]
      BY <3>2, <1>6
    <3>4. QED BY <3>1, <3>2, <3>3, <1>5 DEF KeyOf
  <2>3. QED BY <2>1, <2>2
<1>9. LockNamesPending'
  BY <1>7, <1>8 DEF LockNamesPending, KeyOf
<1>10. QED BY <1>3, <1>4, <1>9 DEF OutboxInv, OutboxType

\* enqueue_in: a row is created, or equivalent pending work stands for it.
LEMMA EnqueueInv ==
  ASSUME OutboxInv, NEW k \in Key, Enqueue(k)
  PROVE  OutboxInv'
<1>1. CASE lock[k] \in Pending
  <2>1. UNCHANGED outboxVars
    BY <1>1 DEF Enqueue
  <2>2. QED BY <2>1 DEF outboxVars, OutboxInv, OutboxType, LockNamesPending, Pending, KeyOf
<1>2. CASE lock[k] \notin Pending
  BY <1>2, EnqueueNew
<1>3. QED BY <1>1, <1>2

\* A step that leaves the outbox alone keeps its invariant.
LEMMA OutboxSame ==
  ASSUME OutboxInv, UNCHANGED outboxVars
  PROVE  OutboxInv'
BY DEF outboxVars, OutboxInv, OutboxType, LockNamesPending, Pending, KeyOf

\* ack_many: the rows that move leave the pending ones and free their own keys.
LEMMA AckInv ==
  ASSUME OutboxInv, NEW i \in Indexer, Ack(i)
  PROVE  OutboxInv'
<1> DEFINE moved == Acked(work[i].rows)
           keys == {KeyOf(s) : s \in moved}
<1>1. moved \subseteq Pending
  BY DEF Acked
<1>2. /\ change' = [s \in DOMAIN change |->
            IF s \in moved
            THEN [change[s] EXCEPT !.state = IF s \in work[i].failed THEN "failed"
                                             ELSE "completed"]
            ELSE change[s]]
      /\ lock' = [q \in Key |-> IF q \in keys THEN 0 ELSE lock[q]]
  BY DEF Ack
<1>3. DOMAIN change = 1..Len(change) /\ Len(change) \in Nat
      /\ \A s \in DOMAIN change : change[s] \in Rows
  BY DEF OutboxInv, OutboxType
<1>4. /\ DOMAIN change' = DOMAIN change
      /\ \A s \in DOMAIN change :
           /\ change'[s] \in Rows
           /\ change'[s].mem = change[s].mem /\ change'[s].rev = change[s].rev
           /\ change'[s].state = "pending" <=> change[s].state = "pending" /\ s \notin moved
  <2> SUFFICES ASSUME NEW s \in DOMAIN change
               PROVE  /\ change'[s] \in Rows
                      /\ change'[s].mem = change[s].mem /\ change'[s].rev = change[s].rev
                      /\ change'[s].state = "pending"
                           <=> change[s].state = "pending" /\ s \notin moved
    BY <1>2
  <2>1. CASE s \in moved
    <3>1. change'[s] = [change[s] EXCEPT !.state = IF s \in work[i].failed THEN "failed"
                                                   ELSE "completed"]
      BY <2>1, <1>2
    <3>2. QED BY <3>1, <2>1, <1>3 DEF Rows
  <2>2. CASE s \notin moved
    BY <2>2, <1>2, <1>3 DEF Rows
  <2>3. QED BY <2>1, <2>2
<1>5. change' \in Seq(Rows)
  <2>1. change' \in [1..Len(change) -> Rows]
    BY <1>2, <1>3, <1>4
  <2>2. QED BY <2>1, <1>3, SeqDef
<1>6. Pending' = Pending \ moved
  BY <1>4 DEF Pending
<1>7. lock' \in [Key -> Nat]
  BY <1>2 DEF OutboxInv, OutboxType
<1>8. ASSUME NEW s \in Pending'
      PROVE  lock'[<<change'[s].mem, change'[s].rev>>] = s
  <2>1. s \in Pending /\ s \notin moved /\ s \in DOMAIN change
    BY <1>6 DEF Pending
  <2>2. <<change'[s].mem, change'[s].rev>> = KeyOf(s) /\ KeyOf(s) \in Key
    BY <2>1, <1>4, RowKeys DEF KeyOf, OutboxInv
  <2>3. lock[KeyOf(s)] = s
    BY <2>1 DEF OutboxInv, LockNamesPending
  <2>4. KeyOf(s) \notin keys
    <3> SUFFICES ASSUME NEW r \in moved, KeyOf(r) = KeyOf(s) PROVE FALSE
      OBVIOUS
    <3>1. lock[KeyOf(r)] = r
      BY <1>1 DEF OutboxInv, LockNamesPending
    <3>2. QED BY <3>1, <2>3, <2>1
  <2>5. QED BY <1>2, <2>2, <2>3, <2>4
<1>9. ASSUME NEW q \in Key, lock'[q] # 0
      PROVE  /\ lock'[q] \in Pending'
             /\ <<change'[lock'[q]].mem, change'[lock'[q]].rev>> = q
  <2>1. q \notin keys /\ lock'[q] = lock[q]
    BY <1>2, <1>9
  <2>2. lock[q] \in Pending /\ KeyOf(lock[q]) = q
    BY <2>1, <1>9 DEF OutboxInv, LockNamesPending
  <2>3. lock[q] \notin moved
    BY <2>1, <2>2
  <2>4. lock[q] \in DOMAIN change
    BY <2>2 DEF Pending
  <2>5. QED BY <2>1, <2>2, <2>3, <2>4, <1>4, <1>6 DEF KeyOf
<1>10. LockNamesPending'
  BY <1>8, <1>9 DEF LockNamesPending, KeyOf
<1>11. QED BY <1>5, <1>7, <1>10 DEF OutboxInv, OutboxType

\* A writer of memory m enqueues at most one key of m.
LEMMA WriterInv ==
  ASSUME TextType, OutboxInv, NEW m \in Memory, Writer(m)
  PROVE  OutboxInv'
<1>1. ASSUME NEW t \in Text \cup {Deleted}, IndexUpsert(m, t) PROVE OutboxInv'
  <2>1. <<m, t>> \in Key
    BY DEF Key
  <2>2. QED BY <1>1, <2>1, EnqueueInv, OutboxSame DEF IndexUpsert
<1>2. ASSUME IndexRemove(m) PROVE OutboxInv'
  <2>1. <<m, Deleted>> \in Key
    BY DEF Key
  <2>2. QED BY <1>2, <2>1, EnqueueInv DEF IndexRemove
<1>3. CASE \E t \in Text : Write(m, t)
  BY <1>3, <1>1 DEF Write
<1>4. CASE Retire(m)
  BY <1>4, <1>2 DEF Retire
<1>5. CASE Reactivate(m)
  BY <1>5, <1>1 DEF Reactivate, TextType
<1>6. CASE Delete(m)
  BY <1>6, <1>2 DEF Delete
<1>7. CASE DropVector(m)
  BY <1>7, OutboxSame DEF DropVector
<1>8. QED BY <1>3, <1>4, <1>5, <1>6, <1>7 DEF Writer

\* A memory's text stays a text, or 0 before its first write; only a write changes it.
LEMMA TextStep ==
  ASSUME TextType, [Next]_vars
  PROVE  TextType'
<1>1. CASE UNCHANGED text
  BY <1>1 DEF TextType
<1>2. ASSUME NEW m \in Memory, NEW t \in Text, Write(m, t) PROVE TextType'
  BY <1>2 DEF TextType, Write
<1>3. QED
  BY <1>1, <1>2 DEF Next, vars, rowVars, Writer, Retire, Reactivate, Delete, DropVector,
     Drain, Pull, Read, Put, Record, RemoveVector, Ack, Fails, Abandon, Reindex,
     ReindexStart, ReindexPut, ReindexRecord, ReindexSwitch, IndexNew

\* Only writers and acknowledgments touch the outbox.
LEMMA OutboxStep ==
  ASSUME TextType, OutboxInv, [Next]_vars
  PROVE  OutboxInv'
<1>1. CASE UNCHANGED outboxVars
  BY <1>1, OutboxSame
<1>2. CASE \E m \in Memory : Writer(m)
  BY <1>2, WriterInv
<1>3. CASE \E i \in Indexer : Ack(i)
  BY <1>3, AckInv
<1>4. QED
  BY <1>1, <1>2, <1>3 DEF Next, vars, Drain, Pull, Read, Put, Record, RemoveVector,
     Fails, Abandon, Reindex, ReindexStart, ReindexPut, ReindexRecord, ReindexSwitch,
     IndexNew

\* Equivalent work coalesces: whatever writers and indexers do, and however often an
\* indexer repeats an acknowledgment or gives up half way, a work key has at most one
\* pending row and its lock names that row (enqueue_in, ack_many).
THEOREM OutboxCoalesces == Spec => []LockNamesPending
<1>1. Init => TextType /\ OutboxInv
  <2> SUFFICES ASSUME Init PROVE TextType /\ OutboxInv
    OBVIOUS
  <2>1. TextType
    BY DEF Init, TextType, Deleted
  <2>2. change = <<>> /\ lock = [k \in Key |-> 0]
    BY DEF Init
  <2>3. OutboxType
    BY <2>2 DEF OutboxType
  <2>4. Pending = {}
    BY <2>2 DEF Pending
  <2>5. LockNamesPending
    BY <2>2, <2>4 DEF LockNamesPending
  <2>6. QED BY <2>1, <2>3, <2>5 DEF OutboxInv
<1>2. TextType /\ OutboxInv /\ [Next]_vars => (TextType /\ OutboxInv)'
  BY TextStep, OutboxStep
<1>3. OutboxInv => LockNamesPending
  BY DEF OutboxInv
<1>4. QED BY <1>1, <1>2, <1>3, PTL DEF Spec

-----------------------------------------------------------------------------
\* What an indexer holds between two of its transactions.
Phase == {"idle", "read", "put", "record", "remove", "ack", "re_put", "re_switch"}
IndexPhase == {"read", "put", "record"}
Entry == [mem : Memory, text : Text \cup {0}]
Work == [phase : Phase, todo : SUBSET Nat, rows : SUBSET Nat, new : SUBSET Memory,
         left : SUBSET (Nat \cup Memory), split : BOOLEAN, failed : SUBSET Nat,
         gen : 0..MaxGen, read : SUBSET Entry]

\* An attempt in a row by row retry has a row, and it read one text per memory.
Fits(w, D) ==
  /\ w \in Work
  /\ w.rows \subseteq D /\ w.todo \subseteq D /\ w.failed \subseteq w.rows
  /\ \A e, f \in w.read : e.mem = f.mem => e = f
  /\ w.phase \in IndexPhase /\ w.split =>
       w.left # {} /\ w.left \subseteq w.rows /\ w.new = {}
  /\ w.phase \in IndexPhase /\ w.new = {} => w.rows # {}
  /\ w.phase = "remove" => ~ w.split /\ w.new = {} /\ \E s \in w.rows : w.rows = {s}
  /\ w.phase = "re_put" => w.left \subseteq ReadIds(w.read)

\* A set of row numbers has a least one.
LEMMA LeastNumber ==
  ASSUME NEW S \in SUBSET Nat, S # {}
  PROVE  \E q \in S : \A u \in S : q <= u
<1> DEFINE Less == {ss \in Nat \X Nat : ss[1] < ss[2]}
<1>1. IsWellFoundedOn(Less, Nat)
  BY NatLessThanWellFounded, Zenon DEF OpToRel
<1> HIDE DEF Less
<1>2. \E q \in S : \A u \in S : ~ (<<u, q>> \in Less)
  BY <1>1, WFMin
<1>3. PICK q \in S : \A u \in S : ~ (<<u, q>> \in Less)
  BY <1>2
<1>4. ASSUME NEW u \in S PROVE q <= u
  <2>1. u \in Nat /\ q \in Nat /\ ~ (<<u, q>> \in Less)
    BY <1>3
  <2>2. ~ (u < q)
    BY <2>1 DEF Less
  <2>3. QED BY <2>1, <2>2
<1>5. QED BY <1>4

LEMMA LeastIn ==
  ASSUME NEW S \in SUBSET Nat, S # {}
  PROVE  Least(S) \in S /\ \A u \in S : Least(S) <= u
BY LeastNumber DEF Least

LEMMA IdleFits ==
  ASSUME NEW D
  PROVE  Fits(Idle, D) /\ Idle.phase = "idle"
<1>1. Idle \in Work
  BY IndexBounds DEF Idle, Work, Phase
<1>2. QED BY <1>1 DEF Fits, Idle, IndexPhase

\* What a pass takes next of the rows that are left: upserts that come before every
\* removal, or one removal, and nothing that is left comes before it.
Takes(n, todo, c) ==
  /\ n.phase \in {"idle", "read", "remove"}
  /\ n.split = FALSE /\ n.new = {} /\ n.failed = {} /\ n.read = {}
  /\ n.phase = "idle" => n.rows = {} /\ n.todo = {}
  /\ n.phase # "idle" => n.rows \cup n.todo = todo
  /\ \A s \in n.rows, u \in n.todo : s < u
  /\ n.phase = "read" => n.rows # {} /\ \A s \in n.rows : c[s].rev # Deleted
  /\ n.phase = "remove" => \E s \in n.rows : n.rows = {s} /\ c[s].rev = Deleted

LEMMA NextGroupTakes ==
  ASSUME OutboxType, NEW todo \in SUBSET (DOMAIN change)
  PROVE  Takes(NextGroup(todo), todo, change) /\ Fits(NextGroup(todo), DOMAIN change)
<1> DEFINE n == NextGroup(todo)
           first == {s \in todo : \A u \in todo : change[u].rev = Deleted => s < u}
           group == {s \in first : Cardinality({u \in first : u < s}) < Chunk}
<1>1. /\ DOMAIN change = 1..Len(change) /\ Len(change) \in Nat
      /\ todo \in SUBSET Nat /\ first \in SUBSET todo /\ group \in SUBSET first
  BY DEF OutboxType
<1>2. IsFiniteSet(first)
  <2>1. IsFiniteSet(1..Len(change))
    BY <1>1, FS_Interval
  <2>2. first \in SUBSET (1..Len(change))
    BY <1>1
  <2>3. QED BY <2>1, <2>2, FS_Subset
<1>3. CASE todo = {}
  <2>1. n = Idle
    BY <1>3 DEF NextGroup
  <2>2. QED BY <2>1, IdleFits DEF Takes, Idle
<1>4. CASE todo # {} /\ first = {}
  <2>1. PICK q : q = Least(todo)
    OBVIOUS
  <2>2. q \in todo /\ \A u \in todo : q <= u
    BY <1>1, <1>4, <2>1, LeastIn
  <2>3. n = [Idle EXCEPT !.phase = "remove", !.rows = {q}, !.todo = todo \ {q}]
    BY <1>4, <2>1 DEF NextGroup
  <2>4. change[q].rev = Deleted
    <3>1. PICK d \in todo : change[d].rev = Deleted /\ ~ (q < d)
      BY <2>2, <1>4
    <3>2. d = q
      BY <3>1, <2>2, <1>1
    <3>3. QED BY <3>1, <3>2
  <2>5. \A u \in todo \ {q} : q < u
    BY <2>2, <1>1
  <2>6. /\ n.phase = "remove" /\ n.rows = {q} /\ n.todo = todo \ {q} /\ n.split = FALSE
        /\ n.new = {} /\ n.failed = {} /\ n.read = {}
    BY <2>3 DEF Idle
  <2>7. n \in Work
    <3>1. n = [phase |-> "remove", rows |-> {q}, todo |-> todo \ {q}, new |-> {}, left |-> {},
               split |-> FALSE, failed |-> {}, gen |-> 0, read |-> {}]
      BY <2>3 DEF Idle
    <3>2. {q} \in SUBSET Nat /\ todo \ {q} \in SUBSET Nat /\ 0 \in 0..MaxGen
      BY <2>2, <1>1, IndexBounds
    <3>3. QED BY <3>1, <3>2 DEF Work, Phase
  <2>8. Takes(n, todo, change)
    BY <2>2, <2>4, <2>5, <2>6 DEF Takes
  <2>9. Fits(n, DOMAIN change)
    BY <2>2, <2>6, <2>7, <1>1 DEF Fits, IndexPhase
  <2>10. QED BY <2>8, <2>9
<1>5. CASE first # {}
  <2>1. n = [Idle EXCEPT !.phase = "read", !.rows = group, !.todo = todo \ group]
    BY <1>5 DEF NextGroup
  <2>2. group # {}
    <3>1. PICK q \in first : \A u \in first : q <= u
      BY <1>5, <1>1, LeastNumber
    <3>2. {u \in first : u < q} = {}
      BY <3>1, <1>1
    <3>3. Cardinality({u \in first : u < q}) = 0
      BY <3>2, FS_EmptySet
    <3>4. QED BY <3>1, <3>3, IndexBounds
  <2>3. ASSUME NEW s \in group, NEW u \in todo \ group PROVE s < u
    <3>1. s \in Nat /\ u \in Nat /\ s \in first
      BY <1>1
    <3>2. CASE u \in first
      <4> DEFINE A == {v \in first : v < u}
                 B == {v \in first : v < s}
      <4>1. IsFiniteSet(A) /\ IsFiniteSet(B)
        BY <1>2, FS_Subset
      <4>2. Cardinality(A) \in Nat /\ Cardinality(B) \in Nat
        BY <4>1, FS_CardinalityType
      <4>3. Cardinality(B) < Chunk /\ ~ (Cardinality(A) < Chunk)
        BY <3>2
      <4>4. SUFFICES ASSUME u <= s PROVE FALSE
        BY <3>1
      <4>5. A \in SUBSET B
        BY <4>4, <3>1, <1>1
      <4>6. Cardinality(A) <= Cardinality(B)
        BY <4>1, <4>5, FS_Subset
      <4>7. QED BY <4>2, <4>3, <4>6, IndexBounds
    <3>3. CASE u \notin first
      <4>1. PICK d \in todo : change[d].rev = Deleted /\ ~ (u < d)
        BY <3>3
      <4>2. s < d
        BY <3>1, <4>1
      <4>3. d \in Nat
        BY <1>1
      <4>4. QED BY <3>1, <4>1, <4>2, <4>3
    <3>4. QED BY <3>2, <3>3
  <2>4. \A s \in group : change[s].rev # Deleted
    <3> SUFFICES ASSUME NEW s \in group, change[s].rev = Deleted PROVE FALSE
      OBVIOUS
    <3>1. s < s /\ s \in Nat
      BY <1>1
    <3>2. QED BY <3>1
  <2>5. /\ n.phase = "read" /\ n.rows = group /\ n.todo = todo \ group /\ n.split = FALSE
        /\ n.new = {} /\ n.failed = {} /\ n.read = {}
    BY <2>1 DEF Idle
  <2>6. n \in Work
    <3>1. n = [phase |-> "read", rows |-> group, todo |-> todo \ group, new |-> {},
               left |-> {}, split |-> FALSE, failed |-> {}, gen |-> 0, read |-> {}]
      BY <2>1 DEF Idle
    <3>2. group \in SUBSET Nat /\ todo \ group \in SUBSET Nat /\ 0 \in 0..MaxGen
      BY <1>1, IndexBounds
    <3> HIDE DEF n, group
    <3>3. QED BY <3>1, <3>2 DEF Work, Phase
  <2> HIDE DEF n, group, first
  <2>7. Takes(n, todo, change)
    BY <2>2, <2>3, <2>4, <2>5, <1>1 DEF Takes
  <2>8. Fits(n, DOMAIN change)
    BY <2>2, <2>5, <2>6, <1>1 DEF Fits, IndexPhase
  <2>9. QED BY <2>7, <2>8 DEF n
<1>6. QED BY <1>3, <1>4, <1>5

\* n is w after an attempt of w ended well: the next row of the row by row retry, the
\* acknowledgment of the group, or nothing for a memory without a row.
Stepped(n, w) ==
  \/ n = Idle
  \/ /\ n.phase \in {"read", "ack"}
     /\ n.rows = w.rows /\ n.todo = w.todo /\ n.failed = w.failed
     /\ n.new = {} /\ n.read = w.read
     /\ n.phase = "read" => w.split /\ n.split /\ n.left = w.left \ {Least(w.left)}
     /\ n.phase = "ack" => ~ w.split \/ w.left = {Least(w.left)}

LEMMA AdvanceFits ==
  ASSUME NEW D \in SUBSET Nat, NEW w, Fits(w, D), w.phase \in IndexPhase
  PROVE  Fits(Advance(w), D) /\ Stepped(Advance(w), w)
<1> DEFINE n == Advance(w)
<1>1. CASE w.new # {}
  <2>1. n = Idle
    BY <1>1 DEF Advance
  <2>2. QED BY <2>1, IdleFits DEF Stepped
<1>2. w \in Work /\ (w.split => w.left # {} /\ w.left \subseteq w.rows)
  BY DEF Fits
<1>3. CASE w.new = {} /\ w.split /\ w.left # {Least(w.left)}
  <2>1. PICK L : L = w.left \ {Least(w.left)}
    OBVIOUS
  <2>2. n = [w EXCEPT !.phase = "read", !.left = L]
    BY <1>3, <2>1 DEF Advance
  <2>3. L # {} /\ L \subseteq w.rows
    BY <1>2, <1>3, <2>1
  <2>4. L \in SUBSET (Nat \cup Memory)
    BY <1>2, <2>1 DEF Work
  <2>5. /\ n \in Work /\ n.phase = "read" /\ n.left = L /\ n.rows = w.rows /\ n.todo = w.todo
        /\ n.failed = w.failed /\ n.new = w.new /\ n.read = w.read /\ n.split = w.split
    BY <2>2, <2>4, <1>2 DEF Work, Phase
  <2> HIDE DEF n
  <2>6. Stepped(n, w)
    BY <2>1, <2>5, <1>3 DEF Stepped
  <2>7. Fits(n, D)
    BY <2>3, <2>5, <1>3 DEF Fits, IndexPhase
  <2>8. QED BY <2>6, <2>7 DEF n
<1>4. CASE w.new = {} /\ ~ (w.split /\ w.left # {Least(w.left)})
  <2>1. n = [w EXCEPT !.phase = "ack"]
    BY <1>4 DEF Advance
  <2>2. /\ n \in Work /\ n.phase = "ack" /\ n.rows = w.rows /\ n.todo = w.todo
        /\ n.failed = w.failed /\ n.new = w.new /\ n.read = w.read
    BY <2>1, <1>2 DEF Work, Phase
  <2> HIDE DEF n
  <2>3. Stepped(n, w)
    BY <2>2, <1>4 DEF Stepped
  <2>4. Fits(n, D)
    BY <2>2 DEF Fits, IndexPhase
  <2>5. QED BY <2>3, <2>4 DEF n
<1>5. QED BY <1>1, <1>3, <1>4

\* The memories an attempt is about.
LEMMA IdsKnown ==
  ASSUME OutboxType, NEW w, Fits(w, DOMAIN change), w.phase \in IndexPhase \cup {"remove"}
  PROVE  Ids(w) \subseteq Memory
<1>1. DOMAIN change \in SUBSET Nat
  BY DEF OutboxType
<1>2. \A s \in w.rows : change[s].mem \in Memory
  <2>1. \A s \in DOMAIN change : change[s] \in Rows
    BY RowKeys
  <2>2. QED BY <2>1 DEF Rows, Fits
<1>3. CASE w.split
  <2>1. w.left # {} /\ w.left \subseteq w.rows /\ w.left \in SUBSET Nat
    BY <1>1, <1>3 DEF Fits
  <2>2. Least(w.left) \in w.rows
    BY <2>1, LeastIn
  <2>3. QED BY <1>2, <1>3, <2>2 DEF Ids
<1>4. CASE ~ w.split
  BY <1>2, <1>4 DEF Ids, Fits, Work
<1>5. QED BY <1>3, <1>4

\* The text of a memory that was read is the one entry of it.
LEMMA TextRead ==
  ASSUME NEW read \in SUBSET Entry, \A e, f \in read : e.mem = f.mem => e = f,
         NEW e \in read
  PROVE  TextIn(read, e.mem) = e.text
BY DEF TextIn

-----------------------------------------------------------------------------
\* The memory rows, what is recorded and served of them, and the row numbers.
StoreType ==
  /\ TextType
  /\ life \in [Memory -> {"none", "active", "retired", "deleted"}]
  /\ recorded \in [Memory -> Text \cup {0}]
  /\ vec \in [Memory -> [gen : Nat, rev : Text \cup {0}]]
  /\ serving \in 0..MaxGen
  /\ dropping \subseteq Memory
  /\ Len(change) <= MaxRows

WorkType == work \in [Indexer -> Work] /\ \A i \in Indexer : Fits(work[i], DOMAIN change)

IndexInv == OutboxInv /\ StoreType /\ WorkType

\* The indexer i goes on with n, and rows are only added.
LEMMA WorkMoves ==
  ASSUME WorkType, NEW i \in Indexer, NEW n, work' = [work EXCEPT ![i] = n],
         Fits(n, DOMAIN change'), DOMAIN change \subseteq DOMAIN change'
  PROVE  WorkType'
<1>1. n \in Work
  BY DEF Fits
<1>2. work' \in [Indexer -> Work]
  BY <1>1 DEF WorkType
<1>3. ASSUME NEW j \in Indexer PROVE Fits(work'[j], DOMAIN change')
  <2>1. CASE j = i
    BY <2>1 DEF WorkType
  <2>2. CASE j # i
    <3>1. work'[j] = work[j] /\ Fits(work[j], DOMAIN change)
      BY <2>2 DEF WorkType
    <3>2. QED BY <3>1 DEF Fits
  <2>3. QED BY <2>1, <2>2
<1>4. QED BY <1>2, <1>3 DEF WorkType

LEMMA WorkStays ==
  ASSUME WorkType, UNCHANGED work, DOMAIN change \subseteq DOMAIN change'
  PROVE  WorkType'
<1>1. ASSUME NEW j \in Indexer PROVE Fits(work'[j], DOMAIN change')
  BY DEF WorkType, Fits
<1>2. QED BY <1>1 DEF WorkType

\* enqueue_in adds at most one row, pending and for the key it was asked for, and
\* afterwards some row of that key is pending.
Enqueued(k) ==
  /\ DOMAIN change \subseteq DOMAIN change' /\ Len(change') <= Len(change) + 1
  /\ \A s \in DOMAIN change : change'[s] = change[s]
  /\ \A s \in DOMAIN change' \ DOMAIN change :
       /\ s = Len(change) + 1 /\ \A u \in DOMAIN change : u < s
       /\ change'[s] = [mem |-> k[1], rev |-> k[2], state |-> "pending"]
  /\ \E s \in DOMAIN change' :
       change'[s] = [mem |-> k[1], rev |-> k[2], state |-> "pending"]

LEMMA EnqueueGrows ==
  ASSUME OutboxInv, NEW k \in Key, Enqueue(k)
  PROVE  Enqueued(k)
<1> DEFINE row == [mem |-> k[1], rev |-> k[2], state |-> "pending"]
<1>1. DOMAIN change = 1..Len(change) /\ Len(change) \in Nat /\ change \in Seq(Rows)
  BY DEF OutboxInv, OutboxType
<1>2. CASE lock[k] \in Pending
  <2>1. change' = change
    BY <1>2 DEF Enqueue, outboxVars
  <2>2. lock[k] # 0 /\ lock[k] \in DOMAIN change /\ change[lock[k]].state = "pending"
    BY <1>1, <1>2 DEF Pending
  <2>3. KeyOf(lock[k]) = k
    BY <2>2 DEF OutboxInv, LockNamesPending
  <2>4. change[lock[k]] \in Rows
    BY <2>2, RowKeys DEF OutboxInv
  <2>5. change[lock[k]] = row
    BY <2>2, <2>3, <2>4 DEF KeyOf, Rows
  <2>6. QED BY <2>1, <2>2, <2>5, <1>1 DEF Enqueued
<1>3. CASE lock[k] \notin Pending
  <2>1. change' = Append(change, row)
    BY <1>3 DEF Enqueue
  <2>2. row \in Rows
    BY DEF Rows, Key
  <2>3. /\ DOMAIN change' = 1..(Len(change) + 1) /\ Len(change') = Len(change) + 1
        /\ \A s \in 1..Len(change) : change'[s] = change[s]
        /\ change'[Len(change) + 1] = row
    BY <2>1, <2>2, <1>1
  <2> HIDE DEF row
  <2>4. /\ DOMAIN change \subseteq DOMAIN change' /\ Len(change) + 1 \in DOMAIN change'
        /\ \A s \in DOMAIN change' \ DOMAIN change :
             s = Len(change) + 1 /\ \A u \in DOMAIN change : u < s
    BY <2>3, <1>1
  <2>5. QED BY <2>3, <2>4, <1>1 DEF Enqueued, row
<1>4. QED BY <1>2, <1>3

\* A writer of m adds at most one row, and only when there is room for one.
LEMMA WriterGrows ==
  ASSUME IndexInv, NEW m \in Memory, Writer(m)
  PROVE  DOMAIN change \subseteq DOMAIN change' /\ Len(change') <= MaxRows
<1>1. Len(change) \in Nat /\ Len(change) <= MaxRows /\ MaxRows \in Nat
  BY IndexBounds DEF IndexInv, OutboxInv, OutboxType, StoreType
<1>2. ASSUME NEW k \in Key, Enqueue(k), RoomFor
      PROVE  DOMAIN change \subseteq DOMAIN change' /\ Len(change') <= MaxRows
  <2>1. Enqueued(k)
    BY <1>2, EnqueueGrows DEF IndexInv
  <2>2. change' \in Seq(Rows)
    BY <1>2, EnqueueInv DEF IndexInv, OutboxInv, OutboxType
  <2>3. QED BY <1>1, <1>2, <2>1, <2>2 DEF Enqueued, RoomFor
<1>3. ASSUME NEW t \in Text \cup {Deleted}, IndexUpsert(m, t), RoomFor
      PROVE  DOMAIN change \subseteq DOMAIN change' /\ Len(change') <= MaxRows
  <2>1. <<m, t>> \in Key
    BY DEF Key
  <2>2. QED BY <1>1, <1>2, <1>3, <2>1 DEF IndexUpsert, outboxVars
<1>4. ASSUME IndexRemove(m), RoomFor
      PROVE  DOMAIN change \subseteq DOMAIN change' /\ Len(change') <= MaxRows
  <2>1. <<m, Deleted>> \in Key
    BY DEF Key
  <2>2. QED BY <1>2, <1>4, <2>1 DEF IndexRemove
<1>5. CASE \E t \in Text : Write(m, t)
  BY <1>5, <1>3 DEF Write
<1>6. CASE Retire(m)
  BY <1>6, <1>4 DEF Retire
<1>7. CASE Reactivate(m)
  BY <1>7, <1>3 DEF Reactivate, IndexInv, StoreType, TextType
<1>8. CASE Delete(m)
  BY <1>8, <1>4 DEF Delete
<1>9. CASE DropVector(m)
  BY <1>9, <1>1 DEF DropVector, outboxVars
<1>10. QED BY <1>5, <1>6, <1>7, <1>8, <1>9 DEF Writer

LEMMA WriterType ==
  ASSUME IndexInv, NEW m \in Memory, Writer(m)
  PROVE  StoreType' /\ WorkType'
<1>1. DOMAIN change \subseteq DOMAIN change' /\ Len(change') <= MaxRows
  BY WriterGrows
<1>2. UNCHANGED <<recorded, serving, work>>
  BY DEF Writer, Write, Retire, Reactivate, Delete, DropVector, Rest
<1>3. WorkType'
  BY <1>1, <1>2, WorkStays DEF IndexInv
<1>4. StoreType
  BY DEF IndexInv
<1>5. TextType'
  BY <1>4, TextStep DEF StoreType, Next
<1>6. /\ life \in [Memory -> {"none", "active", "retired", "deleted"}]
      /\ vec \in [Memory -> [gen : Nat, rev : Text \cup {0}]] /\ dropping \subseteq Memory
      /\ NoVec \in [gen : Nat, rev : Text \cup {0}]
  BY <1>4 DEF StoreType, NoVec
<1>7. life' \in [Memory -> {"none", "active", "retired", "deleted"}]
  BY <1>6 DEF Writer, Write, Retire, Reactivate, Delete, DropVector
<1>8. dropping' \subseteq Memory
  BY <1>6 DEF Writer, Write, Retire, Reactivate, Delete, DropVector
<1>9. vec' \in [Memory -> [gen : Nat, rev : Text \cup {0}]]
  BY <1>6 DEF Writer, Write, Retire, Reactivate, Delete, DropVector, Rest
<1>10. StoreType'
  BY <1>1, <1>2, <1>4, <1>5, <1>7, <1>8, <1>9 DEF StoreType
<1>11. QED BY <1>3, <1>10

\* An indexer's step that only changes what the indexer holds.
LEMMA OnlyWork ==
  ASSUME IndexInv, NEW i \in Indexer, NEW n, work' = [work EXCEPT ![i] = n],
         Fits(n, DOMAIN change),
         UNCHANGED <<rowVars, recorded, vec, serving, outboxVars>>
  PROVE  StoreType' /\ WorkType'
<1>1. WorkType'
  BY WorkMoves DEF IndexInv, outboxVars
<1>2. StoreType'
  BY DEF IndexInv, StoreType, TextType, rowVars, outboxVars
<1>3. QED BY <1>1, <1>2

TextsOf(S) == {[mem |-> m, text |-> text[m]] : m \in S}

\* The texts of a set of memories, read at one time, are one entry per memory.
LEMMA ReadTexts ==
  ASSUME TextType, NEW S \in SUBSET Memory
  PROVE  LET read == TextsOf(S) IN
         /\ read \in SUBSET Entry /\ \A e, f \in read : e.mem = f.mem => e = f
         /\ ReadIds(read) = S
         /\ \A e \in read : e.mem \in S /\ e.text = text[e.mem]
         /\ \A m \in S : [mem |-> m, text |-> text[m]] \in read
<1> DEFINE read == TextsOf(S)
<1>1. ASSUME NEW m \in S
      PROVE  [mem |-> m, text |-> text[m]] \in Entry
  BY DEF TextType, Entry, Deleted
<1>2. \A e \in read : e \in Entry /\ e.mem \in S /\ e.text = text[e.mem]
  BY <1>1 DEF TextsOf
<1>3. \A e, f \in read : e.mem = f.mem => e = f
  BY <1>2 DEF Entry
<1>4. ReadIds(read) = S
  <2>1. ReadIds(read) \subseteq S
    BY <1>2 DEF ReadIds
  <2>2. ASSUME NEW m \in S PROVE m \in ReadIds(read)
    <3>1. [mem |-> m, text |-> text[m]] \in read
      BY DEF TextsOf
    <3>2. QED BY <3>1 DEF ReadIds
  <2>3. QED BY <2>1, <2>2
<1>6. \A m \in S : [mem |-> m, text |-> text[m]] \in read
  BY DEF TextsOf
<1>5. QED BY <1>2, <1>3, <1>4, <1>6

\* put_multi and record_index_states keep the stores well typed.
LEMMA PutTyped ==
  ASSUME StoreType, NEW read \in SUBSET Entry, NEW g \in 0..MaxGen,
         \A e, f \in read : e.mem = f.mem => e = f,
         NEW S \in SUBSET ReadIds(read), PutVectors(read, S, g)
  PROVE  vec' \in [Memory -> [gen : Nat, rev : Text \cup {0}]]
<1>1. g \in Nat
  BY IndexBounds
<1>2. ASSUME NEW m \in S PROVE TextIn(read, m) \in Text \cup {0}
  <2>1. PICK e \in read : e.mem = m
    BY <1>2 DEF ReadIds
  <2>2. TextIn(read, m) = e.text
    BY <2>1, TextRead
  <2>3. QED BY <2>1, <2>2 DEF Entry
<1>3. QED BY <1>1, <1>2 DEF PutVectors, StoreType

LEMMA RecordTyped ==
  ASSUME StoreType, NEW read \in SUBSET Entry,
         \A e, f \in read : e.mem = f.mem => e = f,
         RecordStates(read)
  PROVE  recorded' \in [Memory -> Text \cup {0}]
<1>1. ASSUME NEW m \in ReadIds(read) PROVE TextIn(read, m) \in Text \cup {0}
  <2>1. PICK e \in read : e.mem = m
    BY <1>1 DEF ReadIds
  <2>2. TextIn(read, m) = e.text
    BY <2>1, TextRead
  <2>3. QED BY <2>1, <2>2 DEF Entry
<1>2. QED BY <1>1 DEF RecordStates, StoreType

-----------------------------------------------------------------------------
\* One lemma per step of an indexer.
LEMMA PullType ==
  ASSUME IndexInv, NEW i \in Indexer, Pull(i)
  PROVE  StoreType' /\ WorkType'
<1>1. Pending \in SUBSET (DOMAIN change)
  BY DEF Pending
<1>2. Fits(NextGroup(Pending), DOMAIN change)
  BY <1>1, NextGroupTakes DEF IndexInv, OutboxInv
<1>3. QED BY <1>2, OnlyWork DEF Pull

\* A memory without a row is on its own: what index_new holds before it reads.
LEMMA NewFits ==
  ASSUME NEW m \in Memory, NEW D
  PROVE  LET n == [Idle EXCEPT !.phase = "read", !.new = {m}] IN
         /\ Fits(n, D) /\ n.phase = "read" /\ n.rows = {} /\ n.todo = {} /\ n.split = FALSE
         /\ n.read = {} /\ n.failed = {}
<1>1. PICK v : v = Idle
  OBVIOUS
<1> DEFINE n == [v EXCEPT !.phase = "read", !.new = {m}]
<1>2. /\ v \in Work /\ v.rows = {} /\ v.todo = {} /\ v.split = FALSE /\ v.read = {}
      /\ v.failed = {}
  BY <1>1, IdleFits DEF Fits, Idle
<1>3. /\ n \in Work /\ n.phase = "read" /\ n.rows = {} /\ n.todo = {} /\ n.new = {m}
      /\ n.split = FALSE /\ n.read = {} /\ n.failed = {}
  BY <1>2 DEF Work, Phase
<1> HIDE DEF n
<1>4. Fits(n, D)
  BY <1>3 DEF Fits, IndexPhase
<1>5. QED BY <1>1, <1>3, <1>4 DEF n

LEMMA IndexNewType ==
  ASSUME IndexInv, NEW i \in Indexer, NEW m \in Memory, IndexNew(i, m)
  PROVE  StoreType' /\ WorkType'
BY NewFits, OnlyWork DEF IndexNew

\* What index_new_batch goes on with when it found texts to embed.
LEMMA PutFits ==
  ASSUME NEW D, NEW w, Fits(w, D), w.phase = "read", NEW g \in 0..MaxGen,
         NEW read \in SUBSET Entry, \A e, f \in read : e.mem = f.mem => e = f
  PROVE  LET n == [w EXCEPT !.phase = "put", !.gen = g, !.read = read] IN
         /\ Fits(n, D) /\ n.phase = "put" /\ n.gen = g /\ n.read = read
         /\ n.rows = w.rows /\ n.todo = w.todo /\ n.failed = w.failed /\ n.new = w.new
         /\ n.split = w.split /\ n.left = w.left
<1> DEFINE n == [w EXCEPT !.phase = "put", !.gen = g, !.read = read]
<1>1. /\ n \in Work /\ n.phase = "put" /\ n.gen = g /\ n.read = read
      /\ n.rows = w.rows /\ n.todo = w.todo /\ n.failed = w.failed /\ n.new = w.new
      /\ n.split = w.split /\ n.left = w.left
  BY DEF Fits, Work, Phase
<1> HIDE DEF n
<1>2. Fits(n, D)
  BY <1>1 DEF Fits, IndexPhase
<1>3. QED BY <1>1, <1>2 DEF n

LEMMA ReadType ==
  ASSUME IndexInv, NEW i \in Indexer, Read(i)
  PROVE  StoreType' /\ WorkType'
<1>1. PICK w : w = work[i]
  OBVIOUS
<1>2. PICK read : read = IF serving = 0 THEN {}
                         ELSE {[mem |-> m, text |-> text[m]] :
                                 m \in {n \in Ids(w) : life[n] = "active"}}
  OBVIOUS
<1>3. Fits(w, DOMAIN change) /\ w.phase = "read" /\ DOMAIN change \in SUBSET Nat
  BY <1>1 DEF Read, IndexInv, WorkType, OutboxInv, OutboxType
<1>4. Ids(w) \subseteq Memory
  BY <1>3, IdsKnown DEF IndexInv, OutboxInv, IndexPhase
<1>5. read \in SUBSET Entry /\ \A e, f \in read : e.mem = f.mem => e = f
  <2>1. CASE serving = 0
    BY <2>1, <1>2
  <2>2. CASE serving # 0
    <3>1. {n \in Ids(w) : life[n] = "active"} \in SUBSET Memory
      BY <1>4
    <3>2. read = {[mem |-> m, text |-> text[m]] :
                    m \in {n \in Ids(w) : life[n] = "active"}}
      BY <2>2, <1>2
    <3>3. TextType
      BY DEF IndexInv, StoreType
    <3>4. PICK S \in SUBSET Memory : S = {n \in Ids(w) : life[n] = "active"}
      BY <3>1
    <3>5. read = TextsOf(S)
      BY <3>2, <3>4 DEF TextsOf
    <3>6. QED BY <3>3, <3>5, ReadTexts
  <2>3. QED BY <2>1, <2>2
<1>6. work' = [work EXCEPT ![i] =
         IF read = {} THEN Advance(w)
         ELSE [w EXCEPT !.phase = "put", !.gen = serving, !.read = read]]
  BY <1>1, <1>2, Zenon DEF Read
<1>7. CASE read = {}
  <2>1. Fits(Advance(w), DOMAIN change)
    BY <1>3, AdvanceFits DEF IndexPhase
  <2>2. QED BY <1>6, <1>7, <2>1, OnlyWork DEF Read
<1>8. CASE read # {}
  <2>1. serving \in 0..MaxGen
    BY DEF IndexInv, StoreType
  <2>2. PICK n : n = [w EXCEPT !.phase = "put", !.gen = serving, !.read = read]
    OBVIOUS
  <2>3. Fits(n, DOMAIN change)
    BY <1>3, <1>5, <2>1, <2>2, PutFits
  <2>4. work' = [work EXCEPT ![i] = n]
    BY <1>6, <1>8, <2>2
  <2>5. QED BY <2>3, <2>4, OnlyWork DEF Read
<1>9. QED BY <1>7, <1>8

\* The phase moves and nothing else does.
LEMMA PhaseFits ==
  ASSUME NEW D, NEW w, Fits(w, D), NEW p \in {"record", "ack"},
         p = "record" => w.phase = "put"
  PROVE  LET n == [w EXCEPT !.phase = p] IN
         /\ Fits(n, D) /\ n.phase = p /\ n.read = w.read /\ n.gen = w.gen
         /\ n.rows = w.rows /\ n.todo = w.todo /\ n.failed = w.failed /\ n.new = w.new
         /\ n.split = w.split /\ n.left = w.left
<1> DEFINE n == [w EXCEPT !.phase = p]
<1>1. /\ n \in Work /\ n.phase = p /\ n.read = w.read /\ n.gen = w.gen
      /\ n.rows = w.rows /\ n.todo = w.todo /\ n.failed = w.failed /\ n.new = w.new
      /\ n.split = w.split /\ n.left = w.left
  BY DEF Fits, Work, Phase
<1> HIDE DEF n
<1>2. Fits(n, D)
  BY <1>1 DEF Fits, IndexPhase
<1>3. QED BY <1>1, <1>2 DEF n

LEMMA PutType ==
  ASSUME IndexInv, NEW i \in Indexer, Put(i)
  PROVE  StoreType' /\ WorkType'
<1>1. PICK w : w = work[i]
  OBVIOUS
<1>2. Fits(w, DOMAIN change) /\ w.phase = "put"
  BY <1>1 DEF Put, IndexInv, WorkType
<1>3. /\ PutVectors(w.read, ReadIds(w.read), w.gen)
      /\ work' = [work EXCEPT ![i] = [w EXCEPT !.phase = "record"]]
      /\ UNCHANGED <<rowVars, recorded, serving, outboxVars>>
  BY <1>1 DEF Put
<1>4. Fits([w EXCEPT !.phase = "record"], DOMAIN change)
  BY <1>2, PhaseFits
<1>5. WorkType'
  BY <1>3, <1>4, WorkMoves DEF IndexInv, outboxVars
<1>6. vec' \in [Memory -> [gen : Nat, rev : Text \cup {0}]]
  <2>1. w.read \in SUBSET Entry /\ w.gen \in 0..MaxGen
        /\ \A e, f \in w.read : e.mem = f.mem => e = f
    BY <1>2 DEF Fits, Work
  <2>2. QED BY <1>3, <2>1, PutTyped DEF IndexInv
<1>7. StoreType'
  BY <1>3, <1>6 DEF IndexInv, StoreType, TextType, rowVars, outboxVars
<1>8. QED BY <1>5, <1>7

LEMMA RecordType ==
  ASSUME IndexInv, NEW i \in Indexer, Record(i)
  PROVE  StoreType' /\ WorkType'
<1>1. PICK w : w = work[i]
  OBVIOUS
<1>2. Fits(w, DOMAIN change) /\ w.phase = "record" /\ DOMAIN change \in SUBSET Nat
  BY <1>1 DEF Record, IndexInv, WorkType, OutboxInv, OutboxType
<1>3. /\ RecordStates(w.read)
      /\ work' = [work EXCEPT ![i] = Advance(w)]
      /\ UNCHANGED <<rowVars, vec, serving, outboxVars>>
  BY <1>1 DEF Record
<1>4. Fits(Advance(w), DOMAIN change)
  BY <1>2, AdvanceFits DEF IndexPhase
<1>5. WorkType'
  BY <1>3, <1>4, WorkMoves DEF IndexInv, outboxVars
<1>6. recorded' \in [Memory -> Text \cup {0}]
  <2>1. w.read \in SUBSET Entry /\ \A e, f \in w.read : e.mem = f.mem => e = f
    BY <1>2 DEF Fits, Work
  <2>2. QED BY <1>3, <2>1, RecordTyped DEF IndexInv
<1>7. StoreType'
  BY <1>3, <1>6 DEF IndexInv, StoreType, TextType, rowVars, outboxVars
<1>8. QED BY <1>5, <1>7

\* What flush goes on with when an attempt failed.
Failing(w) ==
  IF w.new # {} THEN Idle
  ELSE IF ~ w.split THEN [w EXCEPT !.phase = "read", !.split = TRUE, !.left = w.rows]
  ELSE [Advance(w) EXCEPT !.failed = w.failed \cup {Least(w.left)}]

\* n is w after a failed attempt: the first row of the row by row retry, or the step
\* after a row that is marked as failed.
Retried(n, w) ==
  \/ n = Idle
  \/ /\ n.phase = "read" /\ n.split /\ n.rows = w.rows /\ n.todo = w.todo
     /\ n.left = w.rows /\ n.failed = w.failed /\ n.new = {} /\ n.read = w.read
  \/ /\ w.split /\ n.phase \in {"read", "ack"}
     /\ n.rows = w.rows /\ n.todo = w.todo /\ n.new = {} /\ n.read = w.read
     /\ n.failed = w.failed \cup {Least(w.left)}
     /\ n.phase = "read" => n.split /\ n.left = w.left \ {Least(w.left)}
     /\ n.phase = "ack" => w.left = {Least(w.left)}

LEMMA FailingFits ==
  ASSUME NEW D \in SUBSET Nat, NEW w, Fits(w, D), w.phase \in IndexPhase
  PROVE  Fits(Failing(w), D) /\ Retried(Failing(w), w)
<1> DEFINE n == Failing(w)
<1>1. w \in Work /\ w.rows \in SUBSET Nat
  BY DEF Fits
<1>2. CASE w.new # {}
  <2>1. n = Idle
    BY <1>2 DEF Failing
  <2>2. QED BY <2>1, IdleFits DEF Retried
<1>3. CASE w.new = {} /\ ~ w.split
  <2>1. n = [w EXCEPT !.phase = "read", !.split = TRUE, !.left = w.rows]
    BY <1>3 DEF Failing
  <2>2. /\ n \in Work /\ n.phase = "read" /\ n.split /\ n.rows = w.rows /\ n.todo = w.todo
        /\ n.left = w.rows /\ n.failed = w.failed /\ n.new = w.new /\ n.read = w.read
    BY <1>1, <2>1 DEF Work, Phase
  <2> HIDE DEF n
  <2>3. Retried(n, w)
    BY <2>2, <1>3 DEF Retried
  <2>4. Fits(n, D)
    BY <2>2, <1>3 DEF Fits, IndexPhase
  <2>5. QED BY <2>3, <2>4 DEF n
<1>4. CASE w.new = {} /\ w.split
  <2>1. PICK a : a = Advance(w)
    OBVIOUS
  <2>2. Fits(a, D) /\ Stepped(a, w)
    BY <2>1, AdvanceFits
  <2>3. PICK l : l = Least(w.left)
    OBVIOUS
  <2>4. l \in w.left /\ l \in w.rows /\ w.left \subseteq w.rows
    BY <1>1, <1>4, <2>3, LeastIn DEF Fits
  <2>5. n = [a EXCEPT !.failed = w.failed \cup {l}]
    BY <1>4, <2>1, <2>3 DEF Failing
  <2>6. /\ a \in Work /\ a.phase \in {"read", "ack"}
        /\ a.rows = w.rows /\ a.todo = w.todo /\ a.new = {} /\ a.read = w.read
        /\ a.phase = "read" => a.split /\ a.left = w.left \ {l} /\ a.left # {}
        /\ a.phase = "ack" => w.left = {l}
    <3>1. a.phase \in {"read", "ack"} /\ a.rows = w.rows /\ a.todo = w.todo /\ a.new = {}
          /\ a.read = w.read
      BY <1>4, <2>1 DEF Advance, Fits, Work
    <3>2. a # Idle
      BY <3>1 DEF Idle
    <3>3. a.phase = "read" => a.split /\ a.left = w.left \ {l}
      BY <2>2, <2>3, <3>2 DEF Stepped
    <3>4. a.phase = "ack" => w.left = {l}
      BY <1>4, <2>2, <2>3, <3>2 DEF Stepped
    <3>5. a \in Work /\ (a.phase = "read" /\ a.split => a.left # {})
      BY <2>2 DEF Fits, IndexPhase
    <3>6. QED BY <3>1, <3>3, <3>4, <3>5
  <2>7. w.failed \cup {l} \in SUBSET Nat /\ w.failed \cup {l} \subseteq w.rows
    BY <1>1, <2>4 DEF Fits
  <2>8. /\ n \in Work /\ n.phase = a.phase /\ n.rows = a.rows /\ n.todo = a.todo
        /\ n.new = a.new /\ n.read = a.read /\ n.split = a.split /\ n.left = a.left
        /\ n.failed = w.failed \cup {l}
    BY <2>5, <2>6, <2>7 DEF Work
  <2> HIDE DEF n
  <2>9. Retried(n, w)
    BY <1>4, <2>3, <2>6, <2>8 DEF Retried
  <2>10. Fits(n, D)
    BY <2>2, <2>4, <2>6, <2>7, <2>8 DEF Fits, IndexPhase
  <2>11. QED BY <2>9, <2>10 DEF n
<1>5. QED BY <1>2, <1>3, <1>4

LEMMA FailsType ==
  ASSUME IndexInv, NEW i \in Indexer, Fails(i)
  PROVE  StoreType' /\ WorkType'
<1>1. work[i].phase \in IndexPhase /\ work' = [work EXCEPT ![i] = Failing(work[i])]
  BY DEF Fails, Failing, IndexPhase
<1>2. Fits(work[i], DOMAIN change) /\ DOMAIN change \in SUBSET Nat
  BY DEF IndexInv, WorkType, OutboxInv, OutboxType
<1>3. Fits(Failing(work[i]), DOMAIN change)
  BY <1>1, <1>2, FailingFits
<1>4. QED BY <1>1, <1>3, OnlyWork DEF Fails

\* A removal that failed is acknowledged as failed.
LEMMA FailedFits ==
  ASSUME NEW D, NEW w, Fits(w, D)
  PROVE  LET n == [w EXCEPT !.phase = "ack", !.failed = w.rows] IN
         /\ Fits(n, D) /\ n.phase = "ack" /\ n.failed = w.rows
         /\ n.rows = w.rows /\ n.todo = w.todo
<1> DEFINE n == [w EXCEPT !.phase = "ack", !.failed = w.rows]
<1>1. /\ n \in Work /\ n.phase = "ack" /\ n.failed = w.rows /\ n.rows = w.rows
      /\ n.todo = w.todo /\ n.read = w.read
  BY DEF Fits, Work, Phase
<1> HIDE DEF n
<1>2. Fits(n, D)
  BY <1>1 DEF Fits, IndexPhase
<1>3. QED BY <1>1, <1>2 DEF n

LEMMA RemoveType ==
  ASSUME IndexInv, NEW i \in Indexer, RemoveVector(i)
  PROVE  StoreType' /\ WorkType'
<1>1. PICK w : w = work[i]
  OBVIOUS
<1>2. Fits(w, DOMAIN change) /\ UNCHANGED <<rowVars, recorded, serving, outboxVars>>
  BY <1>1 DEF RemoveVector, IndexInv, WorkType
<1>3. PICK n : work' = [work EXCEPT ![i] = n] /\ Fits(n, DOMAIN change)
  <2>1. \/ work' = [work EXCEPT ![i] = [w EXCEPT !.phase = "ack"]]
        \/ work' = [work EXCEPT ![i] = [w EXCEPT !.phase = "ack", !.failed = w.rows]]
    BY <1>1 DEF RemoveVector
  <2>2. Fits([w EXCEPT !.phase = "ack"], DOMAIN change)
    BY <1>2, PhaseFits
  <2>3. Fits([w EXCEPT !.phase = "ack", !.failed = w.rows], DOMAIN change)
    BY <1>2, FailedFits
  <2>4. QED BY <2>1, <2>2, <2>3
<1>4. WorkType'
  BY <1>2, <1>3, WorkMoves DEF IndexInv, outboxVars
<1>5. vec' \in [Memory -> [gen : Nat, rev : Text \cup {0}]]
  <2>1. NoVec \in [gen : Nat, rev : Text \cup {0}]
    BY DEF NoVec
  <2>2. QED BY <2>1 DEF RemoveVector, IndexInv, StoreType
<1>6. StoreType'
  BY <1>2, <1>5 DEF IndexInv, StoreType, TextType, rowVars, outboxVars
<1>7. QED BY <1>4, <1>6

LEMMA AckType ==
  ASSUME IndexInv, NEW i \in Indexer, Ack(i)
  PROVE  StoreType' /\ WorkType'
<1>1. Fits(work[i], DOMAIN change) /\ OutboxInv' /\ OutboxInv
  BY AckInv DEF IndexInv, WorkType
<1>2. Fits(NextGroup(work[i].todo), DOMAIN change)
  BY <1>1, NextGroupTakes DEF OutboxInv, Fits
<1>3. DOMAIN change' = DOMAIN change
  BY DEF Ack
<1>4. Len(change') = Len(change)
  <2>1. /\ DOMAIN change = 1..Len(change) /\ Len(change) \in Nat
        /\ DOMAIN change' = 1..Len(change') /\ Len(change') \in Nat
    BY <1>1 DEF OutboxInv, OutboxType
  <2>2. \A s \in Nat : s \in 1..Len(change) <=> s \in 1..Len(change')
    BY <2>1, <1>3
  <2>3. Len(change) <= Len(change') /\ Len(change') <= Len(change)
    BY <2>1, <2>2
  <2>4. Len(change) \in Nat /\ Len(change') \in Nat
    BY <2>1
  <2>5. QED BY <2>3, <2>4
<1>5. WorkType'
  BY <1>2, <1>3, WorkMoves DEF IndexInv, Ack
<1>6. StoreType'
  BY <1>4 DEF IndexInv, StoreType, TextType, rowVars, Ack
<1>7. QED BY <1>5, <1>6

LEMMA AbandonType ==
  ASSUME IndexInv, NEW i \in Indexer, Abandon(i)
  PROVE  StoreType' /\ WorkType'
BY IdleFits, OnlyWork DEF Abandon

\* reindex holds the active memories it has yet to put.
LEMMA ReindexFits ==
  ASSUME NEW g \in 0..MaxGen, NEW S \in SUBSET Memory, NEW read \in SUBSET Entry,
         \A e, f \in read : e.mem = f.mem => e = f, S = ReadIds(read), NEW D
  PROVE  Fits([Idle EXCEPT !.phase = "re_put", !.gen = g, !.left = S, !.read = read], D)
<1>1. PICK v : v = Idle
  OBVIOUS
<1> DEFINE n == [v EXCEPT !.phase = "re_put", !.gen = g, !.left = S, !.read = read]
<1>2. v \in Work /\ v.rows = {} /\ v.todo = {} /\ v.failed = {}
  BY <1>1, IdleFits DEF Fits, Idle
<1>3. S \in SUBSET (Nat \cup Memory)
  OBVIOUS
<1>4. /\ n \in Work /\ n.phase = "re_put" /\ n.rows = {} /\ n.todo = {} /\ n.failed = {}
      /\ n.left = S /\ n.read = read
  BY <1>2, <1>3 DEF Work, Phase
<1> HIDE DEF n
<1>5. Fits(n, D)
  BY <1>4 DEF Fits, IndexPhase
<1>6. QED BY <1>1, <1>5 DEF n

LEMMA ReindexStartType ==
  ASSUME IndexInv, NEW i \in Indexer, ReindexStart(i)
  PROVE  StoreType' /\ WorkType'
<1>1. PICK S \in SUBSET Memory : S = {m \in Memory : life[m] = "active"}
  OBVIOUS
<1>2. TextType /\ serving + 1 \in 0..MaxGen
  BY IndexBounds DEF ReindexStart, IndexInv, StoreType
<1>3. PICK g \in 0..MaxGen : g = serving + 1
  BY <1>2
<1>4. PICK read : read = TextsOf(S)
  OBVIOUS
<1>5. /\ read \in SUBSET Entry /\ ReadIds(read) = S
      /\ \A e, f \in read : e.mem = f.mem => e = f
  BY <1>2, <1>4, ReadTexts
<1>6. PICK n : n = [Idle EXCEPT !.phase = "re_put", !.gen = g, !.left = S, !.read = read]
  OBVIOUS
<1>7. work' = [work EXCEPT ![i] = n]
  BY <1>1, <1>3, <1>4, <1>6, Zenon DEF ReindexStart, TextsOf
<1>8. Fits(n, DOMAIN change)
  BY <1>5, <1>6, ReindexFits
<1>9. QED BY <1>7, <1>8, OnlyWork DEF ReindexStart

LEMMA ReindexPutType ==
  ASSUME IndexInv, NEW i \in Indexer, ReindexPut(i)
  PROVE  StoreType' /\ WorkType'
<1>1. PICK w : w = work[i]
  OBVIOUS
<1>2. /\ Fits(w, DOMAIN change) /\ w.phase = "re_put"
      /\ UNCHANGED <<rowVars, recorded, serving, outboxVars>>
  BY <1>1 DEF ReindexPut, IndexInv, WorkType
<1>3. PICK m \in w.left : /\ PutVectors(w.read, {m}, w.gen)
                          /\ work' = [work EXCEPT ![i] = [w EXCEPT !.left = w.left \ {m}]]
  BY <1>1 DEF ReindexPut
<1>4. w \in Work /\ w.left \subseteq ReadIds(w.read)
      /\ \A e, f \in w.read : e.mem = f.mem => e = f
  BY <1>2 DEF Fits
<1>5. PICK n : n = [w EXCEPT !.left = w.left \ {m}]
  OBVIOUS
<1>6. w.left \ {m} \in SUBSET (Nat \cup Memory)
  BY <1>4 DEF Work
<1>7. /\ n \in Work /\ n.phase = w.phase /\ n.rows = w.rows /\ n.todo = w.todo
      /\ n.failed = w.failed /\ n.left = w.left \ {m} /\ n.read = w.read
  BY <1>4, <1>5, <1>6 DEF Work
<1>8. Fits(n, DOMAIN change)
  BY <1>2, <1>4, <1>7 DEF Fits, IndexPhase
<1>9. WorkType'
  BY <1>2, <1>3, <1>5, <1>8, WorkMoves DEF IndexInv, outboxVars
<1>10. vec' \in [Memory -> [gen : Nat, rev : Text \cup {0}]]
  <2>1. w.read \in SUBSET Entry /\ w.gen \in 0..MaxGen
    BY <1>4 DEF Work
  <2>2. {m} \in SUBSET ReadIds(w.read)
    BY <1>4
  <2>3. QED BY <1>3, <1>4, <2>1, <2>2, PutTyped DEF IndexInv
<1>11. StoreType'
  BY <1>2, <1>10 DEF IndexInv, StoreType, TextType, rowVars, outboxVars
<1>12. QED BY <1>9, <1>11

LEMMA ReindexRecordType ==
  ASSUME IndexInv, NEW i \in Indexer, ReindexRecord(i)
  PROVE  StoreType' /\ WorkType'
<1>1. PICK w : w = work[i]
  OBVIOUS
<1>2. /\ Fits(w, DOMAIN change) /\ RecordStates(w.read)
      /\ work' = [work EXCEPT ![i] = [w EXCEPT !.phase = "re_switch"]]
      /\ UNCHANGED <<rowVars, vec, serving, outboxVars>>
  BY <1>1 DEF ReindexRecord, IndexInv, WorkType
<1>3. PICK n : n = [w EXCEPT !.phase = "re_switch"]
  OBVIOUS
<1>4. /\ n \in Work /\ n.phase = "re_switch" /\ n.rows = w.rows /\ n.todo = w.todo
      /\ n.failed = w.failed /\ n.read = w.read
  BY <1>2, <1>3 DEF Fits, Work, Phase
<1>5. Fits(n, DOMAIN change)
  BY <1>2, <1>4 DEF Fits, IndexPhase
<1>6. WorkType'
  BY <1>2, <1>3, <1>5, WorkMoves DEF IndexInv, outboxVars
<1>7. recorded' \in [Memory -> Text \cup {0}]
  <2>1. w.read \in SUBSET Entry /\ \A e, f \in w.read : e.mem = f.mem => e = f
    BY <1>2 DEF Fits, Work
  <2>2. QED BY <1>2, <2>1, RecordTyped DEF IndexInv
<1>8. StoreType'
  BY <1>2, <1>7 DEF IndexInv, StoreType, TextType, rowVars, outboxVars
<1>9. QED BY <1>6, <1>8

LEMMA ReindexSwitchType ==
  ASSUME IndexInv, NEW i \in Indexer, ReindexSwitch(i)
  PROVE  StoreType' /\ WorkType'
<1>1. /\ serving' = work[i].gen /\ work' = [work EXCEPT ![i] = Idle]
      /\ vec' = [m \in Memory |-> IF vec[m].gen = work[i].gen THEN vec[m] ELSE NoVec]
      /\ UNCHANGED <<rowVars, recorded, outboxVars>>
  BY DEF ReindexSwitch
<1>2. WorkType'
  BY <1>1, IdleFits, WorkMoves DEF IndexInv, outboxVars
<1>3. serving' \in 0..MaxGen
  BY <1>1 DEF IndexInv, WorkType, Work
<1>4. NoVec \in [gen : Nat, rev : Text \cup {0}]
  BY DEF NoVec
<1>5. vec' \in [Memory -> [gen : Nat, rev : Text \cup {0}]]
  BY <1>1, <1>4 DEF IndexInv, StoreType
<1>6. StoreType'
  BY <1>1, <1>3, <1>5 DEF IndexInv, StoreType, TextType, rowVars, outboxVars
<1>7. QED BY <1>2, <1>6

-----------------------------------------------------------------------------
LEMMA IndexInit ==
  ASSUME Init
  PROVE  IndexInv
<1>1. TextType
  BY DEF Init, TextType, Deleted
<1>2. change = <<>> /\ lock = [k \in Key |-> 0]
  BY DEF Init
<1>3. OutboxType
  BY <1>2 DEF OutboxType
<1>4. Pending = {}
  BY <1>2 DEF Pending
<1>5. LockNamesPending
  BY <1>2, <1>4 DEF LockNamesPending
<1>6. StoreType
  <2>1. Len(change) <= MaxRows
    BY <1>2, IndexBounds
  <2>2. NoVec \in [gen : Nat, rev : Text \cup {0}]
    BY DEF NoVec
  <2>3. serving \in 0..MaxGen
    BY IndexBounds DEF Init
  <2>4. QED BY <1>1, <2>1, <2>2, <2>3 DEF StoreType, Init
<1>7. WorkType
  <2>1. Idle \in Work
    BY IdleFits DEF Fits
  <2>2. QED BY <2>1, IdleFits DEF WorkType, Init
<1>8. QED BY <1>3, <1>5, <1>6, <1>7 DEF IndexInv, OutboxInv

LEMMA IndexStep ==
  ASSUME IndexInv, [Next]_vars
  PROVE  IndexInv'
<1>1. OutboxInv'
  BY OutboxStep DEF IndexInv, StoreType
<1> SUFFICES StoreType' /\ WorkType'
  BY <1>1 DEF IndexInv
<1>2. CASE \E m \in Memory : Writer(m)
  BY <1>2, WriterType
<1>3. CASE \E i \in Indexer : Drain(i)
  BY <1>3, PullType, ReadType, PutType, RecordType, RemoveType, AckType DEF Drain
<1>4. CASE \E i \in Indexer : Fails(i) \/ Abandon(i)
  BY <1>4, FailsType, AbandonType
<1>5. CASE \E i \in Indexer : Reindex(i)
  BY <1>5, ReindexStartType, ReindexPutType, ReindexRecordType, ReindexSwitchType DEF Reindex
<1>6. CASE \E i \in Indexer, m \in Memory : IndexNew(i, m)
  BY <1>6, IndexNewType
<1>7. CASE UNCHANGED vars
  <2>1. WorkType'
    BY <1>7, WorkStays DEF vars, outboxVars, IndexInv
  <2>2. StoreType'
    BY <1>7 DEF vars, rowVars, outboxVars, IndexInv, StoreType, TextType
  <2>3. QED BY <2>1, <2>2
<1>8. QED BY <1>2, <1>3, <1>4, <1>5, <1>6, <1>7 DEF Next

LEMMA IndexTyped ==
  ASSUME IndexInv
  PROVE  TypeOK
<1>1. /\ change \in Seq(Rows) /\ DOMAIN change = 1..Len(change) /\ Len(change) \in Nat
      /\ Len(change) <= MaxRows
  BY DEF IndexInv, OutboxInv, OutboxType, StoreType
<1>2. \A s \in DOMAIN change : KeyOf(s) \in Key
                               /\ change[s].state \in {"pending", "completed", "failed"}
  <2>1. \A s \in DOMAIN change : KeyOf(s) \in Key /\ change[s] \in Rows
    BY RowKeys DEF IndexInv, OutboxInv
  <2>2. QED BY <2>1 DEF Rows
<1>3. lock \in [Key -> 0..MaxRows]
  <2>1. ASSUME NEW k \in Key PROVE lock[k] \in 0..MaxRows
    <3>1. lock[k] = 0 \/ lock[k] \in DOMAIN change
      BY DEF IndexInv, OutboxInv, LockNamesPending, Pending
    <3>2. QED BY <3>1, <1>1, IndexBounds
  <2>2. QED BY <2>1 DEF IndexInv, OutboxInv, OutboxType
<1>4. \A i \in Indexer :
        /\ work[i].rows \cup work[i].todo \subseteq DOMAIN change
        /\ work[i].phase = "read" /\ work[i].split => work[i].left # {}
        /\ work[i].failed \subseteq work[i].rows
  BY DEF IndexInv, WorkType, Fits, IndexPhase
<1>5. QED BY <1>2, <1>3, <1>4 DEF TypeOK, IndexInv, StoreType, TextType, Deleted

\* The stores and what every indexer holds between two transactions keep their types:
\* a pass only holds rows that exist, and the row by row retry of flush never runs out
\* of rows before it stops.
THEOREM IndexTypeCorrect == Spec => []TypeOK
<1>1. Init => IndexInv
  BY IndexInit
<1>2. IndexInv /\ [Next]_vars => IndexInv'
  BY IndexStep
<1>3. IndexInv => TypeOK
  BY IndexTyped
<1>4. QED BY <1>1, <1>2, <1>3, PTL DEF Spec

-----------------------------------------------------------------------------
(***************************************************************************)
(* No work is lost.  One indexer runs, texts never come back and retired    *)
(* memories stay retired; writes, deletions, failures and passes that are   *)
(* cut short come in any order.                                            *)
(***************************************************************************)
FreshMoves == {"edit", "retire", "delete", "fail", "stop", "index_new"}
OneIndexer == \A i, j \in Indexer : i = j
Calm == Moves \subseteq FreshMoves /\ OneIndexer

\* The pending rows of the outbox c, and the work key of one of its rows.
PendingOf(c) == {s \in DOMAIN c : c[s].state = "pending"}
RowKey(c, s) == <<c[s].mem, c[s].rev>>

\* A pass holds pending rows in their order: the group, what is left of the pass,
\* and every row that came later.
Pass(w, c, g) ==
  /\ w.phase \notin {"re_put", "re_switch"}
  /\ w.phase \in {"put", "record"} => w.gen = g
  /\ w.rows \subseteq PendingOf(c) /\ w.todo \subseteq PendingOf(c)
  /\ \A s \in w.rows, u \in w.todo : s < u
  /\ \A s \in w.rows \cup w.todo, p \in PendingOf(c) \ (w.rows \cup w.todo) : s < p
  /\ w.phase \in IndexPhase => \A s \in w.rows : c[s].rev # Deleted
  /\ w.phase = "remove" => \A s \in w.rows : c[s].rev = Deleted

\* Removal work of m that is not done.
Removable(m, c) ==
  \E s \in DOMAIN c : RowKey(c, s) = <<m, Deleted>> /\ c[s].state \in {"pending", "failed"}

\* A text that was read is the memory's, or a later row will read it again; a memory
\* that is gone since it was read has removal work.
ReadSound(w, c, tx, lf) ==
  /\ \A e \in w.read : e.text <= tx[e.mem]
  /\ w.phase \in {"put", "record"} =>
       \A e \in w.read : e.text # tx[e.mem] =>
         \E u \in PendingOf(c) \ w.rows : RowKey(c, u) = <<e.mem, tx[e.mem]>>
  /\ w.phase = "put" => \A e \in w.read : lf[e.mem] \in {"retired", "deleted"} => Removable(e.mem, c)

\* The current attempt of w is about row u; u has had its attempt.
Current(w, u) == ~ w.split \/ u = Least(w.left)
Done(w, u) ==
  \/ w.phase = "ack"
  \/ w.split /\ u \notin w.left
  \/ w.phase = "record" /\ Current(w, u)

ServedBy(m, tx, vc, g) == vc[m] = [gen |-> g, rev |-> tx[m]]

\* A row of a memory's text that has had its attempt and has not failed did its work.
Delivered(w, c, tx, lf, vc, g) ==
  w.phase \in IndexPhase \cup {"ack"} =>
    \A u \in w.rows \ w.failed, m \in Memory :
      RowKey(c, u) = <<m, tx[m]>> /\ lf[m] = "active" /\ g > 0 =>
        /\ Done(w, u) => ServedBy(m, tx, vc, g)
        /\ w.phase = "put" /\ Current(w, u) => [mem |-> m, text |-> tx[m]] \in w.read

Removed(w, c, vc) ==
  w.phase = "ack" =>
    \A s \in w.rows \ w.failed : c[s].rev = Deleted => vc[c[s].mem] = NoVec

Holds(w, c, tx, lf, vc, g) ==
  Pass(w, c, g) /\ ReadSound(w, c, tx, lf) /\ Delivered(w, c, tx, lf, vc, g) /\ Removed(w, c, vc)

\* No row is ahead of the text of its memory, which a memory has once it is written.
RowsBehind(c, tx) == \A s \in DOMAIN c : c[s].rev <= tx[c[s].mem]
RowsKnown(tx, lf, rec, drop) ==
  /\ \A m \in Memory : rec[m] <= tx[m] /\ (lf[m] # "none" => tx[m] # 0)
  /\ \A m \in drop : lf[m] = "deleted"

\* Removal work of a memory that is active again comes before the row of its text.
RemovalFirst(c, tx, lf) ==
  \A m \in Memory, r \in PendingOf(c) :
    lf[m] = "active" /\ RowKey(c, r) = <<m, Deleted>> =>
      \E u \in PendingOf(c) : RowKey(c, u) = <<m, tx[m]>> /\ r < u

\* An active memory that recall cannot return has the row of its text, pending or failed.
OwnRow(c, tx, lf, vc, g) ==
  \A m \in Memory :
    lf[m] = "active" /\ g > 0 /\ ~ ServedBy(m, tx, vc, g) =>
      \E u \in DOMAIN c : RowKey(c, u) = <<m, tx[m]>> /\ c[u].state \in {"pending", "failed"}

\* A memory that is gone has no vector, or removal work, or its caller will drop it.
GoneRow(c, lf, vc, drop) ==
  \A m \in Memory :
    lf[m] \in {"retired", "deleted"} /\ vc[m] # NoVec => m \in drop \/ Removable(m, c)

StoreHolds(c, tx, lf, vc, g, rec, drop) ==
  /\ RowsBehind(c, tx) /\ RowsKnown(tx, lf, rec, drop) /\ RemovalFirst(c, tx, lf)
  /\ OwnRow(c, tx, lf, vc, g) /\ GoneRow(c, lf, vc, drop)

DurableInv ==
  /\ StoreHolds(change, text, life, vec, serving, recorded, dropping)
  /\ \A i \in Indexer : Holds(work[i], change, text, life, vec, serving)

\* The outbox rows and texts are what the orders above compare.
LEMMA Numbers ==
  ASSUME IndexInv
  PROVE  /\ DOMAIN change = 1..Len(change) /\ Len(change) \in Nat /\ DOMAIN change \in SUBSET Nat
         /\ \A s \in DOMAIN change : change[s] \in Rows
         /\ \A m \in Memory : text[m] \in Nat /\ recorded[m] \in Nat
         /\ Text \subseteq Nat \ {0} /\ PendingOf(change) = Pending
         /\ \A u, v \in PendingOf(change) : RowKey(change, u) = RowKey(change, v) => u = v
<1>1. \A s \in DOMAIN change : change[s] \in Rows /\ KeyOf(s) \in Key
  BY RowKeys DEF IndexInv, OutboxInv
<1>2. DOMAIN change = 1..Len(change) /\ Len(change) \in Nat /\ DOMAIN change \in SUBSET Nat
  BY DEF IndexInv, OutboxInv, OutboxType
<1>3. Text \subseteq Nat \ {0}
  BY IndexBounds
<1>4. \A m \in Memory : text[m] \in Nat /\ recorded[m] \in Nat
  <2>1. \A m \in Memory : text[m] \in Text \cup {0} /\ recorded[m] \in Text \cup {0}
    BY DEF IndexInv, StoreType, TextType, Deleted
  <2>2. \A t \in Text \cup {0} : t \in Nat
    BY <1>3
  <2>3. QED BY <2>1, <2>2
<1>5. PendingOf(change) = Pending
  BY DEF PendingOf, Pending
<1>6. \A u, v \in PendingOf(change) : RowKey(change, u) = RowKey(change, v) => u = v
  BY <1>5 DEF IndexInv, OutboxInv, LockNamesPending, RowKey, KeyOf
<1>7. QED BY <1>1, <1>2, <1>3, <1>4, <1>5, <1>6

\* The one indexer goes on with n.
LEMMA OneWork ==
  ASSUME Calm, IndexInv, NEW i \in Indexer, NEW n, work' = [work EXCEPT ![i] = n],
         Holds(n, change', text', life', vec', serving'),
         StoreHolds(change', text', life', vec', serving', recorded', dropping')
  PROVE  DurableInv'
<1>1. \A j \in Indexer : work'[j] = n
  BY DEF Calm, OneIndexer, IndexInv, WorkType
<1>2. \A j \in Indexer : Holds(work'[j], change', text', life', vec', serving')
  BY <1>1
<1>3. QED BY <1>2 DEF DurableInv

LEMMA IdleHolds ==
  ASSUME NEW c, NEW tx, NEW lf, NEW vc, NEW g
  PROVE  Holds(Idle, c, tx, lf, vc, g)
BY DEF Holds, Pass, ReadSound, Delivered, Removed, Idle, IndexPhase

\* What a pass takes next is held in order and has not been attempted.
LEMMA TakesHolds ==
  ASSUME NEW c, NEW tx, NEW lf, NEW vc, NEW g, NEW n, NEW todo,
         Takes(n, todo, c), todo \subseteq PendingOf(c),
         \A s \in todo, p \in PendingOf(c) \ todo : s < p
  PROVE  Holds(n, c, tx, lf, vc, g)
<1>1. CASE n.phase = "idle"
  BY <1>1 DEF Takes, Holds, Pass, ReadSound, Delivered, Removed, IndexPhase
<1>2. CASE n.phase # "idle"
  <2>1. n.phase \in {"read", "remove"} /\ n.rows \cup n.todo = todo /\ ~ n.split
    BY <1>2 DEF Takes
  <2>2. Pass(n, c, g)
    BY <2>1 DEF Takes, Pass, IndexPhase
  <2>3. ReadSound(n, c, tx, lf)
    BY <2>1 DEF Takes, ReadSound
  <2>4. \A u : ~ Done(n, u)
    BY <2>1 DEF Done
  <2>5. Delivered(n, c, tx, lf, vc, g)
    BY <2>1, <2>4 DEF Delivered
  <2>6. Removed(n, c, vc)
    BY <2>1 DEF Removed
  <2>7. QED BY <2>2, <2>3, <2>5, <2>6 DEF Holds
<1>3. QED BY <1>1, <1>2

\* An attempt that ended well served the rows it was about.
LEMMA SteppedHolds ==
  ASSUME NEW c, NEW tx, NEW lf, NEW vc, NEW g, NEW w, NEW n,
         Holds(w, c, tx, lf, vc, g), w.phase \in IndexPhase, Stepped(n, w),
         \A u \in w.rows \ w.failed, m \in Memory :
           RowKey(c, u) = <<m, tx[m]>> /\ lf[m] = "active" /\ g > 0 /\ Current(w, u) =>
             ServedBy(m, tx, vc, g)
  PROVE  Holds(n, c, tx, lf, vc, g)
<1>1. CASE n = Idle
  BY <1>1, IdleHolds
<1>2. CASE n # Idle
  <2>1. /\ n.phase \in {"read", "ack"}
        /\ n.rows = w.rows /\ n.todo = w.todo /\ n.failed = w.failed /\ n.read = w.read
        /\ n.phase = "read" => w.split /\ n.split /\ n.left = w.left \ {Least(w.left)}
        /\ n.phase = "ack" => ~ w.split \/ w.left = {Least(w.left)}
    BY <1>2 DEF Stepped
  <2>2. Pass(n, c, g)
    BY <2>1 DEF Holds, Pass, IndexPhase
  <2>3. ReadSound(n, c, tx, lf)
    BY <2>1 DEF Holds, ReadSound
  <2>4. ASSUME NEW u, Done(n, u) PROVE Done(w, u) \/ Current(w, u)
    BY <2>1, <2>4 DEF Done, Current
  <2>5. ASSUME NEW u \in n.rows \ n.failed, NEW m \in Memory,
               RowKey(c, u) = <<m, tx[m]>>, lf[m] = "active", g > 0, Done(n, u)
        PROVE  ServedBy(m, tx, vc, g)
    <3>1. u \in w.rows \ w.failed
      BY <2>1
    <3>2. CASE Done(w, u)
      BY <3>1, <3>2, <2>5 DEF Holds, Delivered
    <3>3. CASE Current(w, u)
      BY <3>1, <3>3, <2>5
    <3>4. QED BY <2>4, <2>5, <3>2, <3>3
  <2>6. Delivered(n, c, tx, lf, vc, g)
    BY <2>1, <2>5 DEF Delivered
  <2>7. Removed(n, c, vc)
    BY <2>1 DEF Holds, Pass, Removed
  <2>8. QED BY <2>2, <2>3, <2>6, <2>7 DEF Holds
<1>3. QED BY <1>1, <1>2

\* An attempt that failed leaves the rows before it as they were.
LEMMA RetriedHolds ==
  ASSUME NEW c, NEW tx, NEW lf, NEW vc, NEW g, NEW w, NEW n,
         Holds(w, c, tx, lf, vc, g), w.phase \in IndexPhase, Retried(n, w)
  PROVE  Holds(n, c, tx, lf, vc, g)
<1>1. CASE n = Idle
  BY <1>1, IdleHolds
<1>2. CASE n # Idle
  <2>1. /\ n.phase \in {"read", "ack"}
        /\ n.rows = w.rows /\ n.todo = w.todo /\ n.read = w.read
        /\ w.failed \subseteq n.failed
    BY <1>2 DEF Retried
  <2>2. Pass(n, c, g)
    BY <2>1 DEF Holds, Pass, IndexPhase
  <2>3. ReadSound(n, c, tx, lf)
    BY <2>1 DEF Holds, ReadSound
  <2>4. ASSUME NEW u \in n.rows \ n.failed, Done(n, u) PROVE Done(w, u)
    <3>1. CASE n.phase = "read" /\ n.split /\ n.left = w.rows
      BY <3>1, <2>1, <2>4 DEF Done
    <3>2. CASE /\ w.split /\ n.failed = w.failed \cup {Least(w.left)}
               /\ n.phase = "read" => n.split /\ n.left = w.left \ {Least(w.left)}
               /\ n.phase = "ack" => w.left = {Least(w.left)}
      BY <3>2, <2>1, <2>4 DEF Done
    <3>3. QED BY <1>2, <3>1, <3>2 DEF Retried
  <2>5. Delivered(n, c, tx, lf, vc, g)
    BY <2>1, <2>4 DEF Holds, Delivered
  <2>6. Removed(n, c, vc)
    BY <2>1 DEF Holds, Pass, Removed
  <2>7. QED BY <2>2, <2>3, <2>5, <2>6 DEF Holds
<1>3. QED BY <1>1, <1>2

\* A step of the indexer that only changes what it holds.
LEMMA OnlyHeld ==
  ASSUME Calm, IndexInv, DurableInv, NEW i \in Indexer, NEW n,
         work' = [work EXCEPT ![i] = n], Holds(n, change, text, life, vec, serving),
         UNCHANGED <<rowVars, recorded, vec, serving, outboxVars>>
  PROVE  DurableInv'
<1>1. /\ change' = change /\ text' = text /\ life' = life /\ vec' = vec
      /\ serving' = serving /\ recorded' = recorded /\ dropping' = dropping
  BY DEF rowVars, outboxVars
<1>2. /\ Holds(n, change', text', life', vec', serving')
      /\ StoreHolds(change', text', life', vec', serving', recorded', dropping')
  BY <1>1 DEF DurableInv
<1>3. QED BY <1>2, OneWork

LEMMA PullDurable ==
  ASSUME Calm, IndexInv, DurableInv, NEW i \in Indexer, Pull(i)
  PROVE  DurableInv'
<1>1. Pending \in SUBSET (DOMAIN change)
  BY DEF Pending
<1>2. Takes(NextGroup(Pending), Pending, change)
  BY <1>1, NextGroupTakes DEF IndexInv, OutboxInv
<1>3. PendingOf(change) = Pending
  BY Numbers
<1>4. Holds(NextGroup(Pending), change, text, life, vec, serving)
  BY <1>2, <1>3, TakesHolds
<1>5. QED BY <1>4, OnlyHeld DEF Pull

LEMMA IndexNewDurable ==
  ASSUME Calm, IndexInv, DurableInv, NEW i \in Indexer, NEW m \in Memory, IndexNew(i, m)
  PROVE  DurableInv'
<1>1. PICK n : n = [Idle EXCEPT !.phase = "read", !.new = {m}]
  OBVIOUS
<1>2. n.phase = "read" /\ n.rows = {} /\ n.todo = {} /\ n.read = {}
  BY <1>1, NewFits
<1>3. Holds(n, change, text, life, vec, serving)
  BY <1>2 DEF Holds, Pass, ReadSound, Delivered, Removed, IndexPhase
<1>4. work' = [work EXCEPT ![i] = n]
  BY <1>1 DEF IndexNew
<1>5. QED BY <1>3, <1>4, OnlyHeld DEF IndexNew

LEMMA AbandonDurable ==
  ASSUME Calm, IndexInv, DurableInv, NEW i \in Indexer, Abandon(i)
  PROVE  DurableInv'
BY IdleHolds, OnlyHeld DEF Abandon

LEMMA FailsDurable ==
  ASSUME Calm, IndexInv, DurableInv, NEW i \in Indexer, Fails(i)
  PROVE  DurableInv'
<1>1. work[i].phase \in IndexPhase /\ work' = [work EXCEPT ![i] = Failing(work[i])]
  BY DEF Fails, Failing, IndexPhase
<1>2. Fits(work[i], DOMAIN change) /\ DOMAIN change \in SUBSET Nat
  BY DEF IndexInv, WorkType, OutboxInv, OutboxType
<1>3. Retried(Failing(work[i]), work[i])
  BY <1>1, <1>2, FailingFits
<1>4. Holds(work[i], change, text, life, vec, serving)
  BY DEF DurableInv
<1>5. Holds(Failing(work[i]), change, text, life, vec, serving)
  BY <1>1, <1>3, <1>4, RetriedHolds
<1>6. QED BY <1>1, <1>5, OnlyHeld DEF Fails

\* A row of the current attempt is of a memory the attempt is about.
LEMMA CurrentIds ==
  ASSUME NEW D \in SUBSET Nat, NEW w, Fits(w, D), w.phase \in IndexPhase, NEW u \in w.rows,
         Current(w, u)
  PROVE  change[u].mem \in Ids(w)
<1>1. CASE w.split
  BY <1>1 DEF Current, Ids
<1>2. CASE ~ w.split
  BY <1>2 DEF Ids
<1>3. QED BY <1>1, <1>2

LEMMA ReadDurable ==
  ASSUME Calm, IndexInv, DurableInv, NEW i \in Indexer, Read(i)
  PROVE  DurableInv'
<1>1. PICK w : w = work[i]
  OBVIOUS
<1>2. PICK S : S = {n \in Ids(w) : life[n] = "active"}
  OBVIOUS
<1>3. PICK read : read = IF serving = 0 THEN {} ELSE TextsOf(S)
  OBVIOUS
<1>4. /\ w.phase = "read"
      /\ work' = [work EXCEPT ![i] =
           IF read = {} THEN Advance(w)
           ELSE [w EXCEPT !.phase = "put", !.gen = serving, !.read = read]]
      /\ UNCHANGED <<rowVars, recorded, vec, serving, outboxVars>>
  BY <1>1, <1>2, <1>3, Zenon DEF Read, TextsOf
<1>5. /\ Fits(w, DOMAIN change) /\ DOMAIN change \in SUBSET Nat
      /\ Holds(w, change, text, life, vec, serving)
  BY <1>1 DEF DurableInv, IndexInv, WorkType, OutboxInv, OutboxType
<1>6. S \in SUBSET Memory /\ \A m \in S : life[m] = "active"
  <2>1. Ids(w) \subseteq Memory
    BY <1>4, <1>5, IdsKnown DEF IndexInv, OutboxInv, IndexPhase
  <2>2. QED BY <2>1, <1>2
<1>7. serving \in Nat
  BY IndexBounds DEF IndexInv, StoreType
<1>8. ASSUME NEW u \in w.rows, NEW m \in Memory, RowKey(change, u) = <<m, text[m]>>,
             life[m] = "active", serving > 0, Current(w, u)
      PROVE  [mem |-> m, text |-> text[m]] \in read
  <2>1. m \in S
    BY <1>2, <1>4, <1>5, <1>8, CurrentIds DEF RowKey, IndexPhase
  <2>2. read = TextsOf(S)
    BY <1>3, <1>7, <1>8
  <2>3. QED BY <2>1, <2>2 DEF TextsOf
<1>9. CASE read = {}
  <2>1. Stepped(Advance(w), w)
    BY <1>4, <1>5, AdvanceFits DEF IndexPhase
  <2>2. Holds(Advance(w), change, text, life, vec, serving)
    BY <1>4, <1>5, <1>8, <1>9, <2>1, SteppedHolds DEF IndexPhase
  <2>3. work' = [work EXCEPT ![i] = Advance(w)]
    BY <1>4, <1>9
  <2>4. QED BY <1>4, <2>2, <2>3, OnlyHeld
<1>10. CASE read # {}
  <2>1. read = TextsOf(S)
    BY <1>3, <1>10
  <2>2. TextType /\ serving \in 0..MaxGen
    BY DEF IndexInv, StoreType
  <2>3. /\ read \in SUBSET Entry /\ \A e, f \in read : e.mem = f.mem => e = f
        /\ \A e \in read : e.mem \in S /\ e.text = text[e.mem]
    BY <1>6, <2>1, <2>2, ReadTexts
  <2>4. PICK n : n = [w EXCEPT !.phase = "put", !.gen = serving, !.read = read]
    OBVIOUS
  <2>5. /\ n.phase = "put" /\ n.gen = serving /\ n.read = read
        /\ n.rows = w.rows /\ n.todo = w.todo /\ n.failed = w.failed
        /\ n.split = w.split /\ n.left = w.left
    <3>1. w \in Work
      BY <1>5 DEF Fits
    <3>2. QED BY <2>2, <2>3, <2>4, <3>1 DEF Work, Phase
  <2>6. Pass(n, change, serving)
    BY <1>4, <1>5, <2>5 DEF Holds, Pass, IndexPhase
  <2>7. ReadSound(n, change, text, life)
    <3>1. \A e \in n.read : /\ e.mem \in Memory /\ e.text = text[e.mem]
                            /\ life[e.mem] = "active" /\ text[e.mem] \in Nat
      BY <1>6, <2>3, <2>5, Numbers
    <3>2. QED BY <3>1 DEF ReadSound
  <2>8. Delivered(n, change, text, life, vec, serving)
    <3>1. ASSUME NEW u, Done(n, u) PROVE Done(w, u)
      BY <3>1, <1>4, <2>5 DEF Done
    <3>2. ASSUME NEW u, Current(n, u) PROVE Current(w, u)
      BY <3>2, <2>5 DEF Current
    <3>3. QED BY <1>4, <1>5, <1>8, <2>5, <3>1, <3>2 DEF Holds, Delivered, IndexPhase
  <2>9. Removed(n, change, vec)
    BY <2>5 DEF Removed
  <2>10. Holds(n, change, text, life, vec, serving)
    BY <2>6, <2>7, <2>8, <2>9 DEF Holds
  <2>11. work' = [work EXCEPT ![i] = n]
    BY <1>4, <1>10, <2>4
  <2>12. QED BY <1>4, <2>10, <2>11, OnlyHeld
<1>11. QED BY <1>9, <1>10

\* The text of memory m that put_multi writes and record_index_states records.
LEMMA EntryOf ==
  ASSUME NEW w \in Work, \A e, f \in w.read : e.mem = f.mem => e = f,
         NEW m \in ReadIds(w.read)
  PROVE  \E e \in w.read : e.mem = m /\ TextIn(w.read, m) = e.text
<1>1. PICK e \in w.read : e.mem = m
  BY DEF ReadIds
<1>2. w.read \in SUBSET Entry
  BY DEF Work
<1>3. TextIn(w.read, e.mem) = e.text
  BY <1>2, TextRead
<1>4. QED BY <1>1, <1>3

LEMMA PutDurable ==
  ASSUME Calm, IndexInv, DurableInv, NEW i \in Indexer, Put(i)
  PROVE  DurableInv'
<1>1. PICK w : w = work[i]
  OBVIOUS
<1>2. /\ w.phase = "put"
      /\ vec' = [m \in Memory |->
           IF m \in ReadIds(w.read) THEN [gen |-> w.gen, rev |-> TextIn(w.read, m)] ELSE vec[m]]
      /\ work' = [work EXCEPT ![i] = [w EXCEPT !.phase = "record"]]
      /\ change' = change /\ text' = text /\ life' = life
      /\ serving' = serving /\ recorded' = recorded /\ dropping' = dropping
  BY <1>1 DEF Put, PutVectors, rowVars, outboxVars
<1>3. /\ Fits(w, DOMAIN change) /\ w \in Work /\ \A e, f \in w.read : e.mem = f.mem => e = f
      /\ Holds(w, change, text, life, vec, serving)
  BY <1>1 DEF DurableInv, IndexInv, WorkType, Fits
<1>4. w.gen = serving /\ w.rows \subseteq PendingOf(change)
  BY <1>2, <1>3 DEF Holds, Pass
<1>5. PICK n : n = [w EXCEPT !.phase = "record"]
  OBVIOUS
<1>6. /\ n.phase = "record" /\ n.read = w.read /\ n.gen = w.gen /\ n.rows = w.rows
      /\ n.todo = w.todo /\ n.failed = w.failed /\ n.split = w.split /\ n.left = w.left
  BY <1>3, <1>5 DEF Work, Phase
<1>7. StoreHolds(change, text, life, vec, serving, recorded, dropping)
  BY DEF DurableInv
\* What is put is the memory's text, or a later row of the pass's memory has that text.
<1>8. ASSUME NEW m \in Memory
      PROVE  \/ vec'[m] = vec[m]
             \/ ServedBy(m, text, vec', serving)
             \/ \E u \in PendingOf(change) \ w.rows : RowKey(change, u) = <<m, text[m]>>
  <2>1. CASE m \notin ReadIds(w.read)
    BY <2>1, <1>2
  <2>2. CASE m \in ReadIds(w.read)
    <3>1. PICK e \in w.read : e.mem = m /\ TextIn(w.read, m) = e.text
      BY <2>2, <1>3, EntryOf
    <3>2. vec'[m] = [gen |-> serving, rev |-> e.text]
      BY <2>2, <3>1, <1>2, <1>4
    <3>3. CASE e.text = text[m]
      BY <3>2, <3>3 DEF ServedBy
    <3>4. CASE e.text # text[m]
      BY <3>1, <3>4, <1>2, <1>3 DEF Holds, ReadSound
    <3>5. QED BY <3>3, <3>4
  <2>3. QED BY <2>1, <2>2
<1>9. OwnRow(change, text, life, vec', serving)
  <2> SUFFICES ASSUME NEW m \in Memory, life[m] = "active", serving > 0,
                      ~ ServedBy(m, text, vec', serving)
               PROVE  \E u \in DOMAIN change : /\ RowKey(change, u) = <<m, text[m]>>
                                               /\ change[u].state \in {"pending", "failed"}
    BY DEF OwnRow
  <2>1. CASE vec'[m] = vec[m]
    BY <2>1, <1>7 DEF StoreHolds, OwnRow, ServedBy
  <2>2. CASE \E u \in PendingOf(change) \ w.rows : RowKey(change, u) = <<m, text[m]>>
    BY <2>2 DEF PendingOf
  <2>3. QED BY <1>8, <2>1, <2>2
<1>10. GoneRow(change, life, vec', dropping)
  <2> SUFFICES ASSUME NEW m \in Memory, life[m] \in {"retired", "deleted"}, vec'[m] # NoVec
               PROVE  m \in dropping \/ Removable(m, change)
    BY DEF GoneRow
  <2>1. CASE m \notin ReadIds(w.read)
    BY <2>1, <1>2, <1>7 DEF StoreHolds, GoneRow
  <2>2. CASE m \in ReadIds(w.read)
    <3>1. PICK e \in w.read : e.mem = m
      BY <2>2 DEF ReadIds
    <3>2. QED BY <3>1, <1>2, <1>3 DEF Holds, ReadSound
  <2>3. QED BY <2>1, <2>2
<1>11. StoreHolds(change, text, life, vec', serving, recorded, dropping)
  BY <1>7, <1>9, <1>10 DEF StoreHolds
<1>12. Pass(n, change, serving)
  BY <1>2, <1>3, <1>6 DEF Holds, Pass, IndexPhase
<1>13. ReadSound(n, change, text, life)
  BY <1>2, <1>3, <1>6 DEF Holds, ReadSound
<1>14. Delivered(n, change, text, life, vec', serving)
  <2> SUFFICES ASSUME NEW u \in w.rows \ w.failed, NEW m \in Memory,
                      RowKey(change, u) = <<m, text[m]>>, life[m] = "active", serving > 0,
                      Done(n, u)
               PROVE  ServedBy(m, text, vec', serving)
    BY <1>6 DEF Delivered
  <2>1. Done(w, u) \/ Current(w, u)
    BY <1>6 DEF Done, Current
  <2>2. CASE Current(w, u)
    <3>1. PICK e : e = [mem |-> m, text |-> text[m]]
      OBVIOUS
    <3>2. e \in w.read
      BY <2>2, <3>1, <1>2, <1>3 DEF Holds, Delivered, IndexPhase
    <3>3. m \in ReadIds(w.read)
      BY <3>1, <3>2 DEF ReadIds
    <3>4. PICK f \in w.read : f.mem = m /\ TextIn(w.read, m) = f.text
      BY <3>3, <1>3, EntryOf
    <3>5. f = e
      BY <3>1, <3>2, <3>4, <1>3
    <3>6. vec'[m] = [gen |-> serving, rev |-> text[m]]
      BY <3>1, <3>3, <3>4, <3>5, <1>2, <1>4
    <3>7. QED BY <3>6 DEF ServedBy
  <2>3. CASE Done(w, u)
    <3>1. ServedBy(m, text, vec, serving)
      BY <2>3, <1>2, <1>3 DEF Holds, Delivered, IndexPhase
    <3>2. ~ \E v \in PendingOf(change) \ w.rows : RowKey(change, v) = <<m, text[m]>>
      BY <1>4, Numbers
    <3>3. QED BY <3>1, <3>2, <1>8 DEF ServedBy
  <2>4. QED BY <2>1, <2>2, <2>3
<1>15. Removed(n, change, vec')
  BY <1>6 DEF Removed
<1>16. Holds(n, change, text, life, vec', serving)
  BY <1>12, <1>13, <1>14, <1>15 DEF Holds
<1>17. work' = [work EXCEPT ![i] = n]
  BY <1>2, <1>5
<1>18. QED BY <1>2, <1>11, <1>16, <1>17, OneWork

LEMMA RecordDurable ==
  ASSUME Calm, IndexInv, DurableInv, NEW i \in Indexer, Record(i)
  PROVE  DurableInv'
<1>1. PICK w : w = work[i]
  OBVIOUS
<1>2. /\ w.phase = "record"
      /\ recorded' = [m \in Memory |->
           IF m \in ReadIds(w.read) THEN TextIn(w.read, m) ELSE recorded[m]]
      /\ work' = [work EXCEPT ![i] = Advance(w)]
      /\ change' = change /\ text' = text /\ life' = life
      /\ serving' = serving /\ vec' = vec /\ dropping' = dropping
  BY <1>1 DEF Record, RecordStates, rowVars, outboxVars
<1>3. /\ Fits(w, DOMAIN change) /\ w \in Work /\ \A e, f \in w.read : e.mem = f.mem => e = f
      /\ DOMAIN change \in SUBSET Nat
      /\ Holds(w, change, text, life, vec, serving)
  BY <1>1 DEF DurableInv, IndexInv, WorkType, Fits, OutboxInv, OutboxType
<1>4. Stepped(Advance(w), w)
  BY <1>2, <1>3, AdvanceFits DEF IndexPhase
<1>5. ASSUME NEW u \in w.rows \ w.failed, NEW m \in Memory,
             RowKey(change, u) = <<m, text[m]>>, life[m] = "active", serving > 0, Current(w, u)
      PROVE  ServedBy(m, text, vec, serving)
  <2>1. Done(w, u)
    BY <1>2, <1>5 DEF Done
  <2>2. QED BY <1>2, <1>3, <1>5, <2>1 DEF Holds, Delivered, IndexPhase
<1>6. Holds(Advance(w), change, text, life, vec, serving)
  BY <1>2, <1>3, <1>4, <1>5, SteppedHolds DEF IndexPhase
<1>7. StoreHolds(change, text, life, vec, serving, recorded, dropping)
  BY DEF DurableInv
<1>8. \A m \in Memory : recorded'[m] <= text[m]
  <2> SUFFICES ASSUME NEW m \in Memory PROVE recorded'[m] <= text[m]
    OBVIOUS
  <2>1. CASE m \notin ReadIds(w.read)
    BY <2>1, <1>2, <1>7 DEF StoreHolds, RowsKnown
  <2>2. CASE m \in ReadIds(w.read)
    <3>1. PICK e \in w.read : e.mem = m /\ TextIn(w.read, m) = e.text
      BY <2>2, <1>3, EntryOf
    <3>2. e.text <= text[m]
      BY <3>1, <1>3 DEF Holds, ReadSound
    <3>3. QED BY <2>2, <3>1, <3>2, <1>2
  <2>3. QED BY <2>1, <2>2
<1>9. StoreHolds(change, text, life, vec, serving, recorded', dropping)
  BY <1>7, <1>8 DEF StoreHolds, RowsKnown
<1>10. QED BY <1>2, <1>6, <1>9, OneWork

LEMMA RemoveDurable ==
  ASSUME Calm, IndexInv, DurableInv, NEW i \in Indexer, RemoveVector(i)
  PROVE  DurableInv'
<1>1. PICK w : w = work[i]
  OBVIOUS
<1>2. /\ w.phase = "remove"
      /\ change' = change /\ text' = text /\ life' = life
      /\ serving' = serving /\ recorded' = recorded /\ dropping' = dropping
  BY <1>1 DEF RemoveVector, rowVars, outboxVars
<1>3. /\ Fits(w, DOMAIN change) /\ w \in Work
      /\ Holds(w, change, text, life, vec, serving)
      /\ StoreHolds(change, text, life, vec, serving, recorded, dropping)
  BY <1>1 DEF DurableInv, IndexInv, WorkType, Fits
<1>4. ~ w.split /\ w.new = {}
  BY <1>2, <1>3 DEF Fits
<1>5. PICK s \in w.rows : w.rows = {s}
  BY <1>2, <1>3 DEF Fits
<1>6. /\ s \in PendingOf(change) /\ s \in DOMAIN change /\ change[s].rev = Deleted
      /\ change[s].mem \in Memory
  <2>1. s \in PendingOf(change) /\ change[s].rev = Deleted
    BY <1>2, <1>3 DEF Holds, Pass
  <2>2. s \in DOMAIN change
    BY <2>1 DEF PendingOf
  <2>3. change[s].mem \in Memory
    BY <2>2, Numbers DEF Rows
  <2>4. QED BY <2>1, <2>2, <2>3
<1>7. Ids(w) = {change[s].mem}
  BY <1>4, <1>5 DEF Ids
\* A row of a memory's text is an upsert.
<1>8. ASSUME NEW m \in Memory, life[m] = "active", RowKey(change, s) = <<m, text[m]>>
      PROVE  FALSE
  BY <1>3, <1>6, <1>8 DEF StoreHolds, RowsKnown, RowKey, Deleted
<1>9. ASSUME NEW n, n.phase = "ack", n.rows = w.rows, n.todo = w.todo, n.read = w.read,
             NEW vc, n.failed = w.rows \/ vc[change[s].mem] = NoVec
      PROVE  Holds(n, change, text, life, vc, serving)
  <2>1. Pass(n, change, serving)
    BY <1>3, <1>9 DEF Holds, Pass, IndexPhase
  <2>2. ReadSound(n, change, text, life)
    BY <1>3, <1>9 DEF Holds, ReadSound
  <2>3. Delivered(n, change, text, life, vc, serving)
    BY <1>5, <1>8, <1>9 DEF Delivered
  <2>4. Removed(n, change, vc)
    BY <1>5, <1>9 DEF Removed
  <2>5. QED BY <2>1, <2>2, <2>3, <2>4 DEF Holds
<1>10. CASE /\ vec' = [m \in Memory |-> IF m \in Ids(w) THEN NoVec ELSE vec[m]]
            /\ work' = [work EXCEPT ![i] = [w EXCEPT !.phase = "ack"]]
  <2>1. PICK n : n = [w EXCEPT !.phase = "ack"]
    OBVIOUS
  <2>2. n.phase = "ack" /\ n.rows = w.rows /\ n.todo = w.todo /\ n.read = w.read
    BY <1>3, <2>1 DEF Work
  <2>3. vec'[change[s].mem] = NoVec
    BY <1>6, <1>7, <1>10
  <2>4. Holds(n, change, text, life, vec', serving)
    BY <1>9, <2>2, <2>3
  <2>5. \A m \in Memory : vec'[m] = NoVec \/ vec'[m] = vec[m]
    BY <1>10
  <2>6. GoneRow(change, life, vec', dropping)
    BY <1>3, <2>5 DEF StoreHolds, GoneRow
  <2>7. OwnRow(change, text, life, vec', serving)
    <3> SUFFICES ASSUME NEW m \in Memory, life[m] = "active", serving > 0,
                        ~ ServedBy(m, text, vec', serving)
                 PROVE  \E u \in DOMAIN change : /\ RowKey(change, u) = <<m, text[m]>>
                                                 /\ change[u].state \in {"pending", "failed"}
      BY DEF OwnRow
    <3>1. CASE m = change[s].mem
      <4>1. RowKey(change, s) = <<m, Deleted>>
        BY <3>1, <1>6 DEF RowKey
      <4>2. PICK u \in PendingOf(change) : RowKey(change, u) = <<m, text[m]>>
        BY <4>1, <1>3, <1>6 DEF StoreHolds, RemovalFirst
      <4>3. QED BY <4>2 DEF PendingOf
    <3>2. CASE m # change[s].mem
      <4>1. vec'[m] = vec[m]
        BY <3>2, <1>7, <1>10
      <4>2. QED BY <4>1, <1>3 DEF StoreHolds, OwnRow, ServedBy
    <3>3. QED BY <3>1, <3>2
  <2>8. StoreHolds(change, text, life, vec', serving, recorded, dropping)
    BY <1>3, <2>6, <2>7 DEF StoreHolds
  <2>9. work' = [work EXCEPT ![i] = n]
    BY <1>10, <2>1
  <2>10. QED BY <1>2, <2>4, <2>8, <2>9, OneWork
<1>11. CASE /\ vec' = vec
            /\ work' = [work EXCEPT ![i] = [w EXCEPT !.phase = "ack", !.failed = w.rows]]
  <2>1. PICK n : n = [w EXCEPT !.phase = "ack", !.failed = w.rows]
    OBVIOUS
  <2>2. /\ n.phase = "ack" /\ n.rows = w.rows /\ n.todo = w.todo /\ n.read = w.read
        /\ n.failed = w.rows
    BY <1>3, <2>1 DEF Work
  <2>3. Holds(n, change, text, life, vec, serving)
    BY <1>9, <2>2
  <2>4. work' = [work EXCEPT ![i] = n]
    BY <1>11, <2>1
  <2>5. QED BY <1>2, <1>3, <1>11, <2>3, <2>4, OneWork
<1>12. QED BY <1>1, <1>10, <1>11 DEF RemoveVector

\* What ack_many makes of the outbox: the rows of the group, and only these, move on.
LEMMA AckRows ==
  ASSUME IndexInv, DurableInv, NEW i \in Indexer, Ack(i)
  PROVE  /\ work[i].rows \subseteq PendingOf(change)
         /\ DOMAIN change' = DOMAIN change
         /\ \A s \in DOMAIN change \ work[i].rows : change'[s] = change[s]
         /\ \A s \in DOMAIN change :
              /\ RowKey(change', s) = RowKey(change, s)
              /\ change'[s].mem = change[s].mem /\ change'[s].rev = change[s].rev
              /\ s \in work[i].rows =>
                   change'[s].state = IF s \in work[i].failed THEN "failed" ELSE "completed"
         /\ PendingOf(change') = PendingOf(change) \ work[i].rows
<1>1. PICK w : w = work[i]
  OBVIOUS
<1>2. w.phase = "ack"
  BY <1>1 DEF Ack
<1>3. Holds(w, change, text, life, vec, serving)
  BY <1>1 DEF DurableInv
<1>4. w.rows \subseteq PendingOf(change)
  BY <1>3 DEF Holds, Pass
<1>5. /\ DOMAIN change' = DOMAIN change
      /\ \A s \in DOMAIN change \ w.rows : change'[s] = change[s]
      /\ \A s \in w.rows : change'[s] = [change[s] EXCEPT !.state =
                             IF s \in w.failed THEN "failed" ELSE "completed"]
  <2>1. Acked(w.rows) = w.rows
    BY <1>4 DEF Acked, PendingOf, Pending
  <2>2. change' = [s \in DOMAIN change |->
          IF s \in w.rows
          THEN [change[s] EXCEPT !.state = IF s \in w.failed THEN "failed" ELSE "completed"]
          ELSE change[s]]
    BY <1>1, <2>1 DEF Ack
  <2>3. w.rows \subseteq DOMAIN change
    BY <1>4 DEF PendingOf
  <2>4. QED BY <2>2, <2>3
<1>6. \A s \in DOMAIN change :
        /\ change'[s].mem = change[s].mem /\ change'[s].rev = change[s].rev
        /\ s \in w.rows => change'[s].state = IF s \in w.failed THEN "failed" ELSE "completed"
  <2>1. \A s \in DOMAIN change : change[s] \in Rows
    BY Numbers
  <2>2. ASSUME NEW s \in w.rows
        PROVE  /\ change'[s].mem = change[s].mem /\ change'[s].rev = change[s].rev
               /\ change'[s].state = IF s \in w.failed THEN "failed" ELSE "completed"
    <3>1. s \in DOMAIN change
      BY <1>4 DEF PendingOf
    <3>2. PICK st : st = IF s \in w.failed THEN "failed" ELSE "completed"
      OBVIOUS
    <3>3. change'[s] = [change[s] EXCEPT !.state = st] /\ change[s] \in Rows
      BY <1>5, <2>1, <3>1, <3>2
    <3>4. /\ change'[s].mem = change[s].mem /\ change'[s].rev = change[s].rev
          /\ change'[s].state = st
      BY <3>3 DEF Rows
    <3>5. QED BY <3>2, <3>4
  <2>3. QED BY <1>5, <2>2
<1>7. \A s \in DOMAIN change : RowKey(change', s) = RowKey(change, s)
  BY <1>6 DEF RowKey
<1>8. PendingOf(change') = PendingOf(change) \ w.rows
  <2>1. \A s \in DOMAIN change : change'[s].state = "pending"
                                 <=> change[s].state = "pending" /\ s \notin w.rows
    BY <1>5, <1>6
  <2>2. QED BY <1>5, <2>1 DEF PendingOf
<1>9. QED BY <1>1, <1>4, <1>5, <1>6, <1>7, <1>8

LEMMA AckDurable ==
  ASSUME Calm, IndexInv, DurableInv, NEW i \in Indexer, Ack(i)
  PROVE  DurableInv'
<1>1. PICK w : w = work[i]
  OBVIOUS
<1>2. /\ w.phase = "ack"
      /\ work' = [work EXCEPT ![i] = NextGroup(w.todo)]
      /\ text' = text /\ life' = life /\ vec' = vec
      /\ serving' = serving /\ recorded' = recorded /\ dropping' = dropping
  BY <1>1 DEF Ack, rowVars
<1>3. /\ Fits(w, DOMAIN change) /\ w \in Work
      /\ Holds(w, change, text, life, vec, serving)
      /\ StoreHolds(change, text, life, vec, serving, recorded, dropping)
  BY <1>1 DEF DurableInv, IndexInv, WorkType, Fits
<1>4. /\ w.rows \subseteq PendingOf(change) /\ w.todo \subseteq PendingOf(change)
      /\ \A s \in w.rows, u \in w.todo : s < u
      /\ \A s \in w.rows \cup w.todo, p \in PendingOf(change) \ (w.rows \cup w.todo) : s < p
  BY <1>3 DEF Holds, Pass
<1>5. /\ DOMAIN change' = DOMAIN change
      /\ \A s \in DOMAIN change \ w.rows : change'[s] = change[s]
  BY <1>1, AckRows
<1>6. \A s \in DOMAIN change :
        /\ change'[s].mem = change[s].mem /\ change'[s].rev = change[s].rev
        /\ s \in w.rows => change'[s].state = IF s \in w.failed THEN "failed" ELSE "completed"
  BY <1>1, AckRows
<1>7. \A s \in DOMAIN change : RowKey(change', s) = RowKey(change, s)
  BY AckRows
<1>8. PendingOf(change') = PendingOf(change) \ w.rows
  BY <1>1, AckRows
<1>9. w.todo \subseteq DOMAIN change /\ DOMAIN change \in SUBSET Nat
  BY <1>3, Numbers DEF Fits
<1>10. Holds(NextGroup(w.todo), change', text, life, vec, serving)
  <2>1. PICK n : n = NextGroup(w.todo)
    OBVIOUS
  <2>2. Takes(n, w.todo, change) /\ Fits(n, DOMAIN change)
    BY <1>9, <2>1, NextGroupTakes DEF IndexInv, OutboxInv
  <2>3. Takes(n, w.todo, change')
    BY <1>6, <2>2 DEF Takes, Fits
  <2>4. w.todo \cap w.rows = {}
    BY <1>4, <1>9
  <2>5. w.todo \subseteq PendingOf(change')
    BY <1>4, <1>8, <2>4
  <2>6. \A s \in w.todo, p \in PendingOf(change') \ w.todo : s < p
    BY <1>4, <1>8
  <2>7. QED BY <2>1, <2>3, <2>5, <2>6, TakesHolds
<1>11. RemovalFirst(change', text, life)
  <2> SUFFICES ASSUME NEW m \in Memory, NEW r \in PendingOf(change'), life[m] = "active",
                      RowKey(change', r) = <<m, Deleted>>
               PROVE  \E u \in PendingOf(change') : /\ RowKey(change', u) = <<m, text[m]>>
                                                    /\ r < u
    BY DEF RemovalFirst
  <2>1. r \in PendingOf(change) /\ r \notin w.rows /\ r \in DOMAIN change
    BY <1>8 DEF PendingOf
  <2>2. RowKey(change, r) = <<m, Deleted>>
    BY <1>7, <2>1
  <2>3. PICK u \in PendingOf(change) : RowKey(change, u) = <<m, text[m]>> /\ r < u
    BY <1>3, <2>1, <2>2 DEF StoreHolds, RemovalFirst
  <2>4. u \in DOMAIN change
    BY DEF PendingOf
  <2>5. u \notin w.rows
    <3> SUFFICES ASSUME u \in w.rows PROVE FALSE
      OBVIOUS
    <3>1. u < r
      BY <1>4, <2>1
    <3>2. QED BY <3>1, <2>1, <2>3, <2>4, <1>9
  <2>6. QED BY <1>7, <1>8, <2>3, <2>4, <2>5
<1>12. OwnRow(change', text, life, vec, serving)
  <2> SUFFICES ASSUME NEW m \in Memory, life[m] = "active", serving > 0,
                      ~ ServedBy(m, text, vec, serving)
               PROVE  \E u \in DOMAIN change' : /\ RowKey(change', u) = <<m, text[m]>>
                                                /\ change'[u].state \in {"pending", "failed"}
    BY DEF OwnRow
  <2>1. PICK u \in DOMAIN change : /\ RowKey(change, u) = <<m, text[m]>>
                                   /\ change[u].state \in {"pending", "failed"}
    BY <1>3 DEF StoreHolds, OwnRow
  <2>2. CASE u \notin w.rows
    BY <1>5, <1>7, <2>1, <2>2
  <2>3. CASE u \in w.rows
    <3>1. Done(w, u)
      BY <1>2 DEF Done
    <3>2. u \in w.failed
      BY <1>2, <1>3, <2>1, <2>3, <3>1 DEF Holds, Delivered
    <3>3. change'[u].state = "failed"
      BY <1>6, <2>1, <2>3, <3>2
    <3>4. QED BY <1>5, <1>7, <2>1, <3>3
  <2>4. QED BY <2>2, <2>3
<1>13. GoneRow(change', life, vec, dropping)
  <2> SUFFICES ASSUME NEW m \in Memory, life[m] \in {"retired", "deleted"}, vec[m] # NoVec,
                      m \notin dropping
               PROVE  Removable(m, change')
    BY DEF GoneRow
  <2>1. PICK s \in DOMAIN change : /\ RowKey(change, s) = <<m, Deleted>>
                                   /\ change[s].state \in {"pending", "failed"}
    BY <1>3 DEF StoreHolds, GoneRow, Removable
  <2>2. CASE s \notin w.rows
    BY <1>5, <1>7, <2>1, <2>2 DEF Removable
  <2>3. CASE s \in w.rows
    <3>1. change[s].mem = m /\ change[s].rev = Deleted
      BY <2>1 DEF RowKey
    <3>2. s \in w.failed
      BY <1>2, <1>3, <2>3, <3>1 DEF Holds, Removed
    <3>3. change'[s].state = "failed"
      BY <1>6, <2>1, <2>3, <3>2
    <3>4. QED BY <1>5, <1>7, <2>1, <3>3 DEF Removable
  <2>4. QED BY <2>2, <2>3
<1>14. RowsBehind(change', text)
  BY <1>3, <1>5, <1>6 DEF StoreHolds, RowsBehind
<1>15. StoreHolds(change', text, life, vec, serving, recorded, dropping)
  BY <1>3, <1>11, <1>12, <1>13, <1>14 DEF StoreHolds
<1>16. QED BY <1>2, <1>10, <1>15, OneWork

\* A writer's new row, if it needs one, comes after every other.
Grown(c, d) ==
  /\ DOMAIN c \subseteq DOMAIN d
  /\ \A s \in DOMAIN c : d[s] = c[s]
  /\ \A s \in DOMAIN d \ DOMAIN c, u \in DOMAIN c : u < s

LEMMA GrownRows ==
  ASSUME NEW c, NEW d, Grown(c, d)
  PROVE  /\ PendingOf(c) \subseteq PendingOf(d)
         /\ \A s \in DOMAIN c : RowKey(d, s) = RowKey(c, s) /\ d[s] = c[s] /\ s \in DOMAIN d
         /\ \A p \in PendingOf(d) : p \in PendingOf(c) \/ p \notin DOMAIN c
         /\ \A m : Removable(m, c) => Removable(m, d)
<1>1. \A s \in DOMAIN c : RowKey(d, s) = RowKey(c, s) /\ d[s] = c[s] /\ s \in DOMAIN d
  BY DEF Grown, RowKey
<1>2. \A m : Removable(m, c) => Removable(m, d)
  BY <1>1 DEF Removable
<1>3. PendingOf(c) \subseteq PendingOf(d)
  BY <1>1 DEF PendingOf
<1>4. \A p \in PendingOf(d) : p \in PendingOf(c) \/ p \notin DOMAIN c
  BY <1>1 DEF PendingOf
<1>5. QED BY <1>1, <1>2, <1>3, <1>4

\* Later rows leave a pass as it is.
LEMMA GrownPass ==
  ASSUME NEW c, NEW d, Grown(c, d), NEW w, NEW g, Pass(w, c, g)
  PROVE  Pass(w, d, g)
<1>1. w.rows \subseteq DOMAIN c /\ w.todo \subseteq DOMAIN c
  BY DEF Pass, PendingOf
<1>2. PendingOf(c) \subseteq PendingOf(d)
      /\ \A p \in PendingOf(d) : p \in PendingOf(c) \/ p \notin DOMAIN c
  BY GrownRows
<1>3. w.rows \subseteq PendingOf(d) /\ w.todo \subseteq PendingOf(d)
  BY <1>2 DEF Pass
<1>4. ASSUME NEW s \in w.rows \cup w.todo, NEW p \in PendingOf(d) \ (w.rows \cup w.todo)
      PROVE  s < p
  <2>1. CASE p \in PendingOf(c)
    BY <2>1 DEF Pass
  <2>2. CASE p \notin DOMAIN c
    <3>1. p \in DOMAIN d /\ s \in DOMAIN c
      BY <1>1 DEF PendingOf
    <3>2. QED BY <2>2, <3>1 DEF Grown
  <2>3. QED BY <1>2, <2>1, <2>2
<1>5. \A s \in w.rows : d[s] = c[s]
  BY <1>1, GrownRows
<1>6. QED BY <1>3, <1>4, <1>5 DEF Pass

\* The outbox after a writer of m, and where the row of its work is.
LEMMA EnqueuedGrown ==
  ASSUME IndexInv, NEW k \in Key, Enqueued(k)
  PROVE  /\ Grown(change, change')
         /\ \A s \in DOMAIN change' \ DOMAIN change :
              RowKey(change', s) = k /\ change'[s].state = "pending"
         /\ \E s \in PendingOf(change') : RowKey(change', s) = k
<1>1. PICK row : row = [mem |-> k[1], rev |-> k[2], state |-> "pending"]
  OBVIOUS
<1>2. row.mem = k[1] /\ row.rev = k[2] /\ row.state = "pending" /\ k = <<k[1], k[2]>>
  BY <1>1 DEF Key
<1>3. Grown(change, change')
  BY DEF Enqueued, Grown
<1>4. \A s \in DOMAIN change' : change'[s] = row => /\ RowKey(change', s) = k
                                                    /\ s \in PendingOf(change')
  BY <1>2 DEF RowKey, PendingOf
<1>5. \A s \in DOMAIN change' \ DOMAIN change : change'[s] = row
  BY <1>1 DEF Enqueued
<1>6. \E s \in DOMAIN change' : change'[s] = row
  BY <1>1 DEF Enqueued
<1>7. QED BY <1>2, <1>3, <1>4, <1>5, <1>6

\* put_typed_in: a new text always has a row of its own, the last one.
LEMMA WriteRow ==
  ASSUME Calm, IndexInv, DurableInv, NEW m \in Memory, NEW t \in Text, Write(m, t)
  PROVE  /\ Grown(change, change') /\ t > text[m] /\ t \in Nat
         /\ \A s \in DOMAIN change' \ DOMAIN change : RowKey(change', s) = <<m, t>>
         /\ \E s \in PendingOf(change') \ DOMAIN change : RowKey(change', s) = <<m, t>>
<1>1. t > text[m] /\ t \in Nat /\ text[m] \in Nat /\ recorded[m] \in Nat
  <2>1. t > text[m]
    BY DEF Calm, FreshMoves, Write
  <2>2. QED BY <2>1, Numbers
<1>2. recorded[m] # t
  BY <1>1 DEF DurableInv, StoreHolds, RowsKnown
<1>3. <<m, t>> \in Key /\ Enqueue(<<m, t>>)
  BY <1>2 DEF Write, IndexUpsert, Key
<1>4. Enqueued(<<m, t>>)
  BY <1>3, EnqueueGrows DEF IndexInv
<1>5. PICK k \in Key : k = <<m, t>>
  BY <1>3
<1>6. /\ Grown(change, change')
      /\ \A s \in DOMAIN change' \ DOMAIN change :
           RowKey(change', s) = k /\ change'[s].state = "pending"
      /\ \E s \in PendingOf(change') : RowKey(change', s) = k
  BY <1>4, <1>5, EnqueuedGrown
<1>7. \A s \in DOMAIN change : RowKey(change', s) # k
  <2> SUFFICES ASSUME NEW s \in DOMAIN change, RowKey(change', s) = k PROVE FALSE
    OBVIOUS
  <2>1. RowKey(change, s) = k
    BY <1>6, GrownRows
  <2>2. change[s].mem = m /\ change[s].rev = t
    BY <1>5, <2>1 DEF RowKey
  <2>3. t <= text[m]
    BY <2>2 DEF DurableInv, StoreHolds, RowsBehind
  <2>4. QED BY <1>1, <2>3
<1>8. QED BY <1>1, <1>5, <1>6, <1>7

LEMMA WriteDurable ==
  ASSUME Calm, IndexInv, DurableInv, NEW m \in Memory, NEW t \in Text, Write(m, t)
  PROVE  DurableInv'
<1>1. /\ Grown(change, change') /\ t > text[m] /\ t \in Nat /\ text[m] \in Nat
      /\ \A s \in DOMAIN change' \ DOMAIN change : RowKey(change', s) = <<m, t>>
  BY WriteRow, Numbers
<1>2. PICK N \in PendingOf(change') \ DOMAIN change : RowKey(change', N) = <<m, t>>
  BY WriteRow
<1>3. /\ vec' = vec /\ serving' = serving /\ recorded' = recorded /\ dropping' = dropping
      /\ work' = work
  BY DEF Write, Rest
<1>4. /\ text'[m] = t /\ life'[m] = "active" /\ life[m] # "deleted"
      /\ \A x \in Memory : x # m => text'[x] = text[x] /\ life'[x] = life[x]
      /\ \A x \in Memory : text[x] \in Nat /\ text'[x] \in Nat /\ text[x] <= text'[x]
  <2>1. /\ text' = [text EXCEPT ![m] = t] /\ life' = [life EXCEPT ![m] = "active"]
        /\ life[m] # "deleted"
    BY DEF Write
  <2>2. DOMAIN text = Memory /\ DOMAIN life = Memory /\ \A x \in Memory : text[x] \in Nat
    BY Numbers DEF IndexInv, StoreType, TextType
  <2>3. QED BY <2>1, <2>2, <1>1
<1>5. /\ N \in DOMAIN change' /\ N \in PendingOf(change') /\ N \notin DOMAIN change
      /\ \A s \in DOMAIN change : s < N
  BY <1>1, <1>2 DEF PendingOf, Grown
<1>6. /\ PendingOf(change) \subseteq PendingOf(change')
      /\ \A s \in DOMAIN change : /\ RowKey(change', s) = RowKey(change, s)
                                  /\ change'[s] = change[s] /\ s \in DOMAIN change'
      /\ \A p \in PendingOf(change') : p \in PendingOf(change) \/ p \notin DOMAIN change
      /\ \A x : Removable(x, change) => Removable(x, change')
  BY <1>1, GrownRows
<1>7. /\ RowsBehind(change, text) /\ RowsKnown(text, life, recorded, dropping)
      /\ RemovalFirst(change, text, life) /\ OwnRow(change, text, life, vec, serving)
      /\ GoneRow(change, life, vec, dropping)
  BY DEF DurableInv, StoreHolds
<1>8. \A s \in DOMAIN change : change[s].mem \in Memory /\ change[s].rev \in Nat
  <2>1. \A s \in DOMAIN change : change[s] \in Rows
    BY Numbers
  <2>2. \A q \in Text \cup {Deleted} : q \in Nat
    BY Numbers DEF Deleted
  <2>3. QED BY <2>1, <2>2 DEF Rows
<1>9. RowsBehind(change', text')
  <2> SUFFICES ASSUME NEW s \in DOMAIN change' PROVE change'[s].rev <= text'[change'[s].mem]
    BY DEF RowsBehind
  <2>1. CASE s \in DOMAIN change
    <3>1. change[s].rev <= text[change[s].mem]
      BY <1>7, <2>1 DEF RowsBehind
    <3>2. text[change[s].mem] <= text'[change[s].mem] /\ text[change[s].mem] \in Nat
          /\ text'[change[s].mem] \in Nat /\ change[s].rev \in Nat
      BY <1>4, <1>8, <2>1
    <3>3. change[s].rev <= text'[change[s].mem]
      BY <3>1, <3>2
    <3>4. QED BY <1>6, <2>1, <3>3
  <2>2. CASE s \notin DOMAIN change
    <3>1. change'[s].mem = m /\ change'[s].rev = t
      BY <1>1, <2>2 DEF RowKey
    <3>2. QED BY <3>1, <1>1, <1>4
  <2>3. QED BY <2>1, <2>2
<1>10. RowsKnown(text', life', recorded, dropping)
  <2>1. \A x \in Memory : recorded[x] <= text'[x]
    <3>1. \A x \in Memory : recorded[x] <= text[x] /\ recorded[x] \in Nat
      BY <1>7, Numbers DEF RowsKnown
    <3>2. QED BY <3>1, <1>4
  <2>2. \A x \in Memory : life'[x] # "none" => text'[x] # 0
    BY <1>1, <1>4, <1>7 DEF RowsKnown
  <2>3. \A x \in dropping : x \in Memory
    BY DEF IndexInv, StoreType
  <2>4. \A x \in dropping : life'[x] = "deleted"
    BY <1>4, <1>7, <2>3 DEF RowsKnown
  <2>5. QED BY <2>1, <2>2, <2>4 DEF RowsKnown
<1>11. RemovalFirst(change', text', life')
  <2> SUFFICES ASSUME NEW x \in Memory, NEW r \in PendingOf(change'), life'[x] = "active",
                      RowKey(change', r) = <<x, Deleted>>
               PROVE  \E u \in PendingOf(change') : /\ RowKey(change', u) = <<x, text'[x]>>
                                                    /\ r < u
    BY DEF RemovalFirst
  <2>1. r \in DOMAIN change'
    BY DEF PendingOf
  <2>2. t # Deleted
    BY <1>1 DEF Deleted
  <2>3. r \in DOMAIN change
    BY <1>1, <2>1, <2>2
  <2>4. r \in PendingOf(change) /\ RowKey(change, r) = <<x, Deleted>>
    BY <1>6, <2>3
  <2>5. CASE x = m
    BY <1>2, <1>4, <1>5, <2>3, <2>5
  <2>6. CASE x # m
    <3>1. PICK u \in PendingOf(change) : RowKey(change, u) = <<x, text[x]>> /\ r < u
      BY <1>4, <1>7, <2>4, <2>6 DEF RemovalFirst
    <3>2. u \in DOMAIN change
      BY DEF PendingOf
    <3>3. QED BY <1>4, <1>6, <2>6, <3>1, <3>2
  <2>7. QED BY <2>5, <2>6
<1>12. OwnRow(change', text', life', vec, serving)
  <2> SUFFICES ASSUME NEW x \in Memory, life'[x] = "active", serving > 0,
                      ~ ServedBy(x, text', vec, serving)
               PROVE  \E u \in DOMAIN change' : /\ RowKey(change', u) = <<x, text'[x]>>
                                                /\ change'[u].state \in {"pending", "failed"}
    BY DEF OwnRow
  <2>1. CASE x = m
    BY <1>2, <1>4, <1>5, <2>1 DEF PendingOf
  <2>2. CASE x # m
    <3>1. life[x] = "active" /\ ~ ServedBy(x, text, vec, serving)
      BY <1>4, <2>2 DEF ServedBy
    <3>2. PICK u \in DOMAIN change : /\ RowKey(change, u) = <<x, text[x]>>
                                     /\ change[u].state \in {"pending", "failed"}
      BY <1>7, <3>1 DEF OwnRow
    <3>3. QED BY <1>4, <1>6, <2>2, <3>2
  <2>3. QED BY <2>1, <2>2
<1>13. GoneRow(change', life', vec, dropping)
  <2> SUFFICES ASSUME NEW x \in Memory, life'[x] \in {"retired", "deleted"}, vec[x] # NoVec
               PROVE  x \in dropping \/ Removable(x, change')
    BY DEF GoneRow
  <2>1. x # m
    BY <1>4
  <2>2. life[x] \in {"retired", "deleted"}
    BY <1>4, <2>1
  <2>3. QED BY <1>6, <1>7, <2>2 DEF GoneRow
<1>14. ASSUME NEW j \in Indexer
       PROVE  Holds(work[j], change', text', life', vec, serving)
  <2>1. PICK w : w = work[j]
    OBVIOUS
  <2>2. Holds(w, change, text, life, vec, serving) /\ w \in Work /\ w.rows \subseteq DOMAIN change
    BY <2>1 DEF DurableInv, IndexInv, WorkType, Fits
  <2>3. Pass(w, change', serving)
    BY <1>1, <2>2, GrownPass DEF Holds
  <2>4. ReadSound(w, change', text', life')
    <3>1. \A e \in w.read : e.mem \in Memory /\ e.text \in Nat
      <4>1. \A q \in Text \cup {0} : q \in Nat
        BY Numbers
      <4>2. QED BY <2>2, <4>1 DEF Work, Entry
    <3>2. \A e \in w.read : e.text <= text'[e.mem]
      <4>1. \A e \in w.read : e.text <= text[e.mem]
        BY <2>2 DEF Holds, ReadSound
      <4>2. QED BY <1>4, <3>1, <4>1
    <3>3. ASSUME w.phase \in {"put", "record"}, NEW e \in w.read, e.text # text'[e.mem]
          PROVE  \E u \in PendingOf(change') \ w.rows :
                   RowKey(change', u) = <<e.mem, text'[e.mem]>>
      <4>1. CASE e.mem = m
        BY <1>2, <1>4, <1>5, <2>2, <4>1
      <4>2. CASE e.mem # m
        <5>1. e.text # text[e.mem]
          BY <1>4, <3>1, <3>3, <4>2
        <5>2. PICK u \in PendingOf(change) \ w.rows : RowKey(change, u) = <<e.mem, text[e.mem]>>
          BY <2>2, <3>3, <5>1 DEF Holds, ReadSound
        <5>3. u \in DOMAIN change
          BY DEF PendingOf
        <5>4. QED BY <1>4, <1>6, <3>1, <4>2, <5>2, <5>3
      <4>3. QED BY <4>1, <4>2
    <3>4. ASSUME w.phase = "put", NEW e \in w.read, life'[e.mem] \in {"retired", "deleted"}
          PROVE  Removable(e.mem, change')
      <4>1. e.mem # m
        BY <1>4, <3>4
      <4>2. life[e.mem] \in {"retired", "deleted"}
        BY <1>4, <3>1, <3>4, <4>1
      <4>3. QED BY <1>6, <2>2, <3>4, <4>2 DEF Holds, ReadSound
    <3>5. QED BY <3>2, <3>3, <3>4 DEF ReadSound
  <2>5. Delivered(w, change', text', life', vec, serving)
    <3> SUFFICES ASSUME w.phase \in IndexPhase \cup {"ack"}, NEW u \in w.rows \ w.failed,
                        NEW x \in Memory, RowKey(change', u) = <<x, text'[x]>>,
                        life'[x] = "active", serving > 0
                 PROVE  /\ Done(w, u) => ServedBy(x, text', vec, serving)
                        /\ w.phase = "put" /\ Current(w, u) =>
                             [mem |-> x, text |-> text'[x]] \in w.read
      BY DEF Delivered
    <3>1. u \in DOMAIN change /\ RowKey(change, u) = <<x, text'[x]>>
      BY <1>6, <2>2
    <3>2. x # m
      <4> SUFFICES ASSUME x = m PROVE FALSE
        OBVIOUS
      <4>1. change[u].mem = m /\ change[u].rev = t
        BY <1>4, <3>1 DEF RowKey
      <4>2. t <= text[m]
        BY <1>7, <3>1, <4>1 DEF RowsBehind
      <4>3. QED BY <1>1, <4>2
    <3>3. text'[x] = text[x] /\ life[x] = "active"
      BY <1>4, <3>2
    <3>4. /\ Done(w, u) => ServedBy(x, text, vec, serving)
          /\ w.phase = "put" /\ Current(w, u) => [mem |-> x, text |-> text[x]] \in w.read
      BY <2>2, <3>1, <3>3 DEF Holds, Delivered
    <3>5. QED BY <3>3, <3>4 DEF ServedBy
  <2>6. Removed(w, change', vec)
    BY <1>6, <2>2 DEF Holds, Removed
  <2>7. QED BY <2>1, <2>3, <2>4, <2>5, <2>6 DEF Holds
<1>15. QED BY <1>3, <1>9, <1>10, <1>11, <1>12, <1>13, <1>14 DEF DurableInv, StoreHolds

\* set_lifecycle_in to retired, and the publication of delete_memory: the memory goes,
\* and its removal work is pending when it has gone.
LEMMA GoneDurable ==
  ASSUME Calm, IndexInv, DurableInv, NEW m \in Memory, NEW l \in {"retired", "deleted"},
         life[m] \in {"active", "retired"}, life' = [life EXCEPT ![m] = l], IndexRemove(m),
         \A x \in dropping' : x \in dropping \/ x = m,
         dropping \subseteq dropping',
         \A x \in dropping' : x = m => l = "deleted",
         UNCHANGED <<text, recorded, vec, serving, work>>
  PROVE  DurableInv'
<1>1. PICK k \in Key : k = <<m, Deleted>>
  BY DEF Key
<1>2. Enqueued(k)
  BY <1>1, EnqueueGrows DEF IndexRemove, IndexInv
<1>3. /\ Grown(change, change')
      /\ \A s \in DOMAIN change' \ DOMAIN change : RowKey(change', s) = <<m, Deleted>>
      /\ \E s \in PendingOf(change') : RowKey(change', s) = <<m, Deleted>>
  BY <1>1, <1>2, EnqueuedGrown
<1>4. Removable(m, change')
  BY <1>3 DEF Removable, PendingOf
<1>5. /\ life'[m] = l /\ \A x \in Memory : x # m => life'[x] = life[x]
      /\ \A x \in Memory : life'[x] = "active" => life[x] = "active" /\ x # m
  BY DEF IndexInv, StoreType
<1>6. /\ PendingOf(change) \subseteq PendingOf(change')
      /\ \A s \in DOMAIN change : /\ RowKey(change', s) = RowKey(change, s)
                                  /\ change'[s] = change[s] /\ s \in DOMAIN change'
      /\ \A p \in PendingOf(change') : p \in PendingOf(change) \/ p \notin DOMAIN change
      /\ \A x : Removable(x, change) => Removable(x, change')
  BY <1>3, GrownRows
<1>7. /\ RowsBehind(change, text) /\ RowsKnown(text, life, recorded, dropping)
      /\ RemovalFirst(change, text, life) /\ OwnRow(change, text, life, vec, serving)
      /\ GoneRow(change, life, vec, dropping)
  BY DEF DurableInv, StoreHolds
<1>8. RowsBehind(change', text)
  <2> SUFFICES ASSUME NEW s \in DOMAIN change' PROVE change'[s].rev <= text[change'[s].mem]
    BY DEF RowsBehind
  <2>1. CASE s \in DOMAIN change
    BY <1>6, <1>7, <2>1 DEF RowsBehind
  <2>2. CASE s \notin DOMAIN change
    <3>1. change'[s].mem = m /\ change'[s].rev = 0
      BY <1>3, <2>2 DEF RowKey, Deleted
    <3>2. QED BY <3>1, Numbers
  <2>3. QED BY <2>1, <2>2
<1>9. RowsKnown(text, life', recorded, dropping')
  <2>1. \A x \in Memory : life'[x] # "none" => text[x] # 0
    BY <1>5, <1>7 DEF RowsKnown
  <2>2. \A x \in dropping' : x \in Memory
    BY DEF IndexInv, StoreType
  <2>3. ASSUME NEW x \in dropping' PROVE life'[x] = "deleted"
    <3>1. CASE x = m
      BY <1>5, <3>1
    <3>2. CASE x # m
      BY <1>5, <1>7, <2>2, <3>2 DEF RowsKnown
    <3>3. QED BY <3>1, <3>2
  <2>4. QED BY <1>7, <2>1, <2>3 DEF RowsKnown
<1>10. RemovalFirst(change', text, life')
  <2> SUFFICES ASSUME NEW x \in Memory, NEW r \in PendingOf(change'), life'[x] = "active",
                      RowKey(change', r) = <<x, Deleted>>
               PROVE  \E u \in PendingOf(change') : /\ RowKey(change', u) = <<x, text[x]>>
                                                    /\ r < u
    BY DEF RemovalFirst
  <2>1. x # m /\ life[x] = "active" /\ r \in DOMAIN change'
    BY <1>5 DEF PendingOf
  <2>2. r \in DOMAIN change
    BY <1>3, <2>1
  <2>3. r \in PendingOf(change) /\ RowKey(change, r) = <<x, Deleted>>
    BY <1>6, <2>2
  <2>4. PICK u \in PendingOf(change) : RowKey(change, u) = <<x, text[x]>> /\ r < u
    BY <1>7, <2>1, <2>3 DEF RemovalFirst
  <2>5. u \in DOMAIN change
    BY DEF PendingOf
  <2>6. QED BY <1>6, <2>4, <2>5
<1>11. OwnRow(change', text, life', vec, serving)
  BY <1>5, <1>6, <1>7 DEF OwnRow
<1>12. GoneRow(change', life', vec, dropping')
  BY <1>4, <1>5, <1>6, <1>7 DEF GoneRow
<1>13. ASSUME NEW j \in Indexer
       PROVE  Holds(work[j], change', text, life', vec, serving)
  <2>1. PICK w : w = work[j]
    OBVIOUS
  <2>2. Holds(w, change, text, life, vec, serving) /\ w \in Work /\ w.rows \subseteq DOMAIN change
    BY <2>1 DEF DurableInv, IndexInv, WorkType, Fits
  <2>3. Pass(w, change', serving)
    BY <1>3, <2>2, GrownPass DEF Holds
  <2>4. ReadSound(w, change', text, life')
    <3>1. \A e \in w.read : e.mem \in Memory
      BY <2>2 DEF Work, Entry
    <3>2. ASSUME w.phase \in {"put", "record"}, NEW e \in w.read, e.text # text[e.mem]
          PROVE  \E u \in PendingOf(change') \ w.rows :
                   RowKey(change', u) = <<e.mem, text[e.mem]>>
      <4>1. PICK u \in PendingOf(change) \ w.rows : RowKey(change, u) = <<e.mem, text[e.mem]>>
        BY <2>2, <3>2 DEF Holds, ReadSound
      <4>2. u \in DOMAIN change
        BY DEF PendingOf
      <4>3. QED BY <1>6, <4>1, <4>2
    <3>3. ASSUME w.phase = "put", NEW e \in w.read, life'[e.mem] \in {"retired", "deleted"}
          PROVE  Removable(e.mem, change')
      <4>1. CASE e.mem = m
        BY <1>4, <4>1
      <4>2. CASE e.mem # m
        BY <1>5, <1>6, <2>2, <3>1, <3>3, <4>2 DEF Holds, ReadSound
      <4>3. QED BY <4>1, <4>2
    <3>4. QED BY <2>2, <3>2, <3>3 DEF Holds, ReadSound
  <2>5. Delivered(w, change', text, life', vec, serving)
    <3>1. \A u \in w.rows : RowKey(change', u) = RowKey(change, u)
      BY <1>6, <2>2
    <3>2. QED BY <1>5, <2>2, <3>1 DEF Holds, Delivered
  <2>6. Removed(w, change', vec)
    BY <1>6, <2>2 DEF Holds, Removed
  <2>7. QED BY <2>1, <2>3, <2>4, <2>5, <2>6 DEF Holds
<1>14. /\ text' = text /\ vec' = vec /\ serving' = serving /\ recorded' = recorded
       /\ work' = work
  OBVIOUS
<1>15. QED BY <1>8, <1>9, <1>10, <1>11, <1>12, <1>13, <1>14 DEF DurableInv, StoreHolds

LEMMA DropDurable ==
  ASSUME Calm, IndexInv, DurableInv, NEW m \in Memory, DropVector(m)
  PROVE  DurableInv'
<1>1. /\ m \in dropping /\ dropping' = dropping \ {m} /\ vec' = [vec EXCEPT ![m] = NoVec]
      /\ text' = text /\ life' = life /\ recorded' = recorded /\ serving' = serving
      /\ change' = change /\ work' = work
  BY DEF DropVector, outboxVars
<1>2. StoreHolds(change, text, life, vec, serving, recorded, dropping)
  BY DEF DurableInv
<1>3. life[m] = "deleted"
  BY <1>1, <1>2 DEF StoreHolds, RowsKnown
<1>4. /\ vec'[m] = NoVec /\ \A x \in Memory : x # m => vec'[x] = vec[x]
  BY <1>1 DEF IndexInv, StoreType
<1>5. OwnRow(change, text, life, vec', serving)
  BY <1>2, <1>3, <1>4 DEF StoreHolds, OwnRow, ServedBy
<1>6. GoneRow(change, life, vec', dropping')
  BY <1>1, <1>2, <1>4 DEF StoreHolds, GoneRow
<1>7. StoreHolds(change, text, life, vec', serving, recorded, dropping')
  BY <1>1, <1>2, <1>5, <1>6 DEF StoreHolds, RowsKnown
<1>8. ASSUME NEW j \in Indexer
      PROVE  Holds(work[j], change, text, life, vec', serving)
  <2>1. PICK w : w = work[j]
    OBVIOUS
  <2>2. Holds(w, change, text, life, vec, serving) /\ w.rows \subseteq DOMAIN change
    BY <2>1 DEF DurableInv, IndexInv, WorkType, Fits
  <2>3. Delivered(w, change, text, life, vec', serving)
    BY <1>3, <1>4, <2>2 DEF Holds, Delivered, ServedBy
  <2>4. Removed(w, change, vec')
    <3>1. \A s \in w.rows : change[s].mem \in Memory
      BY <2>2, Numbers DEF Rows
    <3>2. QED BY <1>4, <2>2, <3>1 DEF Holds, Removed
  <2>5. QED BY <2>1, <2>2, <2>3, <2>4 DEF Holds
<1>9. QED BY <1>1, <1>7, <1>8 DEF DurableInv

LEMMA WriterDurable ==
  ASSUME Calm, IndexInv, DurableInv, NEW m \in Memory, Writer(m)
  PROVE  DurableInv'
<1>1. CASE \E t \in Text : Write(m, t)
  BY <1>1, WriteDurable
<1>2. CASE Retire(m)
  <2>1. life[m] = "active" /\ m \notin dropping
    BY <1>2 DEF Retire, DurableInv, StoreHolds, RowsKnown
  <2>2. /\ life' = [life EXCEPT ![m] = "retired"] /\ IndexRemove(m) /\ dropping' = dropping
        /\ UNCHANGED <<text, recorded, vec, serving, work>>
    BY <1>2 DEF Retire, Rest
  <2>3. QED BY <2>1, <2>2, GoneDurable
<1>3. CASE Reactivate(m)
  BY <1>3 DEF Reactivate, Calm, FreshMoves
<1>4. CASE Delete(m)
  <2>1. /\ life[m] \in {"active", "retired"} /\ dropping' = dropping \cup {m}
        /\ life' = [life EXCEPT ![m] = "deleted"] /\ IndexRemove(m)
        /\ UNCHANGED <<text, recorded, vec, serving, work>>
    BY <1>4 DEF Delete, Rest
  <2>2. QED BY <2>1, GoneDurable
<1>5. CASE DropVector(m)
  BY <1>5, DropDurable
<1>6. QED BY <1>1, <1>2, <1>3, <1>4, <1>5 DEF Writer

\* Nothing reindexes: the move is not there, and no pass is in its later phases.
LEMMA NoReindex ==
  ASSUME Calm, DurableInv, NEW i \in Indexer, Reindex(i)
  PROVE  FALSE
<1>1. work[i].phase \notin {"re_put", "re_switch"}
  BY DEF DurableInv, Holds, Pass
<1>2. "reindex" \notin Moves
  BY DEF Calm, FreshMoves
<1>3. QED BY <1>1, <1>2 DEF Reindex, ReindexStart, ReindexPut, ReindexRecord, ReindexSwitch

LEMMA DurableStep ==
  ASSUME Calm, IndexInv, DurableInv, [Next]_vars
  PROVE  DurableInv'
<1>1. CASE \E m \in Memory : Writer(m)
  BY <1>1, WriterDurable
<1>2. CASE \E i \in Indexer : Drain(i)
  BY <1>2, PullDurable, ReadDurable, PutDurable, RecordDurable, RemoveDurable, AckDurable
     DEF Drain
<1>3. CASE \E i \in Indexer : Fails(i) \/ Abandon(i)
  BY <1>3, FailsDurable, AbandonDurable
<1>4. CASE \E i \in Indexer : Reindex(i)
  BY <1>4, NoReindex
<1>5. CASE \E i \in Indexer, m \in Memory : IndexNew(i, m)
  BY <1>5, IndexNewDurable
<1>6. CASE UNCHANGED vars
  <2>1. /\ change' = change /\ text' = text /\ life' = life /\ vec' = vec /\ work' = work
        /\ serving' = serving /\ recorded' = recorded /\ dropping' = dropping
    BY <1>6 DEF vars, rowVars, outboxVars
  <2>2. QED BY <2>1 DEF DurableInv
<1>7. QED BY <1>1, <1>2, <1>3, <1>4, <1>5, <1>6 DEF Next

LEMMA DurableInit ==
  ASSUME Init
  PROVE  DurableInv
<1>1. /\ change = <<>> /\ text = [m \in Memory |-> 0] /\ life = [m \in Memory |-> "none"]
      /\ recorded = [m \in Memory |-> 0] /\ vec = [m \in Memory |-> NoVec] /\ dropping = {}
      /\ \A i \in Indexer : work[i] = Idle
  BY DEF Init
<1>2. PendingOf(change) = {} /\ DOMAIN change = {}
  BY <1>1 DEF PendingOf
<1>3. StoreHolds(change, text, life, vec, serving, recorded, dropping)
  BY <1>1, <1>2 DEF StoreHolds, RowsBehind, RowsKnown, RemovalFirst, OwnRow, GoneRow
<1>4. QED BY <1>1, <1>3, IdleHolds DEF DurableInv

\* One indexer, texts that never come back and no return from retirement, with any
\* number of memories, failures and passes that are cut short: an active memory that
\* recall cannot return has a pending row for its text, or a failed one
\* (write_then_index, index_changes_in, flush, ack_many).
LEMMA WorkIsDurable ==
  ASSUME Calm
  PROVE  Spec => []DurableWork
<1>1. Init => IndexInv /\ DurableInv
  BY IndexInit, DurableInit
<1>2. IndexInv /\ DurableInv /\ [Next]_vars => (IndexInv /\ DurableInv)'
  BY IndexStep, DurableStep
<1>3. IndexInv /\ DurableInv => DurableWork
  <2> SUFFICES ASSUME IndexInv, DurableInv, NEW m \in Memory, life[m] = "active",
                      serving > 0, ~ Served(m)
               PROVE  \E s \in DOMAIN change :
                        \/ change[s].mem = m /\ change[s].rev # Deleted /\ change[s].state = "pending"
                        \/ KeyOf(s) = <<m, text[m]>> /\ change[s].state = "failed"
    BY DEF DurableWork
  <2>1. ~ ServedBy(m, text, vec, serving)
    BY DEF Served, ServedBy
  <2>2. PICK u \in DOMAIN change : /\ RowKey(change, u) = <<m, text[m]>>
                                   /\ change[u].state \in {"pending", "failed"}
    BY <2>1 DEF DurableInv, StoreHolds, OwnRow
  <2>3. text[m] # Deleted
    BY DEF DurableInv, StoreHolds, RowsKnown, Deleted
  <2>4. QED BY <2>2, <2>3 DEF RowKey, KeyOf
<1>4. QED BY <1>1, <1>2, <1>3, PTL DEF Spec

\* In the same setting, a vector of a memory that is gone has removal work, pending or
\* failed, or the call that deleted the memory is about to drop it (set_lifecycle_in,
\* delete_memory, apply_remove, ack_many).
LEMMA RemovalIsDurable ==
  ASSUME Calm
  PROVE  Spec => []RemovalDurable
<1>1. Init => IndexInv /\ DurableInv
  BY IndexInit, DurableInit
<1>2. IndexInv /\ DurableInv /\ [Next]_vars => (IndexInv /\ DurableInv)'
  BY IndexStep, DurableStep
<1>3. DurableInv => RemovalDurable
  BY DEF DurableInv, StoreHolds, GoneRow, Removable, RowKey, KeyOf, RemovalDurable
<1>4. QED BY <1>1, <1>2, <1>3, PTL DEF Spec
-----------------------------------------------------------------------------
(* Recall.  The same setting, seen by whoever asks: one more fact orders the *)
(* vectors, a put never brings an older text than the vector it replaces.     *)
PutForward(w, vc) == w.phase = "put" => \A e \in w.read : vc[e.mem].rev <= e.text

ForwardInv ==
  /\ serving = FirstGen
  /\ \A m \in Memory : vec[m].rev <= text[m]
  /\ \A i \in Indexer : PutForward(work[i], vec)

\* The one indexer goes on with n.
LEMMA OneForward ==
  ASSUME Calm, IndexInv, ForwardInv, NEW i \in Indexer, NEW n,
         work' = [work EXCEPT ![i] = n], PutForward(n, vec'),
         \A m \in Memory : vec'[m].rev <= text[m],
         text' = text, serving' = serving
  PROVE  ForwardInv'
<1>1. \A j \in Indexer : work'[j] = n
  BY DEF Calm, OneIndexer, IndexInv, WorkType
<1>2. QED BY <1>1 DEF ForwardInv

\* The vectors stay and n is not about to put anything.
LEMMA KeepsForward ==
  ASSUME Calm, IndexInv, ForwardInv, NEW i \in Indexer, NEW n,
         work' = [work EXCEPT ![i] = n], n.phase # "put",
         vec' = vec, text' = text, serving' = serving
  PROVE  ForwardInv'
<1>1. PutForward(n, vec')
  BY DEF PutForward
<1>2. \A m \in Memory : vec'[m].rev <= text[m]
  BY DEF ForwardInv
<1>3. QED BY <1>1, <1>2, OneForward

\* What index_new_batch reads is the text a memory has, and no vector is ahead of that.
LEMMA ReadForward ==
  ASSUME Calm, IndexInv, ForwardInv, NEW i \in Indexer, Read(i)
  PROVE  ForwardInv'
<1>1. PICK w : w = work[i]
  OBVIOUS
<1>2. PICK S : S = {n \in Ids(w) : life[n] = "active"}
  OBVIOUS
<1>3. PICK read : read = IF serving = 0 THEN {} ELSE TextsOf(S)
  OBVIOUS
<1>4. /\ w.phase = "read"
      /\ work' = [work EXCEPT ![i] =
           IF read = {} THEN Advance(w)
           ELSE [w EXCEPT !.phase = "put", !.gen = serving, !.read = read]]
      /\ vec' = vec /\ text' = text /\ serving' = serving
  BY <1>1, <1>2, <1>3, Zenon DEF Read, TextsOf, rowVars
<1>5. Fits(w, DOMAIN change) /\ DOMAIN change \in SUBSET Nat /\ w \in Work
  BY <1>1 DEF IndexInv, WorkType, OutboxInv, OutboxType, Fits
<1>6. CASE read = {}
  <2>1. Advance(w).phase # "put"
    BY <1>4, <1>5, AdvanceFits DEF Stepped, IndexPhase, Idle
  <2>2. QED BY <1>4, <1>6, <2>1, KeepsForward
<1>7. CASE read # {}
  <2>1. read = TextsOf(S)
    BY <1>3, <1>7
  <2>2. Ids(w) \subseteq Memory
    BY <1>4, <1>5, IdsKnown DEF IndexInv, OutboxInv, IndexPhase
  <2>3. \A e \in read : e.mem \in Memory /\ e.text = text[e.mem]
    BY <1>2, <2>1, <2>2 DEF TextsOf
  <2>4. PICK n : n = [w EXCEPT !.phase = "put", !.gen = serving, !.read = read]
    OBVIOUS
  <2>5. n.read = read
    BY <1>5, <2>4 DEF Work
  <2>6. PutForward(n, vec')
    BY <1>4, <2>3, <2>5 DEF PutForward, ForwardInv
  <2>7. QED BY <1>4, <1>7, <2>4, <2>6, OneForward DEF ForwardInv
<1>8. QED BY <1>6, <1>7

\* A put leaves the text that was read, which is no newer than the memory's.
LEMMA PutIsForward ==
  ASSUME Calm, IndexInv, DurableInv, ForwardInv, NEW i \in Indexer, Put(i)
  PROVE  ForwardInv'
<1>1. PICK w : w = work[i]
  OBVIOUS
<1>2. /\ w.phase = "put"
      /\ vec' = [m \in Memory |->
           IF m \in ReadIds(w.read) THEN [gen |-> w.gen, rev |-> TextIn(w.read, m)] ELSE vec[m]]
      /\ work' = [work EXCEPT ![i] = [w EXCEPT !.phase = "record"]]
      /\ text' = text /\ serving' = serving
  BY <1>1 DEF Put, PutVectors, rowVars
<1>3. /\ w \in Work /\ \A e, f \in w.read : e.mem = f.mem => e = f
      /\ Holds(w, change, text, life, vec, serving)
  BY <1>1 DEF DurableInv, IndexInv, WorkType, Fits
<1>4. PICK n : n = [w EXCEPT !.phase = "record"]
  OBVIOUS
<1>5. n.phase # "put"
  BY <1>3, <1>4 DEF Work
<1>6. ASSUME NEW m \in Memory PROVE vec'[m].rev <= text[m]
  <2>1. CASE m \notin ReadIds(w.read)
    BY <1>2, <2>1 DEF ForwardInv
  <2>2. CASE m \in ReadIds(w.read)
    <3>1. PICK e \in w.read : e.mem = m /\ TextIn(w.read, m) = e.text
      BY <2>2, <1>3, EntryOf
    <3>2. vec'[m].rev = e.text
      BY <1>2, <2>2, <3>1
    <3>3. e.text <= text[m]
      BY <1>3, <3>1 DEF Holds, ReadSound
    <3>4. QED BY <3>2, <3>3
  <2>3. QED BY <2>1, <2>2
<1>7. PutForward(n, vec')
  BY <1>5 DEF PutForward
<1>8. QED BY <1>2, <1>4, <1>6, <1>7, OneForward

\* A removal leaves the least vector of all.
LEMMA RemoveForward ==
  ASSUME Calm, IndexInv, ForwardInv, NEW i \in Indexer, RemoveVector(i)
  PROVE  ForwardInv'
<1>1. PICK w : w = work[i]
  OBVIOUS
<1>2. /\ text' = text /\ serving' = serving /\ w \in Work
      /\ \A m \in Memory : vec'[m] = vec[m] \/ vec'[m] = NoVec
  BY <1>1 DEF RemoveVector, rowVars, IndexInv, WorkType
<1>3. \A m \in Memory : vec'[m].rev <= text[m]
  <2>1. \A m \in Memory : NoVec.rev <= text[m]
    BY Numbers DEF NoVec
  <2>2. QED BY <1>2, <2>1 DEF ForwardInv
<1>4. PICK n : /\ work' = [work EXCEPT ![i] = n]
               /\ \/ n = [w EXCEPT !.phase = "ack"]
                  \/ n = [w EXCEPT !.phase = "ack", !.failed = w.rows]
  BY <1>1 DEF RemoveVector
<1>5. n.phase # "put"
  BY <1>2, <1>4 DEF Work
<1>6. PutForward(n, vec')
  BY <1>5 DEF PutForward
<1>7. QED BY <1>2, <1>3, <1>4, <1>6, OneForward

\* A text only grows, and with it what a vector may hold.
LEMMA WriterForward ==
  ASSUME Calm, IndexInv, DurableInv, ForwardInv, NEW m \in Memory, Writer(m)
  PROVE  ForwardInv'
<1>1. work' = work /\ serving' = serving
  BY DEF Writer, Write, Retire, Reactivate, Delete, DropVector, Rest
<1>2. \A x \in Memory : vec'[x] = vec[x] \/ vec'[x] = NoVec
  BY DEF Writer, Write, Retire, Reactivate, Delete, DropVector, Rest, IndexInv, StoreType
<1>3. \A x \in Memory : text[x] \in Nat /\ text'[x] \in Nat /\ text[x] <= text'[x]
  <2>1. CASE \E t \in Text : Write(m, t)
    <3>1. PICK t \in Text : t > text[m] /\ t \in Nat /\ Write(m, t)
      BY <2>1, WriteRow
    <3>2. text' = [text EXCEPT ![m] = t] /\ DOMAIN text = Memory
      BY <3>1 DEF Write, IndexInv, StoreType, TextType
    <3>3. QED BY <3>1, <3>2, Numbers
  <2>2. CASE text' = text
    BY <2>2, Numbers
  <2>3. QED BY <2>1, <2>2 DEF Writer, Retire, Reactivate, Delete, DropVector
<1>4. \A x \in Memory : vec[x].rev \in Nat
  <2>1. \A x \in Memory : vec[x].rev \in Text \cup {0}
    BY DEF IndexInv, StoreType
  <2>2. QED BY <2>1, Numbers
<1>5. \A x \in Memory : vec'[x].rev <= text'[x]
  <2> SUFFICES ASSUME NEW x \in Memory PROVE vec'[x].rev <= text'[x]
    OBVIOUS
  <2>1. CASE vec'[x] = vec[x]
    <3>1. vec[x].rev <= text[x]
      BY DEF ForwardInv
    <3>2. QED BY <2>1, <3>1, <1>3, <1>4
  <2>2. CASE vec'[x] = NoVec
    BY <2>2, <1>3 DEF NoVec
  <2>3. QED BY <1>2, <2>1, <2>2
<1>6. ASSUME NEW i \in Indexer PROVE PutForward(work[i], vec')
  <2> SUFFICES ASSUME work[i].phase = "put", NEW e \in work[i].read
               PROVE  vec'[e.mem].rev <= e.text
    BY DEF PutForward
  <2>1. e \in Entry
    BY DEF IndexInv, WorkType, Work
  <2>2. e.mem \in Memory /\ e.text \in Nat
    BY <2>1, Numbers DEF Entry
  <2>3. vec[e.mem].rev <= e.text
    BY DEF ForwardInv, PutForward
  <2>4. QED BY <1>2, <2>2, <2>3 DEF NoVec
<1>7. QED BY <1>1, <1>5, <1>6 DEF ForwardInv

LEMMA ForwardStep ==
  ASSUME Calm, IndexInv, DurableInv, ForwardInv, [Next]_vars
  PROVE  ForwardInv'
<1>1. CASE \E m \in Memory : Writer(m)
  BY <1>1, WriterForward
<1>2. ASSUME NEW i \in Indexer, Pull(i) \/ Ack(i)
      PROVE  ForwardInv'
  <2>1. PICK todo \in SUBSET (DOMAIN change) : work' = [work EXCEPT ![i] = NextGroup(todo)]
    <3>1. CASE Pull(i)
      BY <3>1 DEF Pull, Pending
    <3>2. CASE Ack(i)
      BY <3>2 DEF Ack, IndexInv, WorkType, Fits
    <3>3. QED BY <1>2, <3>1, <3>2
  <2>2. NextGroup(todo).phase # "put"
    BY NextGroupTakes DEF Takes, IndexInv, OutboxInv
  <2>3. vec' = vec /\ text' = text /\ serving' = serving
    BY <1>2 DEF Pull, Ack, rowVars
  <2>4. QED BY <2>1, <2>2, <2>3, KeepsForward
<1>3. ASSUME NEW i \in Indexer, Record(i) \/ Fails(i) \/ Abandon(i)
      PROVE  ForwardInv'
  <2>1. /\ Fits(work[i], DOMAIN change) /\ DOMAIN change \in SUBSET Nat
        /\ vec' = vec /\ text' = text /\ serving' = serving
    BY <1>3 DEF IndexInv, WorkType, OutboxInv, OutboxType, Record, Fails, Abandon, rowVars
  <2>2. PICK n : work' = [work EXCEPT ![i] = n] /\ n.phase # "put"
    <3>1. CASE Record(i)
      <4>1. Advance(work[i]).phase # "put"
        BY <3>1, <2>1, AdvanceFits DEF Record, Stepped, IndexPhase, Idle
      <4>2. QED BY <3>1, <4>1 DEF Record
    <3>2. CASE Fails(i)
      <4>1. work[i].phase \in IndexPhase /\ work' = [work EXCEPT ![i] = Failing(work[i])]
        BY <3>2 DEF Fails, Failing, IndexPhase
      <4>2. Failing(work[i]).phase # "put"
        BY <2>1, <4>1, FailingFits DEF Retried, Idle
      <4>3. QED BY <4>1, <4>2
    <3>3. CASE Abandon(i)
      <4>1. Idle.phase # "put"
        BY DEF Idle
      <4>2. QED BY <3>3, <4>1 DEF Abandon
    <3>4. QED BY <1>3, <3>1, <3>2, <3>3
  <2>3. QED BY <2>1, <2>2, KeepsForward
<1>4. ASSUME NEW i \in Indexer, NEW m \in Memory, IndexNew(i, m)
      PROVE  ForwardInv'
  <2>1. PICK n : n = [Idle EXCEPT !.phase = "read", !.new = {m}]
    OBVIOUS
  <2>2. n.phase # "put"
    BY <2>1 DEF Idle
  <2>3. QED BY <1>4, <2>1, <2>2, KeepsForward DEF IndexNew, rowVars
<1>5. CASE \E i \in Indexer : Drain(i)
  BY <1>5, <1>2, <1>3, ReadForward, PutIsForward, RemoveForward DEF Drain
<1>6. CASE \E i \in Indexer : Reindex(i)
  BY <1>6, NoReindex
<1>7. CASE UNCHANGED vars
  BY <1>7 DEF vars, rowVars, ForwardInv, PutForward
<1>8. QED BY <1>1, <1>3, <1>4, <1>5, <1>6, <1>7 DEF Next

LEMMA ForwardInit ==
  ASSUME Init
  PROVE  ForwardInv
BY DEF Init, ForwardInv, PutForward, Idle, NoVec

-----------------------------------------------------------------------------
(* Each step as recall sees it: a step of Recall, or none.                   *)
RowOf(c, m, t, st) == \E s \in DOMAIN c : RowKey(c, s) = <<m, t>> /\ c[s].state = st

\* What the mapping shows of one memory.
LEMMA View ==
  /\ MapCurrent = [m \in Memory |-> IF life[m] = "active" THEN text[m] ELSE 0]
  /\ MapShown = [m \in Memory |-> IF /\ life[m] = "active" /\ serving > 0
                                     /\ ServedBy(m, text, vec, serving)
                                  THEN text[m] ELSE 0]
  /\ MapOwed = {m \in Memory : life[m] = "active" /\ RowOf(change, m, text[m], "pending")}
  /\ MapFailed = {m \in Memory : life[m] = "active" /\ RowOf(change, m, text[m], "failed")}
<1>1. MapCurrent = [m \in Memory |-> IF life[m] = "active" THEN text[m] ELSE 0]
  BY DEF MapCurrent
<1>2. \A m \in Memory :
        (IF Served(m) THEN vec[m].rev ELSE 0) =
        (IF life[m] = "active" /\ serving > 0 /\ ServedBy(m, text, vec, serving)
         THEN text[m] ELSE 0)
  BY DEF Served, ServedBy
<1>3. \A m \in Memory : \A st : TextRow(m, st) <=> life[m] = "active" /\ RowOf(change, m, text[m], st)
  BY DEF TextRow, RowOf, RowKey, KeyOf
<1>4. MapShown = [m \in Memory |-> IF life[m] = "active" /\ serving > 0 /\ ServedBy(m, text, vec, serving)
                                   THEN text[m] ELSE 0]
  BY <1>2 DEF MapShown
<1>5. QED BY <1>1, <1>3, <1>4 DEF MapOwed, MapFailed

LEMMA ViewNext ==
  /\ MapCurrent' = [m \in Memory |-> IF life'[m] = "active" THEN text'[m] ELSE 0]
  /\ MapShown' = [m \in Memory |-> IF /\ life'[m] = "active" /\ serving' > 0
                                      /\ ServedBy(m, text', vec', serving')
                                   THEN text'[m] ELSE 0]
  /\ MapOwed' = {m \in Memory : life'[m] = "active" /\ RowOf(change', m, text'[m], "pending")}
  /\ MapFailed' = {m \in Memory : life'[m] = "active" /\ RowOf(change', m, text'[m], "failed")}
<1>1. MapCurrent' = [m \in Memory |-> IF life'[m] = "active" THEN text'[m] ELSE 0]
  BY DEF MapCurrent
<1>2. \A m \in Memory :
        (IF Served(m)' THEN vec'[m].rev ELSE 0) =
        (IF life'[m] = "active" /\ serving' > 0 /\ ServedBy(m, text', vec', serving')
         THEN text'[m] ELSE 0)
  BY DEF Served, ServedBy
<1>3. \A m \in Memory : \A st :
        TextRow(m, st)' <=> life'[m] = "active" /\ RowOf(change', m, text'[m], st)
  BY DEF TextRow, RowOf, RowKey, KeyOf
<1>4. MapShown' = [m \in Memory |-> IF life'[m] = "active" /\ serving' > 0
                                       /\ ServedBy(m, text', vec', serving')
                                    THEN text'[m] ELSE 0]
  BY <1>2 DEF MapShown
<1>5. QED BY <1>1, <1>3, <1>4 DEF MapOwed, MapFailed

LEMMA ViewSame ==
  ASSUME change' = change, text' = text, life' = life, vec' = vec, serving' = serving
  PROVE  UNCHANGED R!rvars
BY View, ViewNext DEF R!rvars

\* put_multi: recall returns the memories whose text was read, and no other memory
\* changes for it.
LEMMA PutRecall ==
  ASSUME Calm, IndexInv, DurableInv, ForwardInv, NEW i \in Indexer, Put(i)
  PROVE  R!RNext \/ UNCHANGED R!rvars
<1>1. PICK w : w = work[i]
  OBVIOUS
<1>2. /\ w.phase = "put"
      /\ vec' = [m \in Memory |->
           IF m \in ReadIds(w.read) THEN [gen |-> w.gen, rev |-> TextIn(w.read, m)] ELSE vec[m]]
      /\ change' = change /\ text' = text /\ life' = life /\ serving' = serving
  BY <1>1 DEF Put, PutVectors, rowVars, outboxVars
<1>3. /\ w \in Work /\ \A e, f \in w.read : e.mem = f.mem => e = f
      /\ Holds(w, change, text, life, vec, serving) /\ PutForward(w, vec)
  BY <1>1 DEF DurableInv, IndexInv, WorkType, Fits, ForwardInv
<1>4. w.gen = serving
  BY <1>2, <1>3 DEF Holds, Pass
<1>5. /\ MapCurrent' = MapCurrent /\ MapOwed' = MapOwed /\ MapFailed' = MapFailed
  BY <1>2, View, ViewNext
<1>6. CASE ~ serving > 0
  <2>1. MapShown' = MapShown
    BY <1>2, <1>6, View, ViewNext
  <2>2. QED BY <1>5, <2>1 DEF R!rvars
<1>7. CASE serving > 0
  <2>1. PICK S : S = {m \in ReadIds(w.read) \cap Memory :
                        life[m] = "active" /\ TextIn(w.read, m) = text[m]}
    OBVIOUS
  <2>2. \A m \in S : MapCurrent[m] # 0
    BY <2>1, View DEF DurableInv, StoreHolds, RowsKnown
  <2>3. ASSUME NEW m \in Memory, life[m] = "active"
        PROVE  ServedBy(m, text, vec', serving) <=> m \in S \/ ServedBy(m, text, vec, serving)
    <3>1. CASE m \notin ReadIds(w.read)
      BY <3>1, <1>2, <2>1 DEF ServedBy
    <3>2. CASE m \in ReadIds(w.read)
      <4>1. PICK e \in w.read : e.mem = m /\ TextIn(w.read, m) = e.text
        BY <3>2, <1>3, EntryOf
      <4>2. vec'[m] = [gen |-> serving, rev |-> e.text]
        BY <3>2, <4>1, <1>2, <1>4
      <4>3. m \in S <=> e.text = text[m]
        BY <2>1, <2>3, <3>2, <4>1
      <4>4. ServedBy(m, text, vec', serving) <=> m \in S
        BY <4>2, <4>3 DEF ServedBy
      <4>5. ServedBy(m, text, vec, serving) => m \in S
        <5>1. vec[m].rev <= e.text /\ e.text <= text[m]
          BY <1>2, <1>3, <4>1 DEF PutForward, Holds, ReadSound
        <5>2. e.text \in Nat /\ text[m] \in Nat
          <6>1. e \in Entry
            BY <1>3 DEF Work
          <6>2. QED BY <6>1, Numbers DEF Entry
        <5>3. QED BY <4>3, <5>1, <5>2 DEF ServedBy
      <4>6. QED BY <4>4, <4>5
    <3>3. QED BY <3>1, <3>2
  <2>4. \A m \in Memory : MapShown'[m] = IF m \in S THEN MapCurrent[m] ELSE MapShown[m]
    <3>1. \A m \in S : life[m] = "active"
      BY <2>1
    <3>2. QED BY <1>2, <1>7, <2>3, <3>1, View, ViewNext
  <2>5. MapShown' = [m \in Memory |-> IF m \in S THEN MapCurrent[m] ELSE MapShown[m]]
    BY <2>4, ViewNext
  <2>6. S \in SUBSET Memory
    BY <2>1
  <2>7. FirstGen > 0
    BY <1>7 DEF ForwardInv
  <2>8. R!Index(S)
    BY <1>5, <2>2, <2>5, <2>7 DEF R!Index
  <2>9. QED BY <2>6, <2>8 DEF R!RNext
<1>8. QED BY <1>6, <1>7

\* apply_remove takes the vector of an active memory only while work on it is owed.
LEMMA RemoveRecall ==
  ASSUME Calm, IndexInv, DurableInv, NEW i \in Indexer, RemoveVector(i)
  PROVE  R!RNext \/ UNCHANGED R!rvars
<1>1. PICK w : w = work[i]
  OBVIOUS
<1>2. /\ w.phase = "remove"
      /\ change' = change /\ text' = text /\ life' = life /\ serving' = serving
  BY <1>1 DEF RemoveVector, rowVars, outboxVars
<1>3. /\ Fits(w, DOMAIN change)
      /\ Holds(w, change, text, life, vec, serving)
      /\ StoreHolds(change, text, life, vec, serving, recorded, dropping)
  BY <1>1 DEF DurableInv, IndexInv, WorkType
<1>4. PICK s \in w.rows : w.rows = {s} /\ ~ w.split /\ w.new = {}
  BY <1>2, <1>3 DEF Fits
<1>5. s \in PendingOf(change) /\ change[s].rev = Deleted
  BY <1>2, <1>3 DEF Holds, Pass
<1>6. CASE vec' = vec
  BY <1>2, <1>6, ViewSame
<1>7. CASE vec' = [m \in Memory |-> IF m \in Ids(w) THEN NoVec ELSE vec[m]]
  <2>1. Ids(w) = {change[s].mem}
    BY <1>4 DEF Ids
  <2>2. PICK S : S = {m \in Ids(w) \cap Memory : life[m] = "active"}
    OBVIOUS
  <2>3. ASSUME NEW m \in S PROVE m \in MapOwed
    <3>1. m \in Memory /\ life[m] = "active" /\ RowKey(change, s) = <<m, Deleted>>
      BY <1>5, <2>1, <2>2 DEF RowKey
    <3>2. PICK u \in PendingOf(change) : RowKey(change, u) = <<m, text[m]>>
      BY <1>3, <1>5, <3>1 DEF StoreHolds, RemovalFirst
    <3>3. QED BY <3>1, <3>2, View DEF RowOf, PendingOf
  <2>4. ASSUME NEW m \in Memory, life[m] = "active"
        PROVE  /\ m \in S => ~ ServedBy(m, text, vec', serving)
               /\ m \notin S => vec'[m] = vec[m]
    <3>1. text[m] # 0
      BY <1>3, <2>4 DEF StoreHolds, RowsKnown
    <3>2. QED BY <1>7, <2>2, <2>4, <3>1 DEF ServedBy, NoVec
  <2>5. \A m \in Memory : MapShown'[m] = IF m \in S THEN 0 ELSE MapShown[m]
    <3>1. \A m \in S : life[m] = "active"
      BY <2>2
    <3>2. \A m \in Memory : vec'[m] = vec[m] =>
            (ServedBy(m, text, vec', serving) <=> ServedBy(m, text, vec, serving))
      BY DEF ServedBy
    <3>3. QED BY <1>2, <2>4, <3>1, <3>2, View, ViewNext
  <2>6. MapShown' = [m \in Memory |-> IF m \in S THEN 0 ELSE MapShown[m]]
    BY <2>5, ViewNext
  <2>7. MapCurrent' = MapCurrent /\ MapOwed' = MapOwed /\ MapFailed' = MapFailed
    BY <1>2, View, ViewNext
  <2>8. R!Hide(S)
    BY <2>3, <2>6, <2>7 DEF R!Hide
  <2>9. S \in SUBSET Memory
    BY <2>2
  <2>10. QED BY <2>8, <2>9 DEF R!RNext
<1>8. QED BY <1>1, <1>6, <1>7 DEF RemoveVector

\* ack_many: the work on a memory's text is over, and recall returns the memory or
\* its row has failed.
LEMMA AckRecall ==
  ASSUME Calm, IndexInv, DurableInv, ForwardInv, NEW i \in Indexer, Ack(i)
  PROVE  R!RNext
<1>1. PICK w : w = work[i]
  OBVIOUS
<1>2. /\ w.phase = "ack"
      /\ text' = text /\ life' = life /\ vec' = vec /\ serving' = serving
  BY <1>1 DEF Ack, rowVars
<1>3. Holds(w, change, text, life, vec, serving)
  BY <1>1 DEF DurableInv
<1>4. /\ w.rows \subseteq PendingOf(change) /\ DOMAIN change' = DOMAIN change
      /\ \A s \in DOMAIN change \ w.rows : change'[s] = change[s]
      /\ \A s \in DOMAIN change :
           /\ RowKey(change', s) = RowKey(change, s)
           /\ s \in w.rows => change'[s].state = IF s \in w.failed THEN "failed" ELSE "completed"
      /\ PendingOf(change') = PendingOf(change) \ w.rows
  BY <1>1, AckRows
<1>5. PICK S : S = {m \in Memory : /\ life[m] = "active"
                                  /\ \E s \in w.rows : RowKey(change, s) = <<m, text[m]>>}
  OBVIOUS
<1>6. PICK F : F = {m \in S : \E s \in w.rows \cap w.failed : RowKey(change, s) = <<m, text[m]>>}
  OBVIOUS
<1>7. S \subseteq MapOwed
  BY <1>4, <1>5, View DEF RowOf, PendingOf
<1>8. ASSUME FirstGen > 0, NEW m \in S \ F
      PROVE  MapShown[m] = MapCurrent[m]
  <2>1. PICK s \in w.rows : RowKey(change, s) = <<m, text[m]>>
    BY <1>5
  <2>2. m \in Memory /\ life[m] = "active" /\ s \notin w.failed
    BY <1>5, <1>6, <2>1
  <2>3. Done(w, s) /\ serving > 0
    BY <1>2, <1>8 DEF Done, ForwardInv
  <2>4. ServedBy(m, text, vec, serving)
    BY <1>2, <1>3, <2>1, <2>2, <2>3 DEF Holds, Delivered
  <2>5. QED BY <2>2, <2>3, <2>4, View
<1>9. \A m \in Memory : life[m] = "active" =>
        (RowOf(change', m, text[m], "pending")
           <=> RowOf(change, m, text[m], "pending") /\ m \notin S)
  <2> SUFFICES ASSUME NEW m \in Memory, life[m] = "active"
               PROVE  RowOf(change', m, text[m], "pending")
                        <=> RowOf(change, m, text[m], "pending") /\ m \notin S
    OBVIOUS
  <2>1. ASSUME RowOf(change', m, text[m], "pending")
        PROVE  RowOf(change, m, text[m], "pending") /\ m \notin S
    <3>1. PICK s \in DOMAIN change' : /\ RowKey(change', s) = <<m, text[m]>>
                                     /\ change'[s].state = "pending"
      BY <2>1 DEF RowOf
    <3>2. s \in PendingOf(change) /\ s \notin w.rows
      BY <1>4, <3>1 DEF PendingOf
    <3>3. RowKey(change, s) = <<m, text[m]>> /\ s \in DOMAIN change
      BY <1>4, <3>1
    <3>4. \A u \in w.rows : RowKey(change, u) # <<m, text[m]>>
      BY <1>4, <3>2, <3>3, Numbers
    <3>5. QED BY <1>5, <3>2, <3>3, <3>4 DEF RowOf, PendingOf
  <2>2. ASSUME RowOf(change, m, text[m], "pending"), m \notin S
        PROVE  RowOf(change', m, text[m], "pending")
    <3>1. PICK s \in DOMAIN change : /\ RowKey(change, s) = <<m, text[m]>>
                                    /\ change[s].state = "pending"
      BY <2>2 DEF RowOf
    <3>2. s \notin w.rows
      BY <1>5, <2>2, <3>1
    <3>3. QED BY <1>4, <3>1, <3>2 DEF RowOf
  <2>3. QED BY <2>1, <2>2
<1>10. \A m \in Memory : life[m] = "active" =>
         (RowOf(change', m, text[m], "failed")
            <=> RowOf(change, m, text[m], "failed") \/ m \in F)
  <2> SUFFICES ASSUME NEW m \in Memory, life[m] = "active"
               PROVE  RowOf(change', m, text[m], "failed")
                        <=> RowOf(change, m, text[m], "failed") \/ m \in F
    OBVIOUS
  <2>1. ASSUME RowOf(change', m, text[m], "failed")
        PROVE  RowOf(change, m, text[m], "failed") \/ m \in F
    <3>1. PICK s \in DOMAIN change : /\ RowKey(change', s) = <<m, text[m]>>
                                    /\ change'[s].state = "failed"
      BY <1>4, <2>1 DEF RowOf
    <3>2. RowKey(change, s) = <<m, text[m]>>
      BY <1>4, <3>1
    <3>3. CASE s \in w.rows
      <4>1. s \in w.failed
        BY <1>4, <3>1, <3>3
      <4>2. QED BY <1>5, <1>6, <3>2, <3>3, <4>1
    <3>4. CASE s \notin w.rows
      BY <1>4, <3>1, <3>2, <3>4 DEF RowOf
    <3>5. QED BY <3>3, <3>4
  <2>2. ASSUME RowOf(change, m, text[m], "failed")
        PROVE  RowOf(change', m, text[m], "failed")
    <3>1. PICK s \in DOMAIN change : /\ RowKey(change, s) = <<m, text[m]>>
                                    /\ change[s].state = "failed"
      BY <2>2 DEF RowOf
    <3>2. s \notin w.rows
      BY <1>4, <3>1 DEF PendingOf
    <3>3. QED BY <1>4, <3>1, <3>2 DEF RowOf
  <2>3. ASSUME m \in F
        PROVE  RowOf(change', m, text[m], "failed")
    <3>1. PICK s \in w.rows \cap w.failed : RowKey(change, s) = <<m, text[m]>>
      BY <1>6, <2>3
    <3>2. s \in DOMAIN change
      BY <1>4 DEF PendingOf
    <3>3. QED BY <1>4, <3>1, <3>2 DEF RowOf
  <2>4. QED BY <2>1, <2>2, <2>3
<1>11. MapOwed' = MapOwed \ S
  BY <1>2, <1>9, View, ViewNext
<1>12. MapFailed' = MapFailed \cup F
  <2>1. \A m \in F : m \in Memory /\ life[m] = "active"
    BY <1>5, <1>6
  <2>2. QED BY <1>2, <1>10, <2>1, View, ViewNext
<1>13. MapCurrent' = MapCurrent /\ MapShown' = MapShown
  BY <1>2, View, ViewNext
<1>14. R!Settle(S, F)
  BY <1>7, <1>8, <1>11, <1>12, <1>13 DEF R!Settle
<1>15. S \in SUBSET Memory /\ F \in SUBSET S
  BY <1>5, <1>6
<1>16. QED BY <1>14, <1>15 DEF R!RNext

\* A writer of m leaves the rows of the other memories' texts as they are.
LEMMA OtherRows ==
  ASSUME NEW c, NEW d, Grown(c, d), NEW k,
         \A s \in DOMAIN d \ DOMAIN c : RowKey(d, s) = k,
         NEW x, NEW t, <<x, t>> # k, NEW st
  PROVE  RowOf(d, x, t, st) <=> RowOf(c, x, t, st)
<1>1. \A s \in DOMAIN c : RowKey(d, s) = RowKey(c, s) /\ d[s] = c[s] /\ s \in DOMAIN d
  BY GrownRows
<1>2. \A s \in DOMAIN d : RowKey(d, s) = <<x, t>> => s \in DOMAIN c
  OBVIOUS
<1>3. QED BY <1>1, <1>2 DEF RowOf

LEMMA WriteRecall ==
  ASSUME Calm, IndexInv, DurableInv, ForwardInv, NEW m \in Memory, NEW t \in Text, Write(m, t)
  PROVE  R!RNext
<1>1. /\ Grown(change, change') /\ t > text[m] /\ t \in Nat /\ text[m] \in Nat
      /\ \A s \in DOMAIN change' \ DOMAIN change : RowKey(change', s) = <<m, t>>
      /\ \E s \in PendingOf(change') \ DOMAIN change : RowKey(change', s) = <<m, t>>
  BY WriteRow, Numbers
<1>2. /\ vec' = vec /\ serving' = serving /\ text'[m] = t /\ life'[m] = "active"
      /\ \A x \in Memory : x # m => text'[x] = text[x] /\ life'[x] = life[x]
  BY DEF Write, Rest, IndexInv, StoreType, TextType
<1>3. ASSUME NEW x \in Memory, x # m, NEW st
      PROVE  RowOf(change', x, text[x], st) <=> RowOf(change, x, text[x], st)
  <2>1. <<x, text[x]>> # <<m, t>>
    BY <1>3
  <2>2. QED BY <1>1, <2>1, OtherRows
<1>4. RowOf(change', m, t, "pending")
  BY <1>1 DEF RowOf, PendingOf
<1>5. ~ RowOf(change', m, t, "failed")
  <2> SUFFICES ASSUME NEW s \in DOMAIN change', RowKey(change', s) = <<m, t>>,
                      change'[s].state = "failed"
               PROVE  FALSE
    BY DEF RowOf
  <2>1. CASE s \in DOMAIN change
    <3>1. change[s].mem = m /\ change[s].rev = t
      BY <2>1, <1>1, GrownRows DEF RowKey
    <3>2. t <= text[m]
      BY <2>1, <3>1 DEF DurableInv, StoreHolds, RowsBehind
    <3>3. QED BY <1>1, <3>2
  <2>2. CASE s \notin DOMAIN change
    <3>1. <<m, t>> \in Key /\ Enqueue(<<m, t>>)
      <4>1. recorded[m] # t
        BY <1>1, Numbers DEF DurableInv, StoreHolds, RowsKnown
      <4>2. QED BY <4>1 DEF Write, IndexUpsert, Key
    <3>2. PICK k \in Key : k = <<m, t>>
      BY <3>1
    <3>3. Enqueued(k)
      BY <3>1, <3>2, EnqueueGrows DEF IndexInv
    <3>4. change'[s].state = "pending"
      BY <2>2, <3>3, EnqueuedGrown
    <3>5. QED BY <3>4
  <2>3. QED BY <2>1, <2>2
<1>6. ~ ServedBy(m, text', vec', serving')
  <2>1. vec[m].rev <= text[m]
    BY DEF ForwardInv
  <2>2. vec[m].rev # t
    BY <1>1, <2>1
  <2>3. QED BY <1>2, <2>2 DEF ServedBy
<1>7. \A x \in Memory : x # m =>
        (ServedBy(x, text', vec', serving') <=> ServedBy(x, text, vec, serving))
  BY <1>2 DEF ServedBy
<1>8. MapCurrent' = [MapCurrent EXCEPT ![m] = t]
  BY <1>2, View, ViewNext
<1>9. MapShown' = [MapShown EXCEPT ![m] = 0]
  BY <1>2, <1>6, <1>7, View, ViewNext
<1>10. MapOwed' = MapOwed \cup {m}
  BY <1>2, <1>3, <1>4, View, ViewNext
<1>11. MapFailed' = MapFailed \ {m}
  BY <1>2, <1>3, <1>5, View, ViewNext
<1>12. t # MapCurrent[m]
  BY <1>1, View, Numbers
<1>13. R!Change(m, t)
  BY <1>8, <1>9, <1>10, <1>11, <1>12 DEF R!Change
<1>14. QED BY <1>13 DEF R!RNext

\* set_lifecycle_in to retired, and the publication of delete_memory.
LEMMA GoneRecall ==
  ASSUME Calm, IndexInv, DurableInv, NEW m \in Memory, NEW l \in {"retired", "deleted"},
         life' = [life EXCEPT ![m] = l], IndexRemove(m),
         UNCHANGED <<text, vec, serving>>
  PROVE  R!RNext \/ UNCHANGED R!rvars
<1>1. PICK k \in Key : k = <<m, Deleted>>
  BY DEF Key
<1>2. Enqueued(k)
  BY <1>1, EnqueueGrows DEF IndexRemove, IndexInv
<1>3. /\ Grown(change, change')
      /\ \A s \in DOMAIN change' \ DOMAIN change : RowKey(change', s) = <<m, Deleted>>
  BY <1>1, <1>2, EnqueuedGrown
<1>4. life'[m] = l /\ \A x \in Memory : x # m => life'[x] = life[x]
  BY DEF IndexInv, StoreType
<1>5. ASSUME NEW x \in Memory, x # m, NEW st
      PROVE  RowOf(change', x, text[x], st) <=> RowOf(change, x, text[x], st)
  <2>1. <<x, text[x]>> # <<m, Deleted>>
    BY <1>5
  <2>2. QED BY <1>3, <2>1, OtherRows
<1>6. MapCurrent' = [x \in Memory |-> IF x = m THEN 0 ELSE MapCurrent[x]]
  BY <1>4, View, ViewNext
<1>7. MapShown' = [x \in Memory |-> IF x = m THEN 0 ELSE MapShown[x]]
  BY <1>4, View, ViewNext
<1>8. MapOwed' = MapOwed \ {m} /\ MapFailed' = MapFailed \ {m}
  BY <1>4, <1>5, View, ViewNext
<1>9. CASE life[m] = "active"
  <2>1. MapCurrent[m] # 0
    BY <1>9, View DEF DurableInv, StoreHolds, RowsKnown
  <2>2. /\ MapCurrent' = [MapCurrent EXCEPT ![m] = 0]
        /\ MapShown' = [MapShown EXCEPT ![m] = 0]
    BY <1>6, <1>7, View
  <2>3. R!Withdraw(m)
    BY <1>8, <2>1, <2>2 DEF R!Withdraw
  <2>4. QED BY <2>3 DEF R!RNext
<1>10. CASE life[m] # "active"
  <2>1. MapCurrent' = MapCurrent /\ MapShown' = MapShown
    BY <1>6, <1>7, <1>10, View
  <2>2. MapOwed' = MapOwed /\ MapFailed' = MapFailed
    BY <1>8, <1>10, View
  <2>3. QED BY <2>1, <2>2 DEF R!rvars
<1>11. QED BY <1>9, <1>10

LEMMA WriterRecall ==
  ASSUME Calm, IndexInv, DurableInv, ForwardInv, NEW m \in Memory, Writer(m)
  PROVE  R!RNext \/ UNCHANGED R!rvars
<1>1. CASE \E t \in Text : Write(m, t)
  BY <1>1, WriteRecall
<1>2. CASE Retire(m)
  BY <1>2, GoneRecall DEF Retire, Rest
<1>3. CASE Reactivate(m)
  BY <1>3 DEF Reactivate, Calm, FreshMoves
<1>4. CASE Delete(m)
  BY <1>4, GoneRecall DEF Delete, Rest
<1>5. CASE DropVector(m)
  <2>1. /\ m \in dropping /\ vec' = [vec EXCEPT ![m] = NoVec]
        /\ text' = text /\ life' = life /\ serving' = serving /\ change' = change
    BY <1>5 DEF DropVector, outboxVars
  <2>2. life[m] = "deleted"
    BY <2>1 DEF DurableInv, StoreHolds, RowsKnown
  <2>3. \A x \in Memory : life[x] = "active" =>
          (ServedBy(x, text, vec', serving) <=> ServedBy(x, text, vec, serving))
    BY <2>1, <2>2 DEF ServedBy, IndexInv, StoreType
  <2>4. MapShown' = MapShown
    BY <2>1, <2>3, View, ViewNext
  <2>5. MapCurrent' = MapCurrent /\ MapOwed' = MapOwed /\ MapFailed' = MapFailed
    BY <2>1, View, ViewNext
  <2>6. QED BY <2>4, <2>5 DEF R!rvars
<1>6. QED BY <1>1, <1>2, <1>3, <1>4, <1>5 DEF Writer

\* The steps recall does not see.
LEMMA HiddenStep ==
  ASSUME NEW i \in Indexer,
         \/ Pull(i) \/ Read(i) \/ Record(i) \/ Fails(i) \/ Abandon(i)
         \/ \E m \in Memory : IndexNew(i, m)
  PROVE  UNCHANGED R!rvars
<1>1. change' = change /\ text' = text /\ life' = life /\ vec' = vec /\ serving' = serving
  BY DEF Pull, Read, Record, Fails, Abandon, IndexNew, rowVars, outboxVars
<1>2. QED BY <1>1, ViewSame

LEMMA RecallStep ==
  ASSUME Calm, IndexInv, DurableInv, ForwardInv, [Next]_vars
  PROVE  R!RNext \/ UNCHANGED R!rvars
<1>1. CASE \E m \in Memory : Writer(m)
  BY <1>1, WriterRecall
<1>2. CASE \E i \in Indexer : Drain(i)
  BY <1>2, PutRecall, RemoveRecall, AckRecall, HiddenStep DEF Drain
<1>3. CASE \E i \in Indexer : Fails(i) \/ Abandon(i) \/ \E m \in Memory : IndexNew(i, m)
  BY <1>3, HiddenStep
<1>4. CASE \E i \in Indexer : Reindex(i)
  BY <1>4, NoReindex
<1>5. CASE UNCHANGED vars
  BY <1>5, ViewSame DEF vars, rowVars, outboxVars
<1>6. QED BY <1>1, <1>2, <1>3, <1>4, <1>5 DEF Next

LEMMA RecallInit ==
  ASSUME Init
  PROVE  R!RInit
<1>1. /\ change = <<>> /\ life = [m \in Memory |-> "none"]
  BY DEF Init
<1>2. \A m \in Memory : life[m] # "active"
  BY <1>1
<1>3. /\ MapCurrent = [m \in Memory |-> 0] /\ MapShown = [m \in Memory |-> 0]
      /\ MapOwed = {} /\ MapFailed = {}
  BY <1>2, View
<1>4. QED BY <1>3 DEF R!RInit

\* With one indexer, texts that never come back and no return from retirement, the
\* index implements Recall: what a put, a removal or an acknowledgment does to what
\* recall returns is what the work that is owed allows (put_multi, apply_remove,
\* ack_many, write_then_index).
LEMMA ImplementsRecall ==
  ASSUME Calm
  PROVE  Spec => RefinesRecall
<1> DEFINE Inv == IndexInv /\ DurableInv /\ ForwardInv
<1>1. Init => Inv /\ R!RInit
  BY IndexInit, DurableInit, ForwardInit, RecallInit
<1>2. Inv /\ [Next]_vars => Inv'
  BY IndexStep, DurableStep, ForwardStep
<1>3. Inv /\ [Next]_vars => [R!RNext]_R!rvars
  BY RecallStep
<1> HIDE DEF Inv
<1>4. QED BY <1>1, <1>2, <1>3, PTL DEF Spec, RefinesRecall, R!RSpec

\* Recall's own steps keep its promise.
LEMMA RecallPromise ==
  ASSUME R!NoneForgotten, [R!RNext]_R!rvars
  PROVE  R!NoneForgotten'
<1> USE DEF R!NoneForgotten
<1>1. DOMAIN MapCurrent = Memory /\ DOMAIN MapShown = Memory
  BY DEF MapCurrent, MapShown
<1>2. CASE UNCHANGED R!rvars
  BY <1>2 DEF R!rvars
<1>3. ASSUME NEW m \in Memory, NEW t \in Text, R!Change(m, t)
      PROVE  R!NoneForgotten'
  BY <1>1, <1>3 DEF R!Change
<1>4. ASSUME NEW m \in Memory, R!Withdraw(m)
      PROVE  R!NoneForgotten'
  BY <1>1, <1>4 DEF R!Withdraw
<1>5. ASSUME NEW S \in SUBSET Memory, R!Index(S) \/ R!Hide(S)
      PROVE  R!NoneForgotten'
  BY <1>5 DEF R!Index, R!Hide
<1>6. ASSUME NEW S \in SUBSET Memory, NEW F \in SUBSET S, R!Settle(S, F)
      PROVE  R!NoneForgotten'
  BY <1>6 DEF R!Settle
<1>7. QED BY <1>2, <1>3, <1>4, <1>5, <1>6 DEF R!RNext

\* What the refinement is for: recall returns no text but the current one, and every
\* active memory is returned, owed or given up (vector_candidates, write_then_index).
LEMMA RecallForgetsNone ==
  ASSUME Calm
  PROVE  Spec => []R!NoneForgotten
<1>1. R!RInit => R!NoneForgotten
  BY DEF R!RInit, R!NoneForgotten
<1>2. R!RSpec => []R!NoneForgotten
  BY <1>1, RecallPromise, PTL DEF R!RSpec
<1>3. QED BY <1>2, ImplementsRecall, PTL DEF RefinesRecall
=============================================================================
