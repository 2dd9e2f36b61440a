---------------------------- MODULE ServiceProofs ----------------------------
(***************************************************************************)
(* Two services of a process.  The memory publisher, for every set of       *)
(* writes, queue and batch size: what it answers is true of the store.      *)
(* The provider chain, for every number of calls, routes and accounts and   *)
(* every limit: what its admission gate counts is what is there, and no     *)
(* call spends more than its budget.                                        *)
(***************************************************************************)
EXTENDS ProviderChain, Publisher, FiniteSetTheorems, SequenceTheorems,
        WellFoundedInduction, TLAPS

-----------------------------------------------------------------------------
(* The publisher.  A write is in the queue, in the batch, or neither, and at  *)
(* most once; the writes of the batch up to the answers have their result,   *)
(* those behind are not stored yet.                                          *)
WriterState == {"ready", "queued", "gone"} \cup Reply
PubType ==
  /\ writer \in [Writes -> WriterState]
  /\ queue \in Seq(Writes) /\ batch \in Seq(Writes) /\ committed \in Seq(Writes)
  /\ answer \in Seq(Reply) /\ Len(answer) <= Len(batch)
  /\ split \in BOOLEAN
Distinct(s) == \A i, j \in 1..Len(s) : s[i] = s[j] => i = j
Apart(s, t) == \A i \in 1..Len(s), j \in 1..Len(t) : s[i] # t[j]
Stored(w) == \E i \in 1..Len(committed) : committed[i] = w

Whole == ~ split => Len(answer) \in {0, Len(batch)}
OnceEach == /\ Distinct(queue) /\ Distinct(batch) /\ Distinct(committed)
            /\ Apart(queue, batch) /\ Apart(queue, committed)
Waits == /\ \A i \in 1..Len(queue) : writer[queue[i]] \in {"queued", "gone"}
         /\ \A i \in 1..Len(batch) : writer[batch[i]] \in {"queued", "gone"}
Answered ==
  /\ \A i \in 1..Len(answer) :
       /\ answer[i] \in {"ok", "abort", "panicked", "batch_error"}
       /\ answer[i] = "ok" => Stored(batch[i])
       /\ answer[i] = "abort" => ~ Stored(batch[i])
  /\ \A i \in 1..Len(batch) : i > Len(answer) => ~ Stored(batch[i])
Replied ==
  \A w \in Writes :
    /\ writer[w] = "ok" => Stored(w)
    /\ writer[w] \in {"abort", "stopped", "ready"} => ~ Stored(w)

PubInv == PubType /\ Whole /\ OnceEach /\ Waits /\ Answered /\ Replied

LEMMA Joined ==
  ASSUME NEW S, NEW s \in Seq(S), NEW t \in Seq(S)
  PROVE  /\ s \o t \in Seq(S) /\ Len(s \o t) = Len(s) + Len(t)
         /\ \A i \in 1..Len(s) : (s \o t)[i] = s[i]
         /\ \A i \in 1..Len(t) : /\ (s \o t)[Len(s) + i] = t[i]
                                 /\ Len(s) + i \in 1..(Len(s) + Len(t))
<1>1. /\ s \o t \in Seq(S) /\ Len(s \o t) = Len(s) + Len(t)
      /\ \A i \in 1..(Len(s) + Len(t)) :
           (s \o t)[i] = IF i <= Len(s) THEN s[i] ELSE t[i - Len(s)]
  BY ConcatProperties
<1>2. Len(s) \in Nat /\ Len(t) \in Nat
  OBVIOUS
<1>3. \A i \in 1..Len(s) : i \in 1..(Len(s) + Len(t)) /\ i <= Len(s)
  BY <1>2
<1>4. \A i \in 1..Len(t) : /\ Len(s) + i \in 1..(Len(s) + Len(t)) /\ ~ (Len(s) + i <= Len(s))
                           /\ (Len(s) + i) - Len(s) = i
  BY <1>2
<1>5. QED BY <1>1, <1>3, <1>4

LEMMA PubCases ==
  ASSUME PubNext, NEW G,
         Shutdown => G, Close => G, TakeBatch => G, End => G, Commit => G, Abort => G,
         BatchError => G, BatchPanics => G, AnswerAll => G,
         \A w \in Writes : Send(w) => G, \A w \in Writes : DropWaiter(w) => G
  PROVE  G
BY DEF PubNext, PublisherTask

LEMMA PubInitInv == PubInit => PubInv
<1> SUFFICES ASSUME PubInit PROVE PubInv
  OBVIOUS
<1>1. /\ queue = <<>> /\ batch = <<>> /\ answer = <<>> /\ committed = <<>>
      /\ split = FALSE
  BY DEF PubInit
<1>2. writer \in [Writes -> {"ready", "gone"}]
  BY DEF PubInit
<1>3. PubType
  <2>1. writer \in [Writes -> WriterState]
    BY <1>2 DEF WriterState
  <2>2. <<>> \in Seq(Writes) /\ <<>> \in Seq(Reply) /\ Len(<<>>) = 0
    OBVIOUS
  <2>3. split \in BOOLEAN
    BY <1>1
  <2>4. Len(answer) <= Len(batch)
    BY <1>1
  <2>5. QED BY <1>1, <2>1, <2>2, <2>3, <2>4 DEF PubType
<1>4. Whole /\ OnceEach /\ Waits /\ Answered
  BY <1>1 DEF Whole, OnceEach, Distinct, Apart, Waits, Answered
<1>5. Replied
  BY <1>1, <1>2 DEF Replied, Stored
<1>6. QED BY <1>3, <1>4, <1>5 DEF PubInv

LEMMA QuietInv ==
  ASSUME PubInv, UNCHANGED <<writer, queue, batch, split, answer, committed>>
  PROVE  PubInv'
BY DEF PubInv, PubType, Whole, OnceEach, Distinct, Apart, Waits, Answered, Replied, Stored

LEMMA SendInv ==
  ASSUME PubInv, NEW w \in Writes, Send(w) PROVE PubInv'
<1>1. CASE UNCHANGED queue
  <2>1. /\ writer' = [writer EXCEPT ![w] = "stopped"] /\ writer[w] = "ready"
        /\ UNCHANGED <<queue, batch, split, answer, committed>>
    BY <1>1 DEF Send, PubInv, PubType
  <2>2. PubType' /\ Whole' /\ OnceEach'
    BY <2>1 DEF PubInv, PubType, Whole, OnceEach, Distinct, Apart, WriterState, Reply
  <2>3. Waits'
    BY <2>1 DEF PubInv, PubType, Waits
  <2>4. Answered' /\ Replied'
    BY <2>1 DEF PubInv, PubType, Answered, Replied, Stored
  <2>5. QED BY <2>2, <2>3, <2>4 DEF PubInv
<1>2. CASE queue' = Append(queue, w)
  <2>1. /\ writer' = [writer EXCEPT ![w] = "queued"] /\ writer[w] = "ready"
        /\ UNCHANGED <<batch, split, answer, committed>>
    BY <1>2 DEF Send, PubInv, PubType
  <2>2. /\ Len(queue') = Len(queue) + 1 /\ queue'[Len(queue) + 1] = w
        /\ \A i \in 1..Len(queue) : queue'[i] = queue[i]
        /\ queue' \in Seq(Writes) /\ Len(queue) \in Nat
    BY <1>2 DEF PubInv, PubType
  <2>3. \A i \in 1..Len(queue) : queue[i] # w
    BY <2>1 DEF PubInv, Waits
  <2>4. \A i \in 1..Len(batch) : batch[i] # w
    BY <2>1 DEF PubInv, Waits
  <2>5. ~ Stored(w)
    BY <2>1 DEF PubInv, Replied
  <2>6. PubType'
    BY <2>1, <2>2 DEF PubInv, PubType, WriterState
  <2>7. \A i \in 1..Len(queue') : i \in 1..Len(queue) \/ i = Len(queue) + 1
    BY <2>2
  <2>8. OnceEach'
    <3>1. Distinct(queue')
      BY <2>2, <2>3, <2>7 DEF PubInv, OnceEach, Distinct
    <3>2. Apart(queue', batch)
      BY <2>2, <2>4, <2>7 DEF PubInv, OnceEach, Apart
    <3>3. Apart(queue', committed)
      BY <2>2, <2>5, <2>7 DEF PubInv, OnceEach, Apart, Stored
    <3>4. QED BY <3>1, <3>2, <3>3, <2>1 DEF PubInv, OnceEach
  <2>9. Waits'
    <3>1. writer'[w] = "queued" /\ \A v \in Writes : v # w => writer'[v] = writer[v]
      BY <2>1 DEF PubInv, PubType
    <3>2. (\A i \in 1..Len(queue) : queue[i] \in Writes) /\ (\A i \in 1..Len(batch) : batch[i] \in Writes)
      BY DEF PubInv, PubType
    <3>3. QED BY <3>1, <3>2, <2>1, <2>2, <2>7 DEF PubInv, Waits
  <2>10. Whole' /\ Answered' /\ Replied'
    BY <2>1 DEF PubInv, PubType, Whole, Answered, Replied, Stored
  <2>11. QED BY <2>6, <2>8, <2>9, <2>10 DEF PubInv
<1>3. QED BY <1>1, <1>2 DEF Send

LEMMA DropInv ==
  ASSUME PubInv, NEW w \in Writes, DropWaiter(w) PROVE PubInv'
<1>1. /\ writer' = [writer EXCEPT ![w] = "gone"]
      /\ UNCHANGED <<queue, batch, split, answer, committed>>
  BY DEF DropWaiter
<1>2. PubType' /\ Whole' /\ OnceEach'
  BY <1>1 DEF PubInv, PubType, Whole, OnceEach, Distinct, Apart, WriterState
<1>3. Waits'
  BY <1>1 DEF PubInv, PubType, Waits
<1>4. Answered' /\ Replied'
  BY <1>1 DEF PubInv, PubType, Answered, Replied, Stored
<1>5. QED BY <1>2, <1>3, <1>4 DEF PubInv

LEMMA TakeInv ==
  ASSUME PubInv, TakeBatch PROVE PubInv'
<1>0. BatchCap \in Nat \ {0}
  BY PublisherShape
<1>1. PICK n \in Nat : n = IF Len(queue) < BatchCap THEN Len(queue) ELSE BatchCap
  BY <1>0 DEF PubInv, PubType
<1>2. /\ batch = <<>> /\ batch' = SubSeq(queue, 1, n) /\ queue' = SubSeq(queue, n + 1, Len(queue))
      /\ UNCHANGED <<writer, split, answer, committed>>
  BY <1>1 DEF TakeBatch
<1>3. queue \in Seq(Writes) /\ Len(queue) \in Nat /\ n <= Len(queue)
  BY <1>0, <1>1 DEF PubInv, PubType
<1>4. /\ batch' \in Seq(Writes) /\ Len(batch') = n
      /\ \A i \in 1..n : batch'[i] = queue[i]
  BY <1>2, <1>3
<1>5. /\ queue' \in Seq(Writes) /\ Len(queue') = Len(queue) - n
      /\ \A i \in 1..Len(queue') : queue'[i] = queue[n + i] /\ n + i \in 1..Len(queue) /\ n + i > n
  BY <1>2, <1>3
<1>6. \A i \in 1..n : i \in 1..Len(queue)
  BY <1>3
<1>7. answer = <<>> /\ Len(answer) = 0
  BY <1>2 DEF PubInv, PubType
<1>8. PubType' /\ Whole'
  BY <1>2, <1>4, <1>5, <1>7 DEF PubInv, PubType, Whole
<1>9. OnceEach'
  <2>1. Distinct(queue')
    <3>1. SUFFICES ASSUME NEW i \in 1..Len(queue'), NEW j \in 1..Len(queue'),
                          queue'[i] = queue'[j]
                   PROVE  i = j
      BY DEF Distinct
    <3>2. /\ n + i \in 1..Len(queue) /\ n + j \in 1..Len(queue)
          /\ queue[n + i] = queue[n + j]
      BY <1>5, <3>1
    <3>3. n + i = n + j
      BY <3>2 DEF PubInv, OnceEach, Distinct
    <3>4. QED BY <3>3, <1>3
  <2>2. Distinct(batch')
    BY <1>4, <1>6 DEF PubInv, OnceEach, Distinct
  <2>3. Apart(queue', batch')
    BY <1>4, <1>5, <1>6 DEF PubInv, OnceEach, Distinct, Apart
  <2>4. Apart(queue', committed)
    BY <1>5 DEF PubInv, OnceEach, Apart
  <2>5. QED BY <2>1, <2>2, <2>3, <2>4, <1>2 DEF PubInv, OnceEach
<1>10. Waits'
  BY <1>2, <1>4, <1>5, <1>6 DEF PubInv, Waits
<1>11. Answered'
  <2>1. \A i \in 1..n : ~ Stored(batch'[i])
    BY <1>4, <1>6 DEF PubInv, OnceEach, Apart, Stored
  <2>2. \A i \in 1..n : ~ \E j \in 1..Len(committed') : committed'[j] = batch'[i]
    BY <2>1, <1>2 DEF Stored
  <2>3. Len(answer') = 0 /\ Len(batch') = n
    BY <1>2, <1>4, <1>7
  <2>4. QED BY <2>2, <2>3 DEF Answered, Stored
<1>12. Replied'
  BY <1>2 DEF PubInv, Replied, Stored
<1>13. QED BY <1>8, <1>9, <1>10, <1>11, <1>12 DEF PubInv

\* The next transaction is the block of the batch behind the answers.
Block(n, k) ==
  /\ n = Len(answer) /\ n \in Nat /\ k \in Nat \ {0} /\ k = Len(Current)
  /\ n + k <= Len(batch) /\ Current \in Seq(Writes)
  /\ \A i \in 1..k : Current[i] = batch[n + i] /\ n + i \in 1..Len(batch) /\ n + i > n
  /\ ~ split => n + k = Len(batch)
LEMMA CurrentBlock ==
  ASSUME PubInv, Len(answer) < Len(batch)
  PROVE  \E n, k \in Nat : Block(n, k)
<1>1. PICK n \in Nat : n = Len(answer)
  BY DEF PubInv, PubType
<1>2. Len(batch) \in Nat /\ n < Len(batch) /\ batch \in Seq(Writes)
  BY <1>1 DEF PubInv, PubType
<1>3. CASE split
  <2>1. Current = <<batch[n + 1]>> /\ n + 1 \in 1..Len(batch)
    BY <1>1, <1>2, <1>3 DEF Current
  <2>2. batch[n + 1] \in Writes
    BY <1>2, <2>1
  <2>3. Len(Current) = 1 /\ Current \in Seq(Writes) /\ Current[1] = batch[n + 1]
    BY <2>1, <2>2
  <2>4. Block(n, 1)
    BY <1>1, <1>2, <1>3, <2>1, <2>3 DEF Block
  <2>5. QED BY <2>4
<1>4. CASE ~ split
  <2>1. n = 0 /\ Current = batch
    BY <1>1, <1>2, <1>4 DEF PubInv, Whole, Current
  <2>2. Block(0, Len(batch))
    BY <1>1, <1>2, <1>4, <2>1 DEF Block
  <2>3. QED BY <2>2, <1>2
<1>5. QED BY <1>3, <1>4 DEF PubInv, PubType

\* The answers grow by the result of the block, the same for each of its writes.
Grown(a, n, k, r) ==
  /\ a \in Seq(Reply) /\ Len(a) = n + k
  /\ \A i \in 1..n : a[i] = answer[i]
  /\ \A i \in 1..Len(a) : i \in 1..n \/ (i > n /\ i \in 1..(n + k) /\ a[i] = r)
LEMMA Answers ==
  ASSUME PubInv, NEW n \in Nat, NEW k \in Nat, Block(n, k), NEW r \in Reply
  PROVE  Grown(answer \o Results(r), n, k, r)
<1>0. PICK a : a = answer \o Results(r)
  OBVIOUS
<1>1. Results(r) = [i \in 1..k |-> r]
  BY DEF Results, Block
<1>2. Results(r) \in Seq(Reply) /\ Len(Results(r)) = k
  BY <1>1
<1>3. answer \in Seq(Reply) /\ Len(answer) = n
  BY DEF PubInv, PubType, Block
<1>4. a \in Seq(Reply) /\ Len(a) = n + k
  BY <1>0, <1>2, <1>3, Joined
<1>5. \A i \in 1..n : a[i] = answer[i]
  BY <1>0, <1>2, <1>3, Joined
<1>6. \A i \in (n + 1)..(n + k) : a[i] = r
  <2> TAKE i \in (n + 1)..(n + k)
  <2>1. i - n \in 1..k /\ n + (i - n) = i
    OBVIOUS
  <2>2. a[n + (i - n)] = Results(r)[i - n]
    BY <1>0, <2>1, <1>2, <1>3, Joined
  <2>3. QED BY <1>1, <2>1, <2>2
<1>7. \A i \in 1..Len(a) : i \in 1..n \/ (i > n /\ i \in 1..(n + k) /\ a[i] = r)
  BY <1>4, <1>6
<1>8. QED BY <1>0, <1>4, <1>5, <1>7 DEF Grown

\* The block is stored.
LEMMA BlockStored ==
  ASSUME PubInv, NEW n \in Nat, NEW k \in Nat, Block(n, k),
         committed' = committed \o Current, UNCHANGED <<writer, queue, batch>>
  PROVE  /\ committed' \in Seq(Writes) /\ OnceEach' /\ Replied'
         /\ \A i \in 1..k : Stored(batch[n + i])'
         /\ \A w \in Writes : Stored(w) => Stored(w)'
         /\ \A w \in Writes : Stored(w)' => Stored(w) \/ \E i \in 1..k : w = batch[n + i]
<1>1. PICK m \in Nat : m = Len(committed)
  BY DEF PubInv, PubType
<1>2. /\ committed \in Seq(Writes) /\ Current \in Seq(Writes) /\ Len(Current) = k
      /\ queue \in Seq(Writes) /\ batch \in Seq(Writes)
  BY DEF PubInv, PubType, Block
<1>3. /\ committed' \in Seq(Writes) /\ Len(committed') = m + k
      /\ \A i \in 1..m : committed'[i] = committed[i]
  BY <1>1, <1>2, Joined
<1>4. \A i \in 1..k : committed'[m + i] = Current[i] /\ m + i \in 1..(m + k)
  BY <1>1, <1>2, Joined
<1>5. \A i \in 1..k : /\ committed'[m + i] = batch[n + i] /\ n + i \in 1..Len(batch)
                      /\ ~ Stored(batch[n + i]) /\ batch[n + i] \in Writes
  <2>1. \A i \in 1..k : Current[i] = batch[n + i] /\ n + i \in 1..Len(batch) /\ n + i > Len(answer)
    BY DEF Block
  <2>2. \A i \in 1..Len(batch) : batch[i] \in Writes /\ (i > Len(answer) => ~ Stored(batch[i]))
    BY <1>2 DEF PubInv, Answered
  <2>3. QED BY <1>4, <2>1, <2>2
<1>6. \A i \in 1..(m + k) : i \in 1..m \/ (i - m \in 1..k /\ i = m + (i - m))
  OBVIOUS
<1>7. \A i \in 1..(m + k) :
        \/ i \in 1..m /\ committed'[i] = committed[i]
        \/ \E j \in 1..k : i = m + j /\ committed'[i] = batch[n + j]
  BY <1>3, <1>5, <1>6
<1>8. \A w \in Writes : Stored(w)' => Stored(w) \/ \E i \in 1..k : w = batch[n + i]
  BY <1>1, <1>3, <1>7 DEF Stored
<1>9. \A w \in Writes : Stored(w) => Stored(w)'
  <2> SUFFICES ASSUME NEW w \in Writes, Stored(w) PROVE Stored(w)'
    OBVIOUS
  <2>1. PICK i \in 1..m : committed[i] = w
    BY <1>1 DEF Stored
  <2>2. i \in 1..(m + k) /\ committed'[i] = w
    BY <2>1, <1>3
  <2>3. QED BY <2>2, <1>3 DEF Stored
<1>10. \A i \in 1..k : Stored(batch[n + i])'
  BY <1>3, <1>4, <1>5 DEF Stored
<1>11. OnceEach'
  <2>1. Distinct(committed')
    <3> SUFFICES ASSUME NEW i \in 1..(m + k), NEW j \in 1..(m + k), committed'[i] = committed'[j]
                 PROVE  i = j
      BY <1>3 DEF Distinct
    <3>1. CASE i \in 1..m /\ j \in 1..m
      BY <3>1, <1>1, <1>3 DEF PubInv, OnceEach, Distinct
    <3>2. CASE i \in 1..m /\ j \notin 1..m
      <4>1. PICK q \in 1..k : committed'[j] = batch[n + q]
        BY <3>2, <1>7
      <4>2. Stored(committed[i]) /\ committed[i] = batch[n + q]
        BY <3>2, <4>1, <1>1, <1>3 DEF Stored
      <4>3. QED BY <4>1, <4>2, <1>5
    <3>3. CASE i \notin 1..m /\ j \in 1..m
      <4>1. PICK q \in 1..k : committed'[i] = batch[n + q]
        BY <3>3, <1>7
      <4>2. Stored(committed[j]) /\ committed[j] = batch[n + q]
        BY <3>3, <4>1, <1>1, <1>3 DEF Stored
      <4>3. QED BY <4>1, <4>2, <1>5
    <3>4. CASE i \notin 1..m /\ j \notin 1..m
      <4>1. PICK p \in 1..k : i = m + p /\ committed'[i] = batch[n + p]
        BY <3>4, <1>7
      <4>2. PICK q \in 1..k : j = m + q /\ committed'[j] = batch[n + q]
        BY <3>4, <1>7
      <4>3. n + p \in 1..Len(batch) /\ n + q \in 1..Len(batch) /\ batch[n + p] = batch[n + q]
        BY <4>1, <4>2, <1>5
      <4>4. n + p = n + q
        BY <4>3 DEF PubInv, OnceEach, Distinct
      <4>5. QED BY <4>1, <4>2, <4>4
    <3>5. QED BY <3>1, <3>2, <3>3, <3>4
  <2>2. Apart(queue, committed')
    <3> SUFFICES ASSUME NEW i \in 1..Len(queue), NEW j \in 1..(m + k), queue[i] = committed'[j]
                 PROVE  FALSE
      BY <1>3 DEF Apart
    <3>1. CASE j \in 1..m
      BY <3>1, <1>1, <1>3 DEF PubInv, OnceEach, Apart
    <3>2. CASE j \notin 1..m
      BY <3>2, <1>5, <1>7 DEF PubInv, OnceEach, Apart
    <3>3. QED BY <3>1, <3>2
  <2>3. QED BY <2>1, <2>2 DEF PubInv, OnceEach
<1>12. Replied'
  <2>1. \A i \in 1..k : writer[batch[n + i]] \in {"queued", "gone"}
    BY <1>5 DEF PubInv, Waits
  <2>2. \A w \in Writes : writer[w] \in {"abort", "stopped", "ready"} => ~ Stored(w)'
    BY <1>8, <2>1 DEF PubInv, Replied
  <2>3. \A w \in Writes : writer[w] = "ok" => Stored(w)'
    BY <1>9 DEF PubInv, Replied
  <2>4. QED BY <2>2, <2>3 DEF PubInv, Replied
<1>13. QED BY <1>3, <1>8, <1>9, <1>10, <1>11, <1>12

\* The block is answered, as it was stored or was not.
LEMMA BlockAnswered ==
  ASSUME PubInv, NEW n \in Nat, NEW k \in Nat, Block(n, k), NEW r \in Reply,
         answer' = answer \o Results(r), UNCHANGED <<writer, queue, batch, split>>,
         \/ UNCHANGED committed /\ r \in {"abort", "batch_error"}
         \/ committed' = committed \o Current /\ r \in {"ok", "batch_error"}
  PROVE  PubInv'
<1>1. /\ answer' \in Seq(Reply) /\ Len(answer') = n + k
      /\ \A i \in 1..n : answer'[i] = answer[i]
      /\ \A i \in 1..Len(answer') : i \in 1..n \/ (i > n /\ i \in 1..(n + k) /\ answer'[i] = r)
  <2>1. PICK a : a = answer \o Results(r)
    OBVIOUS
  <2>2. /\ a \in Seq(Reply) /\ Len(a) = n + k
        /\ \A i \in 1..n : a[i] = answer[i]
        /\ \A i \in 1..Len(a) : i \in 1..n \/ (i > n /\ i \in 1..(n + k) /\ a[i] = r)
    BY <2>1, Answers DEF Grown
  <2>3. QED BY <2>1, <2>2
<1>2. /\ n = Len(answer) /\ n + k <= Len(batch) /\ (~ split => n + k = Len(batch))
      /\ \A i \in 1..k : n + i \in 1..Len(batch) /\ n + i > n
      /\ Len(batch) \in Nat /\ \A i \in 1..Len(batch) : batch[i] \in Writes
  BY DEF Block, PubInv, PubType
<1>3. \A i \in 1..(n + k) : i > n => i - n \in 1..k /\ i = n + (i - n)
  OBVIOUS
<1>4. /\ committed' \in Seq(Writes) /\ OnceEach' /\ Replied'
      /\ \A w \in Writes : Stored(w) => Stored(w)'
      /\ \A w \in Writes : Stored(w)' => Stored(w) \/ \E i \in 1..k : w = batch[n + i]
      /\ r = "ok" => \A i \in 1..k : Stored(batch[n + i])'
      /\ r = "abort" => UNCHANGED committed
  <2>1. CASE UNCHANGED committed /\ r \in {"abort", "batch_error"}
    <3>1. /\ committed' \in Seq(Writes)
          /\ \A w \in Writes : Stored(w)' <=> Stored(w)
      BY <2>1 DEF PubInv, PubType, Stored
    <3>2. OnceEach' /\ Replied'
      BY <2>1, <3>1 DEF PubInv, OnceEach, Distinct, Apart, Replied, Stored
    <3>3. r = "ok" => FALSE
      BY <2>1
    <3>4. \A w \in Writes : Stored(w)' => Stored(w) \/ \E i \in 1..k : w = batch[n + i]
      BY <3>1
    <3>5. QED BY <2>1, <3>1, <3>2, <3>3, <3>4
  <2>2. CASE committed' = committed \o Current /\ r \in {"ok", "batch_error"}
    BY <2>2, BlockStored
  <2>3. QED BY <2>1, <2>2
<1>5. PubType' /\ Whole' /\ Waits'
  <2>1. PubType'
    BY <1>1, <1>2, <1>4 DEF PubInv, PubType
  <2>2. Whole' /\ Waits'
    BY <1>1, <1>2 DEF PubInv, Whole, Waits
  <2>3. QED BY <2>1, <2>2
<1>6. \A i \in 1..Len(batch) : i > n + k => ~ Stored(batch[i])'
  <2> SUFFICES ASSUME NEW i \in 1..Len(batch), i > n + k, Stored(batch[i])' PROVE FALSE
    OBVIOUS
  <2>1. i > Len(answer) /\ batch[i] \in Writes
    BY <1>2
  <2>2. ~ Stored(batch[i])
    BY <2>1 DEF PubInv, Answered
  <2>3. PICK j \in 1..k : batch[i] = batch[n + j]
    BY <1>4, <2>1, <2>2
  <2>4. i = n + j
    BY <1>2, <2>3 DEF PubInv, OnceEach, Distinct
  <2>5. QED BY <2>3, <2>4
<1>7. \A i \in 1..Len(answer') :
        /\ answer'[i] \in {"ok", "abort", "panicked", "batch_error"}
        /\ answer'[i] = "ok" => Stored(batch[i])'
        /\ answer'[i] = "abort" => ~ Stored(batch[i])'
  <2> TAKE i \in 1..Len(answer')
  <2>0. i \in 1..Len(batch) /\ batch[i] \in Writes
    BY <1>1, <1>2
  <2>1. CASE i \in 1..n
    <3>1. /\ answer'[i] = answer[i] /\ answer[i] \in {"ok", "abort", "panicked", "batch_error"}
          /\ answer[i] = "ok" => Stored(batch[i])
          /\ answer[i] = "abort" => ~ Stored(batch[i])
      BY <2>1, <1>1, <1>2 DEF PubInv, Answered
    <3>2. answer[i] = "abort" => ~ Stored(batch[i])'
      <4> SUFFICES ASSUME answer[i] = "abort", Stored(batch[i])' PROVE FALSE
        OBVIOUS
      <4>1. PICK j \in 1..k : batch[i] = batch[n + j]
        BY <2>0, <3>1, <1>4
      <4>2. i = n + j
        BY <2>0, <4>1, <1>2 DEF PubInv, OnceEach, Distinct
      <4>3. QED BY <2>1, <4>2
    <3>3. QED BY <2>0, <3>1, <3>2, <1>4
  <2>2. CASE i \notin 1..n
    <3>1. i > n /\ i \in 1..(n + k) /\ answer'[i] = r
      BY <2>2, <1>1
    <3>2. PICK j \in 1..k : i = n + j
      BY <3>1, <1>3
    <3>3. ~ Stored(batch[i])
      BY <2>0, <3>1, <1>2 DEF PubInv, Answered
    <3>4. r = "abort" => ~ Stored(batch[i])'
      BY <3>3, <1>4 DEF Stored
    <3>5. QED BY <3>1, <3>2, <3>4, <1>4
  <2>3. QED BY <2>1, <2>2
<1>8. Answered'
  BY <1>1, <1>6, <1>7 DEF Answered, Stored
<1>9. QED BY <1>4, <1>5, <1>8 DEF PubInv

LEMMA CommitInv ==
  ASSUME PubInv, Commit PROVE PubInv'
<1>1. PICK n \in Nat, k \in Nat : Block(n, k)
  BY CurrentBlock DEF Commit
<1>2. /\ committed' = committed \o Current /\ answer' = answer \o Results("ok")
      /\ UNCHANGED <<writer, queue, batch, split>> /\ "ok" \in Reply
  BY DEF Commit, Reply
<1>3. QED BY <1>1, <1>2, BlockAnswered

LEMMA AbortInv ==
  ASSUME PubInv, Abort PROVE PubInv'
<1>1. PICK n \in Nat, k \in Nat : Block(n, k)
  BY CurrentBlock DEF Abort
<1>2. CASE Splits
  <2>1. split' = TRUE /\ UNCHANGED <<writer, queue, batch, answer, committed>>
    BY <1>2 DEF Abort
  <2>2. PubType'
    BY <2>1 DEF PubInv, PubType
  <2>3. OnceEach' /\ Waits' /\ Whole'
    BY <2>1 DEF PubInv, OnceEach, Distinct, Apart, Waits, Whole
  <2>4. Answered' /\ Replied'
    BY <2>1 DEF PubInv, Answered, Replied, Stored
  <2>5. QED BY <2>2, <2>3, <2>4 DEF PubInv
<1>3. CASE ~ Splits
  <2>1. /\ answer' = answer \o Results("abort")
        /\ UNCHANGED <<writer, queue, batch, split, committed>> /\ "abort" \in Reply
    BY <1>3 DEF Abort, Reply
  <2>2. QED BY <1>1, <2>1, BlockAnswered
<1>4. QED BY <1>2, <1>3

LEMMA BatchErrorInv ==
  ASSUME PubInv, BatchError PROVE PubInv'
<1>1. PICK n \in Nat, k \in Nat : Block(n, k)
  BY CurrentBlock DEF BatchError
<1>2. /\ answer' = answer \o Results("batch_error")
      /\ UNCHANGED committed \/ committed' = committed \o Current
      /\ UNCHANGED <<writer, queue, batch, split>> /\ "batch_error" \in Reply
  BY DEF BatchError, Retries, Reply
<1>3. QED BY <1>1, <1>2, BlockAnswered

LEMMA BatchPanicsInv ==
  ASSUME PubInv, BatchPanics PROVE PubInv'
<1>1. /\ answer' = [i \in 1..Len(batch) |-> "panicked"]
      /\ UNCHANGED <<writer, queue, batch, split, committed>>
  BY DEF BatchPanics
<1>2. Len(batch) \in Nat /\ "panicked" \in Reply
  BY DEF PubInv, PubType, Reply
<1>3. answer' \in Seq(Reply) /\ Len(answer') = Len(batch)
  BY <1>1, <1>2
<1>4. PubType' /\ Whole'
  BY <1>1, <1>2, <1>3 DEF PubInv, PubType, Whole
<1>5. OnceEach' /\ Waits' /\ Replied'
  BY <1>1 DEF PubInv, OnceEach, Distinct, Apart, Waits, Replied, Stored
<1>6. Answered'
  BY <1>1, <1>2, <1>3 DEF Answered
<1>7. QED BY <1>4, <1>5, <1>6 DEF PubInv

LEMMA AnswerAllInv ==
  ASSUME PubInv, AnswerAll PROVE PubInv'
<1>1. /\ batch' = <<>> /\ answer' = <<>> /\ split' = FALSE /\ UNCHANGED <<queue, committed>>
      /\ Len(answer) = Len(batch)
  BY DEF AnswerAll
<1>2. batch \in Seq(Writes) /\ DOMAIN batch = 1..Len(batch) /\ Len(batch) \in Nat
      /\ \A i \in 1..Len(batch) : answer[i] \in Reply
  BY <1>1 DEF PubInv, PubType
<1>3. \A w \in Writes :
        \/ writer'[w] = writer[w] /\ ~ (writer[w] = "queued" /\ w \in Elements(batch))
        \/ \E i \in 1..Len(batch) : batch[i] = w /\ writer'[w] = answer[i]
  <2> TAKE w \in Writes
  <2>1. CASE writer[w] = "queued" /\ w \in Elements(batch)
    <3>1. writer'[w] = answer[CHOOSE i \in DOMAIN batch : batch[i] = w]
      BY <2>1 DEF AnswerAll
    <3>2. \E i \in DOMAIN batch : batch[i] = w
      BY <2>1 DEF Elements
    <3>3. PICK i : i = CHOOSE j \in DOMAIN batch : batch[j] = w
      OBVIOUS
    <3>4. i \in DOMAIN batch /\ batch[i] = w
      BY <3>2, <3>3
    <3>5. QED BY <1>2, <3>1, <3>3, <3>4
  <2>2. CASE ~ (writer[w] = "queued" /\ w \in Elements(batch))
    BY <2>2 DEF AnswerAll
  <2>3. QED BY <2>1, <2>2
<1>4. \A w \in Writes : writer'[w] \in WriterState
  BY <1>2, <1>3 DEF PubInv, PubType, WriterState
<1>5. PubType'
  <2>1. writer' \in [Writes -> WriterState]
    BY <1>4 DEF AnswerAll
  <2>2. <<>> \in Seq(Writes) /\ <<>> \in Seq(Reply) /\ Len(<<>>) = 0
    OBVIOUS
  <2>3. split' \in BOOLEAN
    BY <1>1
  <2>4. Len(answer') = 0 /\ Len(batch') = 0
    BY <1>1
  <2>5. Len(answer') <= Len(batch')
    BY <2>4
  <2>6. QED BY <1>1, <2>1, <2>2, <2>3, <2>5 DEF PubInv, PubType
<1>6. Whole' /\ OnceEach' /\ Answered'
  <2>1. Len(batch') = 0 /\ Len(answer') = 0
    BY <1>1
  <2>2. QED BY <1>1, <2>1 DEF PubInv, Whole, OnceEach, Distinct, Apart, Answered
<1>7. Waits'
  <2>1. \A i \in 1..Len(queue) : queue[i] \in Writes /\ writer[queue[i]] \in {"queued", "gone"}
    BY DEF PubInv, PubType, Waits
  <2>2. \A i \in 1..Len(queue) : \A j \in 1..Len(batch) : queue[i] # batch[j]
    BY DEF PubInv, OnceEach, Apart
  <2>3. \A i \in 1..Len(queue) : writer'[queue[i]] = writer[queue[i]]
    BY <2>1, <2>2, <1>3
  <2>4. Len(batch') = 0
    BY <1>1
  <2>5. QED BY <2>1, <2>3, <2>4, <1>1 DEF Waits
<1>8. Replied'
  <2> SUFFICES ASSUME NEW w \in Writes
               PROVE  /\ writer'[w] = "ok" => Stored(w)
                      /\ writer'[w] \in {"abort", "stopped", "ready"} => ~ Stored(w)
    BY <1>1 DEF Replied, Stored
  <2>1. CASE writer'[w] = writer[w]
    BY <2>1 DEF PubInv, Replied
  <2>2. CASE \E i \in 1..Len(batch) : batch[i] = w /\ writer'[w] = answer[i]
    <3>1. PICK i \in 1..Len(batch) : batch[i] = w /\ writer'[w] = answer[i]
      BY <2>2
    <3>2. /\ answer[i] \in {"ok", "abort", "panicked", "batch_error"}
          /\ answer[i] = "ok" => Stored(batch[i])
          /\ answer[i] = "abort" => ~ Stored(batch[i])
      BY <3>1, <1>1 DEF PubInv, Answered
    <3>3. QED BY <3>1, <3>2
  <2>3. QED BY <2>1, <2>2, <1>3
<1>9. QED BY <1>5, <1>6, <1>7, <1>8 DEF PubInv

LEMMA PubStep ==
  ASSUME PubInv, [PubNext]_pubVars PROVE PubInv'
<1>1. CASE UNCHANGED pubVars
  BY <1>1, QuietInv DEF pubVars
<1>2. CASE PubNext
  <2>1. Shutdown \/ Close \/ End => PubInv'
    BY QuietInv DEF Shutdown, Close, End
  <2> DEFINE G == PubInv'
  <2>2. /\ Shutdown => G
        /\ Close => G
        /\ End => G
        /\ TakeBatch => G
        /\ Commit => G
        /\ Abort => G
        /\ BatchError => G
        /\ BatchPanics => G
        /\ AnswerAll => G
    BY <2>1, TakeInv, CommitInv, AbortInv, BatchErrorInv, BatchPanicsInv, AnswerAllInv
  <2>3. (\A w \in Writes : Send(w) => G) /\ (\A w \in Writes : DropWaiter(w) => G)
    BY SendInv, DropInv
  <2> HIDE DEF G
  <2>4. G
    BY <1>2, <2>2, <2>3, PubCases, Zenon
  <2>5. QED BY <2>4 DEF G
<1>3. QED BY <1>1, <1>2

\* How often a write is stored, counted.
LEMMA TimesStored ==
  ASSUME PubInv, NEW w \in Writes
  PROVE  /\ Cardinality({i \in DOMAIN committed : committed[i] = w}) <= 1
         /\ Stored(w) => Cardinality({i \in DOMAIN committed : committed[i] = w}) = 1
         /\ ~ Stored(w) => Cardinality({i \in DOMAIN committed : committed[i] = w}) = 0
<1>1. PICK T : T = {i \in DOMAIN committed : committed[i] = w}
  OBVIOUS
<1>2. DOMAIN committed = 1..Len(committed)
  BY DEF PubInv, PubType
<1>3. CASE Stored(w)
  <2>1. PICK i \in 1..Len(committed) : committed[i] = w
    BY <1>3 DEF Stored
  <2>2. T = {i}
    BY <1>1, <1>2, <2>1 DEF PubInv, OnceEach, Distinct
  <2>3. Cardinality(T) = 1
    BY <2>2, FS_Singleton
  <2>4. QED BY <1>1, <1>3, <2>3
<1>4. CASE ~ Stored(w)
  <2>1. T = {}
    BY <1>1, <1>2, <1>4 DEF Stored
  <2>2. Cardinality(T) = 0
    BY <2>1, FS_EmptySet
  <2>3. QED BY <1>1, <1>4, <2>2
<1>5. QED BY <1>3, <1>4

\* What publish answers is true of the store, and no write is stored twice, for every
\* set of writes, queue and batch size: through batches that are split, waiters that
\* are dropped and commits whose outcome is unknown (publish_batch).
THEOREM PublisherReplies == PubSpec => []RepliesTrue
<1>1. PubInv => RepliesTrue
  <2> SUFFICES ASSUME PubInv, NEW w \in Writes
               PROVE  LET times == Cardinality({i \in DOMAIN committed : committed[i] = w}) IN
                      /\ times <= 1
                      /\ writer[w] = "ok" => times = 1
                      /\ writer[w] \in {"abort", "stopped", "ready"} => times = 0
    BY DEF RepliesTrue
  <2>1. /\ writer[w] = "ok" => Stored(w)
        /\ writer[w] \in {"abort", "stopped", "ready"} => ~ Stored(w)
    BY DEF PubInv, Replied
  <2>2. QED BY <2>1, TimesStored
<1>2. QED BY <1>1, PubInitInv, PubStep, PTL DEF PubSpec

-----------------------------------------------------------------------------
(* The provider chain.                                                        *)
LEMMA LeastNumber ==
  ASSUME NEW S \in SUBSET Nat, S # {}
  PROVE  \E q \in S : \A u \in S : q <= u
<1> DEFINE R == {ss \in Nat \X Nat : ss[1] < ss[2]}
<1>1. IsWellFoundedOn(R, Nat)
  BY NatLessThanWellFounded, Zenon DEF OpToRel
<1> HIDE DEF R
<1>2. \E q \in S : \A u \in S : ~ (<<u, q>> \in R)
  BY <1>1, WFMin
<1>3. PICK q \in S : \A u \in S : ~ (<<u, q>> \in R)
  BY <1>2
<1>4. ASSUME NEW u \in S PROVE q <= u
  <2>1. u \in Nat /\ q \in Nat /\ ~ (<<u, q>> \in R)
    BY <1>3
  <2>2. ~ (u < q)
    BY <2>1 DEF R
  <2>3. QED BY <2>1, <2>2
<1>5. QED BY <1>4

USE ChainShape, FailuresKnown

Call == [phase : Phase, route : Nat, attempt : Nat, requests : Nat, extra : Nat,
         retries : Nat, wait : Nat, fail : Failure \cup {NoFailure}]

\* A call knows its route: a summary has the one account, a chain call that goes on
\* has a route of the chain.
GateType ==
  /\ active \in [Account -> Nat] /\ cooldown \in [Account -> Nat]
  /\ waiting \in [Account -> Nat]
  /\ dispatched \in Nat
  /\ call \in [Caller -> Call]
  /\ \A o \in Chain : call[o].phase \notin Ended \cup {"ready"} => call[o].route \in Route

\* The next operation of a call, one disjunct per action.
LEMMA CallCases ==
  ASSUME CallNext, NEW G, Tick => G, \A r \in Route : RouteCooled(r) => G,
         \A o \in Caller : Start(o) => G,
         \A o \in Caller : Admit(o) => G,
         \A o \in Caller : AdmitTimeout(o) => G,
         \A o \in Caller : Succeed(o) => G,
         \A o \in Caller : \A f \in Failures : Answer(o, f) => G,
         \A o \in Caller : EndCall(o) => G,
         \A o \in Caller : GiveUpRoute(o) => G,
         \A o \in Caller : Recover(o) => G,
         \A o \in Caller : Backoff(o) => G,
         \A o \in Caller : SummaryBackoff(o) => G,
         \A o \in Caller : Wake(o) => G,
         \A o \in Caller : SeeCancel(o) => G,
         \A o \in Caller : DropCall(o) => G,
         \A o \in Caller : Cancel(o) => G,
         \A o \in Caller : ClockRunsOut(o) => G
  PROVE  G
BY DEF CallNext, Go

\* Where a call in state c is.
Spot(o, c) == IF o \in Summary THEN SummaryAccount ELSE AccountOf[c.route]

LEMMA OnSpot == \A o : On(o) = Spot(o, call[o])
BY DEF On, Spot

\* A state a call may go to.
Fits(o, c) ==
  /\ c \in Call
  /\ o \in Chain /\ c.phase \notin Ended \cup {"ready"} => c.route \in Route

LEMMA BareFits ==
  ASSUME NEW o, NEW p \in Ended \cup {"ready"}
  PROVE  Fits(o, Bare(p)) /\ Bare(p).phase = p
BY DEF Fits, Bare, Call, Phase

LEMMA LoopFits ==
  ASSUME NEW o \in Caller, NEW c \in Call, o \in Chain => c.route \in Route
  PROVE  /\ Fits(o, AtLoop(o, c))
         /\ \/ AtLoop(o, c) = [c EXCEPT !.phase = "admit", !.fail = NoFailure, !.wait = 0]
            \/ AtLoop(o, c) = Bare("cancelled") \/ AtLoop(o, c) = Bare("capped")
         /\ AtLoop(o, c).phase \in {"admit", "cancelled", "capped"}
<1>1. /\ [c EXCEPT !.phase = "admit", !.fail = NoFailure, !.wait = 0] \in Call
      /\ [c EXCEPT !.phase = "admit", !.fail = NoFailure, !.wait = 0].route = c.route
      /\ [c EXCEPT !.phase = "admit", !.fail = NoFailure, !.wait = 0].phase = "admit"
  BY DEF Call, Phase
<1>2. "cancelled" \in Ended /\ "capped" \in Ended
  BY DEF Ended
<1>3. /\ Fits(o, Bare("cancelled")) /\ Bare("cancelled").phase = "cancelled"
      /\ Fits(o, Bare("capped")) /\ Bare("capped").phase = "capped"
  BY <1>2, BareFits
<1>4. QED BY <1>1, <1>3 DEF AtLoop, Fits

LEMMA FirstOpen ==
  ASSUME NEW S \in SUBSET Route, S # {}
  PROVE  (CHOOSE q \in S : \A u \in S : q <= u) \in S
<1>1. S \in SUBSET Nat
  BY DEF Route
<1>2. PICK q \in S : \A u \in S : q <= u
  BY <1>1, LeastNumber
<1>3. QED BY <1>2

LEMMA OnRoute ==
  ASSUME NEW c \in Call, NEW q \in Route
  PROVE  /\ [c EXCEPT !.route = q, !.attempt = 0] \in Call
         /\ [c EXCEPT !.route = q, !.attempt = 0].route = q
<1>1. q \in Nat
  BY DEF Route
<1>2. QED BY <1>1 DEF Call

\* The route loop ends the call or puts it at the loop of an open route.
LEMMA RouteFits ==
  ASSUME NEW o \in Caller, NEW c \in Call, NEW r \in Nat, NEW cl, NEW dd
  PROVE  LET n == AtRoute(o, c, r, cl, dd) IN
         /\ Fits(o, n)
         /\ n.phase \in {"admit", "cancelled", "capped", "failed"}
<1> DEFINE open == {q \in Route : q >= r /\ ~ PassedOver(o, q, cl, dd)}
           first == CHOOSE q \in open : \A u \in open : q <= u
           at == [c EXCEPT !.route = first, !.attempt = 0]
<1>1. {"cancelled", "capped", "failed"} \subseteq Ended
  BY DEF Ended
<1>2. CASE open = {}
  <2>1. AtRoute(o, c, r, cl, dd) \in {Bare("cancelled"), Bare("failed")}
    BY <1>2 DEF AtRoute
  <2>2. /\ Fits(o, Bare("cancelled")) /\ Bare("cancelled").phase = "cancelled"
        /\ Fits(o, Bare("failed")) /\ Bare("failed").phase = "failed"
    BY <1>1, BareFits
  <2>3. QED BY <2>1, <2>2
<1>3. CASE open # {}
  <2>1. first \in Route
    <3>1. open \in SUBSET Route OBVIOUS
    <3> HIDE DEF open
    <3>2. QED BY <1>3, <3>1, FirstOpen
  <2>2. AtRoute(o, c, r, cl, dd) = AtLoop(o, at)
    BY <1>3 DEF AtRoute
  <2> HIDE DEF open, first
  <2>3. at \in Call /\ at.route \in Route
    BY <2>1, OnRoute DEF at
  <2> HIDE DEF at
  <2>4. /\ Fits(o, AtLoop(o, at))
        /\ \/ AtLoop(o, at) = [at EXCEPT !.phase = "admit", !.fail = NoFailure, !.wait = 0]
           \/ AtLoop(o, at) = Bare("cancelled") \/ AtLoop(o, at) = Bare("capped")
    BY <2>3, LoopFits
  <2>5. [at EXCEPT !.phase = "admit", !.fail = NoFailure, !.wait = 0].phase = "admit"
    BY <2>3 DEF Call
  <2>6. QED BY <1>1, <2>2, <2>4, <2>5, BareFits
<1>4. QED BY <1>2, <1>3
-----------------------------------------------------------------------------
(* What one call's step does to the counts of every account.               *)

ActiveInv ==
  \A a \in Account : active[a] = Cardinality(Senders(a)) /\ active[a] <= Limit
WaitInv == \A a \in Account : waiting[a] = Cardinality(Waiters(a))

LEMMA Finite ==
  \A a : IsFiniteSet(Senders(a)) /\ IsFiniteSet(Waiters(a))
<1>1. IsFiniteSet(Caller)
  BY DEF Caller
<1>2. \A a : Senders(a) \in SUBSET Caller /\ Waiters(a) \in SUBSET Caller
  BY DEF Senders, Waiters, Caller
<1>3. QED BY <1>1, <1>2, FS_Subset

LEMMA SpotIn ==
  ASSUME NEW o \in Caller, NEW c \in Call, o \in Chain => c.route \in Route
  PROVE  Spot(o, c) \in Account
BY DEF Spot, Caller

\* Senders and waiters after a step of call o to state c.
LEMMA Moved ==
  ASSUME GateType, NEW o \in Caller, NEW c \in Call, call' = [call EXCEPT ![o] = c], NEW a
  PROVE  /\ Senders(a)' = IF c.phase = "sent" /\ Spot(o, c) = a
                          THEN Senders(a) \cup {o} ELSE Senders(a) \ {o}
         /\ Waiters(a)' = IF o \in Interactive /\ c.phase = "admit" /\ Spot(o, c) = a
                          THEN Waiters(a) \cup {o} ELSE Waiters(a) \ {o}
<1>1. call'[o] = c /\ \A p \in Caller \ {o} : call'[p] = call[p]
  BY DEF GateType
<1>2. Interactive \subseteq Caller
  BY DEF Caller
<1>3. Senders(a)' = {p \in Caller : call'[p].phase = "sent" /\ Spot(p, call'[p]) = a}
  BY DEF Senders, Sent, On, Spot
<1>4. Senders(a) = {p \in Caller : call[p].phase = "sent" /\ Spot(p, call[p]) = a}
  BY DEF Senders, Sent, On, Spot
<1>5. Waiters(a)' = {p \in Interactive : call'[p].phase = "admit" /\ Spot(p, call'[p]) = a}
  BY DEF Waiters, On, Spot
<1>6. Waiters(a) = {p \in Interactive : call[p].phase = "admit" /\ Spot(p, call[p]) = a}
  BY DEF Waiters, On, Spot
<1>7. QED BY <1>1, <1>2, <1>3, <1>4, <1>5, <1>6

LEMMA SendKept ==
  ASSUME GateType, ActiveInv, NEW o \in Caller, NEW c \in Call,
         call' = [call EXCEPT ![o] = c], call[o].phase # "sent", c.phase # "sent",
         active' = active
  PROVE  ActiveInv'
<1>1. \A a : Senders(a)' = Senders(a)
  <2>1. \A a : Senders(a)' = Senders(a) \ {o}
    BY Moved
  <2>2. \A a : o \notin Senders(a)
    BY DEF Senders, Sent
  <2>3. QED BY <2>1, <2>2
<1>2. QED BY <1>1 DEF ActiveInv

LEMMA SendGained ==
  ASSUME GateType, ActiveInv, NEW o \in Caller, NEW c \in Call,
         call' = [call EXCEPT ![o] = c], call[o].phase # "sent", c.phase = "sent",
         Spot(o, c) = On(o), active[On(o)] < Limit,
         active' = [active EXCEPT ![On(o)] = active[On(o)] + 1]
  PROVE  ActiveInv'
<1>1. \A a : /\ Senders(a)' = IF On(o) = a THEN Senders(a) \cup {o} ELSE Senders(a) \ {o}
             /\ o \notin Senders(a) /\ IsFiniteSet(Senders(a))
  <2>1. ASSUME NEW a
        PROVE  Senders(a)' = IF On(o) = a THEN Senders(a) \cup {o} ELSE Senders(a) \ {o}
    <3>1. Senders(a)' = IF c.phase = "sent" /\ Spot(o, c) = a
                        THEN Senders(a) \cup {o} ELSE Senders(a) \ {o}
      BY Moved
    <3>2. QED BY <3>1
  <2>2. \A a : o \notin Senders(a)
    BY DEF Senders, Sent
  <2>3. QED BY <2>1, <2>2, Finite
<1>2. ASSUME NEW a \in Account
      PROVE  active'[a] = Cardinality(Senders(a)') /\ active'[a] <= Limit
  <2>1. active[a] = Cardinality(Senders(a)) /\ active[a] <= Limit /\ active[a] \in Nat
    BY DEF ActiveInv, GateType
  <2>2. CASE On(o) = a
    <3>1. Cardinality(Senders(a)') = Cardinality(Senders(a)) + 1
      BY <1>1, <2>2, FS_AddElement
    <3>2. active'[a] = active[a] + 1 /\ active[a] < Limit
      BY <2>2 DEF GateType
    <3>3. QED BY <2>1, <3>1, <3>2
  <2>3. CASE On(o) # a
    <3>1. Senders(a)' = Senders(a)
      BY <1>1, <2>3
    <3>2. active'[a] = active[a]
      BY <2>3 DEF GateType
    <3>3. QED BY <2>1, <3>1, <3>2
  <2>4. QED BY <2>2, <2>3
<1>3. QED BY <1>2 DEF ActiveInv

LEMMA SendLost ==
  ASSUME GateType, ActiveInv, NEW o \in Caller, NEW c \in Call,
         call' = [call EXCEPT ![o] = c], call[o].phase = "sent", c.phase # "sent",
         On(o) \in Account, Release(On(o))
  PROVE  ActiveInv'
<1>1. \A a : /\ Senders(a)' = Senders(a) \ {o}
             /\ o \in Senders(a) <=> On(o) = a
             /\ IsFiniteSet(Senders(a))
  <2>1. \A a : Senders(a)' = Senders(a) \ {o}
    BY Moved
  <2>2. \A a : o \in Senders(a) <=> On(o) = a
    BY DEF Senders, Sent
  <2>3. QED BY <2>1, <2>2, Finite
<1>2. active' = [active EXCEPT ![On(o)] = IF active[On(o)] = 0 THEN 0 ELSE active[On(o)] - 1]
  BY DEF Release
<1>3. ASSUME NEW a \in Account
      PROVE  active'[a] = Cardinality(Senders(a)') /\ active'[a] <= Limit
  <2>1. active[a] = Cardinality(Senders(a)) /\ active[a] <= Limit /\ active[a] \in Nat
    BY DEF ActiveInv, GateType
  <2>2. CASE On(o) = a
    <3>1. Cardinality(Senders(a)') = Cardinality(Senders(a)) - 1
          /\ Cardinality(Senders(a)') \in Nat
      BY <1>1, <2>2, FS_RemoveElement, FS_CardinalityType
    <3>2. active'[a] = IF active[a] = 0 THEN 0 ELSE active[a] - 1
      BY <1>2, <2>2 DEF GateType
    <3>3. QED BY <2>1, <3>1, <3>2
  <2>3. CASE On(o) # a
    <3>1. Senders(a)' = Senders(a)
      BY <1>1, <2>3
    <3>2. active'[a] = active[a]
      BY <1>2, <2>3 DEF GateType
    <3>3. QED BY <2>1, <3>1, <3>2
  <2>4. QED BY <2>2, <2>3
<1>4. QED BY <1>3 DEF ActiveInv
\* The waiting counts, likewise.
LEMMA WaitKept ==
  ASSUME GateType, WaitInv, NEW o \in Caller, NEW c \in Call,
         call' = [call EXCEPT ![o] = c],
         o \in Interactive => call[o].phase # "admit" /\ c.phase # "admit",
         waiting' = waiting
  PROVE  WaitInv'
<1>1. \A a : Waiters(a)' = Waiters(a)
  <2>1. ASSUME NEW a PROVE Waiters(a)' = Waiters(a) \ {o}
    <3>1. Waiters(a)' = IF o \in Interactive /\ c.phase = "admit" /\ Spot(o, c) = a
                        THEN Waiters(a) \cup {o} ELSE Waiters(a) \ {o}
      BY Moved
    <3>2. QED BY <3>1
  <2>2. \A a : o \notin Waiters(a)
    BY DEF Waiters
  <2>3. QED BY <2>1, <2>2
<1>2. QED BY <1>1 DEF WaitInv

LEMMA WaitGained ==
  ASSUME GateType, WaitInv, NEW o \in Caller, NEW c \in Call, Fits(o, c),
         call' = [call EXCEPT ![o] = c], call[o].phase # "admit", Register(o, c)
  PROVE  WaitInv'
<1>1. CASE ~ (o \in Interactive /\ c.phase = "admit")
  <2>1. waiting' = waiting
    BY <1>1 DEF Register
  <2>2. QED BY <1>1, <2>1, WaitKept
<1>2. CASE o \in Interactive /\ c.phase = "admit"
  <2>1. Spot(o, c) = AccountOf[c.route] /\ AccountOf[c.route] \in Account
    BY <1>2 DEF Spot, Fits, Ended
  <2>2. waiting' = [waiting EXCEPT ![Spot(o, c)] = waiting[Spot(o, c)] + 1]
    BY <1>2, <2>1 DEF Register
  <2>3. ASSUME NEW a \in Account PROVE waiting'[a] = Cardinality(Waiters(a)')
    <3>1. Waiters(a)' = IF Spot(o, c) = a THEN Waiters(a) \cup {o} ELSE Waiters(a) \ {o}
      <4>1. Waiters(a)' = IF o \in Interactive /\ c.phase = "admit" /\ Spot(o, c) = a
                          THEN Waiters(a) \cup {o} ELSE Waiters(a) \ {o}
        BY Moved
      <4>2. QED BY <1>2, <4>1
    <3>2. o \notin Waiters(a) /\ IsFiniteSet(Waiters(a))
      BY Finite DEF Waiters
    <3>3. waiting[a] = Cardinality(Waiters(a)) /\ waiting[a] \in Nat
      BY DEF WaitInv, GateType
    <3>4. CASE Spot(o, c) = a
      <4>1. Cardinality(Waiters(a)') = Cardinality(Waiters(a)) + 1
        BY <3>1, <3>2, <3>4, FS_AddElement
      <4>2. waiting'[a] = waiting[a] + 1
        BY <2>2, <3>4 DEF GateType
      <4>3. QED BY <3>3, <4>1, <4>2
    <3>5. CASE Spot(o, c) # a
      <4>1. Waiters(a)' = Waiters(a)
        BY <3>1, <3>2, <3>5
      <4>2. waiting'[a] = waiting[a]
        BY <2>2, <3>5 DEF GateType
      <4>3. QED BY <3>3, <4>1, <4>2
    <3>6. QED BY <3>4, <3>5
  <2>4. QED BY <2>3 DEF WaitInv
<1>3. QED BY <1>1, <1>2

LEMMA WaitLost ==
  ASSUME GateType, WaitInv, NEW o \in Caller, NEW c \in Call,
         call' = [call EXCEPT ![o] = c], call[o].phase = "admit", c.phase # "admit",
         On(o) \in Account, Dequeue(o)
  PROVE  WaitInv'
<1>1. ASSUME NEW a PROVE Waiters(a)' = Waiters(a) \ {o}
  <2>1. Waiters(a)' = IF o \in Interactive /\ c.phase = "admit" /\ Spot(o, c) = a
                      THEN Waiters(a) \cup {o} ELSE Waiters(a) \ {o}
    BY Moved
  <2>2. QED BY <2>1
<1>2. CASE o \notin Interactive
  <2>1. waiting' = waiting /\ (\A a : o \notin Waiters(a))
    BY <1>2 DEF Dequeue, Waiters
  <2>2. \A a : Waiters(a)' = Waiters(a)
    BY <1>1, <2>1
  <2>3. QED BY <2>1, <2>2 DEF WaitInv
<1>3. CASE o \in Interactive
  <2>1. waiting' = [waiting EXCEPT ![On(o)] =
                      IF waiting[On(o)] = 0 THEN 0 ELSE waiting[On(o)] - 1]
    BY <1>3 DEF Dequeue
  <2>2. ASSUME NEW a \in Account PROVE waiting'[a] = Cardinality(Waiters(a)')
    <3>1. (o \in Waiters(a) <=> On(o) = a) /\ IsFiniteSet(Waiters(a))
      BY <1>3, Finite DEF Waiters
    <3>2. waiting[a] = Cardinality(Waiters(a)) /\ waiting[a] \in Nat
      BY DEF WaitInv, GateType
    <3>3. CASE On(o) = a
      <4>1. Cardinality(Waiters(a)') = Cardinality(Waiters(a)) - 1
            /\ Cardinality(Waiters(a)') \in Nat
        BY <1>1, <3>1, <3>3, FS_RemoveElement, FS_CardinalityType
      <4>2. waiting'[a] = IF waiting[a] = 0 THEN 0 ELSE waiting[a] - 1
        BY <2>1, <3>3 DEF GateType
      <4>3. QED BY <3>2, <4>1, <4>2
    <3>4. CASE On(o) # a
      <4>1. Waiters(a)' = Waiters(a)
        BY <1>1, <3>1, <3>4
      <4>2. waiting'[a] = waiting[a]
        BY <2>1, <3>4 DEF GateType
      <4>3. QED BY <3>2, <4>1, <4>2
    <3>5. QED BY <3>3, <3>4
  <2>3. QED BY <2>2 DEF WaitInv
<1>4. QED BY <1>2, <1>3
-----------------------------------------------------------------------------
\* A sleeping call sleeps no longer than its account cools down.
RetryInv ==
  \A o \in Chain : call[o].phase = "backoff" => cooldown[On(o)] >= call[o].wait

LEMMA RetryKept ==
  ASSUME GateType, RetryInv, NEW o \in Caller, NEW c \in Call, call' = [call EXCEPT ![o] = c],
         \A a \in Account : cooldown'[a] >= cooldown[a], cooldown' \in [Account -> Nat],
         o \in Chain /\ c.phase = "backoff" =>
           Spot(o, c) \in Account /\ cooldown'[Spot(o, c)] >= c.wait
  PROVE  RetryInv'
<1>1. call'[o] = c /\ \A p \in Caller \ {o} : call'[p] = call[p]
  BY DEF GateType
<1>2. ASSUME NEW p \in Chain, call'[p].phase = "backoff"
      PROVE  cooldown'[Spot(p, call'[p])] >= call'[p].wait
  <2>1. CASE p = o
    BY <1>1, <1>2, <2>1
  <2>2. CASE p # o
    <3>1. p \in Caller
      BY DEF Caller
    <3>2. call'[p] = call[p] /\ call[p].phase = "backoff"
      BY <1>1, <1>2, <2>2, <3>1
    <3>3. call[p] \in Call /\ call[p].route \in Route
      BY <3>1, <3>2 DEF GateType, Ended
    <3>4. Spot(p, call[p]) \in Account
      BY <3>1, <3>3, SpotIn
    <3>5. cooldown[Spot(p, call[p])] >= call[p].wait
      BY <3>2, OnSpot DEF RetryInv
    <3>6. PICK a \in Account : a = Spot(p, call[p])
      BY <3>4
    <3>7. cooldown'[a] >= cooldown[a] /\ cooldown[a] >= call[p].wait
          /\ cooldown'[a] \in Nat /\ cooldown[a] \in Nat /\ call[p].wait \in Nat
      BY <3>3, <3>5, <3>6 DEF GateType, Call
    <3>8. QED BY <3>2, <3>6, <3>7
  <2>3. QED BY <2>1, <2>2
<1>3. \A p : On(p)' = Spot(p, call'[p])
  BY DEF On, Spot
<1>4. QED BY <1>2, <1>3 DEF RetryInv

GateInv == GateType /\ ActiveInv /\ WaitInv /\ RetryInv

\* A background call that is sent found nobody of its account waiting.
Dispatches ==
  \A q \in Caller \ Interactive : ~ Sent(q) /\ Sent(q)' => Waiters(On(q)) = {}

LEMMA NoneSent ==
  ASSUME GateType, NEW o \in Caller, NEW c, call' = [call EXCEPT ![o] = c], c.phase # "sent"
  PROVE  Dispatches
<1>1. call'[o] = c /\ \A p \in Caller \ {o} : call'[p] = call[p]
  BY DEF GateType
<1>2. \A q \in Caller : Sent(q)' => Sent(q)
  BY <1>1 DEF Sent
<1>3. QED BY <1>2 DEF Dispatches

LEMMA GateAccounts ==
  ASSUME GateType, NEW o \in Caller, call[o].phase \notin Ended \cup {"ready"}
  PROVE  On(o) \in Account /\ (o \in Chain => call[o].route \in Route)
<1>1. call[o] \in Call /\ (o \in Chain => call[o].route \in Route)
  BY DEF GateType
<1>2. QED BY <1>1, SpotIn, OnSpot

LEMMA TypeMoved ==
  ASSUME GateType, NEW o \in Caller, NEW c, Fits(o, c), call' = [call EXCEPT ![o] = c],
         active' \in [Account -> Nat], waiting' \in [Account -> Nat],
         cooldown' \in [Account -> Nat], dispatched' \in Nat
  PROVE  GateType'
BY DEF GateType, Fits

LEMMA CountTypes ==
  ASSUME GateType
  PROVE  /\ \A a : Release(a) => active' \in [Account -> Nat]
         /\ \A o, c : Register(o, c) => waiting' \in [Account -> Nat]
         /\ \A o : Dequeue(o) => waiting' \in [Account -> Nat]
         /\ \A a : \A d \in Nat : NoteRateLimit(a, d) => cooldown' \in [Account -> Nat]
BY DEF GateType, Release, Register, Dequeue, NoteRateLimit, Longer

\* A call that goes to admission, or ends, without holding anything.
LEMMA EntersLoop ==
  ASSUME GateInv, NEW o \in Caller, NEW c, Fits(o, c), call' = [call EXCEPT ![o] = c],
         c.phase \in {"admit", "cancelled", "capped", "failed"},
         call[o].phase \notin {"admit", "sent"}, Register(o, c), UNCHANGED active,
         UNCHANGED <<cooldown, dispatched>>
  PROVE  GateInv' /\ Dispatches
<1>1. GateType'
  BY TypeMoved, CountTypes DEF GateInv, GateType
<1>2. c \in Call
  BY DEF Fits
<1>3. ActiveInv'
  BY <1>2, SendKept DEF GateInv
<1>4. WaitInv'
  BY <1>2, WaitGained DEF GateInv
<1>5. Dispatches
  BY NoneSent DEF GateInv
<1>6. RetryInv'
  <2>1. cooldown' \in [Account -> Nat] /\ \A a \in Account : cooldown'[a] >= cooldown[a]
    BY DEF GateInv, GateType
  <2>2. QED BY <1>2, <2>1, RetryKept DEF GateInv
<1>7. QED BY <1>1, <1>3, <1>4, <1>5, <1>6 DEF GateInv

\* A call that goes on or ends outside the gate.
LEMMA StaysOut ==
  ASSUME GateInv, NEW o \in Caller, NEW c, Fits(o, c), call' = [call EXCEPT ![o] = c],
         c.phase \notin {"admit", "sent"}, call[o].phase \notin {"admit", "sent"},
         UNCHANGED <<active, waiting, dispatched>>, cooldown' \in [Account -> Nat],
         \A a \in Account : cooldown'[a] >= cooldown[a],
         o \in Chain /\ c.phase = "backoff" =>
           Spot(o, c) \in Account /\ cooldown'[Spot(o, c)] >= c.wait
  PROVE  GateInv' /\ Dispatches
<1>1. GateType'
  BY TypeMoved DEF GateInv, GateType
<1>2. c \in Call
  BY DEF Fits
<1>3. ActiveInv'
  BY <1>2, SendKept DEF GateInv
<1>4. WaitInv'
  BY <1>2, WaitKept DEF GateInv
<1>5. Dispatches
  BY NoneSent DEF GateInv
<1>6. RetryInv'
  BY <1>2, RetryKept DEF GateInv
<1>7. QED BY <1>1, <1>3, <1>4, <1>5, <1>6 DEF GateInv

\* A call that leaves admission without a slot.
LEMMA LeavesQueue ==
  ASSUME GateInv, NEW o \in Caller, NEW c, Fits(o, c), call' = [call EXCEPT ![o] = c],
         c.phase \notin {"admit", "sent", "backoff"}, call[o].phase = "admit", Dequeue(o),
         UNCHANGED <<active, cooldown, dispatched>>
  PROVE  GateInv' /\ Dispatches
<1>1. GateType'
  BY TypeMoved, CountTypes DEF GateInv, GateType
<1>2. c \in Call /\ On(o) \in Account
  BY GateAccounts DEF Fits, GateInv, Ended
<1>3. ActiveInv'
  BY <1>2, SendKept DEF GateInv
<1>4. WaitInv'
  BY <1>2, WaitLost DEF GateInv
<1>5. Dispatches
  BY NoneSent DEF GateInv
<1>6. RetryInv'
  <2>1. cooldown' \in [Account -> Nat] /\ \A a \in Account : cooldown'[a] >= cooldown[a]
    BY DEF GateInv, GateType
  <2>2. QED BY <1>2, <2>1, RetryKept DEF GateInv
<1>7. QED BY <1>1, <1>3, <1>4, <1>5, <1>6 DEF GateInv

\* A call that gives its slot back.
LEMMA LeavesSlot ==
  ASSUME GateInv, NEW o \in Caller, NEW c, Fits(o, c), call' = [call EXCEPT ![o] = c],
         c.phase \notin {"admit", "sent", "backoff"}, call[o].phase = "sent", Release(On(o)),
         UNCHANGED <<waiting, cooldown, dispatched>>
  PROVE  GateInv' /\ Dispatches
<1>1. GateType'
  BY TypeMoved, CountTypes DEF GateInv, GateType
<1>2. c \in Call /\ On(o) \in Account
  BY GateAccounts DEF Fits, GateInv, Ended
<1>3. ActiveInv'
  BY <1>2, SendLost DEF GateInv
<1>4. WaitInv'
  BY <1>2, WaitKept DEF GateInv
<1>5. Dispatches
  BY NoneSent DEF GateInv
<1>6. RetryInv'
  <2>1. cooldown' \in [Account -> Nat] /\ \A a \in Account : cooldown'[a] >= cooldown[a]
    BY DEF GateInv, GateType
  <2>2. QED BY <1>2, <2>1, RetryKept DEF GateInv
<1>7. QED BY <1>1, <1>3, <1>4, <1>5, <1>6 DEF GateInv

LEMMA LeaveInv ==
  ASSUME GateInv, NEW o \in Caller, NEW p \in Ended, Leave(o, p),
         call[o].phase \in {"admit", "sent", "backoff"},
         UNCHANGED <<cooldown, dispatched>>
  PROVE  GateInv' /\ Dispatches
<1>1. Fits(o, Bare(p)) /\ Bare(p).phase = p /\ p \notin {"admit", "sent", "backoff"}
  BY BareFits DEF Ended
<1>2. PICK c : c = Bare(p)
  OBVIOUS
<1>3. /\ Fits(o, c) /\ c.phase \notin {"admit", "sent", "backoff"}
      /\ call' = [call EXCEPT ![o] = c]
  BY <1>1, <1>2 DEF Leave
<1>4. CASE call[o].phase = "admit"
  BY <1>3, <1>4, LeavesQueue DEF Leave, Sent
<1>5. CASE call[o].phase = "sent"
  BY <1>3, <1>5, LeavesSlot DEF Leave, Sent
<1>6. CASE call[o].phase = "backoff"
  <2>1. cooldown' \in [Account -> Nat] /\ \A a \in Account : cooldown'[a] >= cooldown[a]
    BY DEF GateInv, GateType
  <2>2. UNCHANGED <<active, waiting, dispatched>>
    BY <1>6 DEF Leave, Sent
  <2>3. QED BY <1>3, <1>6, <2>1, <2>2, StaysOut
<1>7. QED BY <1>4, <1>5, <1>6
-----------------------------------------------------------------------------
LEMMA ChargedType ==
  ASSUME NEW o, NEW c \in Call
  PROVE  Charged(o, c) \in Call /\ Charged(o, c).route = c.route
<1>1. CASE o \in Interactive
  <2>1. c.extra + 1 \in Nat /\ c.retries \in Nat /\ c.retries + 1 \in Nat
    BY DEF Call
  <2>2. PICK n \in Nat : n = IF c.fail.recovery THEN c.retries ELSE c.retries + 1
    BY <2>1
  <2>3. Charged(o, c) = [c EXCEPT !.extra = c.extra + 1, !.retries = n]
    BY <1>1, <2>2 DEF Charged
  <2>4. QED BY <2>1, <2>3 DEF Call
<1>2. CASE o \notin Interactive
  BY <1>2 DEF Charged
<1>3. QED BY <1>1, <1>2

\* A chain call is no summary, and each call is in a known state.
LEMMA CallIn ==
  ASSUME GateType, NEW o \in Caller
  PROVE  call[o] \in Call /\ (o \in Summary => o \notin Chain)
BY DEF GateType

LEMMA StartGate ==
  ASSUME GateInv, NEW o \in Caller, Start(o)
  PROVE  GateInv' /\ Dispatches
<1>1. call[o] \in Call /\ (o \in Summary => o \notin Chain) /\ 1 \in Nat
  BY CallIn DEF GateInv
<1>2. PICK c : c = IF o \in Summary THEN AtLoop(o, call[o])
                   ELSE AtRoute(o, call[o], 1, cool, dead)
  OBVIOUS
<1>3. Fits(o, c) /\ c.phase \in {"admit", "cancelled", "capped", "failed"}
  <2>1. CASE o \in Summary
    BY <1>1, <1>2, <2>1, LoopFits
  <2>2. CASE o \notin Summary
    BY <1>1, <1>2, <2>2, RouteFits
  <2>3. QED BY <2>1, <2>2
<1>4. /\ call[o].phase = "ready" /\ call' = [call EXCEPT ![o] = c] /\ Register(o, c)
      /\ UNCHANGED <<active, cooldown, dispatched>>
  BY <1>2 DEF Start, ledger
<1>5. QED BY <1>3, <1>4, EntersLoop

LEMMA GiveUpGate ==
  ASSUME GateInv, NEW o \in Caller, GiveUpRoute(o)
  PROVE  GateInv' /\ Dispatches
<1>1. call[o] \in Call
  BY CallIn DEF GateInv
<1>2. PICK b : b = IF SameRoute(o, call[o]) THEN Charged(o, call[o]) ELSE call[o]
  OBVIOUS
<1>3. b \in Call /\ call[o].route + 1 \in Nat
  BY <1>1, <1>2, ChargedType DEF Call
<1>4. PICK c : c = AtRoute(o, b, call[o].route + 1, cool', dead')
  OBVIOUS
<1>5. Fits(o, c) /\ c.phase \in {"admit", "cancelled", "capped", "failed"}
  <2>1. PICK r \in Nat : r = call[o].route + 1
    BY <1>3
  <2>2. c = AtRoute(o, b, r, cool', dead')
    BY <1>4, <2>1
  <2>3. QED BY <1>3, <2>2, RouteFits
<1>6. /\ call[o].phase = "answered" /\ call' = [call EXCEPT ![o] = c] /\ Register(o, c)
      /\ UNCHANGED <<active, cooldown, dispatched>>
  BY <1>2, <1>4 DEF GiveUpRoute, GoesOn
<1>7. QED BY <1>5, <1>6, EntersLoop

\* A call that goes round the attempt loop of its route.
LEMMA LoopGate ==
  ASSUME GateInv, NEW o \in Caller, NEW b \in Call, o \in Chain => b.route \in Route,
         NEW c, c = AtLoop(o, b), call' = [call EXCEPT ![o] = c], Register(o, c),
         call[o].phase \notin {"admit", "sent"}, UNCHANGED <<active, cooldown, dispatched>>
  PROVE  GateInv' /\ Dispatches
<1>1. Fits(o, c) /\ c.phase \in {"admit", "cancelled", "capped"}
  BY LoopFits
<1>2. QED BY <1>1, EntersLoop

LEMMA RecoverGate ==
  ASSUME GateInv, NEW o \in Caller, Recover(o)
  PROVE  GateInv' /\ Dispatches
<1>1. call[o].phase = "answered"
  BY DEF Recover, GoesOn
<1>2. call[o] \in Call /\ (o \in Chain => call[o].route \in Route)
  BY <1>1, CallIn, GateAccounts DEF GateInv, Ended
<1>3. PICK b \in Call : b = Charged(o, call[o]) /\ b.route = call[o].route
  BY <1>2, ChargedType
<1>4. PICK c : c = AtLoop(o, b)
  OBVIOUS
<1>5. /\ call' = [call EXCEPT ![o] = c] /\ Register(o, c)
      /\ UNCHANGED <<active, cooldown, dispatched>>
  BY <1>3, <1>4 DEF Recover, ledger
<1>6. QED BY <1>1, <1>2, <1>3, <1>4, <1>5, LoopGate

LEMMA WakeGate ==
  ASSUME GateInv, NEW o \in Caller, Wake(o)
  PROVE  GateInv' /\ Dispatches
<1>1. call[o].phase = "backoff"
  BY DEF Wake
<1>2. call[o] \in Call /\ (o \in Chain => call[o].route \in Route)
  BY <1>1, CallIn, GateAccounts DEF GateInv, Ended
<1>3. PICK c : c = AtLoop(o, call[o])
  OBVIOUS
<1>4. /\ call' = [call EXCEPT ![o] = c] /\ Register(o, c)
      /\ UNCHANGED <<active, cooldown, dispatched>>
  BY <1>3 DEF Wake, ledger
<1>5. PICK b \in Call : b = call[o] /\ (o \in Chain => b.route \in Route)
  BY <1>2
<1>6. c = AtLoop(o, b)
  BY <1>3, <1>5
<1>7. QED BY <1>1, <1>4, <1>5, <1>6, LoopGate

LEMMA AdmitGate ==
  ASSUME GateInv, NEW o \in Caller, Admit(o)
  PROVE  GateInv' /\ Dispatches
<1>1. /\ call[o].phase = "admit" /\ TryEnter(o, On(o)) /\ Dequeue(o) /\ cooldown' = cooldown
  BY DEF Admit
<1>2. call[o] \in Call /\ On(o) \in Account /\ (o \in Chain => call[o].route \in Route)
  BY <1>1, CallIn, GateAccounts DEF GateInv, Ended
<1>3. CASE ~ Reserve(o)
  <2>1. PICK c : c = Bare("exhausted")
    OBVIOUS
  <2>2. Fits(o, c) /\ c.phase = "exhausted"
    BY <2>1, BareFits DEF Ended
  <2>3. call' = [call EXCEPT ![o] = c] /\ UNCHANGED <<active, cooldown, dispatched>>
    BY <1>3, <2>1 DEF Admit
  <2>4. QED BY <1>1, <2>2, <2>3, LeavesQueue
<1>4. CASE Reserve(o)
  <2>1. PICK b : b = call[o]
    OBVIOUS
  <2>2. b \in Call /\ (o \in Chain => b.route \in Route)
    BY <1>2, <2>1
  <2>3. PICK c : c = [b EXCEPT !.phase = "sent", !.attempt = b.attempt + 1,
                               !.requests = b.requests + 1]
    OBVIOUS
  <2>4. c \in Call /\ c.phase = "sent" /\ c.route = b.route
    <3>1. b.attempt + 1 \in Nat /\ b.requests + 1 \in Nat /\ "sent" \in Phase
      BY <2>2 DEF Call, Phase
    <3>2. QED BY <2>2, <2>3, <3>1 DEF Call
  <2>5. call' = [call EXCEPT ![o] = c]
    BY <1>4, <2>1, <2>3 DEF Admit, GateInv, GateType
  <2>6. Fits(o, c) /\ Spot(o, c) = On(o)
    BY <2>1, <2>2, <2>4 DEF Fits, Spot, On
  <2>7. active' = [active EXCEPT ![On(o)] = active[On(o)] + 1] /\ active[On(o)] < Limit
    BY <1>1, <1>4 DEF Admit, TryEnter
  <2>8. active' \in [Account -> Nat] /\ dispatched' \in Nat /\ cooldown' \in [Account -> Nat]
    BY <1>1, <1>2, <1>4, <2>7 DEF Admit, GateInv, GateType
  <2>9. GateType'
    BY <1>1, <2>5, <2>6, <2>8, TypeMoved, CountTypes DEF GateInv
  <2>10. ActiveInv'
    BY <1>1, <2>4, <2>5, <2>6, <2>7, SendGained DEF GateInv
  <2>11. WaitInv'
    BY <1>1, <1>2, <2>4, <2>5, WaitLost DEF GateInv
  <2>12. RetryInv'
    <3>1. \A a \in Account : cooldown'[a] >= cooldown[a]
      BY <1>1 DEF GateInv, GateType
    <3>2. QED BY <2>4, <2>5, <2>8, <3>1, RetryKept DEF GateInv
  <2>13. Dispatches
    <3>1. call'[o] = c /\ \A p \in Caller \ {o} : call'[p] = call[p]
      BY <2>5 DEF GateInv, GateType
    <3>2. \A q \in Caller : Sent(q)' => Sent(q) \/ q = o
      BY <3>1 DEF Sent
    <3>3. o \notin Interactive => Waiters(On(o)) = {}
      <4>1. SUFFICES ASSUME o \notin Interactive PROVE Waiters(On(o)) = {}
        OBVIOUS
      <4>2. Cardinality(Waiters(On(o))) = 0
        BY <1>1, <1>2, <4>1 DEF TryEnter, GateInv, WaitInv
      <4>3. QED BY <4>2, Finite, FS_EmptySet
    <3>4. QED BY <3>2, <3>3 DEF Dispatches
  <2>14. QED BY <2>9, <2>10, <2>11, <2>12, <2>13 DEF GateInv
<1>5. QED BY <1>3, <1>4

LEMMA AdmitTimeoutGate ==
  ASSUME GateInv, NEW o \in Caller, AdmitTimeout(o)
  PROVE  GateInv' /\ Dispatches
<1>1. PICK p \in {"failed", "capped"} : p = IF o \in Summary THEN "failed" ELSE "capped"
  OBVIOUS
<1>2. PICK c : c = Bare(p)
  OBVIOUS
<1>3. Fits(o, c) /\ c.phase \notin {"admit", "sent", "backoff"}
  BY <1>1, <1>2, BareFits DEF Ended
<1>4. /\ call' = [call EXCEPT ![o] = c] /\ call[o].phase = "admit" /\ Dequeue(o)
      /\ UNCHANGED <<active, cooldown, dispatched>>
  BY <1>1, <1>2 DEF AdmitTimeout, ledger
<1>5. QED BY <1>3, <1>4, LeavesQueue

LEMMA SucceedGate ==
  ASSUME GateInv, NEW o \in Caller, Succeed(o)
  PROVE  GateInv' /\ Dispatches
<1>1. PICK c : c = Bare("ok")
  OBVIOUS
<1>2. Fits(o, c) /\ c.phase \notin {"admit", "sent", "backoff"}
  BY <1>1, BareFits DEF Ended
<1>3. /\ call' = [call EXCEPT ![o] = c] /\ call[o].phase = "sent" /\ Release(On(o))
      /\ UNCHANGED <<waiting, cooldown, dispatched>>
  BY <1>1 DEF Succeed, Sent
<1>4. QED BY <1>2, <1>3, LeavesSlot

LEMMA AnswerGate ==
  ASSUME GateInv, NEW o \in Caller, NEW f \in Failures, Answer(o, f)
  PROVE  GateInv' /\ Dispatches
<1>1. PICK b : b = call[o]
  OBVIOUS
<1>2. b.phase = "sent"
  BY <1>1 DEF Answer, Sent
<1>3. b \in Call /\ (o \in Chain => b.route \in Route)
  BY <1>1, <1>2, CallIn, GateAccounts DEF GateInv, Ended
<1>4. PICK c : c = [b EXCEPT !.phase = "answered", !.fail = f]
  OBVIOUS
<1>5. c \in Call /\ c.phase = "answered" /\ c.route = b.route
  BY <1>3, <1>4 DEF Call, Phase
<1>6. Fits(o, c)
  BY <1>3, <1>5 DEF Fits
<1>7. /\ call' = [call EXCEPT ![o] = c] /\ Release(On(o))
      /\ UNCHANGED <<waiting, cooldown, dispatched>>
  BY <1>1, <1>4 DEF Answer, ledger, GateInv, GateType
<1>8. QED BY <1>1, <1>2, <1>5, <1>6, <1>7, LeavesSlot

\* An announcement never shortens a cooldown, and the account cools down for it.
LEMMA CoolsLonger ==
  ASSUME GateType, NEW a \in Account, NEW d \in Nat, NoteRateLimit(a, d)
  PROVE  cooldown'[a] >= d /\ \A u \in Account : cooldown'[u] >= cooldown[u]
BY DEF GateType, NoteRateLimit, Longer

LEMMA EndGate ==
  ASSUME GateInv, NEW o \in Caller, EndCall(o)
  PROVE  GateInv' /\ Dispatches
<1>1. PICK p \in {"stopped", "capped"} : p = IF Stops(call[o]) THEN "stopped" ELSE "capped"
  OBVIOUS
<1>2. PICK c : c = Bare(p)
  OBVIOUS
<1>3. Fits(o, c) /\ c.phase \notin {"admit", "sent", "backoff"}
  BY <1>1, <1>2, BareFits DEF Ended
<1>4. /\ call' = [call EXCEPT ![o] = c] /\ call[o].phase = "answered"
      /\ UNCHANGED <<active, waiting, dispatched>>
  BY <1>1, <1>2 DEF EndCall, gate, ledger
<1>5. cooldown' \in [Account -> Nat] /\ \A a \in Account : cooldown'[a] >= cooldown[a]
  BY DEF EndCall, gate, GateInv, GateType
<1>6. QED BY <1>3, <1>4, <1>5, StaysOut

\* What a provider announces is a number of ticks.
LEMMA AgainNat ==
  ASSUME NEW c \in Call
  PROVE  c.fail.again \in Nat
<1>1. c.fail \in Failure \/ c.fail = NoFailure
  BY DEF Call
<1>2. NoFailure.again \in Nat
  BY DEF NoFailure
<1>3. \A f \in Failure : f.again \in Nat
  <2>1. \A k \in 0..MaxRetryAfter : k \in Nat
    OBVIOUS
  <2>2. \A f \in Failure : f.again \in 0..MaxRetryAfter \/ f.again = 0
    BY DEF Failure
  <2>3. QED BY <2>1, <2>2
<1>4. QED BY <1>1, <1>2, <1>3

LEMMA BackoffGate ==
  ASSUME GateInv, NEW o \in Caller, Backoff(o)
  PROVE  GateInv' /\ Dispatches
<1>1. call[o].phase = "answered"
  BY DEF Backoff, GoesOn
<1>2. call[o] \in Call /\ (o \in Chain => call[o].route \in Route)
  BY <1>1, CallIn, GateAccounts DEF GateInv, Ended
<1>3. PICK d \in Nat : d = call[o].fail.again
  BY <1>2, AgainNat
<1>4. PICK b \in Call : b = Charged(o, call[o]) /\ b.route = call[o].route
  BY <1>2, ChargedType
<1>5. PICK c : c = [b EXCEPT !.phase = "backoff", !.wait = d]
  OBVIOUS
<1>6. c \in Call /\ c.phase = "backoff" /\ c.route = b.route
  <2>1. "backoff" \in Phase
    BY DEF Phase
  <2>2. QED BY <1>5, <2>1 DEF Call
<1>7. Fits(o, c)
  BY <1>2, <1>4, <1>6 DEF Fits
<1>8. call' = [call EXCEPT ![o] = c] /\ UNCHANGED <<active, waiting, dispatched>>
  BY <1>3, <1>4, <1>5 DEF Backoff, ledger
<1>9. /\ cooldown' \in [Account -> Nat] /\ \A a \in Account : cooldown'[a] >= cooldown[a]
      /\ Spot(o, c) \in Account /\ cooldown'[Spot(o, c)] >= c.wait
  <2>1. IF d > 0 THEN NoteRateLimit(On(o), d) ELSE cooldown' = cooldown
    BY <1>3 DEF Backoff
  <2>2. cooldown' \in [Account -> Nat]
    BY <2>1, CountTypes DEF GateInv, GateType
  <2>3. On(o) \in Account /\ Spot(o, c) = On(o)
    BY <1>1, <1>4, <1>6, GateAccounts DEF GateInv, Ended, Spot, On
  <2>4. c.wait = d
    BY <1>5 DEF Call
  <2>5. CASE d > 0
    BY <2>1, <2>2, <2>3, <2>4, <2>5, CoolsLonger DEF GateInv
  <2>6. CASE ~ (d > 0)
    BY <2>1, <2>2, <2>3, <2>4, <2>6 DEF GateInv, GateType
  <2>7. QED BY <2>5, <2>6
<1>10. QED BY <1>1, <1>6, <1>7, <1>8, <1>9, StaysOut

LEMMA SummaryBackoffGate ==
  ASSUME GateInv, NEW o \in Caller, SummaryBackoff(o)
  PROVE  GateInv' /\ Dispatches
<1>1. PICK b : b = call[o]
  OBVIOUS
<1>2. b.phase = "answered" /\ o \notin Chain /\ b \in Call
  BY <1>1, CallIn DEF SummaryBackoff, GateInv
<1>3. PICK d \in Nat : d = SummaryDelay(b.fail)
  BY <1>2, AgainNat, ChainShape DEF SummaryDelay, Shorter
<1>4. /\ cooldown' \in [Account -> Nat] /\ \A a \in Account : cooldown'[a] >= cooldown[a]
      /\ UNCHANGED <<active, waiting, dispatched>>
  <2>1. NoteRateLimit(On(o), d) \/ cooldown' = cooldown
    BY <1>1, <1>3 DEF SummaryBackoff
  <2>2. cooldown' \in [Account -> Nat]
    BY <2>1, CountTypes DEF GateInv, GateType
  <2>3. On(o) \in Account
    BY <1>1, <1>2, GateAccounts DEF GateInv, Ended
  <2>4. \A a \in Account : cooldown'[a] >= cooldown[a]
    <3>1. CASE NoteRateLimit(On(o), d)
      BY <2>3, <3>1, CoolsLonger DEF GateInv
    <3>2. CASE cooldown' = cooldown
      BY <3>2 DEF GateInv, GateType
    <3>3. QED BY <2>1, <3>1, <3>2
  <2>5. QED BY <2>2, <2>4 DEF SummaryBackoff, ledger
<1>5. CASE b.requests >= SummaryMax \/ o \in cancel
  <2>1. PICK c : c = Bare("failed")
    OBVIOUS
  <2>2. Fits(o, c) /\ c.phase = "failed"
    BY <2>1, BareFits DEF Ended
  <2>3. call' = [call EXCEPT ![o] = c]
    BY <1>1, <1>5, <2>1 DEF SummaryBackoff
  <2>4. QED BY <1>1, <1>2, <1>4, <2>2, <2>3, StaysOut
<1>6. CASE ~ (b.requests >= SummaryMax \/ o \in cancel)
  <2>1. PICK c : c = [b EXCEPT !.phase = "backoff", !.wait = d]
    OBVIOUS
  <2>2. c \in Call /\ c.phase = "backoff"
    BY <1>2, <2>1 DEF Call, Phase
  <2>3. Fits(o, c)
    BY <1>2, <2>2 DEF Fits
  <2>4. call' = [call EXCEPT ![o] = c]
    BY <1>1, <1>3, <1>6, <2>1 DEF SummaryBackoff, GateInv, GateType
  <2>5. QED BY <1>1, <1>2, <1>4, <2>2, <2>3, <2>4, StaysOut
<1>7. QED BY <1>5, <1>6

LEMMA SeeCancelGate ==
  ASSUME GateInv, NEW o \in Caller, SeeCancel(o)
  PROVE  GateInv' /\ Dispatches
<1>1. call[o].phase \in {"admit", "sent", "backoff"} /\ Leave(o, "cancelled")
      /\ UNCHANGED <<cooldown, dispatched>>
  BY DEF SeeCancel, ledger
<1>2. QED BY <1>1, LeaveInv DEF Ended

LEMMA DropGate ==
  ASSUME GateInv, NEW o \in Caller, DropCall(o)
  PROVE  GateInv' /\ Dispatches
<1>1. call[o].phase \in {"admit", "sent", "backoff"} /\ Leave(o, "dropped")
      /\ UNCHANGED <<cooldown, dispatched>>
  BY DEF DropCall, ledger
<1>2. QED BY <1>1, LeaveInv DEF Ended

\* The gate sees neither flags nor clocks nor routes that cool down.
LEMMA GateUnseen ==
  ASSUME GateInv, UNCHANGED <<gate, dispatched, call>>
  PROVE  GateInv' /\ Dispatches
<1>1. UNCHANGED <<active, cooldown, waiting, dispatched, call>>
  BY DEF gate
<1>2. \A a : Senders(a)' = Senders(a) /\ Waiters(a)' = Waiters(a)
  BY <1>1 DEF Senders, Waiters, Sent, On
<1>3. GateType'
  BY <1>1 DEF GateInv, GateType
<1>4. ActiveInv' /\ WaitInv'
  BY <1>1, <1>2 DEF GateInv, ActiveInv, WaitInv
<1>5. RetryInv'
  BY <1>1 DEF GateInv, RetryInv, On
<1>6. Dispatches
  BY <1>1 DEF Dispatches, Sent
<1>7. QED BY <1>3, <1>4, <1>5, <1>6 DEF GateInv

LEMMA TickGate ==
  ASSUME GateInv, Tick
  PROVE  GateInv' /\ Dispatches
<1>1. UNCHANGED <<active, waiting, dispatched>>
  BY DEF Tick, ledger
<1>2. cooldown' \in [Account -> Nat]
  <2>1. \A a \in Account : Less(cooldown[a]) \in Nat
    BY DEF Less, GateInv, GateType
  <2>2. cooldown' = [a \in Account |-> Less(cooldown[a])]
    BY DEF Tick
  <2>3. QED BY <2>1, <2>2
<1>3. call' = [o \in Caller |-> [call[o] EXCEPT !.wait = Less(call[o].wait)]]
  BY DEF Tick
<1>4. ASSUME NEW o \in Caller
      PROVE  /\ call'[o] \in Call /\ call[o] \in Call
             /\ call'[o].phase = call[o].phase /\ call'[o].route = call[o].route
             /\ call'[o].wait = Less(call[o].wait)
  <2>1. PICK b : b = call[o]
    OBVIOUS
  <2>2. b \in Call
    BY <2>1, CallIn DEF GateInv
  <2>3. Less(b.wait) \in Nat
    BY <2>2 DEF Call, Less
  <2>4. call'[o] = [b EXCEPT !.wait = Less(b.wait)]
    BY <1>3, <2>1
  <2>5. QED BY <2>1, <2>2, <2>3, <2>4 DEF Call
<1>5. Chain \subseteq Caller /\ Interactive \subseteq Caller
  BY DEF Caller
<1>6. call' \in [Caller -> Call]
  BY <1>3, <1>4
<1>7. \A o \in Chain : call'[o].phase \notin Ended \cup {"ready"} => call'[o].route \in Route
  BY <1>4, <1>5 DEF GateInv, GateType
<1>8. GateType'
  BY <1>1, <1>2, <1>6, <1>7 DEF GateInv, GateType
<1>9. \A a : Senders(a)' = Senders(a) /\ Waiters(a)' = Waiters(a)
  BY <1>4, <1>5 DEF Senders, Waiters, Sent, On
<1>10. ActiveInv' /\ WaitInv'
  BY <1>1, <1>9 DEF GateInv, ActiveInv, WaitInv
<1>11. Dispatches
  BY <1>4 DEF Dispatches, Sent
<1>12. RetryInv'
  <2>1. ASSUME NEW o \in Chain, call'[o].phase = "backoff"
        PROVE  cooldown'[On(o)'] >= call'[o].wait
    <3>1. call[o].phase = "backoff" /\ o \in Caller
      BY <1>4, <1>5, <2>1
    <3>2. On(o)' = On(o) /\ On(o) \in Account
      BY <1>4, <3>1, GateAccounts DEF GateInv, Ended, On
    <3>3. cooldown[On(o)] >= call[o].wait /\ cooldown[On(o)] \in Nat /\ call[o].wait \in Nat
      BY <1>4, <3>1, <3>2 DEF GateInv, GateType, RetryInv, Call
    <3>4. cooldown'[On(o)] = Less(cooldown[On(o)]) /\ call'[o].wait = Less(call[o].wait)
      BY <1>4, <3>1, <3>2 DEF Tick
    <3>5. QED BY <3>2, <3>3, <3>4 DEF Less
  <2>2. QED BY <2>1 DEF RetryInv
<1>13. QED BY <1>8, <1>10, <1>11, <1>12 DEF GateInv
-----------------------------------------------------------------------------
LEMMA GateInit == CallInit => GateInv
<1> SUFFICES ASSUME CallInit PROVE GateInv
  OBVIOUS
<1>1. PICK S \in Together : call = [o \in Caller |-> Bare(IF o \in S THEN "ready" ELSE "dropped")]
  BY DEF CallInit
<1>2. \A o \in Caller : call[o] \in Call /\ call[o].phase \in Ended \cup {"ready"}
  BY <1>1 DEF Bare, Call, Phase, Ended
<1>3. call \in [Caller -> Call] /\ Chain \subseteq Caller /\ Interactive \subseteq Caller
  BY <1>1, <1>2 DEF Caller
<1>4. GateType
  BY <1>2, <1>3 DEF CallInit, GateType
<1>5. \A a : Senders(a) = {} /\ Waiters(a) = {}
  BY <1>2, <1>3 DEF Senders, Waiters, Sent, Ended
<1>6. Cardinality({}) = 0
  BY FS_EmptySet
<1>7. \A a \in Account : active[a] = 0 /\ waiting[a] = 0 /\ 0 <= Limit
  BY DEF CallInit
<1>8. \A a : Cardinality(Senders(a)) = 0 /\ Cardinality(Waiters(a)) = 0
  BY <1>5, <1>6
<1>9. ActiveInv /\ WaitInv
  BY <1>7, <1>8 DEF ActiveInv, WaitInv
<1>10. RetryInv
  BY <1>2, <1>3 DEF RetryInv, Ended
<1>11. QED BY <1>4, <1>9, <1>10 DEF GateInv

LEMMA GateStep == GateInv /\ [CallNext]_callVars => GateInv' /\ Dispatches
<1> SUFFICES ASSUME GateInv, [CallNext]_callVars PROVE GateInv' /\ Dispatches
  OBVIOUS
<1>1. CASE UNCHANGED callVars
  BY <1>1, GateUnseen DEF callVars, ledger
<1>2. CASE CallNext
  <2> DEFINE G == GateInv' /\ Dispatches
  <2>1. Tick => G
    BY TickGate
  <2>2. \A r \in Route : RouteCooled(r) => G
    BY GateUnseen DEF RouteCooled
  <2>3. \A o \in Caller : Start(o) => G
    BY StartGate
  <2>4. \A o \in Caller : Admit(o) => G
    BY AdmitGate
  <2>5. \A o \in Caller : AdmitTimeout(o) => G
    BY AdmitTimeoutGate
  <2>6. \A o \in Caller : Succeed(o) => G
    BY SucceedGate
  <2>7. \A o \in Caller : \A f \in Failures : Answer(o, f) => G
    BY AnswerGate
  <2>8. \A o \in Caller : EndCall(o) => G
    BY EndGate
  <2>9. \A o \in Caller : GiveUpRoute(o) => G
    BY GiveUpGate
  <2>10. \A o \in Caller : Recover(o) => G
    BY RecoverGate
  <2>11. \A o \in Caller : Backoff(o) => G
    BY BackoffGate
  <2>12. \A o \in Caller : SummaryBackoff(o) => G
    BY SummaryBackoffGate
  <2>13. \A o \in Caller : Wake(o) => G
    BY WakeGate
  <2>14. \A o \in Caller : SeeCancel(o) => G
    BY SeeCancelGate
  <2>15. \A o \in Caller : DropCall(o) => G
    BY DropGate
  <2>16. \A o \in Caller : Cancel(o) => G
    BY GateUnseen DEF Cancel, ledger
  <2>17. \A o \in Caller : ClockRunsOut(o) => G
    BY GateUnseen DEF ClockRunsOut, ledger
  <2> HIDE DEF G
  <2>18. G
    BY <1>2, <2>1, <2>2, <2>3, <2>4, <2>5, <2>6, <2>7, <2>8, <2>9, <2>10, <2>11, <2>12,
       <2>13, <2>14, <2>15, <2>16, <2>17, CallCases, Zenon
  <2>19. QED BY <2>18 DEF G
<1>3. QED BY <1>1, <1>2

LEMMA GateHolds == CallSpec => []GateInv
<1>1. QED BY GateInit, GateStep, PTL DEF CallSpec

\* The gate counts what is there, whatever was cancelled, timed out or dropped: a
\* slot is taken for each request in flight and never more than Limit of them are, and
\* each waiting interactive call is registered once (AdmissionGuard, InteractiveWait).
THEOREM GateCountsTrue == CallSpec => []GateCounts
<1>1. GateInv => GateCounts
  BY DEF GateInv, ActiveInv, WaitInv, GateCounts
<1>2. QED BY <1>1, GateHolds, PTL

\* A background call takes no slot of an account while an interactive call waits for
\* it, on its first attempt or a later one (try_acquire_class, InteractiveWait).
THEOREM InteractiveGoFirst == CallSpec => InteractiveFirst
<1>1. GateInv /\ [CallNext]_callVars =>
        [\A o \in Caller \ Interactive : ~ Sent(o) /\ Sent(o)' => Waiters(On(o)) = {}]_callVars
  BY GateStep DEF Dispatches
<1>2. QED BY <1>1, GateHolds, PTL DEF CallSpec, InteractiveFirst

\* While a call sleeps out a retry-after its account admits nobody, though other calls
\* of the account announced shorter ones meanwhile (note_rate_limit).
THEOREM RetryAfterKept == CallSpec => []RetryAfterShared
<1>1. GateInv => RetryAfterShared
  BY DEF GateInv, RetryInv, RetryAfterShared
<1>2. QED BY <1>1, GateHolds, PTL
-----------------------------------------------------------------------------
(* The wire budget of an operation and the ledger of its stage.              *)

\* Configured routes up to r: each may be sent to once without an extra.
Through(r) == Cardinality({q \in Configured : q <= r})

\* What an interactive call has spent: a request per configured route it reached and one
\* per extra, of which one may still be owed while it waits for its slot.
Spent(c) ==
  /\ c.extra <= SharedExtra
  /\ c.phase \in {"admit", "backoff"} =>
       c.attempt < PerRouteMax /\ c.requests < c.extra + Through(c.route)
  /\ c.phase \in {"sent", "answered"} =>
       c.attempt <= PerRouteMax /\ c.requests <= c.extra + Through(c.route)
  /\ c.phase \in Ended \cup {"ready"} => c.attempt = 0 /\ c.requests = 0 /\ c.extra = 0

BudgetInv == (\A o \in Interactive : Spent(call[o])) /\ dispatched <= StageCap

LEMMA ThroughType ==
  /\ \A r : Through(r) \in Nat /\ Through(r) <= Cardinality(Configured)
  /\ Cardinality(Configured) \in Nat
<1>1. IsFiniteSet(Configured)
  <2>1. IsFiniteSet(Route)
    BY FS_Interval DEF Route
  <2>2. QED BY <2>1, FS_Subset
<1>2. ASSUME NEW r PROVE Through(r) \in Nat /\ Through(r) <= Cardinality(Configured)
  <2>1. {q \in Configured : q <= r} \in SUBSET Configured
    OBVIOUS
  <2>2. QED BY <1>1, <2>1, FS_Subset, FS_CardinalityType DEF Through
<1>3. QED BY <1>1, <1>2, FS_CardinalityType

LEMMA ThroughGrows ==
  ASSUME NEW r \in Nat, NEW q \in Configured, r < q
  PROVE  Through(r) + 1 <= Through(q)
<1> DEFINE S == {u \in Configured : u <= r}
           T == {u \in Configured : u <= q}
<1>1. IsFiniteSet(Configured)
  <2>1. IsFiniteSet(Route)
    BY FS_Interval DEF Route
  <2>2. QED BY <2>1, FS_Subset
<1>2. IsFiniteSet(S) /\ IsFiniteSet(T)
  <2>1. S \in SUBSET Configured /\ T \in SUBSET Configured
    OBVIOUS
  <2>2. QED BY <1>1, <2>1, FS_Subset
<1>3. \A u \in Configured : u \in Nat
  BY DEF Route
<1>4. q \in T /\ q \notin S /\ S \subseteq T
  BY <1>3
<1>5. Cardinality(S \cup {q}) = Cardinality(S) + 1
  BY <1>2, <1>4, FS_AddElement
<1>6. Cardinality(S \cup {q}) <= Cardinality(T)
  <2>1. S \cup {q} \in SUBSET T
    BY <1>4
  <2>2. QED BY <1>2, <2>1, FS_Subset
<1>7. QED BY <1>5, <1>6 DEF Through

LEMMA BareSpent ==
  ASSUME NEW p \in Ended \cup {"ready"}
  PROVE  Spent(Bare(p))
BY DEF Spent, Bare, Ended

LEMMA LoopSpent ==
  ASSUME NEW o, NEW c \in Call, c.extra <= SharedExtra, c.attempt < PerRouteMax,
         c.requests < c.extra + Through(c.route)
  PROVE  Spent(AtLoop(o, c))
<1>1. PICK d : d = [c EXCEPT !.phase = "admit", !.fail = NoFailure, !.wait = 0]
  OBVIOUS
<1>2. /\ d.phase = "admit" /\ d.extra = c.extra /\ d.attempt = c.attempt
      /\ d.requests = c.requests /\ d.route = c.route
  BY <1>1 DEF Call
<1>3. Spent(d)
  BY <1>2 DEF Spent, Ended
<1>4. Spent(Bare("cancelled")) /\ Spent(Bare("capped"))
  BY BareSpent DEF Ended
<1>5. QED BY <1>1, <1>3, <1>4 DEF AtLoop

\* The next open route lies behind r and brings a request of its own.
LEMMA RouteSpent ==
  ASSUME NEW o, NEW c \in Call, NEW r \in Nat, NEW cl, NEW dd,
         c.extra <= SharedExtra, c.requests <= c.extra + Through(r)
  PROVE  Spent(AtRoute(o, c, r + 1, cl, dd))
<1> DEFINE open == {q \in Route : q >= r + 1 /\ ~ PassedOver(o, q, cl, dd)}
           first == CHOOSE q \in open : \A u \in open : q <= u
           at == [c EXCEPT !.route = first, !.attempt = 0]
<1>1. CASE open = {}
  <2>1. AtRoute(o, c, r + 1, cl, dd) \in {Bare("cancelled"), Bare("failed")}
    BY <1>1 DEF AtRoute
  <2>2. Spent(Bare("cancelled")) /\ Spent(Bare("failed"))
    BY BareSpent DEF Ended
  <2>3. QED BY <2>1, <2>2
<1>2. CASE open # {}
  <2>1. AtRoute(o, c, r + 1, cl, dd) = AtLoop(o, at)
    BY <1>2 DEF AtRoute
  <2>2. first \in open
    <3>1. open \in SUBSET Route OBVIOUS
    <3> HIDE DEF open
    <3>2. QED BY <1>2, <3>1, FirstOpen
  <2>3. first \in Configured /\ first \in Route /\ first >= r + 1
    BY <2>2 DEF PassedOver
  <2> HIDE DEF open, first
  <2>4. Through(r) + 1 <= Through(first)
    <3>1. r < first
      BY <2>3 DEF Route
    <3>2. QED BY <2>3, <3>1, ThroughGrows
  <2>5. /\ at \in Call /\ at.route = first /\ at.attempt = 0
        /\ at.extra = c.extra /\ at.requests = c.requests
    <3>1. first \in Nat
      BY <2>3 DEF Route
    <3>2. QED BY <3>1 DEF Call
  <2>6. at.attempt < PerRouteMax
    BY <2>5
  <2>7. at.requests < at.extra + Through(at.route)
    <3>1. Through(r) \in Nat /\ Through(first) \in Nat /\ c.extra \in Nat /\ c.requests \in Nat
      BY ThroughType DEF Call
    <3>2. QED BY <2>4, <2>5, <3>1
  <2> HIDE DEF at
  <2>8. QED BY <2>1, <2>5, <2>6, <2>7, LoopSpent
<1>3. QED BY <1>1, <1>2

LEMMA SpentMoved ==
  ASSUME GateInv, BudgetInv, NEW o \in Caller, NEW c, call' = [call EXCEPT ![o] = c],
         o \in Interactive => Spent(c), dispatched' <= StageCap
  PROVE  BudgetInv'
<1>1. call'[o] = c /\ \A p \in Caller \ {o} : call'[p] = call[p]
  BY DEF GateInv, GateType
<1>2. Interactive \subseteq Caller
  BY DEF Caller
<1>3. ASSUME NEW p \in Interactive PROVE Spent(call'[p])
  <2>1. CASE p = o
    BY <1>1, <1>3, <2>1
  <2>2. CASE p # o
    BY <1>1, <1>2, <1>3, <2>2 DEF BudgetInv
  <2>3. QED BY <2>1, <2>2
<1>4. \A p \in Interactive : Spent(call[p])'
  BY <1>3 DEF Spent, Through
<1>5. QED BY <1>4 DEF BudgetInv

\* A call that is over has nothing left to spend.
LEMMA EndsSpent ==
  ASSUME GateInv, BudgetInv, NEW o \in Caller, NEW p \in Ended,
         call' = [call EXCEPT ![o] = Bare(p)], dispatched' = dispatched
  PROVE  BudgetInv'
<1>1. PICK c : c = Bare(p)
  OBVIOUS
<1>2. Spent(c)
  BY <1>1, BareSpent
<1>3. QED BY <1>1, <1>2, SpentMoved DEF BudgetInv
-----------------------------------------------------------------------------
\* What call o, in phase p, may have spent before its step.
LEMMA SpentBefore ==
  ASSUME GateInv, BudgetInv, NEW o \in Interactive
  PROVE  Spent(call[o]) /\ call[o] \in Call /\ o \in Chain /\ o \in Caller /\ o \notin Summary
BY CallIn DEF GateInv, BudgetInv, Caller

\* An extra dispatch is one the call still had.
LEMMA ChargedSpent ==
  ASSUME NEW o \in Interactive, NEW c \in Call, SameRoute(o, c)
  PROVE  /\ Charged(o, c).extra = c.extra + 1 /\ c.extra + 1 <= SharedExtra
         /\ Charged(o, c).attempt = c.attempt /\ c.attempt < PerRouteMax
         /\ Charged(o, c).requests = c.requests /\ Charged(o, c).route = c.route
<1>1. c.extra < SharedExtra /\ c.attempt < PerRouteMax
  BY DEF SameRoute, ExtraAllowed, AttemptLimit
<1>2. PICK n : n = IF c.fail.recovery THEN c.retries ELSE c.retries + 1
  OBVIOUS
<1>3. Charged(o, c) = [c EXCEPT !.extra = c.extra + 1, !.retries = n]
  BY <1>2 DEF Charged
<1>4. c.extra \in Nat
  BY DEF Call
<1>5. QED BY <1>1, <1>3, <1>4 DEF Call

LEMMA StartBudget ==
  ASSUME GateInv, BudgetInv, NEW o \in Caller, Start(o)
  PROVE  BudgetInv'
<1>1. PICK c : c = IF o \in Summary THEN AtLoop(o, call[o])
                   ELSE AtRoute(o, call[o], 1, cool, dead)
  OBVIOUS
<1>2. call' = [call EXCEPT ![o] = c] /\ dispatched' = dispatched
  BY <1>1 DEF Start, ledger
<1>3. ASSUME o \in Interactive PROVE Spent(c)
  <2>1. Spent(call[o]) /\ call[o] \in Call /\ o \notin Summary
    BY <1>3, SpentBefore
  <2>2. call[o].requests = 0 /\ call[o].extra = 0
    BY <2>1 DEF Start, Spent
  <2>3. call[o].extra <= SharedExtra /\ call[o].requests <= call[o].extra + Through(0)
    BY <2>2, ThroughType
  <2>4. Spent(AtRoute(o, call[o], 0 + 1, cool, dead))
    BY <2>1, <2>3, RouteSpent
  <2>5. QED BY <1>1, <2>1, <2>4
<1>4. QED BY <1>2, <1>3, SpentMoved DEF BudgetInv

LEMMA GiveUpBudget ==
  ASSUME GateInv, BudgetInv, NEW o \in Caller, GiveUpRoute(o)
  PROVE  BudgetInv'
<1>1. PICK b : b = IF SameRoute(o, call[o]) THEN Charged(o, call[o]) ELSE call[o]
  OBVIOUS
<1>2. PICK c : c = AtRoute(o, b, call[o].route + 1, cool', dead')
  OBVIOUS
<1>3. call' = [call EXCEPT ![o] = c] /\ dispatched' = dispatched
  BY <1>1, <1>2 DEF GiveUpRoute
<1>4. ASSUME o \in Interactive PROVE Spent(c)
  <2>1. Spent(call[o]) /\ call[o] \in Call
    BY <1>4, SpentBefore
  <2>2. call[o].phase = "answered"
    BY DEF GiveUpRoute, GoesOn
  <2>3. /\ call[o].extra <= SharedExtra
        /\ call[o].requests <= call[o].extra + Through(call[o].route)
    BY <2>1, <2>2 DEF Spent
  <2>4. PICK r \in Nat : r = call[o].route
    BY <2>1 DEF Call
  <2>5. b \in Call /\ b.extra <= SharedExtra /\ b.requests <= b.extra + Through(r)
    <3>1. Through(r) \in Nat /\ call[o].extra \in Nat /\ call[o].requests \in Nat
      BY <2>1, ThroughType DEF Call
    <3>2. CASE SameRoute(o, call[o])
      <4>1. b \in Call
        BY <1>1, <2>1, <3>2, ChargedType
      <4>2. b.extra = call[o].extra + 1 /\ b.extra <= SharedExtra
            /\ b.requests = call[o].requests
        BY <1>1, <1>4, <2>1, <3>2, ChargedSpent
      <4>3. QED BY <2>3, <2>4, <3>1, <4>1, <4>2
    <3>3. CASE ~ SameRoute(o, call[o])
      BY <1>1, <2>1, <2>3, <2>4, <3>3
    <3>4. QED BY <3>2, <3>3
  <2>6. Spent(AtRoute(o, b, r + 1, cool', dead'))
    BY <2>5, RouteSpent
  <2>7. QED BY <1>2, <2>4, <2>6
<1>5. QED BY <1>3, <1>4, SpentMoved DEF BudgetInv

LEMMA RecoverBudget ==
  ASSUME GateInv, BudgetInv, NEW o \in Caller, Recover(o)
  PROVE  BudgetInv'
<1>1. PICK b : b = Charged(o, call[o])
  OBVIOUS
<1>2. PICK c : c = AtLoop(o, b)
  OBVIOUS
<1>3. call' = [call EXCEPT ![o] = c] /\ dispatched' = dispatched
  BY <1>1, <1>2 DEF Recover, ledger
<1>4. ASSUME o \in Interactive PROVE Spent(c)
  <2>1. Spent(call[o]) /\ call[o] \in Call
    BY <1>4, SpentBefore
  <2>2. call[o].phase = "answered" /\ SameRoute(o, call[o])
    BY DEF Recover, GoesOn
  <2>3. b \in Call
    BY <1>1, <2>1, ChargedType
  <2>4. /\ b.extra = call[o].extra + 1 /\ b.extra <= SharedExtra /\ b.attempt < PerRouteMax
        /\ b.requests = call[o].requests /\ b.route = call[o].route
    BY <1>1, <1>4, <2>1, <2>2, ChargedSpent
  <2>5. b.requests < b.extra + Through(b.route)
    <3>1. Through(b.route) \in Nat /\ call[o].extra \in Nat /\ call[o].requests \in Nat
      BY <2>1, ThroughType DEF Call
    <3>2. call[o].requests <= call[o].extra + Through(b.route)
      BY <2>1, <2>2, <2>4 DEF Spent
    <3>3. QED BY <2>4, <3>1, <3>2
  <2>6. QED BY <1>2, <2>3, <2>4, <2>5, LoopSpent
<1>5. QED BY <1>3, <1>4, SpentMoved DEF BudgetInv

LEMMA BackoffBudget ==
  ASSUME GateInv, BudgetInv, NEW o \in Caller, Backoff(o)
  PROVE  BudgetInv'
<1>1. PICK b : b = Charged(o, call[o])
  OBVIOUS
<1>2. PICK c : c = [b EXCEPT !.phase = "backoff", !.wait = call[o].fail.again]
  OBVIOUS
<1>3. call' = [call EXCEPT ![o] = c] /\ dispatched' = dispatched
  BY <1>1, <1>2 DEF Backoff, ledger
<1>4. ASSUME o \in Interactive PROVE Spent(c)
  <2>1. Spent(call[o]) /\ call[o] \in Call
    BY <1>4, SpentBefore
  <2>2. call[o].phase = "answered" /\ SameRoute(o, call[o])
    BY DEF Backoff, GoesOn
  <2>3. b \in Call
    BY <1>1, <2>1, ChargedType
  <2>4. /\ b.extra = call[o].extra + 1 /\ b.extra <= SharedExtra /\ b.attempt < PerRouteMax
        /\ b.requests = call[o].requests /\ b.route = call[o].route
    BY <1>1, <1>4, <2>1, <2>2, ChargedSpent
  <2>5. b.requests < b.extra + Through(b.route)
    <3>1. Through(b.route) \in Nat /\ call[o].extra \in Nat /\ call[o].requests \in Nat
      BY <2>1, ThroughType DEF Call
    <3>2. call[o].requests <= call[o].extra + Through(b.route)
      BY <2>1, <2>2, <2>4 DEF Spent
    <3>3. QED BY <2>4, <3>1, <3>2
  <2>6. /\ c.phase = "backoff" /\ c.extra = b.extra /\ c.attempt = b.attempt
        /\ c.requests = b.requests /\ c.route = b.route
    BY <1>2, <2>3 DEF Call
  <2>7. QED BY <2>4, <2>5, <2>6 DEF Spent, Ended
<1>5. QED BY <1>3, <1>4, SpentMoved DEF BudgetInv

LEMMA WakeBudget ==
  ASSUME GateInv, BudgetInv, NEW o \in Caller, Wake(o)
  PROVE  BudgetInv'
<1>1. PICK c : c = AtLoop(o, call[o])
  OBVIOUS
<1>2. call' = [call EXCEPT ![o] = c] /\ dispatched' = dispatched /\ call[o].phase = "backoff"
  BY <1>1 DEF Wake, ledger
<1>3. ASSUME o \in Interactive PROVE Spent(c)
  <2>1. Spent(call[o]) /\ call[o] \in Call
    BY <1>3, SpentBefore
  <2>2. QED BY <1>1, <1>2, <2>1, LoopSpent DEF Spent
<1>4. QED BY <1>2, <1>3, SpentMoved DEF BudgetInv

LEMMA AdmitBudget ==
  ASSUME GateInv, BudgetInv, NEW o \in Caller, Admit(o)
  PROVE  BudgetInv'
<1>1. CASE ~ Reserve(o)
  <2>1. call' = [call EXCEPT ![o] = Bare("exhausted")] /\ dispatched' = dispatched
    BY <1>1 DEF Admit
  <2>2. QED BY <2>1, EndsSpent DEF Ended
<1>2. CASE Reserve(o)
  <2>1. PICK b : b = call[o]
    OBVIOUS
  <2>2. b \in Call /\ b.phase = "admit"
    BY <2>1, CallIn DEF GateInv, Admit
  <2>3. PICK c : c = [b EXCEPT !.phase = "sent", !.attempt = b.attempt + 1,
                               !.requests = b.requests + 1]
    OBVIOUS
  <2>4. call' = [call EXCEPT ![o] = c]
    BY <1>2, <2>1, <2>3 DEF Admit, GateInv, GateType
  <2>5. dispatched' <= StageCap
    BY <1>2 DEF Admit, Reserve, BudgetInv, GateInv, GateType
  <2>6. ASSUME o \in Interactive PROVE Spent(c)
    <3>1. /\ b.extra <= SharedExtra /\ b.attempt < PerRouteMax
          /\ b.requests < b.extra + Through(b.route)
      BY <2>1, <2>2, <2>6, SpentBefore DEF Spent
    <3>2. b.extra \in Nat /\ b.attempt \in Nat /\ b.requests \in Nat /\ Through(b.route) \in Nat
      BY <2>2, ThroughType DEF Call
    <3>3. /\ c.phase = "sent" /\ c.extra = b.extra /\ c.attempt = b.attempt + 1
          /\ c.requests = b.requests + 1 /\ c.route = b.route
      BY <2>2, <2>3 DEF Call
    <3>4. c.attempt <= PerRouteMax /\ c.requests <= c.extra + Through(c.route)
      BY <3>1, <3>2, <3>3
    <3>5. QED BY <3>1, <3>3, <3>4 DEF Spent, Ended
  <2>7. QED BY <2>4, <2>5, <2>6, SpentMoved
<1>3. QED BY <1>1, <1>2

LEMMA AnswerBudget ==
  ASSUME GateInv, BudgetInv, NEW o \in Caller, NEW f \in Failures, Answer(o, f)
  PROVE  BudgetInv'
<1>1. PICK b : b = call[o]
  OBVIOUS
<1>2. b \in Call /\ b.phase = "sent"
  BY <1>1, CallIn DEF GateInv, Answer, Sent
<1>3. PICK c : c = [b EXCEPT !.phase = "answered", !.fail = f]
  OBVIOUS
<1>4. call' = [call EXCEPT ![o] = c] /\ dispatched' = dispatched
  BY <1>1, <1>3 DEF Answer, ledger, GateInv, GateType
<1>5. ASSUME o \in Interactive PROVE Spent(c)
  <2>1. /\ c.phase = "answered" /\ c.extra = b.extra /\ c.attempt = b.attempt
        /\ c.requests = b.requests /\ c.route = b.route
    BY <1>2, <1>3 DEF Call
  <2>2. Spent(b)
    BY <1>1, <1>5, SpentBefore
  <2>3. QED BY <1>2, <2>1, <2>2 DEF Spent, Ended
<1>6. QED BY <1>4, <1>5, SpentMoved DEF BudgetInv

LEMMA SummaryBackoffBudget ==
  ASSUME GateInv, BudgetInv, NEW o \in Caller, SummaryBackoff(o)
  PROVE  BudgetInv'
<1>1. o \notin Interactive /\ dispatched' = dispatched
  BY DEF SummaryBackoff, ledger
<1>2. PICK c : c = IF call[o].requests >= SummaryMax \/ o \in cancel THEN Bare("failed")
                   ELSE [call[o] EXCEPT !.phase = "backoff", !.wait = SummaryDelay(call[o].fail)]
  OBVIOUS
<1>3. call' = [call EXCEPT ![o] = c]
  BY <1>2 DEF SummaryBackoff, GateInv, GateType
<1>4. QED BY <1>1, <1>3, SpentMoved DEF BudgetInv

\* The calls that end: all of them with what they held.
LEMMA EndsBudget ==
  ASSUME GateInv, BudgetInv, NEW o \in Caller,
         AdmitTimeout(o) \/ Succeed(o) \/ EndCall(o) \/ SeeCancel(o) \/ DropCall(o)
  PROVE  BudgetInv'
<1>1. dispatched' = dispatched
  BY DEF AdmitTimeout, Succeed, EndCall, SeeCancel, DropCall, ledger
<1>2. PICK p \in Ended : call' = [call EXCEPT ![o] = Bare(p)]
  BY DEF AdmitTimeout, Succeed, EndCall, SeeCancel, DropCall, Leave, Ended
<1>3. QED BY <1>1, <1>2, EndsSpent

LEMMA BudgetUnseen ==
  ASSUME BudgetInv, UNCHANGED <<dispatched, call>>
  PROVE  BudgetInv'
BY DEF BudgetInv, Spent, Through

LEMMA TickBudget ==
  ASSUME GateInv, BudgetInv, Tick
  PROVE  BudgetInv'
<1>1. dispatched' = dispatched
  BY DEF Tick, ledger
<1>2. ASSUME NEW o \in Interactive PROVE Spent(call'[o])
  <2>1. PICK b : b = call[o]
    OBVIOUS
  <2>2. Spent(b) /\ b \in Call /\ o \in Caller
    BY <2>1, SpentBefore
  <2>3. PICK c : c = [b EXCEPT !.wait = Less(b.wait)]
    OBVIOUS
  <2>4. call'[o] = c
    BY <2>1, <2>2, <2>3 DEF Tick
  <2>5. /\ c.phase = b.phase /\ c.extra = b.extra /\ c.attempt = b.attempt
        /\ c.requests = b.requests /\ c.route = b.route
    BY <2>2, <2>3 DEF Call
  <2>6. Spent(c)
    BY <2>2, <2>5 DEF Spent
  <2>7. QED BY <2>4, <2>6
<1>3. \A o \in Interactive : Spent(call[o])'
  BY <1>2 DEF Spent, Through
<1>4. QED BY <1>1, <1>3 DEF BudgetInv
-----------------------------------------------------------------------------
LEMMA BudgetInit == CallInit => BudgetInv
<1> SUFFICES ASSUME CallInit PROVE BudgetInv
  OBVIOUS
<1>1. PICK S \in Together : call = [o \in Caller |-> Bare(IF o \in S THEN "ready" ELSE "dropped")]
  BY DEF CallInit
<1>2. \A o \in Interactive : o \in Caller
  BY DEF Caller
<1>3. \A o \in Interactive : Spent(call[o])
  <2>1. "ready" \in Ended \cup {"ready"} /\ "dropped" \in Ended \cup {"ready"}
    BY DEF Ended
  <2>2. Spent(Bare("ready")) /\ Spent(Bare("dropped"))
    BY <2>1, BareSpent
  <2>3. QED BY <1>1, <1>2, <2>2
<1>4. QED BY <1>3 DEF CallInit, BudgetInv

LEMMA BudgetStep == GateInv /\ BudgetInv /\ [CallNext]_callVars => BudgetInv'
<1> SUFFICES ASSUME GateInv, BudgetInv, [CallNext]_callVars PROVE BudgetInv'
  OBVIOUS
<1>1. CASE UNCHANGED callVars
  BY <1>1, BudgetUnseen DEF callVars, ledger
<1>2. CASE CallNext
  <2> DEFINE G == BudgetInv'
  <2>1. Tick => G
    BY TickBudget
  <2>2. \A r \in Route : RouteCooled(r) => G
    BY BudgetUnseen DEF RouteCooled
  <2>3. \A o \in Caller : Start(o) => G
    BY StartBudget
  <2>4. \A o \in Caller : Admit(o) => G
    BY AdmitBudget
  <2>5. \A o \in Caller : AdmitTimeout(o) => G
    BY EndsBudget
  <2>6. \A o \in Caller : Succeed(o) => G
    BY EndsBudget
  <2>7. \A o \in Caller : \A f \in Failures : Answer(o, f) => G
    BY AnswerBudget
  <2>8. \A o \in Caller : EndCall(o) => G
    BY EndsBudget
  <2>9. \A o \in Caller : GiveUpRoute(o) => G
    BY GiveUpBudget
  <2>10. \A o \in Caller : Recover(o) => G
    BY RecoverBudget
  <2>11. \A o \in Caller : Backoff(o) => G
    BY BackoffBudget
  <2>12. \A o \in Caller : SummaryBackoff(o) => G
    BY SummaryBackoffBudget
  <2>13. \A o \in Caller : Wake(o) => G
    BY WakeBudget
  <2>14. \A o \in Caller : SeeCancel(o) => G
    BY EndsBudget
  <2>15. \A o \in Caller : DropCall(o) => G
    BY EndsBudget
  <2>16. \A o \in Caller : Cancel(o) => G
    BY BudgetUnseen DEF Cancel, ledger
  <2>17. \A o \in Caller : ClockRunsOut(o) => G
    BY BudgetUnseen DEF ClockRunsOut, ledger
  <2> HIDE DEF G
  <2>18. G
    BY <1>2, <2>1, <2>2, <2>3, <2>4, <2>5, <2>6, <2>7, <2>8, <2>9, <2>10, <2>11, <2>12,
       <2>13, <2>14, <2>15, <2>16, <2>17, CallCases, Zenon
  <2>19. QED BY <2>18 DEF G
<1>3. QED BY <1>1, <1>2

\* The wire budget of an operation and the stage's request cap hold through retries,
\* recoveries and changes of route (WireBudget::max_dispatches, StageLedger::reserve).
THEOREM BudgetsHold == CallSpec => []BudgetKept
<1>1. GateInv /\ BudgetInv => BudgetKept
  <2> SUFFICES ASSUME GateInv, BudgetInv PROVE BudgetKept
    OBVIOUS
  <2>1. ASSUME NEW o \in Interactive
        PROVE  /\ call[o].requests <= Cardinality(Configured) + SharedExtra
               /\ call[o].attempt <= PerRouteMax
    <3>1. PICK c : c = call[o]
      OBVIOUS
    <3>2. Spent(c) /\ c \in Call
      BY <3>1, SpentBefore
    <3>3. /\ c.requests \in Nat /\ c.attempt \in Nat /\ c.extra \in Nat
          /\ Through(c.route) \in Nat /\ Through(c.route) <= Cardinality(Configured)
          /\ Cardinality(Configured) \in Nat
      BY <3>2, ThroughType DEF Call
    <3>4. c.phase \in {"admit", "backoff", "sent", "answered"} \cup Ended \cup {"ready"}
      BY <3>2 DEF Call, Phase
    <3>5. c.extra <= SharedExtra /\ c.attempt <= PerRouteMax
          /\ c.requests <= c.extra + Through(c.route)
      BY <3>2, <3>3, <3>4 DEF Spent
    <3>6. QED BY <3>1, <3>3, <3>5
  <2>2. QED BY <2>1 DEF BudgetInv, BudgetKept
<1>2. QED BY <1>1, BudgetInit, BudgetStep, GateHolds, PTL DEF CallSpec
=============================================================================
