----------------------------- MODULE TaskLease -----------------------------
(***************************************************************************)
(* What the durable job system promises its executors, without jobs,       *)
(* clocks, owners, retries or dependencies: a task is published at most    *)
(* once, and only by the claim whose fencing epoch its row still carries.   *)
(*                                                                         *)
(* JobStore implements this specification (JobStoreRefines).               *)
(***************************************************************************)
EXTENDS Integers, TLAPS

CONSTANTS Task, Worker, Tree,
          TreeOf  \* [Task -> Tree], the root job of a task

VARIABLES
  row,      \* absent, open (waiting), leased, done, or closed without a result
  epoch,    \* fencing epoch of the row
  output,   \* epoch of the published output, 0 for none
  claim,    \* the claims each executor has in memory, as <<task, epoch>>
  retired   \* trees purged for good

lvars == <<row, epoch, output, claim, retired>>

Row == {"absent", "open", "leased", "done", "closed"}

LeaseTypeOK ==
  /\ row \in [Task -> Row]
  /\ epoch \in [Task -> Nat]
  /\ output \in [Task -> Nat]
  /\ claim \in [Worker -> SUBSET (Task \X Nat)]
  /\ retired \subseteq Tree

LInit ==
  /\ row = [t \in Task |-> "absent"]
  /\ epoch = [t \in Task |-> 0]
  /\ output = [t \in Task |-> 0]
  /\ claim = [w \in Worker |-> {}]
  /\ retired = {}

\* The tasks whose row is one of R.
Those(R) == {t \in Task : row[t] \in R}

\* Absent rows of S appear, also in a retired tree, while those of C, which they replace,
\* are closed under a new epoch.
Create(S, C) ==
  /\ row' = [t \in Task |-> IF t \in S THEN "open"
                             ELSE IF t \in C THEN "closed" ELSE row[t]]
  /\ epoch' = [t \in Task |-> IF t \in C THEN epoch[t] + 1 ELSE epoch[t]]
  /\ UNCHANGED <<output, claim, retired>>

\* Executor w leases t, which no retirement marker covers, under a new epoch.
Lease(w, t) ==
  /\ claim[w] = {}
  /\ row[t] = "open"
  /\ TreeOf[t] \notin retired
  /\ row' = [row EXCEPT ![t] = "leased"]
  /\ epoch' = [epoch EXCEPT ![t] = epoch[t] + 1]
  /\ claim' = [claim EXCEPT ![w] = {<<t, epoch[t] + 1>>}]
  /\ UNCHANGED <<output, retired>>

\* The rows of S, open or leased, are taken from whoever leased or might lease them, by moving
\* their epoch on; those of K stay open for another executor.
Revoke(S, K) ==
  /\ row' = [t \in Task |-> IF t \in S THEN IF t \in K THEN "open" ELSE "closed"
                            ELSE row[t]]
  /\ epoch' = [t \in Task |-> IF t \in S THEN epoch[t] + 1 ELSE epoch[t]]
  /\ UNCHANGED <<output, claim, retired>>

\* Executor w ends the task it leased by claim c, with a result or without one.
\* It may not learn that it did.
End(w, c, done, learns) ==
  LET t == c[1] IN
  /\ row[t] = "leased"
  /\ epoch[t] = c[2]
  /\ row' = [row EXCEPT ![t] = IF done THEN "done" ELSE "closed"]
  /\ output' = IF done THEN [output EXCEPT ![t] = c[2]] ELSE output
  /\ claim' = IF learns THEN [claim EXCEPT ![w] = {}] ELSE claim
  /\ UNCHANGED <<epoch, retired>>

\* Executors of W forget their claims while the waiting rows of S are closed.
LetGo(W, S) ==
  /\ row' = [t \in Task |-> IF t \in S THEN "closed" ELSE row[t]]
  /\ claim' = [w \in Worker |-> IF w \in W THEN {} ELSE claim[w]]
  /\ UNCHANGED <<epoch, output, retired>>

\* Trees without a leased row are deleted, and marked for good.
Retire(T) ==
  LET gone(t) == TreeOf[t] \in T IN
  /\ \A t \in Task : gone(t) => row[t] # "leased"
  /\ row' = [t \in Task |-> IF gone(t) THEN "absent" ELSE row[t]]
  /\ epoch' = [t \in Task |-> IF gone(t) THEN 0 ELSE epoch[t]]
  /\ output' = [t \in Task |-> IF gone(t) THEN 0 ELSE output[t]]
  /\ retired' = retired \cup T
  /\ UNCHANGED claim

LNext ==
  \/ \E S \in SUBSET Those({"absent"}), C \in SUBSET Those({"open", "leased"}) :
       Create(S, C)
  \/ \E w \in Worker, t \in Task : Lease(w, t)
  \/ \E S \in SUBSET Those({"open", "leased"}) : \E K \in SUBSET S : Revoke(S, K)
  \/ \E w \in Worker : \E c \in claim[w] :
       \E done, learns \in BOOLEAN : End(w, c, done, learns)
  \/ \E W \in SUBSET Worker, S \in SUBSET Those({"open"}) : LetGo(W, S)
  \/ \E T \in SUBSET Tree : Retire(T)

LSpec == LInit /\ [][LNext]_lvars

-----------------------------------------------------------------------------
\* No two executors hold the same claim, every claim on a living row is of an
\* epoch the row has reached, and no row of a retired tree is leased or done,
\* although its epochs may have started over.
ClaimsFenced ==
  /\ \A v, w \in Worker : v # w => claim[v] \cap claim[w] = {}
  /\ \A w \in Worker : \A c \in claim[w] :
       \/ TreeOf[c[1]] \in retired
       \/ row[c[1]] # "absent" /\ 0 < c[2] /\ c[2] <= epoch[c[1]]
  /\ \A t \in Task : TreeOf[t] \in retired => row[t] \notin {"leased", "done"}

\* The output of a row is the result of the lease that ended it.
OutputFenced ==
  \A t \in Task : IF row[t] = "done"
                  THEN output[t] = epoch[t] /\ output[t] > 0
                  ELSE output[t] = 0
-----------------------------------------------------------------------------
\* Facts every instance of the constants provides.
LeaseShape == TreeOf \in [Task -> Tree]

LEMMA LeaseTypeStep ==
  ASSUME LeaseShape, LeaseTypeOK, [LNext]_lvars
  PROVE  LeaseTypeOK'
<1> USE DEF LeaseTypeOK, Row
<1>1. CASE UNCHANGED lvars
  BY <1>1 DEF lvars
<1>2. CASE \E S \in SUBSET Those({"absent"}), C \in SUBSET Those({"open", "leased"}) :
            Create(S, C)
  BY <1>2 DEF Create, Those
<1>3. CASE \E w \in Worker, t \in Task : Lease(w, t)
  BY <1>3 DEF Lease
<1>4. CASE \E S \in SUBSET Those({"open", "leased"}) : \E K \in SUBSET S : Revoke(S, K)
  BY <1>4 DEF Revoke, Those
<1>5. ASSUME NEW w \in Worker, NEW c \in claim[w], NEW done \in BOOLEAN,
             NEW learns \in BOOLEAN, End(w, c, done, learns)
      PROVE  LeaseTypeOK'
  <2>1. c[1] \in Task /\ c[2] \in Nat
    BY <1>5
  <2>2. QED BY <1>5, <2>1 DEF End
<1>6. CASE \E W \in SUBSET Worker, S \in SUBSET Those({"open"}) : LetGo(W, S)
  BY <1>6 DEF LetGo, Those
<1>7. CASE \E T \in SUBSET Tree : Retire(T)
  BY <1>7 DEF Retire, LeaseShape
<1>8. QED BY <1>1, <1>2, <1>3, <1>4, <1>5, <1>6, <1>7 DEF LNext

LEMMA ClaimsStep ==
  ASSUME LeaseShape, LeaseTypeOK, ClaimsFenced, [LNext]_lvars
  PROVE  ClaimsFenced'
<1> USE DEF LeaseTypeOK, ClaimsFenced
<1>1. CASE UNCHANGED lvars
  BY <1>1 DEF lvars
<1>2. ASSUME NEW S \in SUBSET Those({"absent"}),
             NEW C \in SUBSET Those({"open", "leased"}), Create(S, C)
      PROVE  ClaimsFenced'
  <2>1. \A w \in Worker : \A c \in claim[w] : c[1] \in Task /\ c[2] \in Nat
    OBVIOUS
  <2>2. \A t \in Task : row'[t] \in {"leased", "done"} => row'[t] = row[t]
    BY <1>2 DEF Create, Those
  <2>3. \A t \in Task : row[t] # "absent" => row'[t] # "absent" /\ epoch[t] <= epoch'[t]
    BY <1>2 DEF Create, Those
  <2>4. UNCHANGED <<claim, retired>>
    BY <1>2 DEF Create, Those
  <2>5. \A t \in Task : epoch[t] \in Nat /\ epoch'[t] \in Nat
    BY <1>2 DEF Create, Those
  <2>6. \A w \in Worker : \A c \in claim'[w] :
          \/ TreeOf[c[1]] \in retired'
          \/ row'[c[1]] # "absent" /\ 0 < c[2] /\ c[2] <= epoch'[c[1]]
    BY <2>1, <2>3, <2>4, <2>5
  <2>7. \A t \in Task : TreeOf[t] \in retired' => row'[t] \notin {"leased", "done"}
    BY <2>2, <2>4
  <2>8. QED BY <2>4, <2>6, <2>7
<1>3. ASSUME NEW w \in Worker, NEW t \in Task, Lease(w, t)
      PROVE  ClaimsFenced'
  <2>1. \A v \in Worker : <<t, epoch[t] + 1>> \notin claim[v]
    BY <1>3 DEF Lease
  <2>2. TreeOf[t] \notin retired
    BY <1>3 DEF Lease
  <2>3. \A v, x \in Worker : v # x => claim'[v] \cap claim'[x] = {}
    BY <1>3, <2>1 DEF Lease
  <2>4. \A v \in Worker : \A c \in claim'[v] :
          \/ TreeOf[c[1]] \in retired'
          \/ row'[c[1]] # "absent" /\ 0 < c[2] /\ c[2] <= epoch'[c[1]]
    <3> SUFFICES ASSUME NEW v \in Worker, NEW c \in claim'[v],
                        TreeOf[c[1]] \notin retired'
                 PROVE  row'[c[1]] # "absent" /\ 0 < c[2] /\ c[2] <= epoch'[c[1]]
      OBVIOUS
    <3>1. CASE v = w
      <4>1. c = <<t, epoch[t] + 1>>
        BY <1>3, <3>1 DEF Lease
      <4>2. QED BY <1>3, <4>1 DEF Lease
    <3>2. CASE v # w
      <4>1. c \in claim[v] /\ c[1] \in Task /\ c[2] \in Nat
        BY <1>3, <3>2 DEF Lease
      <4>2. row[c[1]] # "absent" /\ 0 < c[2] /\ c[2] <= epoch[c[1]]
        BY <1>3, <4>1 DEF Lease
      <4>3. QED BY <1>3, <4>1, <4>2 DEF Lease
    <3>3. QED BY <3>1, <3>2
  <2>5. \A u \in Task : TreeOf[u] \in retired' => row'[u] \notin {"leased", "done"}
    BY <1>3, <2>2 DEF Lease
  <2>6. QED BY <2>3, <2>4, <2>5
<1>4. ASSUME NEW S \in SUBSET Those({"open", "leased"}), NEW K \in SUBSET S, Revoke(S, K)
      PROVE  ClaimsFenced'
  <2>1. \A w \in Worker : \A c \in claim[w] : c[1] \in Task /\ c[2] \in Nat
    OBVIOUS
  <2>2. QED BY <1>4, <2>1 DEF Revoke, Those
<1>5. ASSUME NEW w \in Worker, NEW c \in claim[w], NEW done \in BOOLEAN,
             NEW learns \in BOOLEAN, End(w, c, done, learns)
      PROVE  ClaimsFenced'
  <2>1. \A v \in Worker : \A d \in claim[v] : d[1] \in Task /\ d[2] \in Nat
    OBVIOUS
  <2>2. TreeOf[c[1]] \notin retired
    BY <1>5, <2>1 DEF End
  <2>3. /\ \A v \in Worker : claim'[v] \subseteq claim[v]
        /\ \A t \in Task : row'[t] = "absent" <=> row[t] = "absent"
    BY <1>5, <2>1 DEF End
  <2>4. QED BY <1>5, <2>1, <2>2, <2>3 DEF End
<1>6. ASSUME NEW W \in SUBSET Worker, NEW S \in SUBSET Those({"open"}), LetGo(W, S)
      PROVE  ClaimsFenced'
  <2>1. \A w \in Worker : \A c \in claim[w] : c[1] \in Task /\ c[2] \in Nat
    OBVIOUS
  <2>2. QED BY <1>6, <2>1 DEF LetGo, Those
<1>7. ASSUME NEW T \in SUBSET Tree, Retire(T)
      PROVE  ClaimsFenced'
  <2>1. \A w \in Worker : \A c \in claim[w] : c[1] \in Task /\ c[2] \in Nat
    OBVIOUS
  <2>2. QED BY <1>7, <2>1 DEF Retire
<1> HIDE DEF LeaseTypeOK, ClaimsFenced
<1>8. QED BY <1>1, <1>2, <1>3, <1>4, <1>5, <1>6, <1>7 DEF LNext

LEMMA OutputStep ==
  ASSUME LeaseShape, LeaseTypeOK, ClaimsFenced, OutputFenced, [LNext]_lvars
  PROVE  OutputFenced'
<1> USE DEF LeaseTypeOK, OutputFenced
<1>1. CASE UNCHANGED lvars
  BY <1>1 DEF lvars
<1>2. CASE \E S \in SUBSET Those({"absent"}), C \in SUBSET Those({"open", "leased"}) :
            Create(S, C)
  BY <1>2 DEF Create, Those
<1>3. CASE \E w \in Worker, t \in Task : Lease(w, t)
  BY <1>3 DEF Lease
<1>4. CASE \E S \in SUBSET Those({"open", "leased"}) : \E K \in SUBSET S : Revoke(S, K)
  BY <1>4 DEF Revoke, Those
<1>5. ASSUME NEW w \in Worker, NEW c \in claim[w], NEW done \in BOOLEAN,
             NEW learns \in BOOLEAN, End(w, c, done, learns)
      PROVE  OutputFenced'
  <2>1. c[1] \in Task /\ c[2] \in Nat /\ 0 < c[2]
    BY <1>5 DEF End, ClaimsFenced
  <2>2. QED BY <1>5, <2>1 DEF End
<1>6. CASE \E W \in SUBSET Worker, S \in SUBSET Those({"open"}) : LetGo(W, S)
  BY <1>6 DEF LetGo, Those
<1>7. CASE \E T \in SUBSET Tree : Retire(T)
  BY <1>7 DEF Retire
<1>8. QED BY <1>1, <1>2, <1>3, <1>4, <1>5, <1>6, <1>7 DEF LNext

\* A lease that follows these rules is exclusive: claims are fenced by their
\* epochs and an output is only ever the result of its row's own lease.
THEOREM LeaseSafe ==
  LeaseShape => (LSpec => [](LeaseTypeOK /\ ClaimsFenced /\ OutputFenced))
<1> DEFINE Inv == LeaseTypeOK /\ ClaimsFenced /\ OutputFenced
<1> SUFFICES ASSUME LeaseShape PROVE LSpec => []Inv
  OBVIOUS
<1>1. LInit => Inv
  BY DEF LInit, LeaseTypeOK, Row, ClaimsFenced, OutputFenced
<1>2. Inv /\ [LNext]_lvars => Inv'
  BY LeaseTypeStep, ClaimsStep, OutputStep
<1>3. QED BY <1>1, <1>2, PTL DEF LSpec
=============================================================================
