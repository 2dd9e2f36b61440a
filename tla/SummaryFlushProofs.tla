------------------------- MODULE SummaryFlushProofs -------------------------
(***************************************************************************)
(* What the summary pool delivers, for every number of keys, drainers and   *)
(* callers and every bound.                                                 *)
(***************************************************************************)
EXTENDS SummaryFlush, TLAPS

USE KeyAssumption, FlushBounds

State == {"absent", "queued", "running", "completed", "failed", "cancelled"}
Delivers == {"generated", "already_upgraded"}

\* The next operation, one disjunct per action.
LEMMA FlushCases ==
  ASSUME Next, NEW G, Tick => G,
         \A c \in Caller : PublishCreate(c) => G,
         \A c \in Caller : \A k \in Key : Publish(c, k) => G,
         \A d \in Drainer : \A k \in Key : Claim(d, k) => G,
         \A d \in Drainer : Begin(d) => G,
         \A d \in Drainer : Renew(d) => G,
         \A d \in Drainer : \A model \in BOOLEAN : Upgrade(d, model) => G,
         \A d \in Drainer : \A model \in BOOLEAN : Generate(d, model) => G,
         \A d \in Drainer : End(d) => G,
         \A d \in Drainer : EndLost(d) => G,
         \A d \in Drainer : Crash(d) => G,
         \A k \in Key : Reap(k) => G,
         \A k \in Key : Stop(k) => G,
         \A k \in Key : Cleanup(k) => G,
         \A k \in Key : ClearStopped(k) => G,
         \A k \in Key : RetryTopology(k) => G,
         \A k \in Key : RetryFailed(k) => G
  PROVE  G
BY DEF Next, DrainStep

-----------------------------------------------------------------------------
(* Types.  A drainer that is not idle holds a key with a positive epoch, and *)
(* a running task's epoch leaves room for one recovery.                       *)

RowType ==
  /\ state \in [Key -> State]
  /\ lease_owner \in [Key -> Drainer \cup {NoOwner}]
  /\ lease_epoch \in [Key -> 0..(MaxEpoch + 1)]
  /\ lease_left \in [Key -> 0..LeaseSecs]
  /\ attempts \in [Key -> Nat]
  /\ recoveries \in [Key -> Nat]
  /\ output_hash \in [Key -> Tag]
  /\ used \in [Key -> SUBSET Nat]
  /\ cancel_requested \in [Key -> BOOLEAN]
  /\ job_age \in [Key -> 0..(Window + 1)]
  /\ retired \subseteq Key
RoomToRecover == \A k \in Key : state[k] = "running" => lease_epoch[k] <= MaxEpoch
CacheType == exact \in [Key -> Int] /\ local \subseteq Key
DrainType ==
  /\ held \in [Drainer -> Key \cup {NoKey}]
  /\ held_epoch \in [Drainer -> Nat]
  /\ phase \in [Drainer -> {"idle", "claimed", "running", "ending"}]
  /\ lost \in [Drainer -> BOOLEAN]
  /\ tag \in [Drainer -> Tag]
  /\ \A d \in Drainer : phase[d] = "idle" => held[d] = NoKey /\ ~ lost[d] /\ tag[d] = ""
DrainShape ==
  \A d \in Drainer : phase[d] # "idle" => held[d] \in Key /\ held_epoch[d] > 0
CallType == publishing \in [Caller -> Key \cup {NoKey}] /\ retries \in 0..MaxRetries

FlushType == RowType /\ RoomToRecover /\ CacheType /\ DrainType /\ DrainShape /\ CallType

LEMMA EpochRoom ==
  /\ \A e \in 0..(MaxEpoch + 1) : e \in Nat
  /\ \A e \in 0..(MaxEpoch + 1) : e <= MaxEpoch => e + 1 \in 0..(MaxEpoch + 1)
  /\ \A e \in 0..(MaxEpoch + 1) : e < MaxEpoch => e + 1 <= MaxEpoch
  /\ 0 \in 0..(MaxEpoch + 1) /\ LeaseSecs \in 0..LeaseSecs /\ 0 \in 0..LeaseSecs
  /\ 0 \in 0..(Window + 1)
OBVIOUS

LEMMA FlushInit == Init => FlushType
<1> SUFFICES ASSUME Init PROVE FlushType
  OBVIOUS
<1>1. RowType /\ RoomToRecover
  BY EpochRoom DEF Init, RowType, RoomToRecover, State, Tag
<1>2. CacheType /\ CallType
  <2>1. 0 \in 0..MaxRetries /\ 0 \in Int
    OBVIOUS
  <2>2. QED BY <2>1 DEF Init, CacheType, CallType
<1>3. DrainType /\ DrainShape
  BY DEF Init, DrainType, DrainShape, Tag
<1>4. QED BY <1>1, <1>2, <1>3 DEF FlushType

\* Steps of the drainers leave the shape of those that go on.
LEMMA LetGoType ==
  ASSUME FlushType, NEW d \in Drainer, LetGo(d)
  PROVE  DrainType' /\ DrainShape'
BY DEF FlushType, LetGo, DrainType, DrainShape, Tag

LEMMA GotoType ==
  ASSUME FlushType, NEW d \in Drainer, phase[d] # "idle",
         NEW p \in {"running", "ending"}, NEW s \in Tag, Goto(d, p, s)
  PROVE  DrainType' /\ DrainShape'
BY DEF FlushType, Goto, DrainType, DrainShape

LEMMA TickType ==
  ASSUME FlushType, Tick PROVE FlushType'
<1>1. lease_left' \in [Key -> 0..LeaseSecs]
  BY DEF FlushType, Tick, RowType
<1>2. job_age' \in [Key -> 0..(Window + 1)]
  BY DEF FlushType, Tick, RowType
<1>3. RowType' /\ RoomToRecover'
  BY <1>1, <1>2 DEF FlushType, Tick, RowType, RoomToRecover
<1>4. CacheType' /\ DrainType' /\ DrainShape' /\ CallType'
  BY DEF FlushType, Tick, CacheType, DrainType, DrainShape, CallType, cacheVars, drainVars
<1>5. QED BY <1>3, <1>4 DEF FlushType

LEMMA PublishType ==
  ASSUME FlushType, NEW c \in Caller, NEW k \in Key, Publish(c, k) PROVE FlushType'
<1>1. RowType' /\ RoomToRecover' /\ DrainType' /\ DrainShape'
  BY DEF FlushType, Publish, RowType, RoomToRecover, DrainType, DrainShape, rowVars, drainVars
<1>2. CacheType' /\ CallType'
  BY DEF FlushType, Publish, CacheType, CallType
<1>3. QED BY <1>1, <1>2 DEF FlushType

LEMMA PublishCreateType ==
  ASSUME FlushType, NEW c \in Caller, PublishCreate(c) PROVE FlushType'
<1>1. publishing[c] \in Key
  BY DEF FlushType, PublishCreate, CallType
<1>2. RowType' /\ RoomToRecover'
  BY <1>1 DEF FlushType, PublishCreate, RowType, RoomToRecover, State
<1>3. CacheType' /\ DrainType' /\ DrainShape' /\ CallType'
  BY DEF FlushType, PublishCreate, CacheType, CallType, DrainType, DrainShape, cacheVars, drainVars
<1>4. QED BY <1>2, <1>3 DEF FlushType

LEMMA ClaimType ==
  ASSUME FlushType, NEW d \in Drainer, NEW k \in Key, Claim(d, k) PROVE FlushType'
<1>1. /\ lease_epoch[k] \in Nat /\ lease_epoch[k] + 1 \in 0..(MaxEpoch + 1)
      /\ lease_epoch[k] + 1 <= MaxEpoch /\ attempts[k] + 1 \in Nat
      /\ lease_epoch[k] + 1 \in Nat /\ lease_epoch[k] + 1 > 0
  BY EpochRoom DEF FlushType, Claim, RowType
<1>2. RowType' /\ RoomToRecover'
  <2>1. /\ state' \in [Key -> State] /\ lease_owner' \in [Key -> Drainer \cup {NoOwner}]
        /\ lease_epoch' \in [Key -> 0..(MaxEpoch + 1)]
        /\ lease_left' \in [Key -> 0..LeaseSecs]
    BY <1>1, EpochRoom DEF FlushType, Claim, RowType, State
  <2>2. attempts' \in [Key -> Nat] /\ used' \in [Key -> SUBSET Nat]
    BY <1>1 DEF FlushType, Claim, RowType
  <2>3. RoomToRecover'
    BY <1>1 DEF FlushType, Claim, RowType, RoomToRecover
  <2>4. QED BY <2>1, <2>2, <2>3 DEF FlushType, Claim, RowType
<1>3. DrainType' /\ DrainShape'
  <2>1. PICK e \in Nat : e = lease_epoch[k] + 1 /\ e > 0
    BY <1>1
  <2>2. /\ held' = [held EXCEPT ![d] = k] /\ held_epoch' = [held_epoch EXCEPT ![d] = e]
        /\ phase' = [phase EXCEPT ![d] = "claimed"] /\ lost' = lost /\ tag' = tag
    BY <2>1 DEF Claim
  <2>3. DrainType'
    BY <2>2 DEF FlushType, DrainType
  <2>4. DrainShape'
    BY <2>1, <2>2 DEF FlushType, DrainType, DrainShape
  <2>5. QED BY <2>3, <2>4
<1>4. CacheType' /\ CallType'
  BY DEF FlushType, Claim, CacheType, CallType, cacheVars
<1>5. QED BY <1>2, <1>3, <1>4 DEF FlushType

LEMMA BeginType ==
  ASSUME FlushType, NEW d \in Drainer, Begin(d) PROVE FlushType'
<1>1. RowType' /\ RoomToRecover' /\ CacheType' /\ CallType'
  BY DEF FlushType, Begin, RowType, RoomToRecover, CacheType, CallType, rowVars, cacheVars
<1>2. DrainType' /\ DrainShape'
  <2>1. PICK p \in {"running", "ending"}, s \in Tag : Goto(d, p, s)
    BY DEF Begin, Tag
  <2>2. phase[d] # "idle"
    BY DEF Begin
  <2>3. QED BY <2>1, <2>2, GotoType
<1>3. QED BY <1>1, <1>2 DEF FlushType

LEMMA RenewType ==
  ASSUME FlushType, NEW d \in Drainer, Renew(d) PROVE FlushType'
<1>1. RowType' /\ RoomToRecover'
  BY EpochRoom DEF FlushType, Renew, RowType, RoomToRecover
<1>2. DrainType' /\ DrainShape'
  BY DEF FlushType, Renew, DrainType, DrainShape
<1>3. CacheType' /\ CallType'
  BY DEF FlushType, Renew, CacheType, CallType, cacheVars
<1>4. QED BY <1>1, <1>2, <1>3 DEF FlushType

LEMMA UpgradeType ==
  ASSUME FlushType, NEW d \in Drainer, NEW model \in BOOLEAN, Upgrade(d, model)
  PROVE  FlushType'
<1>1. RowType' /\ RoomToRecover' /\ CallType'
  BY DEF FlushType, Upgrade, RowType, RoomToRecover, CallType, rowVars
<1>2. DrainType' /\ DrainShape'
  <2>1. PICK s \in Tag : Goto(d, "ending", s)
    BY DEF Upgrade, Tag
  <2>2. phase[d] # "idle"
    BY DEF Upgrade
  <2>3. QED BY <2>1, <2>2, GotoType
<1>3. CacheType'
  <2>1. PICK r \in Int : r = IF model THEN held_epoch[d] ELSE Fallback
    <3>1. held_epoch[d] \in Nat
      BY DEF FlushType, DrainType
    <3>2. Fallback \in Int
      BY DEF Fallback
    <3>3. QED BY <3>1, <3>2
  <2>2. exact' = Put(held[d], r) \/ exact' = exact
    BY <2>1 DEF Upgrade
  <2>3. QED BY <2>2 DEF Upgrade, Put, FlushType, CacheType
<1>4. QED BY <1>1, <1>2, <1>3 DEF FlushType

LEMMA GenerateType ==
  ASSUME FlushType, NEW d \in Drainer, NEW model \in BOOLEAN, Generate(d, model)
  PROVE  FlushType'
<1>1. RowType' /\ RoomToRecover' /\ CallType' /\ CacheType'
  BY DEF FlushType, Generate, RowType, RoomToRecover, CallType, CacheType, rowVars, cacheVars
<1>2. PICK s \in Tag : Goto(d, "ending", s)
  BY DEF Generate, Tag
<1>3. phase[d] # "idle"
  BY DEF Generate
<1>4. DrainType' /\ DrainShape'
  BY <1>2, <1>3, GotoType
<1>5. QED BY <1>1, <1>4 DEF FlushType

LEMMA EndType ==
  ASSUME FlushType, NEW d \in Drainer, End(d) PROVE FlushType'
<1>1. held[d] \in Key /\ held_epoch[d] \in Int /\ tag[d] \in Tag
  <2>1. phase[d] = "ending"
    BY DEF End
  <2>2. held[d] \in Key
    BY <2>1 DEF FlushType, DrainShape
  <2>3. held_epoch[d] \in Nat /\ tag[d] \in Tag
    BY DEF FlushType, DrainType
  <2>4. QED BY <2>2, <2>3
<1>2. RowType' /\ RoomToRecover'
  BY <1>1, EpochRoom DEF FlushType, End, RowType, RoomToRecover, State
<1>3. DrainType' /\ DrainShape'
  BY LetGoType DEF End
<1>4. CacheType' /\ CallType'
  BY <1>1 DEF FlushType, End, CacheType, CallType
<1>5. QED BY <1>2, <1>3, <1>4 DEF FlushType

LEMMA GivesUpType ==
  ASSUME FlushType, NEW d \in Drainer, EndLost(d) \/ Crash(d) PROVE FlushType'
<1>1. LetGo(d) /\ UNCHANGED <<rowVars, cacheVars, publishing, retries>>
  BY DEF EndLost, Crash
<1>2. RowType' /\ RoomToRecover' /\ CallType' /\ CacheType'
  BY <1>1 DEF FlushType, RowType, RoomToRecover, CallType, CacheType, rowVars, cacheVars
<1>3. DrainType' /\ DrainShape'
  BY <1>1, LetGoType
<1>4. QED BY <1>2, <1>3 DEF FlushType

\* The transactions that others make on the row of a key.
LEMMA OthersType ==
  ASSUME FlushType, UNCHANGED <<cacheVars, drainVars, publishing>>, retries' \in 0..MaxRetries,
         RowType', RoomToRecover'
  PROVE  FlushType'
BY DEF FlushType, CacheType, DrainType, DrainShape, CallType, cacheVars, drainVars

LEMMA ReapType ==
  ASSUME FlushType, NEW k \in Key, Reap(k) PROVE FlushType'
<1>1. lease_epoch[k] + 1 \in 0..(MaxEpoch + 1) /\ recoveries[k] + 1 \in Nat
  BY EpochRoom DEF FlushType, Reap, RowType, RoomToRecover
<1>2. state' = [state EXCEPT ![k] = "failed"] \/ state' = [state EXCEPT ![k] = "queued"]
  BY DEF Reap
<1>3. RowType'
  BY <1>1, <1>2 DEF FlushType, Reap, RowType, State
<1>4. RoomToRecover'
  BY <1>1, <1>2 DEF FlushType, Reap, RowType, RoomToRecover
<1>5. QED BY <1>3, <1>4, OthersType DEF Reap, FlushType, CallType

LEMMA StopType ==
  ASSUME FlushType, NEW k \in Key, Stop(k) PROVE FlushType'
<1>1. lease_epoch[k] + 1 \in 0..(MaxEpoch + 1)
  BY EpochRoom DEF FlushType, Stop, RowType
<1>2. RowType'
  BY <1>1, EpochRoom DEF FlushType, Stop, RowType, State
<1>3. RoomToRecover'
  BY DEF FlushType, Stop, RowType, RoomToRecover
<1>4. QED BY <1>2, <1>3, OthersType DEF Stop, FlushType, CallType

LEMMA PurgeType ==
  ASSUME FlushType, NEW k \in Key, Purge(k) PROVE FlushType'
<1>1. RowType'
  BY EpochRoom DEF FlushType, Purge, RowType, State, Tag
<1>2. RoomToRecover'
  BY DEF FlushType, Purge, RowType, RoomToRecover
<1>3. QED BY <1>1, <1>2, OthersType DEF Purge, FlushType, CallType

LEMMA RetryTopologyType ==
  ASSUME FlushType, NEW k \in Key, RetryTopology(k) PROVE FlushType'
<1>1. RowType'
  BY DEF FlushType, RetryTopology, RowType, State, Tag
<1>2. RoomToRecover'
  BY DEF FlushType, RetryTopology, RowType, RoomToRecover
<1>3. retries' \in 0..MaxRetries
  <2>1. retries \in 0..MaxRetries /\ retries < MaxRetries /\ retries' = retries + 1
    BY DEF FlushType, CallType, RetryTopology
  <2>2. QED BY <2>1
<1>4. QED BY <1>1, <1>2, <1>3, OthersType DEF RetryTopology

LEMMA RetryFailedType ==
  ASSUME FlushType, NEW k \in Key, RetryFailed(k) PROVE FlushType'
<1>1. RowType'
  BY DEF FlushType, RetryFailed, RowType, State
<1>2. RoomToRecover'
  BY DEF FlushType, RetryFailed, RowType, RoomToRecover
<1>3. retries' \in 0..MaxRetries
  BY DEF FlushType, CallType, RetryFailed
<1>4. QED BY <1>1, <1>2, <1>3, OthersType DEF RetryFailed

LEMMA FlushTypeStep ==
  ASSUME FlushType, [Next]_vars PROVE FlushType'
<1>1. CASE UNCHANGED vars
  BY <1>1 DEF vars, rowVars, cacheVars, drainVars, FlushType, RowType, RoomToRecover,
     CacheType, DrainType, DrainShape, CallType
<1>2. CASE Next
  <2> DEFINE G == FlushType'
  <2>1. \A k \in Key : Cleanup(k) \/ ClearStopped(k) => G
    BY PurgeType DEF Cleanup, ClearStopped
  <2>2. \A c \in Caller : (PublishCreate(c) => G) /\ \A k \in Key : Publish(c, k) => G
    BY PublishType, PublishCreateType
  <2>3. \A d \in Drainer : \A k \in Key : Claim(d, k) => G
    BY ClaimType
  <2>4. \A d \in Drainer : (Begin(d) => G) /\ (Renew(d) => G) /\ (End(d) => G)
    BY BeginType, RenewType, EndType
  <2>5. \A d \in Drainer : \A model \in BOOLEAN :
          (Upgrade(d, model) => G) /\ (Generate(d, model) => G)
    BY UpgradeType, GenerateType
  <2>6. \A d \in Drainer : (EndLost(d) => G) /\ (Crash(d) => G)
    BY GivesUpType
  <2>7. \A k \in Key : (Reap(k) => G) /\ (Stop(k) => G)
    BY ReapType, StopType
  <2>8. \A k \in Key : (RetryTopology(k) => G) /\ (RetryFailed(k) => G)
    BY RetryTopologyType, RetryFailedType
  <2>9. Tick => G
    BY TickType
  <2> HIDE DEF G
  <2>10. G
    BY <1>2, <2>1, <2>2, <2>3, <2>4, <2>5, <2>6, <2>7, <2>8, <2>9, FlushCases, Zenon
  <2>11. QED BY <2>10 DEF G
<1>3. QED BY <1>1, <1>2

LEMMA FlushTyped == Spec => []FlushType
<1>1. FlushType /\ [Next]_vars => FlushType'
  BY FlushTypeStep
<1>2. QED BY <1>1, FlushInit, PTL DEF Spec
-----------------------------------------------------------------------------
(* Results.                                                                *)

\* What one step does to the cached result of key k: nothing; an upgrade without a
\* fence, of a key that is not Topology; or the fenced end of a topology request.
ExactStep(k) ==
  \/ exact'[k] = exact[k]
  \/ k \notin Topology /\ (exact[k] > 0 => exact'[k] > 0)
  \/ /\ state[k] = "running" /\ state'[k] = "completed"
     /\ exact'[k] = lease_epoch[k] /\ exact'[k] > 0

\* Every step keeps a model result and fences the topology results.
LEMMA ExactSteps ==
  ASSUME FlushType, [Next]_vars PROVE \A k \in Key : ExactStep(k)
<1>1. ASSUME exact' = exact PROVE \A k \in Key : ExactStep(k)
  BY <1>1 DEF ExactStep
<1>2. CASE UNCHANGED vars
  BY <1>1, <1>2 DEF vars, cacheVars
<1>3. CASE Next
  <2> DEFINE G == \A k \in Key : ExactStep(k)
  <2>1. ASSUME NEW d \in Drainer, NEW model \in BOOLEAN, Upgrade(d, model) PROVE G
    <3>1. held[d] \notin Topology
      BY <2>1 DEF Upgrade
    <3>2. held_epoch[d] > 0
      BY <2>1 DEF Upgrade, FlushType, DrainShape
    <3>3. CASE model
      <4>1. exact' = Put(held[d], held_epoch[d]) \/ exact' = exact
        BY <2>1, <3>3 DEF Upgrade
      <4>2. \A k \in Key : exact'[k] = exact[k]
                           \/ (k = held[d] /\ exact'[k] = held_epoch[d])
        BY <4>1 DEF Put, FlushType, CacheType
      <4>3. QED BY <3>1, <3>2, <4>2 DEF ExactStep
    <3>4. CASE ~ model
      <4>1. exact' = Put(held[d], Fallback) \/ exact' = exact
        BY <2>1, <3>4 DEF Upgrade
      <4>2. \A k \in Key : exact'[k] = exact[k] \/ (k = held[d] /\ ~ (exact[k] > 0))
        BY <4>1 DEF Put, FlushType, CacheType
      <4>3. QED BY <3>1, <4>2 DEF ExactStep
    <3>5. QED BY <3>3, <3>4
  <2>2. ASSUME NEW d \in Drainer, End(d) PROVE G
    <3>1. /\ held_epoch[d] > 0 /\ held[d] \in Key
          /\ state[held[d]] = "running" /\ lease_epoch[held[d]] = held_epoch[d]
      BY <2>2 DEF End, Holds, FlushType, DrainShape
    <3>2. CASE held[d] \in Topology /\ tag[d] = "generated"
      <4>1. exact' = [exact EXCEPT ![held[d]] = held_epoch[d]]
            /\ state' = [state EXCEPT ![held[d]] = "completed"]
        BY <2>2, <3>2 DEF End
      <4>2. state'[held[d]] = "completed" /\ exact'[held[d]] = held_epoch[d]
        BY <3>1, <4>1 DEF FlushType, RowType, CacheType
      <4>3. \A k \in Key \ {held[d]} : exact'[k] = exact[k]
        BY <4>1 DEF FlushType, CacheType
      <4>4. QED BY <3>1, <4>2, <4>3 DEF ExactStep
    <3>3. CASE ~ (held[d] \in Topology /\ tag[d] = "generated")
      BY <1>1, <2>2, <3>3 DEF End
    <3>4. QED BY <3>2, <3>3
  <2>3. \A d \in Drainer : \A model \in BOOLEAN : Generate(d, model) => G
    BY <1>1 DEF Generate, cacheVars
  <2>4. \A d \in Drainer : (EndLost(d) => G) /\ (Crash(d) => G) /\ (Begin(d) => G)
                            /\ (Renew(d) => G) /\ \A k \in Key : Claim(d, k) => G
    BY <1>1 DEF EndLost, Crash, Begin, Renew, Claim, cacheVars
  <2>5. \A c \in Caller : (PublishCreate(c) => G) /\ \A k \in Key : Publish(c, k) => G
    BY <1>1 DEF PublishCreate, Publish, cacheVars
  <2>6. \A k \in Key : (Reap(k) => G) /\ (Stop(k) => G) /\ (Cleanup(k) => G)
          /\ (ClearStopped(k) => G) /\ (RetryTopology(k) => G) /\ (RetryFailed(k) => G)
    BY <1>1 DEF Reap, Stop, Cleanup, ClearStopped, Purge, RetryTopology, RetryFailed, cacheVars
  <2>7. Tick => G
    BY <1>1 DEF Tick, cacheVars
  <2> HIDE DEF G
  <2>8. G
    BY <1>3, <2>1, <2>2, <2>3, <2>4, <2>5, <2>6, <2>7, FlushCases, Zenon
  <2>9. QED BY <2>8 DEF G
<1>4. QED BY <1>2, <1>3

\* What a drainer that is about to end says it delivered is in the cache already,
\* unless the end itself will put it there.
TagTrue ==
  \A d \in Drainer :
    phase[d] = "ending" /\ tag[d] \in Delivers =>
      exact[held[d]] > 0 \/ (held[d] \in Topology /\ tag[d] = "generated")

FlushInv == FlushType /\ TagTrue /\ CompletedDelivered

LEMMA CachedStays ==
  ASSUME FlushType, [Next]_vars PROVE \A k \in Key : exact[k] > 0 => exact'[k] > 0
<1>1. QED BY ExactSteps DEF ExactStep

\* Tags and holds stay, or the drainers that change them are true to the cache.
LEMMA TagKept ==
  ASSUME FlushInv, [Next]_vars,
         \A d \in Drainer : \/ phase'[d] # "ending" \/ tag'[d] \notin Delivers
                            \/ phase'[d] = phase[d] /\ tag'[d] = tag[d] /\ held'[d] = held[d]
                            \/ exact'[held'[d]] > 0
                            \/ held'[d] \in Topology /\ tag'[d] = "generated"
  PROVE  TagTrue'
<1>1. ASSUME NEW d \in Drainer, phase'[d] = "ending", tag'[d] \in Delivers
      PROVE  exact'[held'[d]] > 0 \/ (held'[d] \in Topology /\ tag'[d] = "generated")
  <2>1. CASE phase'[d] = phase[d] /\ tag'[d] = tag[d] /\ held'[d] = held[d]
    <3>1. held[d] \in Key
      BY <1>1, <2>1 DEF FlushInv, FlushType, DrainShape
    <3>2. exact[held[d]] > 0 \/ (held[d] \in Topology /\ tag[d] = "generated")
      BY <1>1, <2>1 DEF FlushInv, TagTrue
    <3>3. QED BY <2>1, <3>1, <3>2, CachedStays DEF FlushInv
  <2>2. QED BY <1>1, <2>1
<1>2. QED BY <1>1 DEF TagTrue

LEMMA TagStep ==
  ASSUME FlushInv, [Next]_vars PROVE TagTrue'
<1> DEFINE Kept(d) == \/ phase'[d] # "ending" \/ tag'[d] \notin Delivers
                      \/ phase'[d] = phase[d] /\ tag'[d] = tag[d] /\ held'[d] = held[d]
                      \/ exact'[held'[d]] > 0
                      \/ held'[d] \in Topology /\ tag'[d] = "generated"
           G == \A d \in Drainer : Kept(d)
<1>1. UNCHANGED drainVars => G
  BY DEF drainVars
<1>2. CASE UNCHANGED vars
  BY <1>1, <1>2, TagKept DEF vars
<1>3. CASE Next
  \* A step of drainer d leaves the others alone.
  <2>1. ASSUME NEW d \in Drainer, NEW p, NEW s, Goto(d, p, s),
               p = "running" \/ s \notin Delivers \/ exact'[held[d]] > 0
               \/ (held[d] \in Topology /\ s = "generated")
        PROVE  G
    <3>1. /\ phase'[d] = p /\ tag'[d] = s /\ held' = held
          /\ \A e \in Drainer \ {d} : phase'[e] = phase[e] /\ tag'[e] = tag[e]
      BY <2>1 DEF Goto, FlushInv, FlushType, DrainType
    <3>2. QED BY <2>1, <3>1
  <2>2. ASSUME NEW d \in Drainer, LetGo(d) PROVE G
    <3>1. /\ phase'[d] = "idle"
          /\ \A e \in Drainer \ {d} : phase'[e] = phase[e] /\ tag'[e] = tag[e] /\ held'[e] = held[e]
      BY <2>2 DEF LetGo, FlushInv, FlushType, DrainType
    <3>2. QED BY <3>1
  <2>3. ASSUME NEW d \in Drainer, Begin(d) PROVE G
    <3>1. exact' = exact
      BY <2>3 DEF Begin, cacheVars
    <3>2. \/ Goto(d, "ending", "failure") \/ Goto(d, "ending", "fallback")
          \/ Goto(d, "running", "")
          \/ exact'[held[d]] > 0 /\ Goto(d, "ending", "already_upgraded")
      BY <2>3, <3>1 DEF Begin
    <3> HIDE DEF G
    <3>3. "failure" \notin Delivers /\ "fallback" \notin Delivers
      BY DEF Delivers
    <3>4. QED BY <2>1, <3>2, <3>3
  <2>4. ASSUME NEW d \in Drainer, NEW model \in BOOLEAN, Upgrade(d, model) PROVE G
    <3>1. held_epoch[d] > 0 /\ held[d] \in Key
      BY <2>4 DEF Upgrade, FlushInv, FlushType, DrainShape
    <3>2. "failure" \notin Delivers /\ "fallback" \notin Delivers
      BY DEF Delivers
    <3>3. CASE Goto(d, "ending", "failure") \/ Goto(d, "ending", "fallback")
      <4> HIDE DEF G
      <4>1. QED BY <2>1, <3>2, <3>3
    <3>4. CASE ~ (Goto(d, "ending", "failure") \/ Goto(d, "ending", "fallback"))
      <4>1. Goto(d, "ending", "generated") /\ exact' = Put(held[d], held_epoch[d])
        BY <2>4, <3>4 DEF Upgrade
      <4>2. exact'[held[d]] > 0
        <5>1. ~ (held_epoch[d] = Fallback)
          <6>1. held_epoch[d] \in Nat
            BY DEF FlushInv, FlushType, DrainType
          <6>2. QED BY <6>1 DEF Fallback
        <5>2. exact' = [exact EXCEPT ![held[d]] = held_epoch[d]]
          BY <4>1, <5>1 DEF Put
        <5>3. QED BY <3>1, <5>2 DEF FlushInv, FlushType, CacheType
      <4> HIDE DEF G
      <4>3. QED BY <2>1, <4>1, <4>2
    <3>5. QED BY <3>3, <3>4
  <2>5. ASSUME NEW d \in Drainer, NEW model \in BOOLEAN, Generate(d, model) PROVE G
    <3>1. held[d] \in Topology
      BY <2>5 DEF Generate
    <3>2. Goto(d, "ending", "generated") \/ Goto(d, "ending", "fallback")
      BY <2>5 DEF Generate
    <3>3. "fallback" \notin Delivers
      BY DEF Delivers
    <3> HIDE DEF G
    <3>4. QED BY <2>1, <3>1, <3>2, <3>3
  <2>6. ASSUME NEW d \in Drainer, NEW k \in Key, Claim(d, k) PROVE G
    <3>1. /\ phase'[d] = "claimed" /\ tag' = tag
          /\ \A e \in Drainer \ {d} : phase'[e] = phase[e] /\ held'[e] = held[e]
      BY <2>6 DEF Claim, FlushInv, FlushType, DrainType
    <3>2. QED BY <3>1
  <2>7. \A d \in Drainer : Renew(d) => G
    BY DEF Renew
  <2> HIDE DEF G
  <2>8. \A d \in Drainer : (End(d) => G) /\ (EndLost(d) => G) /\ (Crash(d) => G)
    BY <2>2 DEF End, EndLost, Crash
  <2>9. \A c \in Caller : (PublishCreate(c) => G) /\ \A k \in Key : Publish(c, k) => G
    BY <1>1 DEF PublishCreate, Publish
  <2>10. \A k \in Key : (Reap(k) => G) /\ (Stop(k) => G) /\ (Cleanup(k) => G)
          /\ (ClearStopped(k) => G) /\ (RetryTopology(k) => G) /\ (RetryFailed(k) => G)
    BY <1>1 DEF Reap, Stop, Cleanup, ClearStopped, Purge, RetryTopology, RetryFailed
  <2>11. Tick => G
    BY <1>1 DEF Tick
  <2>12. G
    BY <1>3, <2>3, <2>4, <2>5, <2>6, <2>7, <2>8, <2>9, <2>10, <2>11, FlushCases, Zenon
  <2>13. QED BY <2>12, TagKept DEF G
<1>4. QED BY <1>2, <1>3

\* A completed task stays as it is, ends in this very step, or goes.
CompletedStep(k) ==
  \/ state'[k] # "completed" \/ output_hash'[k] \notin Delivers
  \/ state[k] = "completed" /\ output_hash[k] = output_hash'[k]
  \/ exact'[k] > 0

LEMMA CompletedSteps ==
  ASSUME FlushInv, [Next]_vars PROVE \A k \in Key : CompletedStep(k)
<1> DEFINE G == \A k \in Key : CompletedStep(k)
<1>1. state' = state /\ output_hash' = output_hash => G
  BY DEF CompletedStep
<1>2. CASE UNCHANGED vars
  BY <1>1, <1>2 DEF vars, rowVars
<1>3. CASE Next
  <2>1. \A d \in Drainer : \A model \in BOOLEAN : (Upgrade(d, model) => G) /\ (Generate(d, model) => G)
    BY <1>1 DEF Upgrade, Generate, rowVars
  <2>2. \A d \in Drainer : (EndLost(d) => G) /\ (Crash(d) => G) /\ (Begin(d) => G) /\ (Renew(d) => G)
    BY <1>1 DEF EndLost, Crash, Begin, Renew, rowVars
  <2>3. ASSUME NEW d \in Drainer, End(d) PROVE G
    <3>1. held[d] \in Key /\ phase[d] = "ending"
      BY <2>3 DEF End, FlushInv, FlushType, DrainShape
    <3>2. \A k \in Key \ {held[d]} : state'[k] = state[k] /\ output_hash'[k] = output_hash[k]
      BY <2>3 DEF End, FlushInv, FlushType, RowType
    <3>3. CompletedStep(held[d])
      <4>1. CASE tag[d] = "failure"
        BY <2>3, <3>1, <4>1 DEF End, FlushInv, FlushType, RowType, CompletedStep
      <4>2. CASE tag[d] # "failure"
        <5>1. output_hash'[held[d]] = tag[d]
          BY <2>3, <3>1, <4>2 DEF End, FlushInv, FlushType, RowType
        <5>2. CASE tag[d] \notin Delivers
          BY <5>1, <5>2 DEF CompletedStep
        <5>3. CASE held[d] \in Topology /\ tag[d] = "generated"
          <6>1. exact' = [exact EXCEPT ![held[d]] = held_epoch[d]] /\ held_epoch[d] > 0
            BY <2>3, <3>1, <5>3 DEF End, FlushInv, FlushType, DrainShape
          <6>2. QED BY <3>1, <6>1 DEF FlushInv, FlushType, CacheType, CompletedStep
        <5>4. CASE tag[d] \in Delivers /\ ~ (held[d] \in Topology /\ tag[d] = "generated")
          <6>1. exact[held[d]] > 0
            BY <3>1, <5>4 DEF FlushInv, TagTrue
          <6>2. QED BY <3>1, <6>1, CachedStays DEF FlushInv, CompletedStep
        <5>5. QED BY <5>2, <5>3, <5>4
      <4>3. QED BY <4>1, <4>2
    <3>4. QED BY <3>2, <3>3 DEF CompletedStep
  <2>4. ASSUME NEW d \in Drainer, NEW k \in Key, Claim(d, k) PROVE G
    <3>1. state' = [state EXCEPT ![k] = "running"] /\ output_hash' = output_hash
      BY <2>4 DEF Claim
    <3>2. QED BY <3>1 DEF FlushInv, FlushType, RowType, CompletedStep
  <2>5. ASSUME NEW c \in Caller, PublishCreate(c) PROVE G
    <3>1. state' = state \/ \E k \in Key : state' = [state EXCEPT ![k] = "queued"]
      BY <2>5 DEF PublishCreate, FlushInv, FlushType, CallType
    <3>2. output_hash' = output_hash
      BY <2>5 DEF PublishCreate
    <3>3. QED BY <3>1, <3>2 DEF FlushInv, FlushType, RowType, CompletedStep
  <2>6. ASSUME NEW c \in Caller, NEW k \in Key, Publish(c, k) PROVE G
    BY <1>1, <2>6 DEF Publish, rowVars
  <2>7. ASSUME NEW k \in Key, NEW p \in {"queued", "failed", "cancelled", "absent"},
               state' = [state EXCEPT ![k] = p],
               \A j \in Key \ {k} : output_hash'[j] = output_hash[j]
        PROVE  G
    <3>1. state'[k] = p /\ \A j \in Key \ {k} : state'[j] = state[j]
      BY <2>7 DEF FlushInv, FlushType, RowType
    <3>2. QED BY <2>7, <3>1 DEF CompletedStep
  <2> HIDE DEF G
  <2>8. ASSUME NEW k \in Key, Reap(k) PROVE G
    <3>1. /\ state' = [state EXCEPT ![k] = "failed"] \/ state' = [state EXCEPT ![k] = "queued"]
          /\ output_hash' = output_hash
      BY <2>8 DEF Reap
    <3>2. QED BY <2>7, <3>1
  <2>9. ASSUME NEW k \in Key, Stop(k) PROVE G
    <3>1. /\ state' = state \/ state' = [state EXCEPT ![k] = "cancelled"]
          /\ output_hash' = output_hash
      BY <2>9 DEF Stop
    <3>2. QED BY <1>1, <2>7, <3>1
  <2>10. ASSUME NEW k \in Key, Cleanup(k) \/ ClearStopped(k) \/ RetryTopology(k) PROVE G
    <3>1. state' = [state EXCEPT ![k] = "absent"] \/ state' = [state EXCEPT ![k] = "queued"]
      BY <2>10 DEF Cleanup, ClearStopped, Purge, RetryTopology
    <3>2. \A j \in Key \ {k} : output_hash'[j] = output_hash[j]
      BY <2>10 DEF Cleanup, ClearStopped, Purge, RetryTopology, FlushInv, FlushType, RowType
    <3>3. QED BY <2>7, <3>1, <3>2
  <2>11. ASSUME NEW k \in Key, RetryFailed(k) PROVE G
    <3>1. state' = [state EXCEPT ![k] = "queued"] /\ output_hash' = output_hash
      BY <2>11 DEF RetryFailed
    <3>2. QED BY <2>7, <3>1
  <2>12. Tick => G
    BY <1>1 DEF Tick
  <2>13. G
    BY <1>3, <2>1, <2>2, <2>3, <2>4, <2>5, <2>6, <2>8, <2>9, <2>10, <2>11, <2>12,
       FlushCases, Zenon
  <2>14. QED BY <2>13 DEF G
<1>4. QED BY <1>2, <1>3

LEMMA FlushInvInit == Init => FlushInv
<1>1. Init => TagTrue /\ CompletedDelivered
  BY DEF Init, TagTrue, CompletedDelivered
<1>2. QED BY <1>1, FlushInit DEF FlushInv

LEMMA FlushInvStep ==
  ASSUME FlushInv, [Next]_vars PROVE FlushInv'
<1>1. FlushType' /\ TagTrue'
  BY FlushTypeStep, TagStep DEF FlushInv
<1>2. CompletedDelivered'
  <2>1. ASSUME NEW k \in Key, state'[k] = "completed", output_hash'[k] \in Delivers
        PROVE  exact'[k] > 0
    <3>1. CompletedStep(k)
      BY CompletedSteps
    <3>2. CASE state[k] = "completed" /\ output_hash[k] = output_hash'[k]
      <4>1. exact[k] > 0
        BY <2>1, <3>2 DEF FlushInv, CompletedDelivered, Delivers
      <4>2. QED BY <4>1, CachedStays DEF FlushInv
    <3>3. QED BY <2>1, <3>1, <3>2 DEF CompletedStep
  <2>2. QED BY <2>1 DEF CompletedDelivered, Delivers
<1>3. QED BY <1>1, <1>2 DEF FlushInv

LEMMA FlushHolds == Spec => []FlushInv
<1>1. FlushInv /\ [Next]_vars => FlushInv'
  BY FlushInvStep
<1>2. QED BY <1>1, FlushInvInit, PTL DEF Spec
-----------------------------------------------------------------------------
\* Every reachable state of the pool is well typed; in particular no epoch passes the
\* bound of the claims by more than the recovery that may follow the last one.
THEOREM FlushTypeCorrect == Spec => []TypeOK
<1>1. FlushType => TypeOK
  BY DEF FlushType, RowType, CacheType, DrainType, CallType, State, TypeOK
<1>2. QED BY <1>1, FlushTyped, PTL

\* A task that says it delivered a model result has one in the cache, also when the
\* drainer only saw it there before its own transaction, after retries, purges and
\* republications (summary_flush.rs, neighborhood_brief::finish).
THEOREM DeliveredResultsStand == Spec => []CompletedDelivered
<1>1. FlushInv => CompletedDelivered
  BY DEF FlushInv
<1>2. QED BY <1>1, FlushHolds, PTL

\* A model result is never lost to a fallback, though a drainer whose lease was reaped
\* may write the flush cache after its successor (cache_put).
THEOREM ModelResultsStick == Spec => ModelSticks
<1>1. FlushInv /\ [Next]_vars => [\A k \in Key : exact[k] > 0 => exact'[k] > 0]_vars
  BY CachedStays DEF FlushInv
<1>2. QED BY <1>1, FlushHolds, PTL DEF Spec, ModelSticks

\* A topology summary changes only together with the completion of its task, by the
\* drainer whose lease the row carries (neighborhood_brief::finish).
THEOREM TopologyFenced == Spec => TopologyPublishFenced
<1>1. ASSUME FlushInv, [Next]_vars, NEW k \in Topology, exact'[k] # exact[k]
      PROVE  state[k] = "running" /\ state'[k] = "completed" /\ exact'[k] = lease_epoch[k]
  <2>1. k \in Key
    OBVIOUS
  <2>2. QED BY <1>1, <2>1, ExactSteps DEF FlushInv, ExactStep
<1>2. FlushInv /\ [Next]_vars =>
        [\A k \in Topology : exact'[k] # exact[k] =>
           /\ state[k] = "running" /\ state'[k] = "completed"
           /\ exact'[k] = lease_epoch[k]]_vars
  BY <1>1
<1>3. QED BY <1>2, FlushHolds, PTL DEF Spec, TopologyPublishFenced
=============================================================================
