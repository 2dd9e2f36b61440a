----------------------- MODULE BriefPublicationProofs -----------------------
(***************************************************************************)
(* The brief of an article for every number of calls, workers, generations  *)
(* and crashes: what it displays was committed, never goes back, and is     *)
(* complete but for what was cut short; a replaced run does nothing more.   *)
(***************************************************************************)
EXTENDS BriefPublication, FiniteSetTheorems, TLAPS

StageState == {"none", "queued", "running", "completed", "failed", "cancelled"}
Ended == {"completed", "failed", "cancelled"}

Work == [at : {"run", "settle", "check", "publish"}, gen : Gen, stage : BriefStage, own : BOOLEAN,
         outputs : SUBSET List]
Busy(c) == c \in Work /\ (c.at \in {"check", "publish"} => c.stage \in List)
SlotType ==
  /\ DOMAIN slot = Slot /\ slot = [w \in Slot |-> slot[w]]
  /\ \A w \in Slot : slot[w] = Off \/ Busy(slot[w])

TypeInv ==
  /\ run \in [Gen -> RunState]
  /\ stage \in [Gen -> [BriefStage -> StageState]]
  /\ pub \in [{"gen"} \cup List -> 0..MaxRun]
  /\ cut \subseteq List
  /\ SlotType

\* Generations are created one after the other.
RunsInOrder ==
  /\ Latest \in 0..MaxRun
  /\ \A g \in Gen : run[g] # "none" <=> g <= Latest

\* Stages are open in an active run only, and only the newest run is active.
OpenIsLatest ==
  \A g \in Gen :
    /\ run[g] = "active" => g = Latest
    /\ \A s \in BriefStage : run[g] = "none" <=> stage[g][s] = "none"
    /\ run[g] \notin {"none", "active"} => \A s \in BriefStage : stage[g][s] \in Ended

\* The lists are not newer than the publication, which is not newer than the newest run.
PubInOrder == pub.gen <= Latest /\ \A l \in List : pub[l] <= pub.gen

\* What a worker publishes was committed, its own stage included.
PublishesCommitted ==
  \A w \in Slot :
    /\ AfterCommit(w) => stage[slot[w].gen][slot[w].stage] = "completed"
    /\ slot[w].at = "publish" =>
         /\ slot[w].stage \in slot[w].outputs
         /\ \A s \in slot[w].outputs : stage[slot[w].gen][s] = "completed"

Inv ==
  /\ TypeInv /\ RunsInOrder /\ OpenIsLatest /\ PubInOrder /\ PublishesCommitted
  /\ DisplayedCommitted /\ DisplayedUnlessCut

\* The newest generation, whichever function records the runs.
LEMMA LatestIs ==
  ASSUME NEW n \in 0..MaxRun, NEW f,
         \A g \in Gen : f[g] # "none" <=> g <= n
  PROVE  Cardinality({g \in Gen : f[g] # "none"}) = n
<1>1. {g \in Gen : f[g] # "none"} = 1..n
  BY BriefShape DEF Gen
<1>2. Cardinality(1..n) = n
  BY FS_Interval, BriefShape
<1>3. QED BY <1>1, <1>2

LEMMA InitInv ==
  ASSUME BriefInit
  PROVE  Inv
<1>1. Latest = 0 /\ 0 \in 0..MaxRun
  <2>1. \A g \in Gen : run[g] # "none" <=> g <= 0
    BY BriefShape DEF BriefInit, Gen
  <2>2. 0 \in 0..MaxRun
    BY BriefShape
  <2>3. QED BY <2>1, <2>2, LatestIs DEF Latest
<1>2. TypeInv
  BY <1>1, BriefShape
  DEF BriefInit, TypeInv, SlotType, Off, RunState, StageState, List, AfterCommit
<1>3. RunsInOrder /\ OpenIsLatest
  BY <1>1 DEF BriefInit, RunsInOrder, OpenIsLatest, Gen
<1>4. PubInOrder
  BY <1>1 DEF BriefInit, PubInOrder, List
<1>5. PublishesCommitted /\ DisplayedCommitted /\ DisplayedUnlessCut
  BY <1>1 DEF BriefInit, PublishesCommitted, DisplayedCommitted, DisplayedUnlessCut, Off,
              AfterCommit, List
<1>6. QED BY <1>2, <1>3, <1>4, <1>5 DEF Inv

\* Calls that only look, wait or write inputs.
LEMMA SameInv ==
  ASSUME Inv, UNCHANGED <<run, stage, pub, slot, cut>>
  PROVE  Inv'
<1>1. Latest' = Latest /\ \A w \in Slot : AfterCommit(w)' = AfterCommit(w)
  BY DEF Latest, AfterCommit
<1>2. TypeInv' /\ RunsInOrder' /\ OpenIsLatest' /\ PubInOrder'
  BY <1>1 DEF Inv, TypeInv, SlotType, RunsInOrder, OpenIsLatest, PubInOrder
<1>3. PublishesCommitted' /\ DisplayedCommitted' /\ DisplayedUnlessCut'
  BY <1>1 DEF Inv, PublishesCommitted, DisplayedCommitted, DisplayedUnlessCut, Live
<1>4. QED BY <1>2, <1>3 DEF Inv

\* A stage that is open belongs to the newest run, which is active.
LEMMA OpenRun ==
  ASSUME Inv, NEW g \in Gen, NEW s \in BriefStage, stage[g][s] \in {"queued", "running"}
  PROVE  run[g] = "active" /\ g = Latest
<1>1. stage[g][s] \notin Ended /\ stage[g][s] # "none"
  BY DEF Ended
<1>2. QED BY <1>1 DEF Inv, OpenIsLatest

\* The state of a slot that works.
LEMMA SlotIs ==
  ASSUME Inv, NEW w \in Slot, slot[w].at # "idle"
  PROVE  /\ Busy(slot[w])
         /\ slot[w].gen \in Gen /\ slot[w].stage \in BriefStage
         /\ slot[w].at \in {"run", "settle", "check", "publish"}
         /\ slot[w].outputs \subseteq BriefStage
         /\ AfterCommit(w) => slot[w].stage \in List
<1>1. Busy(slot[w])
  BY DEF Off, Inv, TypeInv, SlotType
<1>2. slot[w].outputs \subseteq List
  BY <1>1 DEF Busy, Work
<1>3. QED BY <1>1, <1>2, BriefShape DEF Busy, Work, AfterCommit

\* The slot of one worker changes.
LEMMA SlotTypeInv ==
  ASSUME TypeInv, NEW w \in Slot, NEW c, slot' = [slot EXCEPT ![w] = c], c = Off \/ Busy(c)
  PROVE  SlotType' /\ slot'[w] = c /\ \A v \in Slot \ {w} : slot'[v] = slot[v]
BY DEF TypeInv, SlotType

\* What the other workers publish stays committed while completed stages stay so.
LEMMA PublishesInv ==
  ASSUME Inv, NEW w \in Slot,
         \A v \in Slot \ {w} : slot'[v] = slot[v],
         \A h \in Gen, u \in BriefStage :
           stage[h][u] = "completed" => stage'[h][u] = "completed",
         AfterCommit(w)' =>
           /\ stage'[slot'[w].gen][slot'[w].stage] = "completed"
           /\ slot'[w].at = "publish" =>
                /\ slot'[w].stage \in slot'[w].outputs
                /\ \A u \in slot'[w].outputs : stage'[slot'[w].gen][u] = "completed"
  PROVE  PublishesCommitted'
<1> SUFFICES ASSUME NEW v \in Slot, AfterCommit(v)'
             PROVE  /\ stage'[slot'[v].gen][slot'[v].stage] = "completed"
                    /\ slot'[v].at = "publish" =>
                         /\ slot'[v].stage \in slot'[v].outputs
                         /\ \A u \in slot'[v].outputs : stage'[slot'[v].gen][u] = "completed"
  BY DEF PublishesCommitted, AfterCommit
<1>1. CASE v = w
  BY <1>1
<1>2. CASE v # w
  <2>1. slot'[v] = slot[v] /\ AfterCommit(v)
    BY <1>2 DEF AfterCommit
  <2>2. slot[v].gen \in Gen /\ slot[v].stage \in BriefStage /\ slot[v].outputs \subseteq BriefStage
    BY <2>1, SlotIs DEF AfterCommit
  <2>3. QED BY <2>1, <2>2 DEF Inv, PublishesCommitted
<1>3. QED BY <1>1, <1>2

\* A step inside the newest run, which keeps what is completed and ends the run only
\* when its stages have ended.
LEMMA RunStep ==
  ASSUME Inv, NEW g \in Gen, run[g] = "active",
         NEW st \in [BriefStage -> StageState \ {"none"}],
         \A u \in BriefStage : stage[g][u] = "completed" => st[u] = "completed",
         NEW r \in RunState \ {"none"},
         r # "active" => \A u \in BriefStage : st[u] \in Ended,
         stage' = [stage EXCEPT ![g] = st], run' = [run EXCEPT ![g] = r],
         UNCHANGED <<pub, cut>>
  PROVE  /\ g = Latest /\ Latest' = Latest
         /\ run'[g] = r /\ stage'[g] = st
         /\ \A h \in Gen, u \in BriefStage :
              stage[h][u] = "completed" => stage'[h][u] = "completed"
         /\ SlotType' => TypeInv'
         /\ RunsInOrder' /\ OpenIsLatest' /\ PubInOrder' /\ DisplayedCommitted'
<1>1. /\ run' \in [Gen -> RunState] /\ run'[g] = r
      /\ \A h \in Gen \ {g} : run'[h] = run[h]
      /\ stage' \in [Gen -> [BriefStage -> StageState]] /\ stage'[g] = st
      /\ \A h \in Gen \ {g} : stage'[h] = stage[h]
  BY DEF Inv, TypeInv
<1>2. g = Latest
  BY DEF Inv, OpenIsLatest
<1>3. Latest' = Latest
  <2>1. \A h \in Gen : run'[h] # "none" <=> run[h] # "none"
    BY <1>1
  <2>2. QED BY <2>1 DEF Latest
<1>4. \A h \in Gen, u \in BriefStage :
        stage[h][u] = "completed" => stage'[h][u] = "completed"
  BY <1>1
<1>5. SlotType' => TypeInv'
  BY <1>1 DEF Inv, TypeInv
<1>6. RunsInOrder' /\ PubInOrder'
  BY <1>1, <1>3 DEF Inv, RunsInOrder, PubInOrder
<1>7. OpenIsLatest'
  BY <1>1, <1>2, <1>3 DEF Inv, OpenIsLatest
<1>8. DisplayedCommitted'
  <2>1. \A l \in List : l \in BriefStage /\ (pub[l] > 0 => pub[l] \in Gen)
    BY BriefShape DEF Inv, TypeInv, Gen
  <2>2. QED BY <1>4, <2>1 DEF Inv, DisplayedCommitted
<1>9. QED BY <1>1, <1>2, <1>3, <1>4, <1>5, <1>6, <1>7, <1>8

\* A step inside the newest run by a worker that has not committed.
RunMove(g, st, r, w, c) ==
  /\ run[g] = "active" /\ ~ AfterCommit(w)
  /\ stage' = [stage EXCEPT ![g] = st] /\ run' = [run EXCEPT ![g] = r]
  /\ slot' = [slot EXCEPT ![w] = c] /\ UNCHANGED <<pub, cut>>
  /\ c = Off \/ Busy(c)
  /\ c.at \in {"check", "publish"} => c.at = "check" /\ c.gen = g /\ st[c.stage] = "completed"
  /\ r # "active" => \A u \in BriefStage : st[u] \in Ended
  /\ \A u \in BriefStage : stage[g][u] = "completed" => st[u] = "completed"
  /\ \A u \in List : st[u] = "completed" /\ stage[g][u] # "completed"
                       => c.at = "check" /\ c.gen = g /\ c.stage = u

LEMMA RunStepInv ==
  ASSUME Inv, NEW g \in Gen, NEW st \in [BriefStage -> StageState \ {"none"}],
         NEW r \in RunState \ {"none"}, NEW w \in Slot, NEW c, RunMove(g, st, r, w, c)
  PROVE  Inv'
<1> USE DEF RunMove
<1>1. /\ g = Latest /\ Latest' = Latest /\ run'[g] = r /\ stage'[g] = st
      /\ \A h \in Gen, u \in BriefStage :
           stage[h][u] = "completed" => stage'[h][u] = "completed"
      /\ SlotType' => TypeInv'
      /\ RunsInOrder' /\ OpenIsLatest' /\ PubInOrder' /\ DisplayedCommitted'
  BY RunStep
<1>2. SlotType' /\ slot'[w] = c /\ \A v \in Slot \ {w} : slot'[v] = slot[v]
  BY SlotTypeInv DEF Inv
<1>3. PublishesCommitted'
  <2>1. AfterCommit(w)' => c.at = "check" /\ c.gen = g /\ stage'[g][c.stage] = "completed"
    BY <1>1, <1>2 DEF AfterCommit
  <2>2. QED BY <1>1, <1>2, <2>1, PublishesInv
<1>4. DisplayedUnlessCut'
  <2> SUFFICES ASSUME NEW s \in List, Live(r), st[s] = "completed", s \notin cut,
                      \A v \in Slot : AfterCommit(v)'
                        => <<slot'[v].gen, slot'[v].stage>> # <<g, s>>
               PROVE  pub[s] = g
    BY <1>1 DEF DisplayedUnlessCut, Live
  <2>1. stage[g][s] = "completed"
    <3>1. ~ (c.at = "check" /\ c.gen = g /\ c.stage = s)
      BY <1>2 DEF AfterCommit
    <3>2. QED BY <3>1
  <2>2. \A v \in Slot : AfterCommit(v) => <<slot[v].gen, slot[v].stage>> # <<g, s>>
    BY <1>2 DEF AfterCommit
  <2>3. Latest > 0 /\ Live(run[Latest])
    BY <1>1, BriefShape DEF Live, Gen
  <2>4. QED BY <1>1, <2>1, <2>2, <2>3 DEF Inv, DisplayedUnlessCut
<1>5. QED BY <1>1, <1>2, <1>3, <1>4 DEF Inv

\* A worker moves on or lets go, and changes nothing else: what it drops after its commit
\* is of no run that is displayed, or cut short.
LEMMA SlotStepInv ==
  ASSUME Inv, NEW w \in Slot, NEW c,
         slot' = [slot EXCEPT ![w] = c], c = Off \/ Busy(c),
         UNCHANGED <<run, stage, pub>>, cut \subseteq cut', cut' \subseteq List,
         AfterCommit(w) =>
           \/ c.at \in {"check", "publish"} /\ c.gen = slot[w].gen /\ c.stage = slot[w].stage
           \/ slot[w].gen # Latest \/ ~ Live(run[Latest]) \/ slot[w].stage \in cut',
         c.at \in {"check", "publish"} =>
           /\ stage[c.gen][c.stage] = "completed"
           /\ c.at = "publish" => c.stage \in c.outputs
                                  /\ \A u \in c.outputs : stage[c.gen][u] = "completed"
  PROVE  Inv'
<1>1. SlotType' /\ slot'[w] = c /\ \A v \in Slot \ {w} : slot'[v] = slot[v]
  BY SlotTypeInv DEF Inv
<1>2. Latest' = Latest
  BY DEF Latest
<1>3. TypeInv' /\ RunsInOrder' /\ OpenIsLatest' /\ PubInOrder' /\ DisplayedCommitted'
  BY <1>1, <1>2
  DEF Inv, TypeInv, RunsInOrder, OpenIsLatest, PubInOrder, DisplayedCommitted
<1>4. PublishesCommitted'
  BY <1>1, PublishesInv DEF AfterCommit
<1>5. DisplayedUnlessCut'
  <2> SUFFICES ASSUME NEW s \in List, Latest > 0, Live(run[Latest]),
                      stage[Latest][s] = "completed", s \notin cut',
                      \A v \in Slot : AfterCommit(v)'
                        => <<slot'[v].gen, slot'[v].stage>> # <<Latest, s>>
               PROVE  pub[s] = Latest
    BY <1>2 DEF DisplayedUnlessCut, Live
  <2>1. \A v \in Slot : AfterCommit(v) => <<slot[v].gen, slot[v].stage>> # <<Latest, s>>
    BY <1>1 DEF AfterCommit
  <2>2. QED BY <2>1 DEF Inv, DisplayedUnlessCut
<1>6. QED BY <1>1, <1>3, <1>4, <1>5 DEF Inv

LEMMA StageClaimInv ==
  ASSUME Inv, NEW w \in Slot, NEW g \in Gen, NEW s \in BriefStage, StageClaim(w, g, s)
  PROVE  Inv'
<1> DEFINE st == [stage[g] EXCEPT ![s] = "running"]
           c == [Off EXCEPT !.at = "run", !.gen = g, !.stage = s, !.own = s \in input[g]]
<1>1. stage[g][s] = "queued" /\ ~ AfterCommit(w)
  BY DEF StageClaim, StageReady, AfterCommit
<1>2. run[g] = "active" /\ g = Latest
  BY <1>1, OpenRun
<1>3. stage[g] \in [BriefStage -> StageState \ {"none"}] /\ run \in [Gen -> RunState]
  BY <1>2 DEF Inv, TypeInv, OpenIsLatest
<1>4. /\ st \in [BriefStage -> StageState \ {"none"}]
      /\ \A u \in BriefStage : stage[g][u] = "completed" <=> st[u] = "completed"
  BY <1>1, <1>3 DEF StageState
<1>5. stage' = [stage EXCEPT ![g] = st] /\ run' = [run EXCEPT ![g] = "active"]
  BY <1>2, <1>3 DEF StageClaim
<1>6. slot' = [slot EXCEPT ![w] = c]
  BY DEF StageClaim
<1>7. Busy(c) /\ c.at = "run"
  <2>1. ASSUME NEW b \in BOOLEAN
        PROVE  Busy([Off EXCEPT !.at = "run", !.gen = g, !.stage = s, !.own = b])
    BY DEF Off, Busy, Work
  <2>2. CASE s \in input[g]
    <3>1. c = [Off EXCEPT !.at = "run", !.gen = g, !.stage = s, !.own = TRUE]
      BY <2>2
    <3>2. QED BY <2>1, <3>1 DEF Off
  <2>3. CASE s \notin input[g]
    <3>1. c = [Off EXCEPT !.at = "run", !.gen = g, !.stage = s, !.own = FALSE]
      <4>1. (s \in input[g]) = FALSE
        BY <2>3
      <4>2. QED BY <4>1
    <3>2. QED BY <2>1, <3>1 DEF Off
  <2>4. QED BY <2>2, <2>3
<1> HIDE DEF st, c
<1>8. \A u \in List : u \in BriefStage
  BY BriefShape
<1>9. UNCHANGED <<pub, cut>> /\ "active" \in RunState \ {"none"}
  BY DEF StageClaim, RunState
<1>10. RunMove(g, st, "active", w, c)
  BY <1>1, <1>2, <1>4, <1>5, <1>6, <1>7, <1>8, <1>9 DEF RunMove
<1>11. QED BY <1>4, <1>9, <1>10, RunStepInv

\* What settling writes on an active run.
LEMMA SettledIs ==
  ASSUME Inv, NEW g \in Gen, run[g] = "active", NEW st \in [BriefStage -> StageState \ {"none"}]
  PROVE  \E r \in RunState \ {"none"} :
           /\ Settled(g, st) = [run EXCEPT ![g] = r]
           /\ r # "active" => \A u \in BriefStage : st[u] \in Ended
<1>1. run = [run EXCEPT ![g] = "active"]
  BY DEF Inv, TypeInv
<1>2. CASE \E s \in BriefStage : st[s] \in {"queued", "running"}
  BY <1>1, <1>2 DEF Settled, RunState
<1>3. CASE ~ \E s \in BriefStage : st[s] \in {"queued", "running"}
  <2>1. \A u \in BriefStage : st[u] \in Ended
    BY <1>3 DEF StageState, Ended
  <2> DEFINE r == IF \E s \in BriefStage : st[s] = "failed" THEN "failed" ELSE "completed"
  <2>2. Settled(g, st) = [run EXCEPT ![g] = r]
    BY <1>3 DEF Settled
  <2>3. r \in RunState \ {"none"}
    BY DEF RunState
  <2>4. QED BY <2>1, <2>2, <2>3
<1>4. QED BY <1>2, <1>3

LEMMA StageCommitInv ==
  ASSUME Inv, NEW w \in Slot, StageCommit(w)
  PROVE  Inv'
<1>1. slot[w].at = "run" /\ slot[w].at # "idle" /\ ~ AfterCommit(w)
  BY DEF StageCommit, Running, AfterCommit
<1>2. Busy(slot[w]) /\ slot[w].gen \in Gen /\ slot[w].stage \in BriefStage
  BY <1>1, SlotIs
<1>3. CASE Leased(w)
  <2> DEFINE g == slot[w].gen
             s == slot[w].stage
             st == [stage[g] EXCEPT ![s] = "completed"]
             c == IF s = "body" THEN Off ELSE [slot[w] EXCEPT !.at = "check", !.own = FALSE]
  <2>1. run[g] = "active" /\ g = Latest /\ stage[g][s] = "running"
    BY <1>2, <1>3, OpenRun DEF Leased
  <2>2. stage[g] \in [BriefStage -> StageState \ {"none"}]
    BY <1>2, <2>1 DEF Inv, TypeInv, OpenIsLatest
  <2>3. /\ st \in [BriefStage -> StageState \ {"none"}]
        /\ \A u \in BriefStage : stage[g][u] = "completed" => st[u] = "completed"
        /\ \A u \in BriefStage \ {s} : st[u] = stage[g][u]
        /\ st[s] = "completed"
    BY <1>2, <2>2 DEF StageState
  <2>4. /\ stage' = [stage EXCEPT ![g] = st] /\ run' = Settled(g, st)
        /\ slot' = [slot EXCEPT ![w] = c] /\ UNCHANGED <<pub, cut>>
    BY <1>3 DEF StageCommit
  <2>5. c = Off \/ Busy(c)
    BY <1>2, BriefShape DEF Busy, Work
  <2>6. /\ c.at \in {"check", "publish"} => c.at = "check" /\ c.gen = g /\ c.stage = s
        /\ s # "body" => c.at = "check" /\ c.gen = g /\ c.stage = s
    BY <1>2 DEF Off, Busy, Work
  <2> HIDE DEF st, c
  <2>7. PICK r \in RunState \ {"none"} :
          /\ run' = [run EXCEPT ![g] = r]
          /\ r # "active" => \A u \in BriefStage : st[u] \in Ended
    BY <1>2, <2>1, <2>3, <2>4, SettledIs
  <2>8. \A u \in List : st[u] = "completed" /\ stage[g][u] # "completed"
                         => c.at = "check" /\ c.gen = g /\ c.stage = u
    BY <2>3, <2>6, BriefShape DEF List
  <2>9. c.at \in {"check", "publish"} => c.at = "check" /\ c.gen = g /\ st[c.stage] = "completed"
    BY <2>3, <2>6
  <2> HIDE DEF g, s
  <2>10. g \in Gen
    BY <1>2 DEF g
  <2>11. RunMove(g, st, r, w, c)
    BY <1>1, <2>1, <2>3, <2>4, <2>5, <2>7, <2>8, <2>9 DEF RunMove
  <2>12. QED BY <2>3, <2>7, <2>10, <2>11, RunStepInv
<1>4. CASE ~ Leased(w)
  <2>1. slot' = [slot EXCEPT ![w] = Off] /\ UNCHANGED <<run, stage, pub, cut>>
    BY <1>4 DEF StageCommit, LetGo
  <2>2. Off.at \notin {"check", "publish"} /\ cut \subseteq List
    BY DEF Off, Inv, TypeInv
  <2>3. QED BY <1>1, <2>1, <2>2, SlotStepInv
<1>5. QED BY <1>3, <1>4

\* Closing blocked stages completes none and loses none.
LEMMA CloseBlockedIs ==
  ASSUME NEW st \in [BriefStage -> StageState \ {"none"}]
  PROVE  /\ CloseBlocked(st) \in [BriefStage -> StageState \ {"none"}]
         /\ \A u \in BriefStage : st[u] = "completed" <=> CloseBlocked(st)[u] = "completed"
BY DEF CloseBlocked, BlockedIn, StageState

LEMMA StageFailInv ==
  ASSUME Inv, NEW w \in Slot, StageFail(w)
  PROVE  Inv'
<1>1. slot[w].at = "run" /\ slot[w].at # "idle" /\ ~ AfterCommit(w)
  BY DEF StageFail, Running, AfterCommit
<1>2. Busy(slot[w]) /\ slot[w].gen \in Gen /\ slot[w].stage \in BriefStage
  BY <1>1, SlotIs
<1>3. UNCHANGED <<run, pub, cut>>
  BY DEF StageFail
<1>4. CASE Leased(w)
  <2> DEFINE g == slot[w].gen
             s == slot[w].stage
             st == [stage[g] EXCEPT ![s] = "failed"]
             c == [slot[w] EXCEPT !.at = "settle", !.own = FALSE]
  <2>1. run[g] = "active" /\ stage[g][s] = "running" /\ g \in Gen
    BY <1>2, <1>4, OpenRun DEF Leased
  <2>2. /\ stage[g] \in [BriefStage -> StageState \ {"none"}]
        /\ run = [run EXCEPT ![g] = "active"]
    BY <2>1 DEF Inv, TypeInv, OpenIsLatest
  <2>3. /\ st \in [BriefStage -> StageState \ {"none"}]
        /\ \A u \in BriefStage : stage[g][u] = "completed" <=> st[u] = "completed"
    BY <1>2, <2>1, <2>2 DEF StageState
  <2>4. stage' = [stage EXCEPT ![g] = st] /\ slot' = [slot EXCEPT ![w] = c]
    BY <1>2, <1>4, <2>1 DEF StageFail, Inv, TypeInv
  <2>5. Busy(c) /\ c.at = "settle"
    BY <1>2 DEF Busy, Work
  <2>6. "active" \in RunState \ {"none"} /\ \A u \in List : u \in BriefStage
    BY BriefShape DEF RunState
  <2> HIDE DEF g, s, st, c
  <2>7. run' = [run EXCEPT ![g] = "active"]
    BY <1>3, <2>2
  <2>8. RunMove(g, st, "active", w, c)
    BY <1>1, <1>3, <2>1, <2>3, <2>4, <2>5, <2>6, <2>7 DEF RunMove
  <2>9. QED BY <2>1, <2>3, <2>6, <2>8, RunStepInv
<1>5. CASE ~ Leased(w)
  <2>1. slot' = [slot EXCEPT ![w] = Off] /\ UNCHANGED stage /\ cut \subseteq List
    BY <1>5 DEF StageFail, LetGo, Inv, TypeInv
  <2>2. Off.at \notin {"check", "publish"}
    BY DEF Off
  <2>3. QED BY <1>1, <1>3, <2>1, <2>2, SlotStepInv
<1>6. QED BY <1>4, <1>5

\* In a run that is over there is nothing left to close.
LEMMA NothingToClose ==
  ASSUME Inv, NEW g \in Gen, run[g] # "active"
  PROVE  CloseBlocked(CloseBlocked(stage[g])) = stage[g] /\ \A st : Settled(g, st) = run
<1>1. \A u \in BriefStage : stage[g][u] # "queued"
  BY OpenRun
<1>2. stage[g] \in [BriefStage -> StageState]
  BY DEF Inv, TypeInv
<1>3. CloseBlocked(stage[g]) = stage[g]
  BY <1>1, <1>2 DEF CloseBlocked, BlockedIn
<1>4. QED BY <1>3 DEF Settled

LEMMA StageSettleInv ==
  ASSUME Inv, NEW w \in Slot, StageSettle(w)
  PROVE  Inv'
<1>1. slot[w].at # "idle" /\ ~ AfterCommit(w)
  BY DEF StageSettle, AfterCommit
<1>2. slot[w].gen \in Gen
  BY <1>1, SlotIs
<1>3. /\ slot' = [slot EXCEPT ![w] = Off] /\ UNCHANGED <<pub, cut>>
      /\ Off.at \notin {"check", "publish"}
  BY DEF StageSettle, LetGo, Off
<1> DEFINE g == slot[w].gen
           st == CloseBlocked(CloseBlocked(stage[g]))
<1>4. stage' = [stage EXCEPT ![g] = st] /\ run' = Settled(g, st)
  BY DEF StageSettle
<1>5. CASE run[g] = "active"
  <2>1. stage[g] \in [BriefStage -> StageState \ {"none"}]
    BY <1>2, <1>5 DEF Inv, TypeInv, OpenIsLatest
  <2>2. /\ st \in [BriefStage -> StageState \ {"none"}]
        /\ \A u \in BriefStage : stage[g][u] = "completed" <=> st[u] = "completed"
    BY <2>1, CloseBlockedIs
  <2> HIDE DEF st, g
  <2>3. g \in Gen
    BY <1>2 DEF g
  <2>4. PICK r \in RunState \ {"none"} :
          /\ run' = [run EXCEPT ![g] = r]
          /\ r # "active" => \A u \in BriefStage : st[u] \in Ended
    BY <1>4, <1>5, <2>2, <2>3, SettledIs
  <2>5. \A u \in List : u \in BriefStage
    BY BriefShape
  <2>6. RunMove(g, st, r, w, Off)
    BY <1>1, <1>3, <1>4, <1>5, <2>2, <2>4, <2>5 DEF RunMove
  <2>7. QED BY <2>2, <2>3, <2>4, <2>6, RunStepInv
<1>6. CASE run[g] # "active"
  <2>1. st = stage[g] /\ Settled(g, st) = run
    BY <1>2, <1>6, NothingToClose
  <2>2. UNCHANGED <<run, stage>> /\ cut \subseteq List
    BY <1>4, <2>1 DEF Inv, TypeInv
  <2>3. QED BY <1>1, <1>3, <2>2, SlotStepInv
<1>7. QED BY <1>5, <1>6

LEMMA StopRunInv ==
  ASSUME Inv, NEW g \in Gen, StopRun(g)
  PROVE  Inv'
<1> DEFINE st == Closed(stage[g])
<1>1. run[g] = "active" /\ UNCHANGED <<pub, slot, cut>>
  BY DEF StopRun
<1>2. stage[g] \in [BriefStage -> StageState \ {"none"}]
  BY <1>1 DEF Inv, TypeInv, OpenIsLatest
<1>3. /\ st \in [BriefStage -> StageState \ {"none"}]
      /\ \A u \in BriefStage : stage[g][u] = "completed" => st[u] = "completed"
      /\ \A u \in BriefStage : st[u] \in Ended
  BY <1>2 DEF Closed, StageState, Ended
<1>4. stage' = [stage EXCEPT ![g] = st] /\ run' = [run EXCEPT ![g] = "cancelled"]
  BY DEF StopRun
<1> HIDE DEF st
<1>5. "cancelled" \in RunState \ {"none"}
  BY DEF RunState
<1>6. /\ g = Latest /\ Latest' = Latest /\ run'[g] = "cancelled" /\ stage'[g] = st
      /\ \A h \in Gen, u \in BriefStage :
           stage[h][u] = "completed" => stage'[h][u] = "completed"
      /\ SlotType' => TypeInv'
      /\ RunsInOrder' /\ OpenIsLatest' /\ PubInOrder' /\ DisplayedCommitted'
  BY <1>1, <1>3, <1>4, <1>5, RunStep
<1>7. SlotType'
  BY <1>1 DEF Inv, TypeInv, SlotType
<1>8. PublishesCommitted'
  <2> SUFFICES ASSUME NEW v \in Slot, AfterCommit(v)
               PROVE  /\ stage'[slot[v].gen][slot[v].stage] = "completed"
                      /\ slot[v].at = "publish" =>
                           /\ slot[v].stage \in slot[v].outputs
                           /\ \A u \in slot[v].outputs : stage'[slot[v].gen][u] = "completed"
    BY <1>1 DEF PublishesCommitted, AfterCommit
  <2>1. slot[v].gen \in Gen /\ slot[v].stage \in BriefStage /\ slot[v].outputs \subseteq BriefStage
    BY SlotIs DEF AfterCommit
  <2>2. QED BY <1>6, <2>1 DEF Inv, PublishesCommitted
<1>9. DisplayedUnlessCut'
  BY <1>6 DEF DisplayedUnlessCut, Live
<1>10. QED BY <1>6, <1>7, <1>8, <1>9 DEF Inv

LEMMA PublishCheckInv ==
  ASSUME Inv, NEW w \in Slot, PublishCheck(w)
  PROVE  Inv'
<1>1. slot[w].at = "check" /\ slot[w].at # "idle" /\ AfterCommit(w)
  BY DEF PublishCheck, AfterCommit
<1>2. Busy(slot[w]) /\ slot[w].gen \in Gen /\ slot[w].stage \in List
  BY <1>1, SlotIs
<1>3. UNCHANGED <<run, stage, pub, cut>> /\ cut \subseteq List
  BY DEF PublishCheck, Inv, TypeInv
<1>4. CASE Displays(slot[w].gen)
  <2> DEFINE c == [slot[w] EXCEPT !.at = "publish", !.outputs = Outputs(slot[w].gen)]
  <2>1. slot' = [slot EXCEPT ![w] = c]
    BY <1>4 DEF PublishCheck
  <2>2. Outputs(slot[w].gen) \subseteq List
    BY DEF Outputs
  <2>3. /\ Busy(c) /\ c.at = "publish" /\ c.gen = slot[w].gen /\ c.stage = slot[w].stage
        /\ c.outputs = Outputs(slot[w].gen)
    BY <1>2, <2>2 DEF Busy, Work
  <2> HIDE DEF c
  <2>4. stage[c.gen][c.stage] = "completed"
    BY <1>1, <2>3 DEF Inv, PublishesCommitted
  <2>5. c.stage \in c.outputs /\ \A u \in c.outputs : stage[c.gen][u] = "completed"
    BY <1>2, <2>3, <2>4 DEF Outputs
  <2>6. QED BY <1>3, <2>1, <2>3, <2>4, <2>5, SlotStepInv
<1>5. CASE ~ Displays(slot[w].gen)
  <2>1. slot' = [slot EXCEPT ![w] = Off]
    BY <1>5 DEF PublishCheck, LetGo
  <2>2. Off.at \notin {"check", "publish"}
    BY DEF Off
  <2>3. slot[w].gen # Latest \/ ~ Live(run[Latest])
    BY <1>5 DEF Displays
  <2>4. QED BY <1>3, <2>1, <2>2, <2>3, SlotStepInv
<1>6. QED BY <1>4, <1>5

LEMMA SlotDiesInv ==
  ASSUME Inv, NEW w \in Slot, SlotDies(w)
  PROVE  Inv'
<1>1. slot[w].at # "idle" /\ slot' = [slot EXCEPT ![w] = Off] /\ UNCHANGED <<run, pub>>
  BY DEF SlotDies, LetGo
<1>2. Off.at \notin {"check", "publish"}
  BY DEF Off
<1>3. slot[w].gen \in Gen /\ slot[w].stage \in BriefStage
  BY <1>1, SlotIs
<1>4. CASE Running(w) /\ Leased(w)
  <2> DEFINE g == slot[w].gen
             s == slot[w].stage
             st == [stage[g] EXCEPT ![s] = "queued"]
  <2>1. run[g] = "active" /\ g = Latest /\ stage[g][s] = "running" /\ g \in Gen
    BY <1>3, <1>4, OpenRun DEF Leased
  <2>2. /\ stage[g] \in [BriefStage -> StageState \ {"none"}]
        /\ run = [run EXCEPT ![g] = "active"]
    BY <2>1 DEF Inv, TypeInv, OpenIsLatest
  <2>3. /\ st \in [BriefStage -> StageState \ {"none"}]
        /\ \A u \in BriefStage : stage[g][u] = "completed" <=> st[u] = "completed"
    BY <1>3, <2>1, <2>2 DEF StageState
  <2>4. ~ AfterCommit(w) /\ UNCHANGED cut
    BY <1>4 DEF SlotDies, AfterCommit, Running
  <2>5. stage' = [stage EXCEPT ![g] = st]
    BY <1>3, <1>4, <2>1 DEF SlotDies, Inv, TypeInv
  <2>6. "active" \in RunState \ {"none"} /\ \A u \in List : u \in BriefStage
    BY BriefShape DEF RunState
  <2> HIDE DEF g, s, st
  <2>7. run' = [run EXCEPT ![g] = "active"]
    BY <1>1, <2>2
  <2>8. RunMove(g, st, "active", w, Off)
    BY <1>1, <1>2, <2>1, <2>3, <2>4, <2>5, <2>6, <2>7 DEF RunMove
  <2>9. QED BY <2>1, <2>3, <2>6, <2>8, RunStepInv
<1>5. CASE ~ (Running(w) /\ Leased(w))
  <2>1. /\ UNCHANGED stage /\ cut \subseteq cut'
        /\ AfterCommit(w) => slot[w].gen # Latest \/ slot[w].stage \in cut'
    BY <1>5 DEF SlotDies
  <2>2. cut' \subseteq List
    BY <1>1, SlotIs DEF SlotDies, Inv, TypeInv
  <2>3. QED BY <1>1, <1>2, <2>1, <2>2, SlotStepInv
<1>6. QED BY <1>4, <1>5

\* What publishing leaves: an older publication as it was, or one of the worker's
\* generation, whose lists are its outputs or were there.
LEMMA PublishInWrites ==
  ASSUME Inv, NEW w \in Slot, PublishIn(w), Replaces(slot[w].gen)
  PROVE  /\ pub' \in [{"gen"} \cup List -> 0..MaxRun]
         /\ pub'["gen"] = slot[w].gen
         /\ pub'[slot[w].stage] = slot[w].gen
         /\ \A l \in List :
              \/ pub'[l] = slot[w].gen /\ l \in slot[w].outputs
              \/ pub'[l] = pub[l]
              \/ pub'[l] = 0 /\ pub.gen = 0
<1> DEFINE g == slot[w].gen
           New(l) == IF pub.gen = 0 /\ l \in slot[w].outputs THEN g ELSE 0
<1>1. /\ slot[w].at = "publish" /\ slot[w].at # "idle" /\ AfterCommit(w)
      /\ pub \in [{"gen"} \cup List -> 0..MaxRun]
  BY DEF PublishIn, AfterCommit, Inv, TypeInv
<1>2. /\ g \in Gen /\ g \in 0..MaxRun /\ 0 \in 0..MaxRun
      /\ slot[w].stage \in List /\ slot[w].stage \in slot[w].outputs
  BY <1>1, SlotIs, BriefShape DEF Gen, Inv, PublishesCommitted
<1>3. CASE pub.gen = 0
  <2>1. pub' = [gen |-> g, claims |-> New("claims"), inferences |-> New("inferences"),
                links |-> New("links")]
    BY <1>3 DEF PublishIn
  <2>2. \A l \in List : New(l) = (IF l \in slot[w].outputs THEN g ELSE 0)
    BY <1>3
  <2> HIDE DEF New, g
  <2>3. pub'["gen"] = g /\ \A l \in List : pub'[l] = New(l) /\ New(l) \in 0..MaxRun
    BY <1>2, <2>1, <2>2 DEF List
  <2>4. pub' \in [{"gen"} \cup List -> 0..MaxRun]
    BY <1>2, <2>1, <2>3 DEF List
  <2>5. QED BY <1>2, <1>3, <2>2, <2>3, <2>4 DEF g
<1>4. CASE pub.gen # 0
  <2>1. pub' = [[pub EXCEPT !["gen"] = g] EXCEPT ![slot[w].stage] = g]
    BY <1>1, <1>4 DEF PublishIn
  <2>2. "gen" \notin List
    BY DEF List
  <2> DEFINE one == [pub EXCEPT !["gen"] = g]
  <2>3. /\ one \in [{"gen"} \cup List -> 0..MaxRun] /\ one["gen"] = g
        /\ \A l \in List : one[l] = pub[l]
    BY <1>1, <1>2, <2>2
  <2> HIDE DEF one, g
  <2>4. pub' = [one EXCEPT ![slot[w].stage] = g]
    BY <2>1 DEF one
  <2>5. QED BY <1>2, <2>2, <2>3, <2>4 DEF g
<1>5. QED BY <1>3, <1>4

LEMMA PublishInInv ==
  ASSUME Inv, NEW w \in Slot, PublishIn(w)
  PROVE  Inv'
<1>1. /\ slot[w].at = "publish" /\ slot[w].at # "idle" /\ AfterCommit(w)
      /\ slot' = [slot EXCEPT ![w] = Off] /\ UNCHANGED <<run, stage, cut>>
  BY DEF PublishIn, AfterCommit, LetGo
<1>2. slot[w].gen \in Gen /\ slot[w].stage \in BriefStage /\ slot[w].stage \in List
  BY <1>1, SlotIs
<1>3. Off.at \notin {"check", "publish"} /\ cut \subseteq List
  BY DEF Off, Inv, TypeInv
<1>4. slot[w].gen <= Latest /\ Latest \in Nat /\ slot[w].gen \in Nat \ {0}
  <2>1. stage[slot[w].gen][slot[w].stage] # "none"
    BY <1>1 DEF Inv, PublishesCommitted
  <2>2. run[slot[w].gen] # "none"
    BY <1>2, <2>1 DEF Inv, OpenIsLatest
  <2>3. QED BY <1>2, <2>2, BriefShape DEF Inv, RunsInOrder, Gen
<1>5. /\ pub \in [{"gen"} \cup List -> 0..MaxRun]
      /\ pub.gen <= Latest /\ pub.gen \in Nat
      /\ \A l \in List : pub[l] \in Nat /\ pub[l] <= pub.gen
  BY BriefShape DEF Inv, TypeInv, PubInOrder
<1>6. CASE ~ Replaces(slot[w].gen)
  <2>1. UNCHANGED pub
    BY <1>6 DEF PublishIn
  <2>2. slot[w].gen # Latest
    BY <1>4, <1>5, <1>6 DEF Replaces
  <2>3. QED BY <1>1, <1>3, <2>1, <2>2, SlotStepInv
<1>7. CASE Replaces(slot[w].gen)
  <2> DEFINE g == slot[w].gen
  <2>1. /\ pub' \in [{"gen"} \cup List -> 0..MaxRun]
        /\ pub'["gen"] = g /\ pub'[slot[w].stage] = g
        /\ \A l \in List : \/ pub'[l] = g /\ l \in slot[w].outputs
                           \/ pub'[l] = pub[l]
                           \/ pub'[l] = 0 /\ pub.gen = 0
    BY <1>7, PublishInWrites
  <2>2. pub.gen <= g
    BY <1>7 DEF Replaces
  <2>3. SlotType' /\ slot'[w] = Off /\ \A v \in Slot \ {w} : slot'[v] = slot[v]
    BY <1>1, SlotTypeInv DEF Inv
  <2>4. Latest' = Latest
    BY <1>1 DEF Latest
  <2>5. TypeInv' /\ RunsInOrder' /\ OpenIsLatest'
    BY <1>1, <2>1, <2>3, <2>4 DEF Inv, TypeInv, RunsInOrder, OpenIsLatest
  <2>6. PubInOrder'
    <3>1. \A l \in List : pub'[l] <= g
      BY <1>4, <1>5, <2>1, <2>2
    <3>2. QED BY <1>4, <2>1, <2>4, <3>1 DEF PubInOrder
  <2>7. PublishesCommitted'
    BY <1>1, <1>3, <2>3, PublishesInv DEF AfterCommit
  <2>8. DisplayedCommitted'
    <3>1. \A u \in slot[w].outputs : stage[g][u] = "completed"
      BY <1>1 DEF Inv, PublishesCommitted
    <3>2. QED BY <1>1, <2>1, <3>1 DEF Inv, DisplayedCommitted
  <2>9. DisplayedUnlessCut'
    <3> SUFFICES ASSUME NEW s \in List, Latest > 0, Live(run[Latest]),
                        stage[Latest][s] = "completed", s \notin cut,
                        \A v \in Slot : AfterCommit(v)'
                          => <<slot'[v].gen, slot'[v].stage>> # <<Latest, s>>
                 PROVE  pub'[s] = Latest
      BY <1>1, <2>4 DEF DisplayedUnlessCut, Live
    <3>1. CASE g = Latest /\ slot[w].stage = s
      BY <2>1, <3>1
    <3>2. CASE ~ (g = Latest /\ slot[w].stage = s)
      <4>1. \A v \in Slot : AfterCommit(v) => <<slot[v].gen, slot[v].stage>> # <<Latest, s>>
        BY <2>3, <3>2 DEF AfterCommit
      <4>2. pub[s] = Latest
        BY <4>1 DEF Inv, DisplayedUnlessCut
      <4>3. pub.gen = Latest /\ g = Latest
        BY <1>4, <1>5, <2>2, <4>2
      <4>4. QED BY <1>4, <2>1, <4>2, <4>3
    <3>3. QED BY <3>1, <3>2
  <2>10. QED BY <2>5, <2>6, <2>7, <2>8, <2>9 DEF Inv
<1>8. QED BY <1>6, <1>7

\* A new generation: what its predecessor left open is closed.
LEMMA EnsureInv ==
  ASSUME Inv, NEW o \in Opener, Ensure(o)
  PROVE  Inv'
<1>1. UNCHANGED <<pub, slot>>
  BY DEF Ensure
<1>2. CASE Attaches(o)
  BY <1>1, <1>2, SameInv DEF Ensure
<1>3. CASE ~ Attaches(o)
  <2> DEFINE n == Latest
  <2>1. /\ n \in 0..MaxRun /\ n < MaxRun /\ n + 1 \in Gen /\ n + 1 \in 0..MaxRun /\ MaxRun \in Nat
        /\ Superseded(n) /\ cut' = {}
    BY <1>3, BriefShape DEF Ensure, Inv, RunsInOrder, Gen
  <2>2. /\ run \in [Gen -> RunState] /\ stage \in [Gen -> [BriefStage -> StageState]]
        /\ \A h \in Gen : run[h] # "none" <=> h <= n
        /\ \A h \in Gen : run[h] = "active" => h = n
    BY DEF Inv, TypeInv, RunsInOrder, OpenIsLatest
  <2>3. /\ run' \in [Gen -> RunState] /\ run'[n + 1] = "active"
        /\ \A h \in Gen \ {n + 1} :
             run'[h] = IF run[h] = "active" THEN "superseded" ELSE run[h]
    BY <2>1, <2>2 DEF Superseded, RunState
  <2>4. /\ stage'[n + 1] = [s \in BriefStage |-> "queued"]
        /\ \A h \in Gen \ {n + 1} :
             stage'[h] = IF run[h] = "active" THEN Closed(stage[h]) ELSE stage[h]
        /\ DOMAIN stage' = Gen /\ stage' = [h \in Gen |-> stage'[h]]
    BY <2>1, <2>2 DEF Superseded
  <2>5. \A h \in Gen : Closed(stage[h]) \in [BriefStage -> StageState]
    BY <2>2 DEF Closed, StageState
  <2>6. stage' \in [Gen -> [BriefStage -> StageState]]
    <3>1. \A h \in Gen : stage'[h] \in [BriefStage -> StageState]
      BY <2>2, <2>4, <2>5 DEF StageState
    <3>2. QED BY <2>4, <3>1
  <2>7. \A h \in Gen : run'[h] # "none" <=> h <= n + 1
    BY <2>1, <2>2, <2>3 DEF Gen
  <2>8. Latest' = n + 1
    BY <2>1, <2>7, LatestIs DEF Latest
  <2> HIDE DEF n
  <2>9. \A h \in Gen \ {n + 1}, u \in BriefStage :
          stage[h][u] = "completed" => stage'[h][u] = "completed"
    BY <2>4 DEF Closed
  <2>10. \A u \in BriefStage : stage[n + 1][u] = "none"
    BY <2>1, <2>2 DEF Inv, OpenIsLatest
  <2>11. \A h \in Gen, u \in BriefStage :
           stage[h][u] = "completed" => stage'[h][u] = "completed"
    BY <2>9, <2>10
  <2>12. TypeInv' /\ RunsInOrder'
    BY <1>1, <2>1, <2>3, <2>6, <2>7, <2>8 DEF Inv, TypeInv, SlotType, RunsInOrder
  <2>13. OpenIsLatest'
    <3> SUFFICES ASSUME NEW h \in Gen
                 PROVE  /\ run'[h] = "active" => h = n + 1
                        /\ \A s \in BriefStage : run'[h] = "none" <=> stage'[h][s] = "none"
                        /\ run'[h] \notin {"none", "active"}
                             => \A s \in BriefStage : stage'[h][s] \in Ended
      BY <2>8 DEF OpenIsLatest
    <3>1. CASE h = n + 1
      BY <2>3, <2>4, <3>1
    <3>2. CASE h # n + 1 /\ run[h] = "active"
      <4>1. run'[h] = "superseded" /\ stage'[h] = Closed(stage[h])
        BY <2>3, <2>4, <3>2
      <4>2. \A s \in BriefStage : stage[h][s] # "none" /\ stage[h][s] \in StageState
        BY <2>2, <3>2 DEF Inv, OpenIsLatest
      <4>3. QED BY <4>1, <4>2 DEF Closed, Ended, StageState
    <3>3. CASE h # n + 1 /\ run[h] # "active"
      BY <2>3, <2>4, <3>3 DEF Inv, OpenIsLatest
    <3>4. QED BY <3>1, <3>2, <3>3
  <2>14. PubInOrder' /\ DisplayedCommitted'
    <3>1. pub.gen \in Nat /\ n \in Nat /\ \A l \in List : l \in BriefStage /\ pub[l] \in 0..MaxRun
      BY <2>1, BriefShape DEF Inv, TypeInv
    <3>2. \A l \in List : pub[l] > 0 => pub[l] \in Gen
      BY <3>1, BriefShape DEF Gen
    <3>3. QED
      BY <1>1, <2>8, <2>11, <3>1, <3>2 DEF Inv, PubInOrder, DisplayedCommitted, n
  <2>15. PublishesCommitted'
    <3> SUFFICES ASSUME NEW v \in Slot, AfterCommit(v)
                 PROVE  /\ stage'[slot[v].gen][slot[v].stage] = "completed"
                        /\ slot[v].at = "publish" =>
                             /\ slot[v].stage \in slot[v].outputs
                             /\ \A u \in slot[v].outputs : stage'[slot[v].gen][u] = "completed"
      BY <1>1 DEF PublishesCommitted, AfterCommit
    <3>1. slot[v].gen \in Gen /\ slot[v].stage \in BriefStage /\ slot[v].outputs \subseteq BriefStage
      BY SlotIs DEF AfterCommit
    <3>2. QED BY <2>11, <3>1 DEF Inv, PublishesCommitted
  <2>16. DisplayedUnlessCut'
    <3>1. \A s \in List : stage'[n + 1][s] # "completed"
      BY <2>4, BriefShape
    <3>2. QED BY <2>8, <3>1 DEF DisplayedUnlessCut
  <2>17. QED BY <2>12, <2>13, <2>14, <2>15, <2>16 DEF Inv
<1>4. QED BY <1>2, <1>3

LEMMA NextInv ==
  ASSUME Inv, [BriefNext]_briefVars
  PROVE  Inv'
<1>1. ASSUME NEW o \in Opener, Look(o) \/ WriteInput(o) \/ OpenerStops(o) PROVE Inv'
  BY <1>1, SameInv DEF Look, WriteInput, OpenerStops
<1>2. CASE UNCHANGED briefVars
  BY <1>2, SameInv DEF briefVars
<1>3. CASE \E g \in Gen : StopRun(g)
  BY <1>3, StopRunInv
<1>4. CASE \E o \in Opener : Ensure(o)
  BY <1>4, EnsureInv
<1>5. ASSUME NEW w \in Slot, \E g \in Gen, s \in BriefStage : StageClaim(w, g, s) PROVE Inv'
  BY <1>5, StageClaimInv
<1>6. ASSUME NEW w \in Slot,
             StageCommit(w) \/ StageFail(w) \/ StageSettle(w) \/ SlotDies(w)
      PROVE  Inv'
  BY <1>6, StageCommitInv, StageFailInv, StageSettleInv, SlotDiesInv
<1>7. ASSUME NEW w \in Slot, PublishCheck(w) \/ PublishIn(w) PROVE Inv'
  BY <1>7, PublishCheckInv, PublishInInv
<1>8. QED BY <1>1, <1>2, <1>3, <1>4, <1>5, <1>6, <1>7 DEF BriefNext

\* The inductive invariant holds in every behaviour of the brief.
THEOREM BriefInvariant == BriefSpec => []Inv
<1>1. BriefInit => Inv
  BY InitInv
<1>2. Inv /\ [BriefNext]_briefVars => Inv'
  BY NextInv
<1>3. QED BY <1>1, <1>2, PTL DEF BriefSpec

\* Every list the brief displays was committed under the fence of the generation it
\* names (publish_in after commit_stage).
THEOREM BriefDisplayedCommitted == BriefSpec => []DisplayedCommitted
<1>1. Inv => DisplayedCommitted
  BY DEF Inv
<1>2. QED BY <1>1, BriefInvariant, PTL

\* A committed stage of the newest run is displayed once its worker is through, but for
\* a stopped run and a worker cut short (publish_stage).
THEOREM BriefDisplayedUnlessCut == BriefSpec => []DisplayedUnlessCut
<1>1. Inv => DisplayedUnlessCut
  BY DEF Inv
<1>2. QED BY <1>1, BriefInvariant, PTL

\* No step takes the publication or a list of it back.
LEMMA ForwardStep ==
  ASSUME Inv, [BriefNext]_briefVars
  PROVE  [\A f \in DOMAIN pub : pub'[f] >= pub[f]]_briefVars
<1>1. /\ DOMAIN pub = {"gen"} \cup List
      /\ \A f \in {"gen"} \cup List : pub[f] \in Nat /\ pub[f] <= pub.gen
  <2>1. pub \in [{"gen"} \cup List -> 0..MaxRun] /\ MaxRun \in Nat
    BY BriefShape DEF Inv, TypeInv
  <2>2. QED BY <2>1 DEF Inv, PubInOrder
<1>2. ASSUME UNCHANGED pub PROVE \A f \in DOMAIN pub : pub'[f] >= pub[f]
  <2>1. \A f \in {"gen"} \cup List : pub'[f] = pub[f] /\ pub[f] \in Nat
    BY <1>1, <1>2
  <2>2. \A f \in {"gen"} \cup List : pub'[f] >= pub[f]
    BY <2>1
  <2>3. QED BY <1>1, <2>2
<1>3. ASSUME NEW w \in Slot, PublishIn(w)
      PROVE  \A f \in DOMAIN pub : pub'[f] >= pub[f]
  <2>1. CASE ~ Replaces(slot[w].gen)
    BY <1>2, <1>3, <2>1 DEF PublishIn
  <2>2. CASE Replaces(slot[w].gen)
    <3>1. slot[w].gen \in Nat
      <4>1. slot[w].at # "idle"
        BY <1>3 DEF PublishIn
      <4>2. QED BY <1>3, <4>1, SlotIs, BriefShape DEF Gen
    <3>2. /\ pub'["gen"] = slot[w].gen /\ pub.gen <= slot[w].gen
          /\ \A l \in List : \/ pub'[l] = slot[w].gen
                             \/ pub'[l] = pub[l]
                             \/ pub'[l] = 0 /\ pub.gen = 0
      BY <1>3, <2>2, PublishInWrites DEF Replaces
    <3>3. pub'["gen"] >= pub["gen"]
      BY <3>2, <3>1, <1>1
    <3>4. ASSUME NEW l \in List PROVE pub'[l] >= pub[l]
      <4>1. l \in {"gen"} \cup List /\ "gen" \in {"gen"} \cup List
        OBVIOUS
      <4>2. pub[l] \in Nat /\ pub[l] <= pub.gen /\ pub.gen \in Nat
        BY <1>1, <4>1
      <4>3. QED BY <3>1, <3>2, <4>2
    <3>5. QED BY <1>1, <3>3, <3>4
  <2>3. QED BY <2>1, <2>2
<1>4. BriefNext => UNCHANGED pub \/ \E w \in Slot : PublishIn(w)
  BY DEF BriefNext, Look, Ensure, WriteInput, OpenerStops, StopRun, StageClaim, StageCommit,
         StageFail, StageSettle, SlotDies, PublishCheck
<1>5. CASE UNCHANGED briefVars
  BY <1>5
<1>6. QED BY <1>2, <1>3, <1>4, <1>5 DEF briefVars

\* The publication never goes back to an older generation, nor one of its lists
\* (publish_in), whatever the workers of replaced runs still hold.
THEOREM BriefPublicationForward == BriefSpec => PublicationForward
<1>1. Inv /\ [BriefNext]_briefVars => [\A f \in DOMAIN pub : pub'[f] >= pub[f]]_briefVars
  BY ForwardStep
<1>2. QED BY <1>1, BriefInvariant, PTL DEF BriefSpec, PublicationForward

\* A step that leaves the older runs as they are.
LEMMA QuietStep ==
  ASSUME Inv, [BriefNext]_briefVars
  PROVE  [\A g \in Gen : g < Latest => stage'[g] = stage[g]]_briefVars
<1>1. /\ stage \in [Gen -> [BriefStage -> StageState]] /\ Latest \in 0..MaxRun
      /\ \A g \in Gen : g < Latest => run[g] # "active"
  BY BriefShape DEF Inv, TypeInv, RunsInOrder, OpenIsLatest, Gen
<1>2. ASSUME NEW g \in Gen, g < Latest,
             NEW h \in Gen, NEW u \in BriefStage, stage[h][u] \in {"queued", "running"}
      PROVE  g # h
  BY <1>1, <1>2, OpenRun
<1>3. ASSUME NEW g \in Gen, g < Latest, BriefNext
      PROVE  stage'[g] = stage[g]
  <2>1. CASE \E w \in Slot, h \in Gen, s \in BriefStage : StageClaim(w, h, s)
    BY <1>1, <1>2, <1>3, <2>1 DEF StageClaim, StageReady
  <2>2. ASSUME NEW w \in Slot, StageCommit(w) \/ StageFail(w) \/ SlotDies(w)
        PROVE  stage'[g] = stage[g]
    <3>1. CASE UNCHANGED stage
      BY <3>1
    <3>2. CASE ~ UNCHANGED stage
      <4>1. Running(w) /\ Leased(w)
        BY <2>2, <3>2 DEF StageCommit, StageFail, SlotDies
      <4>2. slot[w].gen \in Gen /\ slot[w].stage \in BriefStage
        BY <4>1, SlotIs DEF Running
      <4>3. g # slot[w].gen
        BY <1>2, <1>3, <4>1, <4>2 DEF Leased
      <4>4. \A h \in Gen \ {slot[w].gen} : stage'[h] = stage[h]
        BY <1>1, <2>2, <4>1 DEF StageCommit, StageFail, SlotDies
      <4>5. QED BY <4>3, <4>4
    <3>3. QED BY <3>1, <3>2
  <2>7. ASSUME NEW w \in Slot, StageSettle(w) PROVE stage'[g] = stage[g]
    <3>1. slot[w].gen \in Gen
      BY <2>7, SlotIs DEF StageSettle
    <3>2. CASE g = slot[w].gen
      BY <1>1, <1>3, <2>7, <3>1, <3>2, NothingToClose DEF StageSettle
    <3>3. CASE g # slot[w].gen
      BY <1>1, <2>7, <3>3 DEF StageSettle
    <3>4. QED BY <3>2, <3>3
  <2>3. CASE \E h \in Gen : StopRun(h)
    BY <1>1, <1>3, <2>3 DEF StopRun
  <2>4. CASE \E o \in Opener : Ensure(o)
    <3>1. CASE UNCHANGED stage
      BY <3>1
    <3>2. CASE ~ UNCHANGED stage
      <4>1. Superseded(Latest)
        BY <2>4, <3>2 DEF Ensure
      <4>2. QED BY <1>1, <1>3, <4>1, BriefShape DEF Superseded, Gen
    <3>3. QED BY <3>1, <3>2
  <2>5. CASE UNCHANGED stage
    BY <2>5
  <2>6. QED
    BY <1>3, <2>1, <2>2, <2>3, <2>4, <2>5, <2>7
    DEF BriefNext, Look, WriteInput, OpenerStops, PublishCheck, PublishIn
<1>4. QED BY <1>3 DEF briefVars

\* No stage of a replaced run is claimed, committed or failed (ensure_chain closes what
\* is open in the same transaction).
THEOREM BriefOldRunsQuiet == BriefSpec => OldRunsQuiet
<1>1. Inv /\ [BriefNext]_briefVars
        => [\A g \in Gen : g < Latest => stage'[g] = stage[g]]_briefVars
  BY QuietStep
<1>2. QED BY <1>1, BriefInvariant, PTL DEF BriefSpec, OldRunsQuiet
=============================================================================
