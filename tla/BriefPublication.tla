-------------------------- MODULE BriefPublication --------------------------
(***************************************************************************)
(* The brief of one article: the generations of its stage chain             *)
(* (storage/jobs.rs ensure_chain, storage/brief_stages.rs ensure), the       *)
(* writes that follow a stage's commit (brief_stages.rs commit and           *)
(* publish_stage) and the publication they merge into (storage/brief.rs).    *)
(*                                                                         *)
(* JobStore has the chain's leases, attempts and order of claims; here any  *)
(* ready stage is claimed and one that loses its worker is queued again.    *)
(* Left out: intel_brief_run, the copy of the runs for the fence of          *)
(* retained seeds (mirror_runs, record_run), and what publish_stage does     *)
(* after the publication is written (leads, canonical memories, receipts).   *)
(***************************************************************************)
EXTENDS Integers, FiniteSets

CONSTANTS
  Opener,  \* calls of ensure: a brief that is opened, or reloaded
  Reload,  \* the openers that reload, each with a key of its own
  Slot,    \* stage workers
  BriefStage, \* the stages: the lists, and the body unless it is left out
  Failing, \* the stages whose work may fail
  MaxRun,  \* bound of the state space: generations
  MaxCut   \* bound of the state space: publications cut short

List == {"claims", "inferences", "links"}

ASSUME BriefShape ==
  /\ Reload \subseteq Opener /\ MaxRun \in Nat /\ MaxCut \in Nat
  /\ List \subseteq BriefStage /\ BriefStage \subseteq List \cup {"body"}
  /\ Failing \subseteq BriefStage

VARIABLES
  run,     \* brief_run: the state of each generation, "none" before it exists
  rev,     \* its input_revision
  stage,   \* the states of its stage tasks
  input,   \* brief_stage_input: the stages whose input is captured
  pub,     \* intel_brief_publication: its generation and that of each list, 0 for none
  opener, slot,
  cut      \* the stages of the newest run whose publication was cut short

briefVars == <<run, rev, stage, input, pub, opener, slot, cut>>

Gen == 1..MaxRun
Prerequisites(s) ==
  BriefStage \cap (CASE s = "inferences" -> {"body", "claims"}
                    [] s = "links" -> {"inferences"}
                    [] OTHER -> {})
Roots == {s \in BriefStage : Prerequisites(s) = {}}

RunState == {"none", "active", "completed", "failed", "cancelled", "superseded"}
Live(state) == state \in {"active", "completed", "failed"}
Closed(st) == [s \in BriefStage |-> IF st[s] \in {"queued", "running"} THEN "cancelled" ELSE st[s]]
Latest == Cardinality({g \in Gen : run[g] # "none"})
Revision(o) == IF o \in Reload THEN o ELSE "opened"

Fresh == [at |-> "ready", gen |-> 0]
Off == [at |-> "idle", gen |-> 0, stage |-> "body", own |-> FALSE, outputs |-> {}]

BriefInit ==
  /\ run = [g \in Gen |-> "none"]
  /\ rev = [g \in Gen |-> "none"]
  /\ stage = [g \in Gen |-> [s \in BriefStage |-> "none"]]
  /\ input = [g \in Gen |-> {}]
  /\ pub = [gen |-> 0, claims |-> 0, inferences |-> 0, links |-> 0]
  /\ opener \in [Opener -> {Fresh, [Fresh EXCEPT !.at = "done"]}]  \* some call, some do not
  /\ slot = [w \in Slot |-> Off]
  /\ cut = {}

-----------------------------------------------------------------------------
\* ensure before its transaction: an opened brief that has a run keeps it, and a
\* reload finds the run of its key.
Look(o) ==
  LET has == \/ o \notin Reload /\ Latest > 0 /\ run[Latest] # "superseded"
             \/ o \in Reload /\ \E g \in 1..Latest : rev[g] = Revision(o)
  IN
  /\ opener[o].at = "ready"
  /\ opener' = [opener EXCEPT ![o].at = IF has THEN "done" ELSE "ensure"]
  /\ UNCHANGED <<run, rev, stage, input, pub, slot, cut>>

Attaches(o) == Latest > 0 /\ rev[Latest] = Revision(o) /\ run[Latest] # "superseded"

\* Faulty Superseded: the tasks of the run that is replaced are left to themselves.
SupersededRowOnly(g) ==
  /\ run' = [h \in Gen |->
       IF h = g + 1 THEN "active"
       ELSE IF h = g /\ run[h] = "active" THEN "superseded" ELSE run[h]]
  /\ stage' = [stage EXCEPT ![g + 1] = [s \in BriefStage |-> "queued"]]

\* The latest run is superseded if it is still active, its unfinished tasks cancelled,
\* and the next generation created.
Superseded(g) ==
  /\ run' = [h \in Gen |->
       IF h = g + 1 THEN "active"
       ELSE IF h = g /\ run[h] = "active" THEN "superseded" ELSE run[h]]
  /\ stage' = [h \in Gen |->
       IF h = g + 1 THEN [s \in BriefStage |-> "queued"]
       ELSE IF h = g /\ run[h] = "active" THEN Closed(stage[h]) ELSE stage[h]]

\* ensure_chain.
Ensure(o) ==
  /\ opener[o].at = "ensure"
  /\ IF Attaches(o)
     THEN /\ opener' = [opener EXCEPT ![o].at = "done"]
          /\ UNCHANGED <<run, stage, rev, cut>>
     ELSE /\ Latest < MaxRun
          /\ Superseded(Latest)
          /\ rev' = [rev EXCEPT ![Latest + 1] = Revision(o)]
          /\ cut' = {}
          /\ opener' = [opener EXCEPT ![o] = [at |-> "inputs", gen |-> Latest + 1]]
  /\ UNCHANGED <<input, pub, slot>>

\* Back in ensure, the inputs of the stages, in their order; that of a dependent stage
\* is empty.
WriteInput(o) ==
  LET g == opener[o].gen IN
  /\ opener[o].at = "inputs"
  /\ \E s \in Roots \ input[g] :
       /\ s = "claims" => input[g] = Roots \ {"claims"}
       /\ input' = [input EXCEPT ![g] = @ \cup {s}]
       /\ opener' = IF input'[g] = Roots THEN [opener EXCEPT ![o].at = "done"] ELSE opener
  /\ UNCHANGED <<run, rev, stage, pub, slot, cut>>

\* The call is dropped, or its process dies; a reload with the same key may follow.
OpenerStops(o) ==
  /\ opener[o].at \in {"ensure", "inputs"}
  /\ opener' = [opener EXCEPT ![o] =
       [Fresh EXCEPT !.at = IF o \in Reload THEN "ready" ELSE "done"]]
  /\ UNCHANGED <<run, rev, stage, input, pub, slot, cut>>

-----------------------------------------------------------------------------
\* claim_in: the prerequisites are completed.  They leave no stage beside a dependent one.
StageReady(g, s) ==
  stage[g][s] = "queued" /\ \A d \in Prerequisites(s) : stage[g][d] = "completed"

\* claim, and the captured input the executor reads for the stage.
StageClaim(w, g, s) ==
  /\ slot[w].at = "idle"
  /\ StageReady(g, s)
  /\ stage' = [stage EXCEPT ![g][s] = "running"]
  /\ slot' = [slot EXCEPT ![w] =
       [Off EXCEPT !.at = "run", !.gen = g, !.stage = s, !.own = s \in input[g]]]
  /\ UNCHANGED <<run, rev, input, pub, opener, cut>>

Running(w) == slot[w].at = "run"
Leased(w) == stage[slot[w].gen][slot[w].stage] = "running"
LetGo(w) == slot' = [slot EXCEPT ![w] = Off]

\* settle_finished_job_in: a run all of whose stages have ended is over.
Settled(g, st) ==
  IF run[g] # "active" \/ \E s \in BriefStage : st[s] \in {"queued", "running"} THEN run
  ELSE [run EXCEPT ![g] = IF \E s \in BriefStage : st[s] = "failed" THEN "failed" ELSE "completed"]

\* The fenced commit (commit_stage); without the fence the slot is done.  What follows
\* the commit of a body indexes the article.
StageCommit(w) ==
  LET c == slot[w] IN
  /\ Running(w)
  /\ IF Leased(w)
     THEN LET st == [stage[c.gen] EXCEPT ![c.stage] = "completed"] IN
          /\ stage' = [stage EXCEPT ![c.gen] = st]
          /\ run' = Settled(c.gen, st)
          /\ slot' = [slot EXCEPT ![w] =
               IF c.stage = "body" THEN Off ELSE [c EXCEPT !.at = "check", !.own = FALSE]]
     ELSE LetGo(w) /\ UNCHANGED <<stage, run>>
  /\ UNCHANGED <<rev, input, pub, opener, cut>>

\* settle_blocked_job: a queued stage whose prerequisites have ended, one of them badly,
\* is cancelled, and then those that wait for it.
BlockedIn(st, s) ==
  /\ st[s] = "queued"
  /\ \A d \in Prerequisites(s) : st[d] \in {"completed", "failed", "cancelled"}
  /\ \E d \in Prerequisites(s) : st[d] # "completed"
CloseBlocked(st) == [s \in BriefStage |-> IF BlockedIn(st, s) THEN "cancelled" ELSE st[s]]

\* fail, its fenced transaction; the slot then owes the run a settlement.
StageFail(w) ==
  LET c == slot[w] IN
  /\ Running(w) /\ c.stage \in Failing
  /\ IF Leased(w)
     THEN /\ stage' = [stage EXCEPT ![c.gen][c.stage] = "failed"]
          /\ slot' = [slot EXCEPT ![w] = [c EXCEPT !.at = "settle", !.own = FALSE]]
     ELSE LetGo(w) /\ UNCHANGED stage
  /\ UNCHANGED <<run, rev, input, pub, opener, cut>>

\* settle_blocked_job, the second transaction of fail.
StageSettle(w) ==
  LET g == slot[w].gen
      st == CloseBlocked(CloseBlocked(stage[g]))
  IN
  /\ slot[w].at = "settle"
  /\ stage' = [stage EXCEPT ![g] = st]
  /\ run' = Settled(g, st)
  /\ LetGo(w)
  /\ UNCHANGED <<rev, input, pub, opener, cut>>

\* stop_job on the chain, or Stop in the list of jobs.
StopRun(g) ==
  /\ run[g] = "active"
  /\ run' = [run EXCEPT ![g] = "cancelled"]
  /\ stage' = [stage EXCEPT ![g] = Closed(@)]
  /\ UNCHANGED <<rev, input, pub, opener, slot, cut>>

\* Faulty Displays: a run that is over is not live.
DisplaysActive(g) == Latest = g /\ run[g] = "active"

\* publish_stage: no newer run and a live one.
Displays(g) == Latest = g /\ Live(run[g])

\* Faulty Outputs: a stage under way has an output.
OutputsStarted(g) == {s \in List : stage[g][s] \in {"running", "completed"}}

\* stage_output: the lists of the run that are committed.
Outputs(g) == {s \in List : stage[g][s] = "completed"}

\* For a run that is displayed, the outputs to publish.
PublishCheck(w) ==
  LET c == slot[w] IN
  /\ c.at = "check"
  /\ IF Displays(c.gen)
     THEN slot' = [slot EXCEPT ![w].at = "publish",
                     ![w].outputs = Outputs(c.gen)]
     ELSE LetGo(w)
  /\ UNCHANGED <<run, rev, stage, input, pub, opener, cut>>

\* Faulty Replaces: the check that was read before is enough.
ReplacesAny(g) == TRUE

\* A publication only replaces one of an equal or older generation.
Replaces(g) == pub.gen <= g

\* publish_in: the first publication has every list there is, a later one replaces
\* the list of its stage.
PublishIn(w) ==
  LET c == slot[w]
      first == pub.gen = 0
      New(l) == IF first /\ l \in c.outputs THEN c.gen ELSE 0
  IN
  /\ c.at = "publish"
  /\ pub' =
       IF ~ Replaces(c.gen) THEN pub
       ELSE IF first
       THEN [gen |-> c.gen, claims |-> New("claims"), inferences |-> New("inferences"),
             links |-> New("links")]
       ELSE [pub EXCEPT !.gen = c.gen, ![c.stage] = c.gen]
  /\ LetGo(w)
  /\ UNCHANGED <<run, rev, stage, input, opener, cut>>

AfterCommit(w) == slot[w].at \in {"check", "publish"}

\* The slot's process dies: its running stage is queued again, what was to follow a
\* commit is lost.  A write that fails after the commit ends the same way.
SlotDies(w) ==
  LET c == slot[w] IN
  /\ c.at # "idle"
  /\ AfterCommit(w) /\ c.gen = Latest => Cardinality(cut) < MaxCut
  /\ stage' = IF Running(w) /\ Leased(w) THEN [stage EXCEPT ![c.gen][c.stage] = "queued"] ELSE stage
  /\ cut' = IF AfterCommit(w) /\ c.gen = Latest THEN cut \cup {c.stage} ELSE cut
  /\ LetGo(w)
  /\ UNCHANGED <<run, rev, input, pub, opener>>

BriefNext ==
  \/ \E o \in Opener :
       \/ Look(o) \/ Ensure(o) \/ WriteInput(o) \/ OpenerStops(o)
  \/ \E g \in Gen : StopRun(g)
  \/ \E w \in Slot :
       \/ \E g \in Gen, s \in BriefStage : StageClaim(w, g, s)
       \/ StageCommit(w) \/ StageFail(w) \/ StageSettle(w) \/ SlotDies(w)
       \/ PublishCheck(w) \/ PublishIn(w)

BriefSpec == BriefInit /\ [][BriefNext]_briefVars

-----------------------------------------------------------------------------
BriefTypeOK ==
  /\ run \in [Gen -> RunState]
  /\ rev \in [Gen -> Opener \cup {"opened", "none"}]
  /\ stage \in [Gen -> [BriefStage -> {"none", "queued", "running", "completed", "failed", "cancelled"}]]
  /\ input \in [Gen -> SUBSET BriefStage]
  /\ pub \in [{"gen"} \cup List -> 0..MaxRun]
  /\ cut \subseteq List

\* Neither the publication nor one of its lists ever goes back to an older generation,
\* though a worker of a superseded run passed its check in time (publish_in).
PublicationForward == [][\A f \in DOMAIN pub : pub'[f] >= pub[f]]_briefVars

\* Once a stage of the newest run is committed and its worker is through, the
\* brief displays its list, unless the run was stopped or the worker cut short: the
\* run may have ended, or failed, meanwhile and its stages publish in any order.
DisplayedUnlessCut ==
  \A s \in List :
    /\ Latest > 0 /\ Live(run[Latest])
    /\ stage[Latest][s] = "completed"
    /\ s \notin cut
    /\ \A w \in Slot : AfterCommit(w) => <<slot[w].gen, slot[w].stage>> # <<Latest, s>>
    => pub[s] = Latest

\* A list that is displayed was committed by the stage of the generation it names,
\* under that run's fence.
DisplayedCommitted ==
  \A s \in List : pub[s] > 0 => stage[pub[s]][s] = "completed"

\* Root stages read the values that were captured when their run was admitted
\* (BriefInputs::metadata, brief_pipeline.rs), not mutable ones.
RootsReadCaptured ==
  \A w \in Slot : slot[w].at = "run" /\ slot[w].stage \in Roots => slot[w].own

\* Once a newer generation exists no stage of an older one is claimed, committed or
\* failed any more, whatever its workers still hold (ensure_chain).
OldRunsQuiet ==
  [][\A g \in Gen : g < Latest => stage'[g] = stage[g]]_briefVars
=============================================================================
