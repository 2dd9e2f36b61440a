------------------------- MODULE ConfigCommitProofs -------------------------
(***************************************************************************)
(* The configuration commit for any number of processes, files, batches,    *)
(* deaths, stalls and failures: batches land whole or not at all, but for   *)
(* the files that a death, a failed rollback, a recovery or a second writer *)
(* may have damaged.                                                         *)
(***************************************************************************)
EXTENDS ConfigCommit, TLAPS

Lock == [by : Instance \cup {NoInstance, Dead}, empty : BOOLEAN, stale : BOOLEAN]
Phase == Holding \cup {"off", "idle", "lock", "look", "remove", "recover"}
Process == [at : Phase, batch : Seq(File), body : Nat, gen : Nat, next : Nat,
            had : SUBSET File, taking : BOOLEAN]
Record == [state : {"none", "pending", "committed", "restored"}, gen : Nat,
           files : Seq(File), done : Nat]

\* A call has its batch, and a number of its own generation, until it cleans up.
Calling == {"lock", "look", "remove"} \cup (Holding \ {"drop"})
Called(c, commits) ==
  /\ c.gen <= commits
  /\ c.at \in Calling =>
       /\ c.gen < commits
       /\ \A j, k \in DOMAIN c.batch : c.batch[j] = c.batch[k] => j = k

\* How far the batch is.
Progress(c) ==
  /\ c.at \in {"idle", "lock", "look", "remove", "fill", "open"} => c.had = {}
  /\ c.at \in {"lock", "look", "remove", "fill", "open"} => c.batch # <<>>
  /\ c.at \in {"stage", "land", "mark", "undo", "undone"} => c.next \in DOMAIN c.batch
  /\ c.at = "finish" => c.next = Len(c.batch) + 1
  /\ c.at = "recover" => c.next >= 1

\* The files of the root, and the observations.
RootInv ==
  /\ lockfile \in Lock
  /\ target = [f \in File |-> target[f]]
  /\ expected = [f \in File |-> expected[f]]
  /\ backup = [fg \in File \X Generation |-> backup[fg]]
  /\ suspect \subseteq File
  /\ journal \in Record
  /\ spent \in [commits : Nat, deaths : Nat, faults : Nat]
  /\ spent.commits <= MaxCommit

TypeInv == proc \in [Instance -> Process] /\ RootInv

ShapeInv ==
  /\ TypeInv
  /\ \A p \in Instance : Called(proc[p], spent.commits) /\ Progress(proc[p])

LEMMA RestIs ==
  ASSUME NEW a \in Phase
  PROVE  /\ Rest(a) \in Process
         /\ Rest(a).at = a /\ Rest(a).had = {} /\ Rest(a).gen = 0
<1>1. <<>> \in Seq(File)
  OBVIOUS
<1>2. QED BY <1>1 DEF Process, Rest

LEMMA InitInv ==
  ASSUME ConfigInit
  PROVE  ShapeInv
<1>1. \A p \in Instance : /\ proc[p] \in Process /\ proc[p].at \in {"idle", "off"}
                         /\ proc[p].had = {} /\ proc[p].gen = 0
  BY RestIs DEF ConfigInit, Phase
<1>2. lockfile \in Lock
  BY DEF ConfigInit, Lock, NoLock
<1>3. journal \in Record
  <2>1. <<>> \in Seq(File)
    OBVIOUS
  <2>2. QED BY <2>1 DEF ConfigInit, Record, NoJournal
<1>4. proc \in [Instance -> Process]
  BY <1>1 DEF ConfigInit
<1>5. TypeInv
  <2>1. target = [f \in File |-> target[f]] /\ expected = [f \in File |-> expected[f]]
    BY DEF ConfigInit
  <2>2. backup = [fg \in File \X Generation |-> backup[fg]]
    BY DEF ConfigInit
  <2>3. spent = [commits |-> 0, deaths |-> 0, faults |-> 0] /\ suspect = {}
    BY DEF ConfigInit
  <2>4. MaxCommit \in Nat
    BY ConfigShape
  <2>5. spent \in [commits : Nat, deaths : Nat, faults : Nat] /\ spent.commits <= MaxCommit
    BY <2>3, <2>4
  <2>6. suspect \subseteq File
    BY <2>3
  <2>7. RootInv
    BY <1>2, <1>3, <2>1, <2>2, <2>5, <2>6 DEF RootInv
  <2>8. QED BY <1>4, <2>7 DEF TypeInv
<1>6. \A p \in Instance : Called(proc[p], spent.commits) /\ Progress(proc[p])
  <2>1. spent.commits = 0
    BY DEF ConfigInit
  <2>2. QED BY <1>1, <2>1 DEF Called, Progress, Calling, Holding
<1>7. QED BY <1>5, <1>6 DEF ShapeInv

\* A step that moves one process keeps the shape of the others.
LEMMA OneMoves ==
  ASSUME ShapeInv, NEW p \in Instance, NEW c,
         proc' = [proc EXCEPT ![p] = c],
         c \in Process, Called(c, spent'.commits), Progress(c),
         RootInv', spent.commits <= spent'.commits
  PROVE  ShapeInv'
<1>1. proc \in [Instance -> Process] /\ spent \in [commits : Nat, deaths : Nat, faults : Nat]
  BY DEF ShapeInv, TypeInv, RootInv
<1>2. proc' \in [Instance -> Process]
  BY <1>1
<1>3. TypeInv'
  BY <1>2 DEF TypeInv
<1>4. \A q \in Instance : proc'[q] = IF q = p THEN c ELSE proc[q]
  BY <1>1
<1>5. \A q \in Instance : Progress(proc'[q])
  BY <1>4 DEF ShapeInv
<1>6. \A q \in Instance : Called(proc[q], spent'.commits)
  <2>1. TAKE q \in Instance
  <2>2. proc[q].gen \in Nat
    BY <1>1 DEF Process
  <2>3. spent.commits \in Nat /\ spent'.commits \in Nat
    BY <1>1 DEF RootInv
  <2>4. Called(proc[q], spent.commits)
    BY DEF ShapeInv
  <2>5. QED BY <2>2, <2>3, <2>4 DEF Called
<1>7. \A q \in Instance : Called(proc'[q], spent'.commits)
  BY <1>4, <1>6
<1>8. QED BY <1>3, <1>5, <1>7 DEF ShapeInv

\* What every step starts from.
LEMMA Before ==
  ASSUME ShapeInv, NEW p \in Instance
  PROVE  /\ RootInv /\ lockfile \in Lock
         /\ proc[p] \in Process /\ proc[p].gen \in Nat
         /\ Called(proc[p], spent.commits) /\ Progress(proc[p])
         /\ spent.commits \in Nat /\ spent.commits <= MaxCommit
<1>1. proc[p] \in Process /\ RootInv /\ Called(proc[p], spent.commits) /\ Progress(proc[p])
  BY DEF ShapeInv, TypeInv
<1>2. QED BY <1>1 DEF RootInv, Process

\* A step that only moves a process on.
LEMMA GoesShape ==
  ASSUME ShapeInv, NEW p \in Instance, NEW a \in Phase,
         proc' = [proc EXCEPT ![p] = [@ EXCEPT !.at = a]],
         a \in Calling => proc[p].at \in Calling,
         Progress([proc[p] EXCEPT !.at = a]),
         RootInv', spent'.commits = spent.commits
  PROVE  ShapeInv'
<1> DEFINE c == [proc[p] EXCEPT !.at = a]
<1>1. proc[p] \in Process /\ Called(proc[p], spent.commits) /\ spent.commits \in Nat
  BY Before
<1>2. c \in Process /\ c.at = a /\ c.gen = proc[p].gen /\ c.batch = proc[p].batch
  BY <1>1 DEF Process
<1>3. proc' = [proc EXCEPT ![p] = c] /\ Progress(c)
  OBVIOUS
<1> HIDE DEF c
<1>4. Called(c, spent'.commits)
  BY <1>1, <1>2 DEF Called
<1>5. spent.commits <= spent'.commits
  BY <1>1
<1>6. QED BY <1>2, <1>3, <1>4, <1>5, OneMoves

\* A call that is over.
LEMMA RestsShape ==
  ASSUME ShapeInv, NEW p \in Instance,
         Ends(p),
         RootInv', spent'.commits = spent.commits
  PROVE  ShapeInv'
<1> DEFINE c == [Rest("idle") EXCEPT !.gen = proc[p].gen]
<1>1. Called(proc[p], spent.commits) /\ spent.commits \in Nat /\ proc[p].gen \in Nat
  BY Before
<1>2. c \in Process /\ c.at = "idle" /\ c.gen = proc[p].gen /\ c.had = {}
  <2>1. "idle" \in Phase
    BY DEF Phase
  <2>2. Rest("idle") \in Process /\ Rest("idle").at = "idle" /\ Rest("idle").had = {}
    BY <2>1, RestIs
  <2>3. QED BY <1>1, <2>2 DEF Process
<1>3. proc' = [proc EXCEPT ![p] = c]
  BY DEF Ends
<1> HIDE DEF c
<1>4. Called(c, spent'.commits) /\ Progress(c)
  BY <1>1, <1>2 DEF Called, Calling, Holding, Progress
<1>5. spent.commits <= spent'.commits
  BY <1>1
<1>6. QED BY <1>2, <1>3, <1>4, <1>5, OneMoves

\* A step that writes no file but the lock.
LEMMA LockOnly ==
  ASSUME RootInv, lockfile' \in Lock,
         UNCHANGED <<target, backup, journal, expected, suspect, spent>>
  PROVE  RootInv'
BY DEF RootInv

\* A call that becomes a takeover, or stops being one.
LEMMA TakingShape ==
  ASSUME ShapeInv, NEW p \in Instance, NEW a \in {"lock", "look"}, NEW t \in BOOLEAN,
         proc[p].at \in {"lock", "remove"},
         proc' = [proc EXCEPT ![p] = [@ EXCEPT !.at = a, !.taking = t]],
         RootInv', UNCHANGED spent
  PROVE  ShapeInv'
<1> DEFINE c == [proc[p] EXCEPT !.at = a, !.taking = t]
<1>1. /\ proc[p] \in Process /\ Called(proc[p], spent.commits) /\ Progress(proc[p])
      /\ spent.commits \in Nat
  BY Before
<1>2. a \in Phase /\ a \in Calling /\ proc[p].at \in Calling
  BY DEF Phase, Calling
<1>3. /\ c \in Process /\ c.at = a /\ c.gen = proc[p].gen /\ c.batch = proc[p].batch
      /\ c.had = proc[p].had
  BY <1>1, <1>2 DEF Process
<1>4. proc' = [proc EXCEPT ![p] = c]
  OBVIOUS
<1> HIDE DEF c
<1>5. Called(c, spent'.commits)
  BY <1>1, <1>2, <1>3 DEF Called
<1>6. Progress(c)
  BY <1>1, <1>3 DEF Progress
<1>7. spent.commits <= spent'.commits
  BY <1>1
<1>8. QED BY <1>3, <1>4, <1>5, <1>6, <1>7, OneMoves

LEMMA FaultIs ==
  ASSUME RootInv, Fault \/ NoFault
  PROVE  /\ spent' \in [commits : Nat, deaths : Nat, faults : Nat]
         /\ spent'.commits = spent.commits
BY DEF RootInv, Fault, NoFault

\* A step that writes the files of the root, and does not begin a call.
LEMMA FilesOnly ==
  ASSUME RootInv, Fault \/ NoFault, lockfile' \in Lock, journal' \in Record,
         target' = [f \in File |-> target'[f]],
         expected' = [f \in File |-> expected'[f]],
         backup' = [fg \in File \X Generation |-> backup'[fg]],
         suspect' \subseteq File
  PROVE  RootInv'
BY FaultIs DEF RootInv

LEMMA LockShape ==
  ASSUME ShapeInv, NEW p \in Instance,
         \/ \E b \in Batches : Acquire(p, b)
         \/ CreateLock(p) \/ FillLock(p) \/ LookAtLock(p) \/ RemoveLock(p) \/ GiveUp(p)
  PROVE  ShapeInv'
<1>1. /\ RootInv /\ proc[p] \in Process /\ lockfile \in Lock
      /\ proc[p].gen \in Nat /\ spent.commits \in Nat /\ spent.commits <= MaxCommit
      /\ Called(proc[p], spent.commits) /\ Progress(proc[p])
  BY Before
<1>2. MaxCommit \in Nat
  BY ConfigShape
<1>3. ASSUME NEW b \in Batches, Acquire(p, b) PROVE ShapeInv'
  <2> DEFINE c == [proc[p] EXCEPT !.at = "lock", !.batch = b, !.body = spent.commits + 2]
  <2>1. /\ spent' = [spent EXCEPT !.commits = @ + 1] /\ proc[p].at = "idle"
        /\ spent.commits < MaxCommit
        /\ proc' = [proc EXCEPT ![p] = c]
        /\ UNCHANGED <<target, backup, journal, lockfile, expected, suspect>>
    BY <1>3 DEF Acquire, rootFiles, ghosts
  <2>2. /\ spent' \in [commits : Nat, deaths : Nat, faults : Nat]
        /\ spent.commits <= spent'.commits /\ spent'.commits <= MaxCommit
        /\ spent'.commits = spent.commits + 1
    BY <1>1, <1>2, <2>1 DEF RootInv
  <2>3. b \in Seq(File) /\ b # <<>> /\ \A j, k \in DOMAIN b : b[j] = b[k] => j = k
    BY ConfigShape
  <2>4. c \in Process /\ c.at = "lock" /\ c.batch = b /\ c.had = proc[p].had /\ c.gen = proc[p].gen
    <3>1. spent.commits + 2 \in Nat /\ "lock" \in Phase
      BY <1>1 DEF Phase
    <3>2. QED BY <1>1, <2>3, <3>1 DEF Process
  <2> HIDE DEF c
  <2>5. Called(c, spent'.commits)
    BY <1>1, <2>2, <2>3, <2>4 DEF Called
  <2>6. Progress(c)
    BY <1>1, <2>1, <2>3, <2>4 DEF Progress
  <2>7. RootInv'
    BY <1>1, <2>1, <2>2 DEF RootInv
  <2>8. QED BY <2>1, <2>2, <2>4, <2>5, <2>6, <2>7, OneMoves
<1>4. ASSUME CreateLock(p) PROVE ShapeInv'
  <2>1. /\ proc[p].at = "lock"
        /\ UNCHANGED <<target, backup, journal, expected, suspect, spent>>
    BY <1>4 DEF CreateLock, rootFiles, ghosts
  <2>2. lockfile' \in Lock
    <3>1. lockfile' = lockfile \/ lockfile' = [by |-> p, empty |-> TRUE, stale |-> FALSE]
      BY <1>4 DEF CreateLock
    <3>2. [by |-> p, empty |-> TRUE, stale |-> FALSE] \in Lock
      BY DEF Lock
    <3>3. QED BY <1>1, <3>1, <3>2
  <2>3. RootInv'
    BY <1>1, <2>1, <2>2, LockOnly
  <2>4. CASE Goes(p, "fill")
    <3>1. "fill" \in Phase /\ proc[p].at \in Calling
      BY <2>1 DEF Phase, Holding, Calling
    <3>2. Progress([proc[p] EXCEPT !.at = "fill"])
      BY <1>1, <2>1 DEF Progress, Process
    <3>3. QED BY <2>1, <2>3, <2>4, <3>1, <3>2, GoesShape DEF Goes
  <2>5. CASE proc' = [proc EXCEPT ![p] = [@ EXCEPT !.at = "look", !.taking = FALSE]]
    BY <1>1, <2>1, <2>3, <2>5, TakingShape
  <2>6. QED BY <1>4, <2>4, <2>5 DEF CreateLock
<1>5. ASSUME FillLock(p) PROVE ShapeInv'
  <2>1. /\ proc[p].at = "fill" /\ (Fault \/ NoFault)
        /\ UNCHANGED <<target, backup, journal, expected, suspect>>
    BY <1>5 DEF FillLock, rootFiles, ghosts
  <2>2. lockfile' \in Lock
    <3>1. NoLock \in Lock /\ [lockfile EXCEPT !.empty = FALSE] \in Lock
      BY <1>1 DEF Lock, NoLock
    <3>2. lockfile' \in {lockfile, NoLock, [lockfile EXCEPT !.empty = FALSE]}
      BY <1>5 DEF FillLock
    <3>3. QED BY <1>1, <3>1, <3>2
  <2>3. RootInv' /\ spent'.commits = spent.commits
    BY <1>1, <2>1, <2>2, FilesOnly, FaultIs DEF RootInv
  <2>4. CASE Ends(p)
    BY <2>3, <2>4, RestsShape
  <2>5. ASSUME NEW a \in {"open", "lock"}, Goes(p, a) PROVE ShapeInv'
    <3>1. a \in Phase /\ proc[p].at \in Calling
      BY <2>1 DEF Phase, Holding, Calling
    <3>2. Progress([proc[p] EXCEPT !.at = a])
      BY <1>1, <2>1 DEF Progress, Process
    <3>3. QED BY <2>3, <2>5, <3>1, <3>2, GoesShape DEF Goes
  <2>6. QED BY <1>5, <2>4, <2>5 DEF FillLock
<1>6. ASSUME LookAtLock(p) PROVE ShapeInv'
  <2>1. PICK a \in {"remove", "lock"} : proc' = [proc EXCEPT ![p] = [@ EXCEPT !.at = a]]
    BY <1>6 DEF LookAtLock, Goes
  <2>2. /\ proc[p].at = "look"
        /\ UNCHANGED <<target, backup, journal, lockfile, expected, suspect, spent>>
    BY <1>6 DEF LookAtLock, rootFiles, ghosts
  <2>3. a \in Phase /\ proc[p].at \in Calling
    BY <2>2 DEF Phase, Calling
  <2>4. Progress([proc[p] EXCEPT !.at = a])
    BY <1>1, <2>1, <2>2 DEF Progress, Process
  <2>5. RootInv'
    BY <1>1, <2>2, LockOnly
  <2>6. QED BY <2>1, <2>2, <2>3, <2>4, <2>5, GoesShape
<1>7. ASSUME RemoveLock(p) PROVE ShapeInv'
  <2>1. /\ proc[p].at = "remove"
        /\ proc' = [proc EXCEPT ![p] = [@ EXCEPT !.at = "lock", !.taking = TRUE]]
        /\ UNCHANGED <<target, backup, journal, expected, suspect, spent>>
    BY <1>7 DEF RemoveLock, rootFiles, ghosts
  <2>2. lockfile' \in Lock
    BY <1>7 DEF RemoveLock, Lock, NoLock
  <2>3. RootInv'
    BY <1>1, <2>1, <2>2, LockOnly
  <2>4. QED BY <1>1, <2>1, <2>3, TakingShape
<1>8. ASSUME GiveUp(p) PROVE ShapeInv'
  <2>1. /\ UNCHANGED <<target, backup, journal, lockfile, expected, suspect, spent>>
        /\ Ends(p)
    BY <1>8 DEF GiveUp, rootFiles, ghosts
  <2>2. RootInv'
    BY <1>1, <2>1, LockOnly
  <2>3. QED BY <2>1, <2>2, RestsShape
<1>9. QED BY <1>3, <1>4, <1>5, <1>6, <1>7, <1>8

LEMMA JournalIs ==
  ASSUME ShapeInv, NEW p \in Instance, NEW done \in Nat,
         NEW st \in {"pending", "committed", "restored"}
  PROVE  Journal(p, st, done) \in Record
<1>1. proc[p] \in Process /\ proc[p].gen + 1 \in Nat /\ proc[p].batch \in Seq(File)
  BY Before DEF Process
<1>2. QED BY <1>1 DEF Journal, Upcoming, Record

LEMMA CommitShape ==
  ASSUME ShapeInv, NEW p \in Instance, CommitStep(p)
  PROVE  ShapeInv'
<1>1. /\ RootInv /\ proc[p] \in Process /\ lockfile \in Lock
      /\ proc[p].gen \in Nat /\ spent.commits \in Nat
      /\ Called(proc[p], spent.commits) /\ Progress(proc[p])
      /\ proc[p].batch \in Seq(File) /\ proc[p].next \in Nat /\ proc[p].had \subseteq File
  BY Before DEF Process
<1>2. /\ journal \in Record /\ suspect \subseteq File
      /\ target = [f \in File |-> target[f]] /\ expected = [f \in File |-> expected[f]]
      /\ backup = [fg \in File \X Generation |-> backup[fg]]
  BY <1>1 DEF RootInv
<1>3. FilesOf(proc[p].batch) \subseteq File
  BY <1>1 DEF FilesOf
<1>4. ASSUME OpenJournal(p) PROVE ShapeInv'
  <2>1. /\ proc[p].at = "open" /\ proc[p].batch # <<>>
        /\ UNCHANGED <<target, backup, lockfile, expected, suspect>>
        /\ Fault \/ NoFault
    BY <1>1, <1>4 DEF OpenJournal, Progress
  <2>2. journal' \in Record
    <3>1. Journal(p, "pending", 0) \in Record
      BY JournalIs
    <3>2. QED BY <1>2, <1>4, <3>1 DEF OpenJournal
  <2>3. RootInv' /\ spent'.commits = spent.commits
    BY <1>1, <1>2, <2>1, <2>2, FilesOnly, FaultIs
  <2>4. ASSUME proc' = [proc EXCEPT ![p] = [@ EXCEPT !.at = "stage", !.next = 1]]
        PROVE  ShapeInv'
    <3> DEFINE c == [proc[p] EXCEPT !.at = "stage", !.next = 1]
    <3>1. "stage" \in Phase /\ "open" \in Calling
      BY DEF Phase, Holding, Calling
    <3>2. c \in Process /\ c.at = "stage" /\ c.next = 1 /\ c.batch = proc[p].batch
          /\ c.gen = proc[p].gen
      BY <1>1, <3>1 DEF Process
    <3>3. proc' = [proc EXCEPT ![p] = c]
      BY <2>4
    <3> HIDE DEF c
    <3>4. Called(c, spent'.commits)
      BY <1>1, <2>1, <2>3, <3>1, <3>2 DEF Called
    <3>5. Progress(c)
      BY <1>1, <2>1, <3>2 DEF Progress
    <3>6. spent.commits <= spent'.commits
      BY <1>1, <2>3
    <3>7. QED BY <2>3, <3>2, <3>3, <3>4, <3>5, <3>6, OneMoves
  <2>5. ASSUME Goes(p, "drop") PROVE ShapeInv'
    <3>1. "drop" \in Phase /\ "drop" \notin Calling
      BY DEF Phase, Holding, Calling
    <3>2. Progress([proc[p] EXCEPT !.at = "drop"])
      BY <1>1 DEF Progress, Process
    <3>3. proc' = [proc EXCEPT ![p] = [@ EXCEPT !.at = "drop"]]
      BY <2>5 DEF Goes
    <3>4. QED BY <2>3, <3>1, <3>2, <3>3, GoesShape
  <2>6. QED BY <1>4, <2>4, <2>5 DEF OpenJournal
<1>5. ASSUME StageFile(p) PROVE ShapeInv'
  <2>1. /\ proc[p].at = "stage" /\ proc[p].next \in DOMAIN proc[p].batch
        /\ UNCHANGED <<target, journal, expected, suspect>>
        /\ lockfile' = [by |-> p, empty |-> FALSE, stale |-> FALSE]
        /\ Fault \/ NoFault
    BY <1>1, <1>5 DEF StageFile, Progress, ghosts
  <2>2. lockfile' \in Lock
    BY <2>1 DEF Lock
  <2>3. backup' = [fg \in File \X Generation |-> backup'[fg]]
    BY <1>2, <1>5 DEF StageFile
  <2>4. RootInv' /\ spent'.commits = spent.commits
    BY <1>1, <1>2, <2>1, <2>2, <2>3, FilesOnly, FaultIs
  <2>5. FileOf(p) \in File
    BY <1>1, <2>1 DEF FileOf
  <2>6. PICK h \in SUBSET File, a \in {"land", "undo"} :
          proc' = [proc EXCEPT ![p] = [@ EXCEPT !.at = a, !.had = h]]
    <3>1. CASE Goes(p, "undo")
      <4>1. [proc[p] EXCEPT !.at = "undo"] = [proc[p] EXCEPT !.at = "undo", !.had = proc[p].had]
        BY <1>1 DEF Process
      <4>2. QED BY <1>1, <3>1, <4>1 DEF Goes
    <3>2. CASE proc' = [proc EXCEPT ![p] = [@ EXCEPT !.at = "land",
              !.had = IF target[FileOf(p)] # 0 THEN proc[p].had \cup {FileOf(p)} ELSE proc[p].had]]
      <4> DEFINE h == IF target[FileOf(p)] # 0 THEN proc[p].had \cup {FileOf(p)} ELSE proc[p].had
      <4>1. h \in SUBSET File
        BY <1>1, <2>5
      <4>2. proc' = [proc EXCEPT ![p] = [proc[p] EXCEPT !.at = "land", !.had = h]]
        BY <1>1, <3>2 DEF Process
      <4> HIDE DEF h
      <4>3. QED BY <4>1, <4>2
    <3>3. QED BY <1>5, <3>1, <3>2 DEF StageFile
  <2> DEFINE c == [proc[p] EXCEPT !.at = a, !.had = h]
  <2>7. a \in Phase /\ "stage" \in Calling
    BY DEF Phase, Holding, Calling
  <2>8. c \in Process /\ c.at = a /\ c.next = proc[p].next /\ c.batch = proc[p].batch
        /\ c.gen = proc[p].gen
    BY <1>1, <2>7 DEF Process
  <2>9. proc' = [proc EXCEPT ![p] = c]
    BY <2>6
  <2> HIDE DEF c
  <2>10. Called(c, spent'.commits)
    BY <1>1, <2>1, <2>4, <2>7, <2>8 DEF Called
  <2>11. Progress(c)
    BY <1>1, <2>1, <2>8 DEF Progress
  <2>12. spent.commits <= spent'.commits
    BY <1>1, <2>4
  <2>13. QED BY <2>4, <2>8, <2>9, <2>10, <2>11, <2>12, OneMoves
<1>6. ASSUME LandFile(p) PROVE ShapeInv'
  <2>1. /\ proc[p].at = "land"
        /\ UNCHANGED <<journal, lockfile, expected, suspect>>
        /\ Fault \/ NoFault
    BY <1>6 DEF LandFile, ghosts
  <2>2. target' = [f \in File |-> target'[f]] /\ backup' = [fg \in File \X Generation |-> backup'[fg]]
    BY <1>2, <1>6 DEF LandFile
  <2>3. RootInv' /\ spent'.commits = spent.commits
    BY <1>1, <1>2, <2>1, <2>2, FilesOnly, FaultIs
  <2>4. PICK a \in {"mark", "undo"} : proc' = [proc EXCEPT ![p] = [@ EXCEPT !.at = a]]
    BY <1>6 DEF LandFile, Goes
  <2>5. a \in Phase /\ proc[p].at \in Calling
    BY <2>1 DEF Phase, Holding, Calling
  <2>6. Progress([proc[p] EXCEPT !.at = a])
    BY <1>1, <2>1 DEF Progress, Process
  <2>7. QED BY <2>3, <2>4, <2>5, <2>6, GoesShape
<1>7. ASSUME MarkDone(p) PROVE ShapeInv'
  <2>1. /\ proc[p].at = "mark" /\ proc[p].next \in DOMAIN proc[p].batch
        /\ UNCHANGED <<target, backup, lockfile, expected, suspect>>
        /\ Fault \/ NoFault
    BY <1>1, <1>7 DEF MarkDone, Progress, ghosts
  <2>2. journal' \in Record
    <3>1. Journal(p, "pending", proc[p].next) \in Record
      BY <1>1, JournalIs
    <3>2. QED BY <1>2, <1>7, <3>1 DEF MarkDone
  <2>3. RootInv' /\ spent'.commits = spent.commits
    BY <1>1, <1>2, <2>1, <2>2, FilesOnly, FaultIs
  <2> DEFINE a == IF proc[p].next = Len(proc[p].batch) THEN "finish" ELSE "stage"
             c == [proc[p] EXCEPT !.next = proc[p].next + 1, !.at = a]
  <2>4. a \in Phase /\ "mark" \in Calling
    BY DEF Phase, Holding, Calling
  <2>5. c \in Process /\ c.at = a /\ c.next = proc[p].next + 1 /\ c.batch = proc[p].batch
        /\ c.gen = proc[p].gen
    <3> HIDE DEF a
    <3>1. proc[p].next + 1 \in Nat
      BY <1>1
    <3>2. QED BY <1>1, <2>4, <3>1 DEF Process
  <2>6. proc' = [proc EXCEPT ![p] = c]
    BY <1>1, <1>7 DEF MarkDone, Process
  <2>7. /\ a = "finish" => proc[p].next = Len(proc[p].batch)
        /\ a = "stage" => proc[p].next + 1 \in DOMAIN proc[p].batch
        /\ a \in {"finish", "stage"}
    BY <1>1, <2>1
  <2> HIDE DEF a, c
  <2>8. Called(c, spent'.commits)
    BY <1>1, <2>1, <2>3, <2>4, <2>5 DEF Called
  <2>9. Progress(c)
    BY <1>1, <2>1, <2>5, <2>7 DEF Progress
  <2>10. spent.commits <= spent'.commits
    BY <1>1, <2>3
  <2>11. QED BY <2>3, <2>5, <2>6, <2>8, <2>9, <2>10, OneMoves
<1>8. ASSUME Finish(p) PROVE ShapeInv'
  <2>1. /\ proc[p].at = "finish"
        /\ UNCHANGED <<target, backup, lockfile>>
        /\ Fault \/ NoFault
    BY <1>8 DEF Finish
  <2>2. journal' \in Record
    <3>1. Landed(p) \in Nat
      BY <1>1, <2>1 DEF Landed, Progress
    <3>2. Journal(p, "committed", Landed(p)) \in Record
      BY <3>1, JournalIs
    <3>3. QED BY <1>2, <1>8, <3>2 DEF Finish
  <2>3. expected' = [f \in File |-> expected'[f]]
    BY <1>2, <1>8 DEF Finish
  <2>4. suspect' \subseteq File
    <3>1. \/ suspect' = suspect \cup FilesOf(proc[p].batch)
          \/ suspect' = suspect \ FilesOf(proc[p].batch)
      BY <1>8 DEF Finish
    <3>2. QED BY <1>2, <1>3, <3>1
  <2>5. RootInv' /\ spent'.commits = spent.commits
    BY <1>1, <1>2, <2>1, <2>2, <2>3, <2>4, FilesOnly, FaultIs
  <2>6. PICK a \in {"clean", "drop"} : proc' = [proc EXCEPT ![p] = [@ EXCEPT !.at = a]]
    BY <1>8 DEF Finish, Goes
  <2>7. a \in Phase /\ proc[p].at \in Calling
    BY <2>1 DEF Phase, Holding, Calling
  <2>8. Progress([proc[p] EXCEPT !.at = a])
    BY <1>1, <2>1 DEF Progress, Process
  <2>9. QED BY <2>5, <2>6, <2>7, <2>8, GoesShape
<1>9. ASSUME Clean(p) PROVE ShapeInv'
  <2>1. /\ proc[p].at = "clean"
        /\ UNCHANGED <<target, journal, lockfile, expected, suspect>>
        /\ NoFault
    BY <1>9 DEF Clean, ghosts, NoFault
  <2>2. backup' = [fg \in File \X Generation |-> backup'[fg]]
    BY <1>9 DEF Clean
  <2>3. RootInv' /\ spent'.commits = spent.commits
    BY <1>1, <1>2, <2>1, <2>2, FilesOnly, FaultIs
  <2> DEFINE c == [proc[p] EXCEPT !.at = "drop", !.gen = proc[p].gen + 1]
  <2>4. "drop" \in Phase /\ "drop" \notin Calling /\ "clean" \in Calling
    BY DEF Phase, Holding, Calling
  <2>5. c \in Process /\ c.at = "drop" /\ c.gen = proc[p].gen + 1
    <3>1. proc[p].gen + 1 \in Nat
      BY <1>1
    <3>2. QED BY <1>1, <2>4, <3>1 DEF Process
  <2>6. proc' = [proc EXCEPT ![p] = c]
    BY <1>1, <1>9 DEF Clean, Process
  <2> HIDE DEF c
  <2>7. Called(c, spent'.commits)
    BY <1>1, <2>1, <2>3, <2>4, <2>5 DEF Called
  <2>8. Progress(c) /\ spent.commits <= spent'.commits
    BY <1>1, <2>3, <2>5 DEF Progress
  <2>9. QED BY <2>3, <2>5, <2>6, <2>7, <2>8, OneMoves
<1>10. ASSUME Undo(p) PROVE ShapeInv'
  <2>1. /\ proc[p].at = "undo"
        /\ proc' = [proc EXCEPT ![p] = [@ EXCEPT !.at = "undone"]]
        /\ UNCHANGED <<journal, lockfile, expected>>
        /\ Fault \/ NoFault
    BY <1>10 DEF Undo, Goes
  <2>2. target' = [f \in File |-> target'[f]] /\ backup' = [fg \in File \X Generation |-> backup'[fg]]
    BY <1>10 DEF Undo, Restored
  <2>3. suspect' \subseteq File
    <3>1. LandedFiles(p) \subseteq FilesOf(proc[p].batch)
      BY <1>1, <2>1 DEF LandedFiles, FilesOf, Landed, Progress
    <3>2. suspect' \subseteq suspect \cup LandedFiles(p) \cup FilesOf(proc[p].batch)
      BY <1>10 DEF Undo
    <3>3. QED BY <1>2, <1>3, <3>1, <3>2
  <2>4. RootInv' /\ spent'.commits = spent.commits
    BY <1>1, <1>2, <2>1, <2>2, <2>3, FilesOnly, FaultIs
  <2>5. "undone" \in Phase /\ proc[p].at \in Calling
    BY <2>1 DEF Phase, Holding, Calling
  <2>6. Progress([proc[p] EXCEPT !.at = "undone"])
    BY <1>1, <2>1 DEF Progress, Process
  <2>7. QED BY <2>1, <2>4, <2>5, <2>6, GoesShape
<1>11. ASSUME Undone(p) PROVE ShapeInv'
  <2>1. /\ proc[p].at = "undone"
        /\ proc' = [proc EXCEPT ![p] = [@ EXCEPT !.at = "drop"]]
        /\ UNCHANGED <<target, backup, lockfile, expected, suspect>>
        /\ Fault \/ NoFault
    BY <1>11 DEF Undone, Goes, ghosts
  <2>2. journal' \in Record
    <3>1. Landed(p) \in Nat
      BY <1>1, <1>11 DEF Undone, Landed, Progress
    <3>2. Journal(p, "restored", Landed(p)) \in Record
      BY <3>1, JournalIs
    <3>3. QED BY <1>2, <1>11, <3>2 DEF Undone
  <2>3. RootInv' /\ spent'.commits = spent.commits
    BY <1>1, <1>2, <2>1, <2>2, FilesOnly, FaultIs
  <2>4. "drop" \in Phase /\ proc[p].at \in Calling
    BY <2>1 DEF Phase, Holding, Calling
  <2>5. Progress([proc[p] EXCEPT !.at = "drop"])
    BY <1>1 DEF Progress, Process
  <2>6. QED BY <2>1, <2>3, <2>4, <2>5, GoesShape
<1>12. ASSUME DropLock(p) PROVE ShapeInv'
  <2>1. /\ UNCHANGED <<target, backup, journal, expected, suspect>>
        /\ Ends(p) /\ NoFault
    BY <1>12 DEF DropLock, rootFiles, ghosts, NoFault
  <2>2. lockfile' \in Lock
    BY <1>1, <1>12 DEF DropLock, Lock, NoLock
  <2>3. RootInv' /\ spent'.commits = spent.commits
    BY <1>1, <1>2, <2>1, <2>2, FilesOnly, FaultIs
  <2>4. QED BY <2>1, <2>3, RestsShape
<1>13. QED BY <1>4, <1>5, <1>6, <1>7, <1>8, <1>9, <1>10, <1>11, <1>12 DEF CommitStep

LEMMA OtherShape ==
  ASSUME ShapeInv, NEW p \in Instance,
         Die(p) \/ Start(p) \/ Recover(p) \/ Recovered(p)
  PROVE  ShapeInv'
<1>1. /\ RootInv /\ proc[p] \in Process /\ lockfile \in Lock
      /\ spent.commits \in Nat
      /\ Called(proc[p], spent.commits) /\ Progress(proc[p])
      /\ proc[p].batch \in Seq(File) /\ proc[p].next \in Nat /\ proc[p].body \in Nat
  BY Before DEF Process
<1>2. /\ journal \in Record /\ suspect \subseteq File
      /\ target = [f \in File |-> target[f]] /\ expected = [f \in File |-> expected[f]]
      /\ backup = [fg \in File \X Generation |-> backup[fg]]
      /\ spent \in [commits : Nat, deaths : Nat, faults : Nat]
  BY <1>1 DEF RootInv
<1>3. /\ "off" \in Phase \ Calling /\ "idle" \in Phase \ Calling
      /\ "recover" \in Phase \ Calling
  BY DEF Phase, Holding, Calling
<1>4. ASSUME Die(p) PROVE ShapeInv'
  <2>1. /\ UNCHANGED <<target, backup, journal, expected>>
        /\ spent' = [spent EXCEPT !.deaths = @ + 1]
        /\ proc' = [proc EXCEPT ![p] = Rest("off")]
    BY <1>4 DEF Die, rootFiles
  <2>2. /\ spent' \in [commits : Nat, deaths : Nat, faults : Nat]
        /\ spent'.commits = spent.commits /\ spent.commits <= spent'.commits
    BY <1>1, <1>2, <2>1
  <2>3. lockfile' \in Lock
    BY <1>1, <1>4 DEF Die, Lock
  <2>4. suspect' \subseteq File
    <3>1. FilesOf(proc[p].batch) \subseteq File
      BY <1>1 DEF FilesOf
    <3>2. suspect' = suspect \/ suspect' = suspect \cup FilesOf(proc[p].batch)
      BY <1>4 DEF Die
    <3>3. QED BY <1>2, <3>1, <3>2
  <2>5. RootInv'
    BY <1>1, <2>1, <2>2, <2>3, <2>4 DEF RootInv
  <2>6. /\ Rest("off") \in Process /\ Rest("off").at = "off"
        /\ Rest("off").had = {} /\ Rest("off").gen = 0
    BY <1>3, RestIs
  <2>7. Called(Rest("off"), spent'.commits)
    BY <1>1, <1>3, <2>2, <2>6 DEF Called
  <2>8. Progress(Rest("off"))
    BY <2>6 DEF Progress
  <2>9. QED BY <2>1, <2>2, <2>5, <2>6, <2>7, <2>8, OneMoves
<1>5. ASSUME Start(p) PROVE ShapeInv'
  <2>1. UNCHANGED <<target, backup, journal, lockfile, expected, suspect, spent>>
    BY <1>5 DEF Start, rootFiles, ghosts
  <2>2. RootInv' /\ spent'.commits = spent.commits /\ spent.commits <= spent'.commits
    BY <1>1, <2>1, LockOnly
  <2> DEFINE r == [Rest("recover") EXCEPT !.batch = journal.files, !.body = journal.gen,
                                          !.next = journal.done + 1]
             c == IF journal.state = "pending" THEN r ELSE Rest("idle")
  <2>3. r \in Process /\ r.at = "recover" /\ r.gen = 0 /\ r.next = journal.done + 1
    <3>1. Rest("recover") \in Process /\ Rest("recover").at = "recover" /\ Rest("recover").gen = 0
      BY <1>3, RestIs
    <3>2. journal.files \in Seq(File) /\ journal.gen \in Nat /\ journal.done + 1 \in Nat
      BY <1>2 DEF Record
    <3>3. QED BY <3>1, <3>2 DEF Process
  <2>4. proc' = [proc EXCEPT ![p] = c]
    BY <1>5 DEF Start
  <2>5. journal.done + 1 >= 1
    BY <1>2 DEF Record
  <2>6. /\ Rest("idle") \in Process /\ Rest("idle").at = "idle"
        /\ Rest("idle").had = {} /\ Rest("idle").gen = 0
    BY <1>3, RestIs
  <2> HIDE DEF r
  <2>7. c \in Process /\ c.gen = 0 /\ c.at \notin Calling
    BY <1>3, <2>3, <2>6
  <2>8. Called(c, spent'.commits)
    <3> HIDE DEF c
    <3>1. QED BY <1>1, <2>2, <2>7 DEF Called
  <2>9. Progress(r)
    BY <2>3, <2>5 DEF Progress
  <2>10. Progress(Rest("idle"))
    BY <2>6 DEF Progress
  <2>11. Progress(c)
    BY <2>9, <2>10
  <2> HIDE DEF c
  <2>12. QED BY <2>2, <2>4, <2>7, <2>8, <2>11, OneMoves
<1>6. ASSUME Recover(p) PROVE ShapeInv'
  <2>1. /\ proc[p].at = "recover" /\ proc[p].next <= Len(proc[p].batch)
        /\ UNCHANGED <<journal, lockfile, expected>>
        /\ suspect' = suspect \cup {FileOf(p)}
        /\ Fault \/ NoFault
    BY <1>6 DEF Recover
  <2>2. target' = [f \in File |-> target'[f]] /\ backup' = [fg \in File \X Generation |-> backup'[fg]]
    BY <1>2, <1>6 DEF Recover
  <2>3. FileOf(p) \in File
    BY <1>1, <2>1 DEF FileOf, Progress
  <2>4. RootInv' /\ spent'.commits = spent.commits /\ spent.commits <= spent'.commits
    BY <1>1, <1>2, <2>1, <2>2, <2>3, FilesOnly, FaultIs
  <2> DEFINE c == [proc[p] EXCEPT !.next = proc[p].next + 1]
  <2>5. c \in Process /\ c.at = "recover" /\ c.next = proc[p].next + 1 /\ c.gen = proc[p].gen
    <3>1. proc[p].next + 1 \in Nat
      BY <1>1
    <3>2. QED BY <1>1, <2>1, <3>1 DEF Process
  <2>6. proc' = [proc EXCEPT ![p] = c]
    BY <1>6 DEF Recover
  <2>7. proc[p].next + 1 >= 1
    BY <1>1
  <2> HIDE DEF c
  <2>8. Called(c, spent'.commits)
    BY <1>1, <1>3, <2>4, <2>5 DEF Called
  <2>9. Progress(c)
    BY <2>5, <2>7 DEF Progress
  <2>10. QED BY <2>4, <2>5, <2>6, <2>8, <2>9, OneMoves
<1>7. ASSUME Recovered(p) PROVE ShapeInv'
  <2>1. /\ UNCHANGED <<target, backup, lockfile, expected, suspect>>
        /\ proc' = [proc EXCEPT ![p] = Rest("idle")]
        /\ Fault \/ NoFault
    BY <1>7 DEF Recovered, ghosts
  <2>2. journal' \in Record
    <3>1. Len(proc[p].batch) \in Nat
      BY <1>1
    <3>2. [state |-> "restored", gen |-> proc[p].body,
           files |-> proc[p].batch, done |-> Len(proc[p].batch)] \in Record
      BY <1>1, <3>1 DEF Record
    <3>3. QED BY <1>2, <1>7, <3>2 DEF Recovered
  <2>3. RootInv' /\ spent'.commits = spent.commits /\ spent.commits <= spent'.commits
    BY <1>1, <1>2, <2>1, <2>2, FilesOnly, FaultIs
  <2>4. /\ Rest("idle") \in Process /\ Rest("idle").at = "idle"
        /\ Rest("idle").had = {} /\ Rest("idle").gen = 0
    BY <1>3, RestIs
  <2>5. Called(Rest("idle"), spent'.commits)
    BY <1>1, <1>3, <2>3, <2>4 DEF Called
  <2>6. Progress(Rest("idle"))
    BY <2>4 DEF Progress
  <2>7. QED BY <2>1, <2>3, <2>4, <2>5, <2>6, OneMoves
<1>8. QED BY <1>4, <1>5, <1>6, <1>7

LEMMA StepShape ==
  ASSUME ShapeInv, [ConfigNext]_configVars
  PROVE  ShapeInv'
<1>1. CASE Age
  <2>1. /\ proc' = proc /\ lockfile' \in Lock /\ RootInv
        /\ UNCHANGED <<target, backup, journal, expected, suspect, spent>>
    BY <1>1 DEF Age, rootFiles, ghosts, ShapeInv, TypeInv, RootInv, Lock
  <2>2. RootInv'
    BY <2>1, LockOnly
  <2>3. QED BY <2>1, <2>2 DEF ShapeInv, TypeInv
<1>2. CASE UNCHANGED configVars
  <2>1. /\ UNCHANGED <<proc, lockfile, target, backup, journal, expected, suspect, spent>>
    BY <1>2 DEF configVars
  <2>2. QED BY <2>1 DEF ShapeInv, TypeInv, RootInv
<1>3. CASE \E p \in Instance :
              \/ \E b \in Batches : Acquire(p, b)
              \/ CreateLock(p) \/ FillLock(p) \/ LookAtLock(p) \/ RemoveLock(p) \/ GiveUp(p)
  BY <1>3, LockShape
<1>4. CASE \E p \in Instance : CommitStep(p)
  BY <1>4, CommitShape
<1>5. CASE \E p \in Instance : Die(p) \/ Start(p) \/ Recover(p) \/ Recovered(p)
  BY <1>5, OtherShape
<1>6. QED BY <1>1, <1>2, <1>3, <1>4, <1>5 DEF ConfigNext

-----------------------------------------------------------------------------
\* The entries of c's batch whose body is in place, and those with a backup.
LandedTo(c) == IF c.at = "mark" THEN c.next ELSE c.next - 1
BackedTo(c) == IF c.at \in {"land", "mark"} THEN c.next ELSE c.next - 1

\* The k-th file of c's batch: the body, once landed; what the last commit left,
\* before that; and its way back.
SteadyFile(c, k) ==
  LET f == c.batch[k] IN
  /\ k <= LandedTo(c) => target[f] = c.body
  /\ k > LandedTo(c) /\ f \notin suspect => target[f] = expected[f]
  /\ k <= BackedTo(c) /\ f \notin suspect =>
       IF f \in c.had THEN backup[<<f, c.gen + 1>>] = expected[f] ELSE expected[f] = 0

Steady(c) ==
  /\ \A k \in DOMAIN c.batch : SteadyFile(c, k)
  /\ c.at \in {"stage", "land", "mark"} =>
       \A f \in c.had : \E k \in DOMAIN c.batch : k <= BackedTo(c) /\ f = c.batch[k]

\* Two writers know of each other, and a writer that is alone finds its files as it
\* left them.
CommitInv ==
  /\ \A p, q \in Writers : p # q => p \in disturbed
  /\ \A p \in Instance : proc[p].at \in Midway /\ p \notin disturbed => Steady(proc[p])
  /\ LastCommitStands

LEMMA MidwayWrites == Midway \subseteq Writing /\ Writing \subseteq Holding
BY DEF Midway, Writing, Holding

\* Beside an undisturbed writer nobody writes.
LEMMA AloneFacts ==
  ASSUME CommitInv, NEW p \in Instance, proc[p].at \in Midway, p \notin disturbed
  PROVE  /\ Steady(proc[p])
         /\ \A f \in File \ suspect : target[f] = expected[f] \/ f \in FilesOf(proc[p].batch)
<1>1. \A q \in Instance : proc[q].at \in Midway => q = p
  BY MidwayWrites DEF CommitInv, Writers
<1>2. QED BY <1>1 DEF CommitInv, LastCommitStands

\* A step of a process outside its batch.
LEMMA QuietStep ==
  ASSUME ShapeInv, CommitInv, NEW p \in Instance, NEW c,
         proc' = [proc EXCEPT ![p] = c],
         proc[p].at \notin Midway, c.at \notin Midway,
         c.at \in Writing => proc[p].at \in Writing,
         UNCHANGED <<target, expected, disturbed>>,
         suspect \subseteq suspect',
         backup' = backup \/ proc[p].at \in Writing
  PROVE  CommitInv'
<1>1. \A q \in Instance : proc'[q] = IF q = p THEN c ELSE proc[q]
  BY DEF ShapeInv, TypeInv
<1>2. LastCommitStands'
  <2>1. SUFFICES ASSUME NEW f \in File, f \notin suspect', target'[f] # expected'[f]
                 PROVE  \E q \in Instance : proc'[q].at \in Midway /\ f \in FilesOf(proc'[q].batch)
    BY DEF LastCommitStands
  <2>2. PICK q \in Instance : proc[q].at \in Midway /\ f \in FilesOf(proc[q].batch)
    BY <2>1 DEF CommitInv, LastCommitStands
  <2>3. proc'[q] = proc[q]
    BY <1>1, <2>2
  <2>4. QED BY <2>2, <2>3
<1>3. ASSUME NEW q \in Instance, proc'[q].at \in Midway, q \notin disturbed'
      PROVE  Steady(proc[q])' /\ proc'[q] = proc[q]
  <2>1. proc'[q] = proc[q] /\ q # p
    BY <1>1, <1>3
  <2>2. Steady(proc[q])
    BY <1>3, <2>1 DEF CommitInv
  <2>3. backup' = backup
    BY <1>3, <2>1, MidwayWrites DEF CommitInv, Writers
  <2>4. QED BY <2>1, <2>2, <2>3 DEF Steady, SteadyFile, LandedTo, BackedTo
<1>4. Writers' \subseteq Writers
  BY <1>1 DEF Writers
<1>5. QED BY <1>2, <1>3, <1>4 DEF CommitInv

\* A step of a batch.
LEMMA BatchStep ==
  ASSUME ShapeInv, CommitInv, NEW p \in Instance, NEW c,
         proc' = [proc EXCEPT ![p] = c],
         proc[p].at \in Midway,
         UNCHANGED disturbed,
         c.at \in Midway /\ p \notin disturbed => Steady(c)',
         ASSUME NEW f \in File, f \notin suspect'
         PROVE  \/ target'[f] = expected'[f]
                \/ c.at \in Midway /\ f \in FilesOf(c.batch)
                \/ /\ f \notin suspect /\ f \notin FilesOf(proc[p].batch)
                   /\ target'[f] = target[f] /\ expected'[f] = expected[f]
  PROVE  CommitInv'
<1>1. \A q \in Instance : proc'[q] = IF q = p THEN c ELSE proc[q]
  BY DEF ShapeInv, TypeInv
<1>2. LastCommitStands'
  <2>1. SUFFICES ASSUME NEW f \in File, f \notin suspect', target'[f] # expected'[f],
                        ~ (c.at \in Midway /\ f \in FilesOf(c.batch))
                 PROVE  \E q \in Instance : proc'[q].at \in Midway /\ f \in FilesOf(proc'[q].batch)
    BY <1>1 DEF LastCommitStands
  <2>2. /\ f \notin suspect /\ f \notin FilesOf(proc[p].batch)
        /\ target'[f] = target[f] /\ expected'[f] = expected[f]
    BY <2>1
  <2>3. PICK q \in Instance : proc[q].at \in Midway /\ f \in FilesOf(proc[q].batch)
    BY <2>1, <2>2 DEF CommitInv, LastCommitStands
  <2>4. proc'[q] = proc[q]
    BY <1>1, <2>2, <2>3
  <2>5. QED BY <2>3, <2>4
<1>3. \A q \in Instance : q # p /\ proc'[q].at \in Midway => q \in disturbed'
  BY <1>1, MidwayWrites DEF CommitInv, Writers
<1>4. Writers' \subseteq Writers
  BY <1>1, MidwayWrites DEF Writers
<1>5. QED BY <1>1, <1>2, <1>3, <1>4 DEF CommitInv

\* The batch of a holder: its indices, its files and its backups.
LEMMA BatchFacts ==
  ASSUME ShapeInv, NEW p \in Instance, proc[p].at \in Midway
  PROVE  /\ proc[p] \in Process /\ proc[p].next \in Nat /\ Len(proc[p].batch) \in Nat
         /\ DOMAIN proc[p].batch = 1..Len(proc[p].batch)
         /\ \A k \in DOMAIN proc[p].batch : proc[p].batch[k] \in File
         /\ \A j, k \in DOMAIN proc[p].batch : proc[p].batch[j] = proc[p].batch[k] => j = k
         /\ Upcoming(p) \in Generation /\ Upcoming(p) = proc[p].gen + 1
         /\ Progress(proc[p])
         /\ target = [f \in File |-> target[f]] /\ expected = [f \in File |-> expected[f]]
         /\ backup = [fg \in File \X Generation |-> backup[fg]]
<1>1. /\ proc[p] \in Process /\ proc[p].batch \in Seq(File) /\ proc[p].next \in Nat
      /\ proc[p].gen \in Nat /\ spent.commits \in Nat /\ spent.commits <= MaxCommit
      /\ Called(proc[p], spent.commits) /\ Progress(proc[p]) /\ RootInv
  BY Before DEF Process
<1>2. proc[p].at \in Calling
  BY DEF Midway, Calling, Holding
<1>3. /\ proc[p].gen + 1 <= MaxCommit /\ proc[p].gen + 1 >= 1
      /\ \A j, k \in DOMAIN proc[p].batch : proc[p].batch[j] = proc[p].batch[k] => j = k
  BY <1>1, <1>2, ConfigShape DEF Called
<1>4. Upcoming(p) \in Generation /\ Upcoming(p) = proc[p].gen + 1
  BY <1>1, <1>3, ConfigShape DEF Upcoming, Generation
<1>5. /\ DOMAIN proc[p].batch = 1..Len(proc[p].batch) /\ Len(proc[p].batch) \in Nat
      /\ \A k \in DOMAIN proc[p].batch : proc[p].batch[k] \in File
  BY <1>1
<1>6. QED BY <1>1, <1>2, <1>3, <1>4, <1>5 DEF RootInv

LEMMA OpenKept ==
  ASSUME ShapeInv, CommitInv, NEW p \in Instance, OpenJournal(p)
  PROVE  CommitInv'
<1>1. /\ proc[p].at = "open" /\ proc[p].at \notin Writing /\ proc[p].at \notin Midway
      /\ UNCHANGED <<target, backup, expected, suspect>>
  BY DEF OpenJournal, Writing, Holding, Midway
<1>2. /\ proc[p] \in Process /\ proc[p].batch \in Seq(File) /\ proc[p].had = {}
  BY <1>1, Before DEF Process, Progress
<1>3. ASSUME proc' = [proc EXCEPT ![p] = [@ EXCEPT !.at = "stage", !.next = 1]],
             disturbed' = IF Writers = {} THEN disturbed \ {p}
                          ELSE disturbed \cup Writers \cup {p}
      PROVE  CommitInv'
  <2>1. PICK c : proc' = [proc EXCEPT ![p] = c] /\ c = [proc[p] EXCEPT !.at = "stage", !.next = 1]
    BY <1>3
  <2>2. c.at = "stage" /\ c.next = 1 /\ c.batch = proc[p].batch /\ c.had = {}
    BY <1>2, <2>1 DEF Process
  <2>3. \A q \in Instance : proc'[q] = IF q = p THEN c ELSE proc[q]
    BY <2>1 DEF ShapeInv, TypeInv
  <2>4. Writers' \subseteq Writers \cup {p}
    BY <2>3 DEF Writers
  <2>5. LastCommitStands'
    <3>1. SUFFICES ASSUME NEW f \in File, f \notin suspect', target'[f] # expected'[f]
                   PROVE  \E q \in Instance : proc'[q].at \in Midway /\ f \in FilesOf(proc'[q].batch)
      BY DEF LastCommitStands
    <3>2. PICK q \in Instance : proc[q].at \in Midway /\ f \in FilesOf(proc[q].batch)
      BY <1>1, <3>1 DEF CommitInv, LastCommitStands
    <3>3. proc'[q] = proc[q]
      BY <1>1, <2>3, <3>2
    <3>4. QED BY <3>2, <3>3
  <2>6. CASE Writers = {}
    <3>1. \A q \in Instance : proc[q].at \notin Midway
      BY <2>6, MidwayWrites DEF Writers
    <3>2. \A f \in File \ suspect : target[f] = expected[f]
      BY <3>1 DEF CommitInv, LastCommitStands
    <3>3. Steady(c)'
      <4>1. ASSUME NEW k \in DOMAIN c.batch
            PROVE  k \in Nat \ {0} /\ c.batch[k] \in File
        BY <1>2, <2>2
      <4>2. LandedTo(c) = 0 /\ BackedTo(c) = 0
        BY <2>2 DEF LandedTo, BackedTo
      <4>3. QED BY <1>1, <2>2, <3>2, <4>1, <4>2 DEF Steady, SteadyFile
    <3>4. \A q \in Instance : proc'[q].at \in Midway => q = p /\ proc'[q] = c
      BY <2>3, <3>1
    <3>5. \A q, o \in Writers' : q = o
      BY <2>4, <2>6
    <3>6. QED BY <2>5, <3>3, <3>4, <3>5 DEF CommitInv
  <2>7. CASE Writers # {}
    <3>1. Writers' \subseteq disturbed'
      BY <1>3, <2>4, <2>7
    <3>2. \A q \in Instance : proc'[q].at \in Midway => q \in disturbed'
      BY <3>1, MidwayWrites DEF Writers
    <3>3. QED BY <2>5, <3>1, <3>2 DEF CommitInv
  <2>8. QED BY <2>6, <2>7
<1>4. ASSUME Goes(p, "drop"), UNCHANGED disturbed PROVE CommitInv'
  <2> DEFINE c == [proc[p] EXCEPT !.at = "drop"]
  <2>1. proc' = [proc EXCEPT ![p] = c] /\ c.at = "drop"
    BY <1>2, <1>4 DEF Goes, Process
  <2> HIDE DEF c
  <2>2. c.at \notin Midway /\ c.at \notin Writing
    BY <2>1 DEF Midway, Writing, Holding
  <2>3. QED BY <1>1, <1>4, <2>1, <2>2, QuietStep
<1>5. QED BY <1>3, <1>4 DEF OpenJournal

LEMMA StageAlone ==
  ASSUME ShapeInv, CommitInv, NEW p \in Instance, p \notin disturbed, StageFile(p)
  PROVE  CommitInv'
<1>1. /\ proc[p].at = "stage" /\ proc[p].at \in Midway
      /\ UNCHANGED <<target, expected, disturbed, suspect>>
  BY DEF StageFile, Midway, ghosts
<1>2. /\ Steady(proc[p])
      /\ \A f \in File \ suspect : target[f] = expected[f] \/ f \in FilesOf(proc[p].batch)
  BY <1>1, BatchFacts, AloneFacts
<1>3. proc[p].next \in DOMAIN proc[p].batch
  BY <1>1, BatchFacts DEF Progress
<1> DEFINE f == FileOf(p)
<1>4. f \in File /\ f = proc[p].batch[proc[p].next]
  BY <1>1, <1>3, BatchFacts DEF FileOf
<1> HIDE DEF f
<1>5. ASSUME Goes(p, "undo"), UNCHANGED backup PROVE CommitInv'
  <2>1. PICK c : proc' = [proc EXCEPT ![p] = c] /\ c = [proc[p] EXCEPT !.at = "undo"]
    BY <1>5 DEF Goes
  <2>2. /\ c.at = "undo" /\ c.next = proc[p].next /\ c.batch = proc[p].batch
        /\ c.had = proc[p].had /\ c.body = proc[p].body /\ c.gen = proc[p].gen
    BY <1>1, <2>1, BatchFacts DEF Process
  <2>3. LandedTo(c) = LandedTo(proc[p]) /\ BackedTo(c) = BackedTo(proc[p])
    BY <1>1, <2>2 DEF LandedTo, BackedTo
  <2>4. Steady(c)'
    BY <1>1, <1>2, <1>5, <2>2, <2>3 DEF Steady, SteadyFile
  <2>5. c.at \in Midway
    BY <2>2 DEF Midway
  <2>6. \A g \in File : g \notin suspect' =>
          target'[g] = expected'[g] \/ (c.at \in Midway /\ g \in FilesOf(c.batch))
    BY <1>1, <1>2, <2>2, <2>5
  <2>7. QED BY <1>1, <2>1, <2>4, <2>6, BatchStep
<1>6. ASSUME backup' = IF target[f] # 0 THEN [backup EXCEPT ![Bak(p, f)] = target[f]] ELSE backup,
             proc' = [proc EXCEPT ![p] = [@ EXCEPT !.at = "land",
               !.had = IF target[f] # 0 THEN proc[p].had \cup {f} ELSE proc[p].had]]
      PROVE  CommitInv'
  <2>0. PICK h : h = IF target[f] # 0 THEN proc[p].had \cup {f} ELSE proc[p].had
    OBVIOUS
  <2>1. PICK c : proc' = [proc EXCEPT ![p] = c] /\ c = [proc[p] EXCEPT !.at = "land", !.had = h]
    BY <1>6, <2>0
  <2>2. /\ c.at = "land" /\ c.next = proc[p].next /\ c.batch = proc[p].batch
        /\ c.had = h /\ c.body = proc[p].body /\ c.gen = proc[p].gen
    BY <1>1, <2>1, BatchFacts DEF Process
  <2>3. /\ LandedTo(c) = proc[p].next - 1 /\ BackedTo(c) = proc[p].next
        /\ LandedTo(proc[p]) = proc[p].next - 1 /\ BackedTo(proc[p]) = proc[p].next - 1
    BY <1>1, <2>2 DEF LandedTo, BackedTo
  <2>4. <<f, Upcoming(p)>> \in File \X Generation
    BY <1>1, <1>4, BatchFacts
  <2>5. backup'[<<f, Upcoming(p)>>] = IF target[f] # 0 THEN target[f] ELSE backup[<<f, Upcoming(p)>>]
    BY <1>1, <1>6, <2>4, BatchFacts DEF Bak
  <2>6. ASSUME NEW g \in File, g # f PROVE backup'[<<g, Upcoming(p)>>] = backup[<<g, Upcoming(p)>>]
    <3>1. <<g, Upcoming(p)>> \in File \X Generation /\ <<g, Upcoming(p)>> # <<f, Upcoming(p)>>
      BY <1>1, <2>6, BatchFacts
    <3>2. QED BY <1>1, <1>6, <2>4, <3>1, BatchFacts DEF Bak
  <2>7. f \in h <=> target[f] # 0
    <3>1. ASSUME f \in proc[p].had PROVE FALSE
      <4>1. PICK k \in DOMAIN proc[p].batch : k <= proc[p].next - 1 /\ f = proc[p].batch[k]
        BY <1>1, <1>2, <2>3, <3>1 DEF Steady
      <4>2. k = proc[p].next
        BY <1>1, <1>3, <1>4, <4>1, BatchFacts
      <4>3. QED BY <1>1, <4>1, <4>2, BatchFacts
    <3>2. QED BY <2>0, <3>1
  <2>8. ASSUME NEW k \in DOMAIN c.batch PROVE SteadyFile(c, k)'
    <3>1. SteadyFile(proc[p], k)
      BY <1>2, <2>2, <2>8 DEF Steady
    <3>2. k \in Nat /\ proc[p].next \in Nat /\ proc[p].batch[k] \in File
      BY <1>1, <2>2, <2>8, BatchFacts
    <3>3. CASE k = proc[p].next
      <4>1. proc[p].batch[k] = f
        BY <1>4, <3>3
      <4>2. f \notin suspect => target[f] = expected[f]
        BY <2>3, <3>1, <3>2, <3>3, <4>1 DEF SteadyFile
      <4>3. ~ (k <= LandedTo(c))
        BY <2>3, <3>2, <3>3
      <4>4. f \notin suspect => IF f \in c.had THEN backup'[<<f, Upcoming(p)>>] = expected[f]
                                           ELSE expected[f] = 0
        BY <2>2, <2>5, <2>7, <4>2
      <4>5. QED BY <1>1, <2>2, <4>1, <4>2, <4>3, <4>4, BatchFacts DEF SteadyFile
    <3>4. CASE k # proc[p].next
      <4>1. proc[p].batch[k] # f
        BY <1>1, <1>3, <1>4, <2>2, <2>8, <3>4, BatchFacts
      <4>2. backup'[<<proc[p].batch[k], Upcoming(p)>>] = backup[<<proc[p].batch[k], Upcoming(p)>>]
        BY <2>6, <3>2, <4>1
      <4>3. proc[p].batch[k] \in c.had <=> proc[p].batch[k] \in proc[p].had
        BY <2>0, <2>2, <4>1
      <4>4. k <= BackedTo(c) <=> k <= BackedTo(proc[p])
        BY <2>3, <3>2, <3>4
      <4>5. LandedTo(c) = LandedTo(proc[p]) /\ Upcoming(p) = proc[p].gen + 1
        BY <2>3 DEF Upcoming
      <4>6. QED BY <1>1, <2>2, <3>1, <4>2, <4>3, <4>4, <4>5 DEF SteadyFile
    <3>5. QED BY <3>3, <3>4
  <2>9. ASSUME NEW g \in c.had PROVE \E k \in DOMAIN c.batch : k <= BackedTo(c) /\ g = c.batch[k]
    <3>1. CASE g = f
      BY <1>1, <1>3, <1>4, <2>2, <2>3, <3>1, BatchFacts
    <3>2. CASE g # f
      <4>1. g \in proc[p].had
        BY <2>0, <2>2, <2>9, <3>2
      <4>2. PICK k \in DOMAIN proc[p].batch : k <= proc[p].next - 1 /\ g = proc[p].batch[k]
        BY <1>1, <1>2, <2>3, <4>1 DEF Steady
      <4>3. k <= proc[p].next
        BY <1>1, <4>2, BatchFacts
      <4>4. QED BY <2>2, <2>3, <4>2, <4>3
    <3>3. QED BY <3>1, <3>2
  <2>10. Steady(c)'
    BY <2>8, <2>9 DEF Steady, LandedTo, BackedTo
  <2>11. QED BY <1>1, <1>2, <2>1, <2>2, <2>10, BatchFacts, BatchStep DEF Midway
<1>7. QED BY <1>5, <1>6 DEF StageFile, f

LEMMA LandAlone ==
  ASSUME ShapeInv, CommitInv, NEW p \in Instance, p \notin disturbed, LandFile(p)
  PROVE  CommitInv'
<1>1. /\ proc[p].at = "land" /\ proc[p].at \in Midway
      /\ UNCHANGED <<expected, disturbed, suspect>>
  BY DEF LandFile, Midway, Holding, ghosts
<1>2. /\ Steady(proc[p])
      /\ \A f \in File \ suspect : target[f] = expected[f] \/ f \in FilesOf(proc[p].batch)
  BY <1>1, AloneFacts
<1>3. proc[p].next \in DOMAIN proc[p].batch
  BY <1>1, BatchFacts DEF Progress
<1>4. PICK f : f = FileOf(p)
  OBVIOUS
<1>5. f \in File /\ f = proc[p].batch[proc[p].next]
  BY <1>1, <1>3, <1>4, BatchFacts DEF FileOf
<1>6. /\ LandedTo(proc[p]) = proc[p].next - 1 /\ BackedTo(proc[p]) = proc[p].next
      /\ <<f, Upcoming(p)>> \in File \X Generation /\ proc[p].next \in Nat
  BY <1>1, <1>5, BatchFacts DEF LandedTo, BackedTo
<1>7. ASSUME Goes(p, "undo"), UNCHANGED target, backup' = [backup EXCEPT ![Bak(p, f)] = 0]
      PROVE  CommitInv'
  <2>1. PICK c : proc' = [proc EXCEPT ![p] = c] /\ c = [proc[p] EXCEPT !.at = "undo"]
    BY <1>7 DEF Goes
  <2>2. /\ c.at = "undo" /\ c.next = proc[p].next /\ c.batch = proc[p].batch
        /\ c.had = proc[p].had /\ c.body = proc[p].body /\ c.gen = proc[p].gen
    BY <1>1, <2>1, BatchFacts DEF Process
  <2>3. LandedTo(c) = proc[p].next - 1 /\ BackedTo(c) = proc[p].next - 1
    BY <2>2 DEF LandedTo, BackedTo
  <2>4. ASSUME NEW g \in File, g # f PROVE backup'[<<g, Upcoming(p)>>] = backup[<<g, Upcoming(p)>>]
    <3>1. <<g, Upcoming(p)>> \in File \X Generation /\ <<g, Upcoming(p)>> # <<f, Upcoming(p)>>
      BY <1>1, <2>4, BatchFacts
    <3>2. QED BY <1>1, <1>6, <1>7, <3>1, BatchFacts DEF Bak
  <2>5. ASSUME NEW k \in DOMAIN c.batch PROVE SteadyFile(c, k)'
    <3>1. SteadyFile(proc[p], k)
      BY <1>2, <2>2, <2>5 DEF Steady
    <3>2. k \in Nat /\ proc[p].batch[k] \in File
      BY <1>1, <2>2, <2>5, BatchFacts
    <3>3. k <= BackedTo(c) => /\ k <= BackedTo(proc[p])
                             /\ proc[p].batch[k] # f
      BY <1>1, <1>3, <1>5, <1>6, <2>2, <2>3, <2>5, <3>2, BatchFacts
    <3>4. k <= BackedTo(c) =>
            backup'[<<proc[p].batch[k], Upcoming(p)>>] = backup[<<proc[p].batch[k], Upcoming(p)>>]
      BY <2>4, <3>2, <3>3
    <3>5. LandedTo(c) = LandedTo(proc[p]) /\ Upcoming(p) = proc[p].gen + 1
      BY <1>6, <2>3 DEF Upcoming
    <3>6. QED BY <1>1, <1>7, <2>2, <3>1, <3>3, <3>4, <3>5 DEF SteadyFile
  <2>6. Steady(c)'
    BY <2>2, <2>5 DEF Steady, LandedTo, BackedTo
  <2>7. c.at \in Midway
    BY <2>2 DEF Midway
  <2>8. \A g \in File : g \notin suspect' =>
          target'[g] = expected'[g] \/ (c.at \in Midway /\ g \in FilesOf(c.batch))
    BY <1>1, <1>2, <1>7, <2>2, <2>7
  <2>9. QED BY <1>1, <2>1, <2>6, <2>7, <2>8, BatchStep
<1>8. ASSUME Goes(p, "mark"), UNCHANGED backup, target' = [target EXCEPT ![f] = proc[p].body]
      PROVE  CommitInv'
  <2>1. PICK c : proc' = [proc EXCEPT ![p] = c] /\ c = [proc[p] EXCEPT !.at = "mark"]
    BY <1>8 DEF Goes
  <2>2. /\ c.at = "mark" /\ c.next = proc[p].next /\ c.batch = proc[p].batch
        /\ c.had = proc[p].had /\ c.body = proc[p].body /\ c.gen = proc[p].gen
    BY <1>1, <2>1, BatchFacts DEF Process
  <2>3. LandedTo(c) = proc[p].next /\ BackedTo(c) = proc[p].next
    BY <2>2 DEF LandedTo, BackedTo
  <2>4. \A g \in File : target'[g] = IF g = f THEN proc[p].body ELSE target[g]
    BY <1>1, <1>8, BatchFacts
  <2>5. ASSUME NEW k \in DOMAIN c.batch PROVE SteadyFile(c, k)'
    <3>1. SteadyFile(proc[p], k)
      BY <1>2, <2>2, <2>5 DEF Steady
    <3>2. k \in Nat /\ proc[p].batch[k] \in File
      BY <1>1, <2>2, <2>5, BatchFacts
    <3>3. CASE k = proc[p].next
      <4>1. target'[proc[p].batch[k]] = c.body
        BY <1>5, <2>2, <2>4, <3>3
      <4>2. ~ (k > LandedTo(c)) /\ k <= BackedTo(proc[p])
        BY <1>6, <2>3, <3>3
      <4>3. QED BY <1>1, <1>8, <2>2, <3>1, <4>1, <4>2 DEF SteadyFile
    <3>4. CASE k # proc[p].next
      <4>1. proc[p].batch[k] # f
        BY <1>1, <1>3, <1>5, <2>2, <2>5, <3>4, BatchFacts
      <4>2. target'[proc[p].batch[k]] = target[proc[p].batch[k]]
        BY <2>4, <3>2, <4>1
      <4>3. /\ k <= LandedTo(c) <=> k <= LandedTo(proc[p])
            /\ k > LandedTo(c) <=> k > LandedTo(proc[p])
            /\ BackedTo(c) = BackedTo(proc[p])
        BY <1>6, <2>3, <3>2, <3>4
      <4>4. QED BY <1>1, <1>8, <2>2, <3>1, <4>2, <4>3 DEF SteadyFile
    <3>5. QED BY <3>3, <3>4
  <2>6. \A g \in c.had : \E k \in DOMAIN c.batch : k <= BackedTo(c) /\ g = c.batch[k]
    BY <1>1, <1>2, <1>6, <2>2, <2>3 DEF Steady
  <2>7. Steady(c)'
    BY <2>5, <2>6 DEF Steady, LandedTo, BackedTo
  <2>8. c.at \in Midway
    BY <2>2 DEF Midway
  <2>9. \A g \in File : g \notin suspect' =>
          target'[g] = expected'[g] \/ (c.at \in Midway /\ g \in FilesOf(c.batch))
    <3>1. f \in FilesOf(c.batch)
      BY <1>3, <1>5, <2>2 DEF FilesOf
    <3>2. QED BY <1>1, <1>2, <2>2, <2>4, <2>8, <3>1
  <2>10. QED BY <1>1, <2>1, <2>7, <2>8, <2>9, BatchStep
<1>9. QED BY <1>4, <1>7, <1>8 DEF LandFile

LEMMA MarkAlone ==
  ASSUME ShapeInv, CommitInv, NEW p \in Instance, p \notin disturbed, MarkDone(p)
  PROVE  CommitInv'
<1>1. /\ proc[p].at = "mark" /\ proc[p].at \in Midway
      /\ UNCHANGED <<target, backup, expected, disturbed, suspect>>
  BY DEF MarkDone, Midway, Holding, ghosts
<1>2. /\ Steady(proc[p])
      /\ \A f \in File \ suspect : target[f] = expected[f] \/ f \in FilesOf(proc[p].batch)
  BY <1>1, AloneFacts
<1>3. PICK a \in {"finish", "stage"} :
        a = IF proc[p].next = Len(proc[p].batch) THEN "finish" ELSE "stage"
  OBVIOUS
<1>4. PICK c : /\ proc' = [proc EXCEPT ![p] = c]
               /\ c = [proc[p] EXCEPT !.next = proc[p].next + 1, !.at = a]
  BY <1>3 DEF MarkDone
<1>5. /\ c.at = a /\ c.next = proc[p].next + 1 /\ c.batch = proc[p].batch
      /\ c.had = proc[p].had /\ c.body = proc[p].body /\ c.gen = proc[p].gen
      /\ proc[p].next \in Nat
  BY <1>1, <1>4, BatchFacts DEF Process
<1>6. LandedTo(c) = LandedTo(proc[p]) /\ BackedTo(c) = BackedTo(proc[p])
  BY <1>1, <1>5 DEF LandedTo, BackedTo
<1>7. Steady(c)'
  BY <1>1, <1>2, <1>5, <1>6 DEF Steady, SteadyFile
<1>8. c.at \in Midway
  BY <1>5 DEF Midway
<1>9. \A g \in File : g \notin suspect' =>
        target'[g] = expected'[g] \/ (c.at \in Midway /\ g \in FilesOf(c.batch))
  BY <1>1, <1>2, <1>5, <1>8
<1>10. QED BY <1>1, <1>4, <1>7, <1>8, <1>9, BatchStep

LEMMA FinishAlone ==
  ASSUME ShapeInv, CommitInv, NEW p \in Instance, p \notin disturbed, Finish(p)
  PROVE  CommitInv'
<1>1. /\ proc[p].at = "finish" /\ proc[p].at \in Midway
      /\ UNCHANGED <<target, disturbed>> /\ proc[p] \in Process
  BY Before DEF Finish, Midway, Holding
<1>2. /\ Steady(proc[p])
      /\ \A f \in File \ suspect : target[f] = expected[f] \/ f \in FilesOf(proc[p].batch)
  BY <1>1, AloneFacts
<1>3. PICK mine : mine = FilesOf(proc[p].batch)
  OBVIOUS
<1>4. PICK c : proc' = [proc EXCEPT ![p] = c] /\ c.at \notin Midway
  <2>1. /\ [proc[p] EXCEPT !.at = "clean"].at = "clean"
        /\ [proc[p] EXCEPT !.at = "drop"].at = "drop"
    BY <1>1 DEF Process
  <2>2. QED BY <2>1 DEF Finish, Goes, Midway
<1>5. ASSUME NEW f \in File, f \notin suspect' PROVE target'[f] = expected'[f]
  <2>1. CASE suspect' = suspect \cup mine /\ UNCHANGED expected
    BY <1>1, <1>2, <1>3, <1>5, <2>1
  <2>2. CASE /\ expected' = [g \in File |-> IF g \in mine THEN proc[p].body ELSE expected[g]]
             /\ suspect' = IF p \in disturbed THEN suspect \cup mine ELSE suspect \ mine
    <3>1. CASE f \notin mine
      <4>1. f \notin suspect
        BY <1>5, <2>2, <3>1
      <4>2. QED BY <1>1, <1>2, <1>3, <2>2, <3>1, <4>1
    <3>2. CASE f \in mine
      <4>1. p \notin disturbed
        BY <1>5, <2>2, <3>2
      <4>2. PICK k \in DOMAIN proc[p].batch : f = proc[p].batch[k]
        BY <1>3, <3>2 DEF FilesOf
      <4>3. LandedTo(proc[p]) = Len(proc[p].batch)
        BY <1>1, BatchFacts DEF LandedTo, Progress
      <4>4. k <= LandedTo(proc[p])
        BY <1>1, <4>2, <4>3, BatchFacts
      <4>5. target[f] = proc[p].body
        BY <1>2, <4>1, <4>2, <4>4 DEF Steady, SteadyFile
      <4>6. QED BY <1>1, <2>2, <3>2, <4>5
    <3>3. QED BY <3>1, <3>2
  <2>3. QED BY <1>3, <2>1, <2>2 DEF Finish
<1>6. QED BY <1>1, <1>4, <1>5, BatchStep

LEMMA UndoAlone ==
  ASSUME ShapeInv, CommitInv, NEW p \in Instance, p \notin disturbed, Undo(p)
  PROVE  CommitInv'
<1>1. /\ proc[p].at = "undo" /\ proc[p].at \in Midway
      /\ UNCHANGED <<expected, disturbed>> /\ proc[p] \in Process
  BY Before DEF Undo, Midway
<1>2. PICK stuck \in SUBSET LandedFiles(p) :
        target' = Restored(p, stuck) /\ suspect' = suspect \cup stuck
  BY DEF Undo
<1>3. /\ Steady(proc[p])
      /\ \A f \in File \ suspect : target[f] = expected[f] \/ f \in FilesOf(proc[p].batch)
  BY <1>1, AloneFacts
<1>4. PICK c : proc' = [proc EXCEPT ![p] = c] /\ c.at \notin Midway
  <2>1. [proc[p] EXCEPT !.at = "undone"].at = "undone"
    BY <1>1 DEF Process
  <2>2. QED BY <2>1 DEF Undo, Goes, Midway
<1>5. /\ LandedTo(proc[p]) = Landed(p) /\ BackedTo(proc[p]) = Landed(p)
      /\ Landed(p) \in Int /\ proc[p].next \in DOMAIN proc[p].batch
  BY <1>1, BatchFacts DEF LandedTo, BackedTo, Landed, Progress
<1>6. ASSUME NEW f \in File, f \notin suspect' PROVE target'[f] = expected'[f]
  <2>1. f \notin suspect /\ f \notin stuck
    BY <1>2, <1>6
  <2>2. CASE f \in LandedFiles(p)
    <3>1. PICK k \in 1..Landed(p) : f = proc[p].batch[k]
      BY <2>2 DEF LandedFiles
    <3>2. k \in DOMAIN proc[p].batch /\ k <= BackedTo(proc[p])
      BY <1>1, <1>5, <3>1, BatchFacts DEF Landed
    <3>3. IF f \in proc[p].had THEN backup[Bak(p, f)] = expected[f] ELSE expected[f] = 0
      BY <1>3, <2>1, <3>1, <3>2 DEF Steady, SteadyFile, Bak, Upcoming
    <3>4. QED BY <1>1, <1>2, <2>1, <2>2, <3>3 DEF Restored
  <2>3. CASE f \notin LandedFiles(p)
    <3>1. target'[f] = target[f]
      BY <1>2, <2>3 DEF Restored
    <3>2. ASSUME f \in FilesOf(proc[p].batch) PROVE target[f] = expected[f]
      <4>1. PICK k \in DOMAIN proc[p].batch : f = proc[p].batch[k]
        BY <3>2 DEF FilesOf
      <4>2. k > LandedTo(proc[p])
        BY <1>1, <1>5, <2>3, <4>1, BatchFacts DEF LandedFiles
      <4>3. QED BY <1>3, <2>1, <4>1, <4>2 DEF Steady, SteadyFile
    <3>3. QED BY <1>1, <1>3, <2>1, <3>1, <3>2
  <2>4. QED BY <2>2, <2>3
<1>7. QED BY <1>1, <1>4, <1>6, BatchStep

\* The batch of a process that is not alone.
LEMMA CrowdKept ==
  ASSUME ShapeInv, CommitInv, NEW p \in Instance, p \in disturbed,
         StageFile(p) \/ LandFile(p) \/ MarkDone(p) \/ Finish(p) \/ Undo(p)
  PROVE  CommitInv'
<1>1. proc[p].at \in Midway /\ proc[p] \in Process /\ UNCHANGED disturbed
  BY Before DEF StageFile, LandFile, MarkDone, Finish, Undo, Midway, ghosts
<1>2. proc[p].next \in DOMAIN proc[p].batch \/ proc[p].at = "finish"
  BY <1>1, BatchFacts DEF Progress, Midway
<1>3. CASE StageFile(p) \/ LandFile(p) \/ MarkDone(p)
  <2>1. PICK c : proc' = [proc EXCEPT ![p] = c] /\ c.at \in Midway /\ c.batch = proc[p].batch
    <3>1. CASE \E a \in {"undo", "mark"} : Goes(p, a)
      <4>1. PICK a \in {"undo", "mark"} : Goes(p, a)
        BY <3>1
      <4>2. /\ [proc[p] EXCEPT !.at = a].at = a
            /\ [proc[p] EXCEPT !.at = a].batch = proc[p].batch
        BY <1>1 DEF Process
      <4>3. QED BY <4>1, <4>2 DEF Goes, Midway
    <3>2. CASE proc' = [proc EXCEPT ![p] = [@ EXCEPT !.at = "land",
              !.had = IF target[FileOf(p)] # 0 THEN proc[p].had \cup {FileOf(p)} ELSE proc[p].had]]
      <4>1. PICK h : h = IF target[FileOf(p)] # 0 THEN proc[p].had \cup {FileOf(p)} ELSE proc[p].had
        OBVIOUS
      <4>2. proc' = [proc EXCEPT ![p] = [proc[p] EXCEPT !.at = "land", !.had = h]]
        BY <3>2, <4>1
      <4>3. /\ [proc[p] EXCEPT !.at = "land", !.had = h].at = "land"
            /\ [proc[p] EXCEPT !.at = "land", !.had = h].batch = proc[p].batch
        BY <1>1 DEF Process
      <4>4. QED BY <4>2, <4>3 DEF Midway
    <3>3. CASE MarkDone(p)
      <4>1. PICK a \in {"finish", "stage"} :
              a = IF proc[p].next = Len(proc[p].batch) THEN "finish" ELSE "stage"
        OBVIOUS
      <4>2. proc' = [proc EXCEPT ![p] = [proc[p] EXCEPT !.next = proc[p].next + 1, !.at = a]]
        BY <3>3, <4>1 DEF MarkDone
      <4>3. /\ [proc[p] EXCEPT !.next = proc[p].next + 1, !.at = a].at = a
            /\ [proc[p] EXCEPT !.next = proc[p].next + 1, !.at = a].batch = proc[p].batch
        BY <1>1 DEF Process
      <4>4. QED BY <4>2, <4>3 DEF Midway
    <3>4. QED BY <1>3, <3>1, <3>2, <3>3 DEF StageFile, LandFile
  <2>2. UNCHANGED <<expected, suspect>>
    BY <1>3 DEF StageFile, LandFile, MarkDone, ghosts
  <2>3. ASSUME NEW f \in File, f \notin FilesOf(proc[p].batch) PROVE target'[f] = target[f]
    <3>1. CASE LandFile(p)
      <4>1. FileOf(p) \in FilesOf(proc[p].batch)
        BY <1>2, <3>1 DEF LandFile, FileOf, FilesOf
      <4>2. target = [g \in File |-> target[g]]
        BY <1>1, BatchFacts
      <4>3. QED BY <2>3, <3>1, <4>1, <4>2 DEF LandFile
    <3>2. CASE StageFile(p) \/ MarkDone(p)
      BY <3>2 DEF StageFile, MarkDone
    <3>3. QED BY <1>3, <3>1, <3>2
  <2>4. QED BY <1>1, <2>1, <2>2, <2>3, BatchStep
<1>4. CASE Finish(p) \/ Undo(p)
  <2>1. PICK c : proc' = [proc EXCEPT ![p] = c] /\ c.at \notin Midway
    <3>1. PICK a \in {"clean", "drop", "undone"} : Goes(p, a)
      BY <1>4 DEF Finish, Undo
    <3>2. [proc[p] EXCEPT !.at = a].at = a
      BY <1>1 DEF Process
    <3>3. QED BY <3>1, <3>2 DEF Goes, Midway
  <2>2. suspect \subseteq suspect' /\ FilesOf(proc[p].batch) \subseteq suspect'
    BY <1>4 DEF Finish, Undo
  <2>3. ASSUME NEW f \in File, f \notin FilesOf(proc[p].batch)
        PROVE  target'[f] = target[f] /\ expected'[f] = expected[f]
    <3>1. CASE Finish(p)
      <4>1. UNCHANGED target
        BY <3>1 DEF Finish
      <4>2. expected'[f] = expected[f]
        BY <2>3, <3>1 DEF Finish
      <4>3. QED BY <4>1, <4>2
    <3>2. CASE Undo(p)
      <4>1. f \notin LandedFiles(p)
        BY <1>1, <1>2, <2>3, <3>2, BatchFacts DEF LandedFiles, Landed, FilesOf, Undo
      <4>2. UNCHANGED expected /\ \E stuck \in SUBSET LandedFiles(p) : target' = Restored(p, stuck)
        BY <3>2 DEF Undo
      <4>3. QED BY <4>1, <4>2 DEF Restored
    <3>3. QED BY <1>4, <3>1, <3>2
  <2>4. QED BY <1>1, <2>1, <2>2, <2>3, BatchStep
<1>5. QED BY <1>3, <1>4

\* What a death in the middle of a batch damages is in the batch.
LEMMA DieKept ==
  ASSUME ShapeInv, CommitInv, NEW p \in Instance, Die(p)
  PROVE  CommitInv'
<1>1. /\ proc' = [proc EXCEPT ![p] = Rest("off")] /\ Rest("off").at = "off"
      /\ UNCHANGED <<target, backup, expected, disturbed>>
  BY DEF Die, rootFiles, Rest
<1>2. Rest("off").at \notin Midway /\ Rest("off").at \notin Writing
  BY <1>1 DEF Midway, Writing, Holding
<1>3. CASE proc[p].at \notin Midway
  <2>1. suspect \subseteq suspect'
    BY DEF Die
  <2>2. QED BY <1>1, <1>2, <1>3, <2>1, QuietStep
<1>4. CASE proc[p].at \in Midway
  <2>1. suspect' = suspect \cup FilesOf(proc[p].batch)
    BY <1>4 DEF Die
  <2>2. QED BY <1>1, <1>2, <1>4, <2>1, BatchStep
<1>5. QED BY <1>3, <1>4

\* A recovery beside a commit damages the file it touches, and marks the commit.
LEMMA RecoverKept ==
  ASSUME ShapeInv, CommitInv, NEW p \in Instance, Recover(p)
  PROVE  CommitInv'
<1>1. PICK f, b : /\ f = FileOf(p)
                  /\ \/ target' = [target EXCEPT ![f] = b]
                     \/ target' = target
                  /\ suspect' = suspect \cup {f}
  BY DEF Recover
<1>2. /\ proc[p].at = "recover" /\ UNCHANGED expected
      /\ disturbed' = disturbed \cup Writers
      /\ proc[p] \in Process
  BY Before DEF Recover
<1>3. PICK c : proc' = [proc EXCEPT ![p] = c] /\ c.at = "recover"
  <2>1. [proc[p] EXCEPT !.next = proc[p].next + 1].at = "recover"
    BY <1>2 DEF Process
  <2>2. QED BY <2>1 DEF Recover
<1>4. \A q \in Instance : proc'[q] = IF q = p THEN c ELSE proc[q]
  BY <1>3 DEF ShapeInv, TypeInv
<1>5. \A g \in File : g # f => target'[g] = target[g]
  <2>1. target = [g \in File |-> target[g]]
    BY Before DEF RootInv
  <2>2. QED BY <1>1, <2>1
<1>6. Writers' \subseteq Writers
  BY <1>3, <1>4 DEF Writers, Writing, Holding
<1>7. \A q \in Instance : proc'[q].at \in Midway => q \in disturbed'
  BY <1>2, <1>6, MidwayWrites DEF Writers
<1>8. LastCommitStands'
  <2>1. SUFFICES ASSUME NEW g \in File, g \notin suspect', target'[g] # expected'[g]
                 PROVE  \E q \in Instance : proc'[q].at \in Midway /\ g \in FilesOf(proc'[q].batch)
    BY DEF LastCommitStands
  <2>2. g \notin suspect /\ target[g] # expected[g]
    BY <1>1, <1>2, <1>5, <2>1
  <2>3. PICK q \in Instance : proc[q].at \in Midway /\ g \in FilesOf(proc[q].batch)
    BY <2>2 DEF CommitInv, LastCommitStands
  <2>4. proc'[q] = proc[q]
    BY <1>2, <1>4, <2>3 DEF Midway
  <2>5. QED BY <2>3, <2>4
<1>9. QED BY <1>2, <1>6, <1>7, <1>8 DEF CommitInv

\* The steps of a process outside a batch.
LEMMA QuietKept ==
  ASSUME ShapeInv, CommitInv, NEW p \in Instance,
         \/ \E b \in Batches : Acquire(p, b)
         \/ CreateLock(p) \/ FillLock(p) \/ LookAtLock(p) \/ RemoveLock(p) \/ GiveUp(p)
         \/ Clean(p) \/ Undone(p) \/ DropLock(p) \/ Start(p) \/ Recovered(p)
  PROVE  CommitInv'
<1>1. /\ UNCHANGED <<target, expected, disturbed, suspect>>
      /\ backup' = backup \/ proc[p].at \in Writing
  BY DEF Acquire, CreateLock, FillLock, LookAtLock, RemoveLock, GiveUp, Clean, Undone,
         DropLock, Start, Recovered, rootFiles, ghosts, Writing, Holding
<1>2. proc[p].at \notin Midway
  BY DEF Acquire, CreateLock, FillLock, LookAtLock, RemoveLock, GiveUp, Clean, Undone,
         DropLock, Start, Recovered, Midway
<1>3. proc[p] \in Process
  BY Before
<1>4. PICK c : /\ proc' = [proc EXCEPT ![p] = c]
               /\ c.at \in {"lock", "fill", "look", "open", "drop", "remove", "idle", "recover"}
  <2>1. CASE \E b \in Batches : Acquire(p, b)
    <3>1. PICK b \in Batches : Acquire(p, b)
      BY <2>1
    <3>2. [proc[p] EXCEPT !.at = "lock", !.batch = b, !.body = spent.commits + 2].at = "lock"
      BY <1>3 DEF Process
    <3>3. QED BY <3>1, <3>2 DEF Acquire
  <2>2. CASE \E a \in {"fill", "open", "lock", "drop", "remove"} : Goes(p, a)
    <3>1. PICK a \in {"fill", "open", "lock", "drop", "remove"} : Goes(p, a)
      BY <2>2
    <3>2. [proc[p] EXCEPT !.at = a].at = a
      BY <1>3 DEF Process
    <3>3. QED BY <3>1, <3>2 DEF Goes
  <2>3. CASE \E a \in {"look", "lock"}, t \in BOOLEAN :
               proc' = [proc EXCEPT ![p] = [@ EXCEPT !.at = a, !.taking = t]]
    <3>1. PICK a \in {"look", "lock"}, t \in BOOLEAN :
            proc' = [proc EXCEPT ![p] = [proc[p] EXCEPT !.at = a, !.taking = t]]
      BY <2>3
    <3>2. [proc[p] EXCEPT !.at = a, !.taking = t].at = a
      BY <1>3 DEF Process
    <3>3. QED BY <3>1, <3>2
  <2>4. CASE Ends(p)
    <3>1. [Rest("idle") EXCEPT !.gen = proc[p].gen].at = "idle"
      BY DEF Rest
    <3>2. QED BY <2>4, <3>1 DEF Ends
  <2>5. CASE Clean(p)
    <3>1. [proc[p] EXCEPT !.at = "drop", !.gen = proc[p].gen + 1].at = "drop"
      BY <1>3 DEF Process
    <3>2. QED BY <2>5, <3>1 DEF Clean
  <2>6. CASE Start(p) \/ Recovered(p)
    <3>1. /\ Rest("idle").at = "idle"
          /\ [Rest("recover") EXCEPT !.batch = journal.files, !.body = journal.gen,
                                     !.next = journal.done + 1].at = "recover"
      BY DEF Rest
    <3>2. QED BY <2>6, <3>1 DEF Start, Recovered
  <2>7. CASE CreateLock(p)
    BY <2>2, <2>3, <2>7 DEF CreateLock
  <2>8. CASE FillLock(p) \/ LookAtLock(p) \/ Undone(p)
    BY <2>2, <2>4, <2>8 DEF FillLock, LookAtLock, Undone
  <2>9. CASE RemoveLock(p)
    BY <2>3, <2>9 DEF RemoveLock
  <2>10. QED BY <2>1, <2>4, <2>5, <2>6, <2>7, <2>8, <2>9 DEF GiveUp, DropLock
<1>5. c.at \notin Midway /\ c.at \notin Writing
  BY <1>4 DEF Midway, Writing, Holding
<1>6. suspect \subseteq suspect'
  BY <1>1
<1>7. QED BY <1>1, <1>2, <1>4, <1>5, <1>6, QuietStep

LEMMA StepCommit ==
  ASSUME ShapeInv, CommitInv, [ConfigNext]_configVars
  PROVE  CommitInv'
<1>1. CASE Age \/ UNCHANGED configVars
  <2>1. UNCHANGED <<proc, target, backup, expected, disturbed, suspect>>
    BY <1>1 DEF Age, configVars, rootFiles, ghosts
  <2>2. Writers' = Writers
    BY <2>1 DEF Writers
  <2>3. QED BY <2>1, <2>2 DEF CommitInv, LastCommitStands, Steady, SteadyFile
<1>2. CASE \E p \in Instance :
             \/ \E b \in Batches : Acquire(p, b)
             \/ CreateLock(p) \/ FillLock(p) \/ LookAtLock(p) \/ RemoveLock(p) \/ GiveUp(p)
             \/ Clean(p) \/ Undone(p) \/ DropLock(p) \/ Start(p) \/ Recovered(p)
  BY <1>2, QuietKept
<1>3. ASSUME NEW p \in Instance,
             StageFile(p) \/ LandFile(p) \/ MarkDone(p) \/ Finish(p) \/ Undo(p)
      PROVE  CommitInv'
  BY <1>3, CrowdKept, StageAlone, LandAlone, MarkAlone, FinishAlone, UndoAlone
<1>4. CASE \E p \in Instance : OpenJournal(p) \/ Die(p) \/ Recover(p)
  BY <1>4, OpenKept, DieKept, RecoverKept
<1>5. QED BY <1>1, <1>2, <1>3, <1>4 DEF ConfigNext, CommitStep

\* A commit changes all of its files or none, for any number of processes, files,
\* stalls, failures and deaths (commit_files, restore_landed, recover_at_startup):
\* what a death or a failed rollback damages stays within its batch, a recovery
\* within the files it touches and a second writer within the commits that
\* overlapped.
THEOREM CommitStands == ConfigSpec => []LastCommitStands
<1>1. ConfigInit => ShapeInv /\ CommitInv
  <2>1. SUFFICES ASSUME ConfigInit PROVE ShapeInv /\ CommitInv
    OBVIOUS
  <2>2. \A p \in Instance : proc[p].at \notin Midway /\ proc[p].at \notin Writing
    <3>1. Rest("idle").at = "idle" /\ Rest("off").at = "off"
      BY DEF Rest
    <3>2. QED BY <2>1, <3>1 DEF ConfigInit, Midway, Writing, Holding
  <2>3. QED BY <2>1, <2>2, InitInv DEF ConfigInit, CommitInv, LastCommitStands, Writers
<1>2. ShapeInv /\ CommitInv /\ [ConfigNext]_configVars => (ShapeInv /\ CommitInv)'
  BY StepShape, StepCommit
<1>3. CommitInv => LastCommitStands
  BY DEF CommitInv
<1>4. QED BY <1>1, <1>2, <1>3, PTL DEF ConfigSpec
=============================================================================
