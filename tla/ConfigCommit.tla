---------------------------- MODULE ConfigCommit ----------------------------
(***************************************************************************)
(* The configuration commit of config_commit.rs: the lockfile with its      *)
(* heartbeat and takeover, the journaled batch of commit_files, and the     *)
(* recovery every argos command and the terminal run when they start.       *)
(*                                                                         *)
(* The processes share nothing but the files of the configuration root, so   *)
(* a step is one file operation, or the renames of one rollback, each of     *)
(* which may fail.  A body is the number of the commit that wrote it, 1 the  *)
(* installed one, 0 no file.  A process commits from one thread at a time;   *)
(* the staged siblings, which nothing reads, are left out.                   *)
(***************************************************************************)
EXTENDS Integers, Sequences, FiniteSets

CONSTANTS
  Instance,    \* argos processes
  File,        \* config.toml, auth.json, quota.json
  Batches,     \* the batches callers commit: one file, or all in order
  NoInstance,  \* no lockfile
  Dead,        \* the owner a lockfile names once that process died
  MayStall,    \* a live process may stall for LOCK_STALE_AFTER
  MaxCommit, MaxDeath, MaxFault  \* bounds of the state space

ASSUME ConfigShape ==
  /\ \A b \in Batches : /\ b \in Seq(File) /\ b # <<>>
                       /\ \A j, k \in DOMAIN b : b[j] = b[k] => j = k
  /\ NoInstance \notin Instance /\ Dead \notin Instance /\ Dead # NoInstance
  /\ MayStall \in BOOLEAN
  /\ MaxCommit \in Nat /\ MaxDeath \in Nat /\ MaxFault \in Nat

VARIABLES
  target,    \* the configuration files
  backup,    \* <file>.<generation>.bak
  journal,   \* .argos-config-journal.json
  lockfile,  \* .argos-config.lock
  proc,      \* what each process is doing
  \* observations, which no step reads
  expected,  \* what the last successful commit of each file wrote
  attempted, \* the files as the batch begun last would leave them
  disturbed, \* processes that had a second writer or a recovery beside their commit
  suspect,   \* files that one of those, a death or a failed rollback may have damaged
  spent      \* commits, deaths and failures so far

configVars == <<target, backup, journal, lockfile, proc, expected, attempted,
                disturbed, suspect, spent>>

Generation == 1..MaxCommit
NoLock == [by |-> NoInstance, empty |-> FALSE, stale |-> FALSE]
NoJournal == [state |-> "none", gen |-> 0, files |-> <<>>, done |-> 0]
Rest(at) == [at |-> at, batch |-> <<>>, body |-> 0, gen |-> 0, next |-> 0,
             had |-> {}, taking |-> FALSE]

Holding == {"fill", "open", "stage", "land", "mark", "finish", "clean", "undo", "undone", "drop"}
Writing == Holding \ {"fill", "open", "drop"}
Midway == {"stage", "land", "mark", "finish", "undo"}

FilesOf(b) == {b[k] : k \in DOMAIN b}

ConfigInit ==
  /\ target \in {[f \in File |-> b] : b \in {0, 1}}
  /\ backup = [fg \in File \X Generation |-> 0]
  /\ journal = NoJournal
  /\ lockfile = NoLock
  /\ proc \in [Instance -> {Rest("idle"), Rest("off")}]
  /\ expected = target /\ attempted = target
  /\ disturbed = {} /\ suspect = {}
  /\ spent = [commits |-> 0, deaths |-> 0, faults |-> 0]

-----------------------------------------------------------------------------
Goes(p, at) == proc' = [proc EXCEPT ![p].at = at]
Fault == spent.faults < MaxFault /\ spent' = [spent EXCEPT !.faults = @ + 1]
NoFault == UNCHANGED spent
rootFiles == <<target, backup, journal>>
ghosts == <<expected, attempted, disturbed, suspect>>

\* ConfigLock::acquire_at begins, for a batch of its caller.
Acquire(p, b) ==
  /\ proc[p].at = "idle" /\ spent.commits < MaxCommit
  /\ spent' = [spent EXCEPT !.commits = @ + 1]
  /\ proc' = [proc EXCEPT ![p] =
       [@ EXCEPT !.at = "lock", !.batch = b, !.body = spent.commits + 2]]
  /\ UNCHANGED <<rootFiles, lockfile, ghosts>>

\* write_lock: create_new makes an empty file, whose body follows, or finds one.
CreateLock(p) ==
  /\ proc[p].at = "lock"
  /\ IF lockfile = NoLock
     THEN /\ lockfile' = [by |-> p, empty |-> TRUE, stale |-> FALSE]
          /\ Goes(p, "fill")
     ELSE /\ proc' = [proc EXCEPT ![p] = [@ EXCEPT !.at = "look", !.taking = FALSE]]
          /\ UNCHANGED lockfile
  /\ UNCHANGED <<rootFiles, ghosts, spent>>

\* The call is over.
Ends(p) == proc' = [proc EXCEPT ![p] = [Rest("idle") EXCEPT !.gen = proc[p].gen]]

\* The body goes to the file that was created, wherever its name is by now.  When
\* it cannot be written, whatever bears the name is removed; the call fails, or tries
\* again if this was a takeover.
FillLock(p) ==
  /\ proc[p].at = "fill"
  /\ \/ /\ NoFault
        /\ lockfile' = IF lockfile.by = p THEN [lockfile EXCEPT !.empty = FALSE] ELSE lockfile
        /\ Goes(p, "open")
     \/ /\ Fault
        /\ lockfile' = NoLock
        /\ IF proc[p].taking THEN Goes(p, "lock") ELSE Ends(p)
  /\ UNCHANGED <<rootFiles, ghosts>>

\* lock_takeover: a heartbeat, or a file without a body, LOCK_STALE_AFTER old.  A
\* file that is gone by now counts as an old one.
TakenOver(lock) == lock.stale \/ lock = NoLock

LookAtLock(p) ==
  /\ proc[p].at = "look"
  /\ Goes(p, IF TakenOver(lockfile) THEN "remove" ELSE "lock")
  /\ UNCHANGED <<rootFiles, lockfile, ghosts, spent>>

\* The takeover removes whatever lockfile is there, then races to create its own.
RemoveLock(p) ==
  /\ proc[p].at = "remove"
  /\ lockfile' = NoLock
  /\ proc' = [proc EXCEPT ![p] = [@ EXCEPT !.at = "lock", !.taking = TRUE]]
  /\ UNCHANGED <<rootFiles, ghosts, spent>>

\* LOCK_WAIT is over.
GiveUp(p) ==
  /\ proc[p].at \in {"lock", "look"}
  /\ Ends(p)
  /\ UNCHANGED <<rootFiles, lockfile, ghosts, spent>>

-----------------------------------------------------------------------------
\* The generation of p's commit.
Upcoming(p) == proc[p].gen + 1
FileOf(p) == proc[p].batch[proc[p].next]
Bak(p, f) == <<f, Upcoming(p)>>

\* The journal as p has it in memory, with its first done files landed.
Journal(p, st, done) ==
  [state |-> st, gen |-> Upcoming(p), files |-> proc[p].batch, done |-> done]
Landed(p) == proc[p].next - 1
LandedFiles(p) == {proc[p].batch[k] : k \in 1..Landed(p)}

Writers == {q \in Instance : proc[q].at \in Writing}

\* commit_files: the journal opens as pending.
OpenJournal(p) ==
  /\ proc[p].at = "open"
  /\ \/ /\ NoFault
        /\ journal' = Journal(p, "pending", 0)
        /\ proc' = [proc EXCEPT ![p] = [@ EXCEPT !.at = "stage", !.next = 1]]
        /\ attempted' = [f \in File |-> IF f \in FilesOf(proc[p].batch)
                                        THEN proc[p].body ELSE expected[f]]
        /\ disturbed' = IF Writers = {} THEN disturbed \ {p}
                        ELSE disturbed \cup Writers \cup {p}
     \/ Fault /\ Goes(p, "drop") /\ UNCHANGED <<journal, attempted, disturbed>>
  /\ UNCHANGED <<target, backup, lockfile, expected, suspect>>

\* touch_heartbeat, then the first half of stage_and_land: the target's body is
\* copied to its backup.
StageFile(p) ==
  LET f == FileOf(p) IN
  /\ proc[p].at = "stage"
  /\ lockfile' = [by |-> p, empty |-> FALSE, stale |-> FALSE]
  /\ \/ /\ NoFault
        /\ backup' = IF target[f] # 0 THEN [backup EXCEPT ![Bak(p, f)] = target[f]] ELSE backup
        /\ proc' = [proc EXCEPT ![p] = [@ EXCEPT !.at = "land",
             !.had = IF target[f] # 0 THEN proc[p].had \cup {f} ELSE proc[p].had]]
     \/ Fault /\ Goes(p, "undo") /\ UNCHANGED backup
  /\ UNCHANGED <<target, journal, ghosts>>

\* The second half: the staged body is renamed over the target.
LandFile(p) ==
  LET f == FileOf(p) IN
  /\ proc[p].at = "land"
  /\ \/ /\ NoFault
        /\ target' = [target EXCEPT ![f] = proc[p].body]
        /\ Goes(p, "mark")
        /\ UNCHANGED backup
     \/ /\ Fault
        /\ backup' = [backup EXCEPT ![Bak(p, f)] = 0]
        /\ Goes(p, "undo")
        /\ UNCHANGED target
  /\ UNCHANGED <<journal, lockfile, ghosts>>

\* The entry is journaled as done, best effort.
MarkDone(p) ==
  /\ proc[p].at = "mark"
  /\ \/ NoFault /\ journal' = Journal(p, "pending", proc[p].next)
     \/ Fault /\ UNCHANGED journal
  /\ proc' = [proc EXCEPT ![p] =
       [@ EXCEPT !.next = proc[p].next + 1,
                 !.at = IF proc[p].next = Len(proc[p].batch) THEN "finish" ELSE "stage"]]
  /\ UNCHANGED <<target, backup, lockfile, ghosts>>

\* The journal is committed.  When that fails the error is returned at once.
Finish(p) ==
  LET mine == FilesOf(proc[p].batch) IN
  /\ proc[p].at = "finish"
  /\ \/ /\ NoFault
        /\ journal' = Journal(p, "committed", Landed(p))
        /\ expected' = [f \in File |-> IF f \in mine THEN proc[p].body ELSE expected[f]]
        /\ suspect' = IF p \in disturbed THEN suspect \cup mine ELSE suspect \ mine
        /\ Goes(p, "clean")
     \/ /\ Fault
        /\ suspect' = suspect \cup mine
        /\ Goes(p, "drop")
        /\ UNCHANGED <<journal, expected>>
  /\ UNCHANGED <<target, backup, lockfile, attempted, disturbed>>

\* The backups go and the process moves to the new generation.
Clean(p) ==
  /\ proc[p].at = "clean"
  /\ backup' = [fg \in File \X Generation |->
       IF fg[1] \in FilesOf(proc[p].batch) /\ fg[2] = Upcoming(p) THEN 0 ELSE backup[fg]]
  /\ proc' = [proc EXCEPT ![p] = [@ EXCEPT !.at = "drop", !.gen = proc[p].gen + 1]]
  /\ UNCHANGED <<target, journal, lockfile, ghosts, spent>>

\* Faulty Restored: the files that had landed stay.
RestoredNothing(p, stuck) == target

\* Every landed target gets its backup back, or goes when it had none, except those
\* whose rename or removal failed.
Restored(p, stuck) ==
  [f \in File |->
     IF f \notin LandedFiles(p) \ stuck THEN target[f]
     ELSE IF f \in proc[p].had THEN backup[Bak(p, f)] ELSE 0]

\* restore_landed: a file that cannot be restored is passed over.
Undo(p) ==
  /\ proc[p].at = "undo"
  /\ \E stuck \in SUBSET LandedFiles(p) :
       /\ IF stuck = {} THEN NoFault ELSE Fault
       /\ target' = Restored(p, stuck)
       /\ backup' = [fg \in File \X Generation |->
            IF fg[1] \in (LandedFiles(p) \ stuck) \cap proc[p].had /\ fg[2] = Upcoming(p)
            THEN 0 ELSE backup[fg]]
       /\ suspect' = suspect \cup stuck \cup
                     (IF p \in disturbed THEN FilesOf(proc[p].batch) ELSE {})
  /\ Goes(p, "undone")
  /\ UNCHANGED <<journal, lockfile, expected, attempted, disturbed>>

\* The failed batch is journaled as restored, best effort.
Undone(p) ==
  /\ proc[p].at = "undone"
  /\ \/ NoFault /\ journal' = Journal(p, "restored", Landed(p))
     \/ Fault /\ UNCHANGED journal
  /\ Goes(p, "drop")
  /\ UNCHANGED <<target, backup, lockfile, ghosts>>

\* lock_is_ours
Ours(p) == lockfile.by = p /\ ~ lockfile.empty

\* Drop of the ConfigLock.
DropLock(p) ==
  /\ proc[p].at = "drop"
  /\ lockfile' = IF Ours(p) THEN NoLock ELSE lockfile
  /\ Ends(p)
  /\ UNCHANGED <<rootFiles, ghosts, spent>>

-----------------------------------------------------------------------------
\* LOCK_STALE_AFTER passes without a heartbeat.
Age ==
  /\ lockfile # NoLock /\ ~ lockfile.stale
  /\ MayStall \/ lockfile.by = Dead
  /\ lockfile' = [lockfile EXCEPT !.stale = TRUE]
  /\ UNCHANGED <<rootFiles, proc, ghosts, spent>>

\* A process dies, its generation counter with it.
Die(p) ==
  /\ proc[p].at # "off" /\ spent.deaths < MaxDeath
  /\ spent' = [spent EXCEPT !.deaths = @ + 1]
  /\ lockfile' = IF lockfile.by = p THEN [lockfile EXCEPT !.by = Dead] ELSE lockfile
  /\ suspect' = IF proc[p].at \in Midway
                THEN suspect \cup FilesOf(proc[p].batch) ELSE suspect
  /\ proc' = [proc EXCEPT ![p] = Rest("off")]
  /\ UNCHANGED <<rootFiles, expected, attempted, disturbed>>

\* recover_at_startup takes no lock.  It reads the journal once.
Start(p) ==
  /\ proc[p].at = "off"
  /\ proc' = [proc EXCEPT ![p] =
       IF journal.state = "pending"
       THEN [Rest("recover") EXCEPT !.batch = journal.files, !.body = journal.gen,
                                    !.next = journal.done + 1]
       ELSE Rest("idle")]
  /\ UNCHANGED <<rootFiles, lockfile, ghosts, spent>>

\* The next entry that is not done: its backup comes back; without one, or when that
\* fails, its target goes, which may fail too.
Recover(p) ==
  LET f == FileOf(p)
      bak == <<f, proc[p].body>>
  IN
  /\ proc[p].at = "recover" /\ proc[p].next <= Len(proc[p].batch)
  /\ \/ /\ NoFault
        /\ target' = [target EXCEPT ![f] = backup[bak]]
        /\ backup' = [backup EXCEPT ![bak] = 0]
     \/ /\ Fault
        /\ target' \in {target, [target EXCEPT ![f] = 0]}
        /\ UNCHANGED backup
  /\ suspect' = suspect \cup {f}
  /\ disturbed' = disturbed \cup Writers
  /\ proc' = [proc EXCEPT ![p].next = @ + 1]
  /\ UNCHANGED <<journal, lockfile, expected, attempted>>

\* The journal that was read is written back as restored, best effort; nothing reads
\* the entries of a restored journal.
Recovered(p) ==
  /\ proc[p].at = "recover" /\ proc[p].next > Len(proc[p].batch)
  /\ \/ /\ NoFault
        /\ journal' = [state |-> "restored", gen |-> proc[p].body,
                       files |-> proc[p].batch, done |-> Len(proc[p].batch)]
     \/ Fault /\ UNCHANGED journal
  /\ proc' = [proc EXCEPT ![p] = Rest("idle")]
  /\ UNCHANGED <<target, backup, lockfile, ghosts>>

CommitStep(p) ==
  \/ OpenJournal(p) \/ StageFile(p) \/ LandFile(p) \/ MarkDone(p) \/ Finish(p) \/ Clean(p)
  \/ Undo(p) \/ Undone(p) \/ DropLock(p)

ConfigNext ==
  \/ \E p \in Instance :
       \/ \E b \in Batches : Acquire(p, b)
       \/ CreateLock(p) \/ FillLock(p) \/ LookAtLock(p) \/ RemoveLock(p) \/ GiveUp(p)
       \/ CommitStep(p)
       \/ Die(p) \/ Start(p) \/ Recover(p) \/ Recovered(p)
  \/ Age

ConfigSpec == ConfigInit /\ [][ConfigNext]_configVars

-----------------------------------------------------------------------------
Holders == {p \in Instance : proc[p].at \in Holding}

\* One holder at a time per configuration root (config_commit.rs:105-109).
OneHolder == \A p, q \in Holders : p = q

\* A commit changes all of its files or none, whatever fails in it.  What breaks
\* that stays within bounds: a death and a failed rollback damage files of their own
\* batch, a recovery the file it touches, a second writer the files of the commits
\* that overlapped, each until the next commit of that file that ran alone
\* (commit_files, restore_landed, recover_at_startup).
LastCommitStands ==
  \A f \in File \ suspect :
    \/ target[f] = expected[f]
    \/ \E p \in Instance : proc[p].at \in Midway /\ f \in FilesOf(proc[p].batch)

\* commit_files and recover_at_startup (config_commit.rs:3-10): once no commit is
\* under way or waiting for recovery, the files hold the last revision or the one
\* whose commit was interrupted, whole.
AllOrNothing ==
  \/ journal.state = "pending"
  \/ \E p \in Instance : proc[p].at \in Writing \cup {"recover"}
  \/ target \in {expected, attempted}
=============================================================================
