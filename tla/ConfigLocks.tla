----------------------------- MODULE ConfigLocks -----------------------------
(***************************************************************************)
(* The settings file, shared by the tasks of several processes.  Every     *)
(* access takes a lock of its process and then a lock file beside the file *)
(* (crates/infra/src/persistence/config.rs, fs/lock.rs); the lock file of  *)
(* a process that died is removed by the next who wants it.  Loading       *)
(* migrates the old format and puts a corrupt file aside                   *)
(* (crates/feature/src/config/sealantern/manager.rs).                      *)
(***************************************************************************)
EXTENDS Naturals, FiniteSets

CONSTANTS Processes, Tasks,
          Home,        \* [Tasks -> Processes], the process of a task
          MaxCrashes,  \* bound: deaths of processes
          Preference,  \* the setting a file of the old format holds
          None         \* nobody

ASSUME ConfigAssumption ==
    /\ Home \in [Tasks -> Processes]
    /\ MaxCrashes \in Nat
    /\ None \notin Tasks /\ Preference \notin Tasks

VARIABLES
    file,      \* [kind, fields]: what is at the path
    lockfile,  \* who created the lock file and in which life, or NoLock
    crashes,   \* deaths so far
    life,      \* the life of each process; its pid differs from life to life
    guard,     \* process_lock_registry: who holds the lock of the process
    loaded,    \* has the process loaded its settings?
    pc,        \* where each task is
    goal,      \* what it does under the lock: update, migrate, load, create
    seen,      \* what it read of the file last
    judged,    \* the lock file it judged to be stale
    dropped,   \* was its future dropped, so that a blocking closure is all that runs?
    answered,  \* history: updates answered with success, before an accident
    robbed,    \* history: was a lock file removed that was not the stale one?
    overlooked,\* history: did a load go on with the old format that is there?
    spoiled    \* history: has there been an accident, that one or another?

disk  == <<file, lockfile>>
procs == <<crashes, life, loaded>>
task  == <<pc, goal, seen, judged, dropped>>
ghosts == <<answered, robbed, overlooked, spoiled>>
vars  == <<disk, procs, guard, task, ghosts>>

Kinds  == {"missing", "corrupt", "legacy", "sound"}
Fields == Tasks \cup {Preference}
File(kind, fields) == [kind |-> kind, fields |-> fields]
Missing == File("missing", {})
NoLock  == [by |-> None, life |-> 0]
Goals   == {"update", "migrate", "load", "create"}

Mine(t) == [by |-> t, life |-> life[Home[t]]]
Dead(l) == l.life < life[Home[l.by]]

Init ==
    /\ file \in {Missing, File("corrupt", {}), File("legacy", {Preference}), File("sound", {})}
    /\ lockfile = NoLock
    /\ crashes = 0 /\ life = [p \in Processes |-> 0] /\ loaded = [p \in Processes |-> FALSE]
    /\ guard = [p \in Processes |-> None]
    /\ pc = [t \in Tasks |-> "idle"] /\ goal = [t \in Tasks |-> "load"]
    /\ seen = [t \in Tasks |-> Missing] /\ judged = [t \in Tasks |-> NoLock]
    /\ dropped = [t \in Tasks |-> FALSE]
    /\ answered = {} /\ robbed = FALSE /\ overlooked = FALSE /\ spoiled = FALSE

-----------------------------------------------------------------------------

At(t, label) == pc[t] = label
Goto(t, label) == pc' = [pc EXCEPT ![t] = label] /\ UNCHANGED <<goal, seen, judged, dropped>>
Enter(t, g) ==
    /\ pc' = [pc EXCEPT ![t] = "guard"] /\ goal' = [goal EXCEPT ![t] = g]
    /\ seen' = [seen EXCEPT ![t] = Missing]
    /\ UNCHANGED <<judged, dropped>>

\* The end of an operation; nothing it knew is kept.
Finish(t) ==
    /\ pc' = [pc EXCEPT ![t] = "idle"] /\ goal' = [goal EXCEPT ![t] = "load"]
    /\ seen' = [seen EXCEPT ![t] = Missing] /\ judged' = [judged EXCEPT ![t] = NoLock]
    /\ dropped' = [dropped EXCEPT ![t] = FALSE]

\* After an accident the promise is over, and with it the record of answers.
Accident(yes) ==
    /\ spoiled' = (spoiled \/ yes)
    /\ answered' = IF yes THEN {} ELSE answered

\* The guard of the process is freed unless the future that held it is gone.
Free(t) == guard' = IF dropped[t] THEN guard ELSE [guard EXCEPT ![Home[t]] = None]

\* A future that holds the lock of the file.
Inside(t) == pc[t] \in {"read", "write", "unlock"} /\ ~dropped[t]

\* Drop of the lock file, whose error is only logged: it stays if it cannot be
\* removed, and locks everybody out until its process is gone.
Release == lockfile' \in {NoLock, lockfile}

\* What it holds is given back when it ends early.
GiveBack(t) ==
    /\ guard' = IF guard[Home[t]] = t THEN [guard EXCEPT ![Home[t]] = None] ELSE guard
    /\ IF Inside(t) THEN Release ELSE UNCHANGED lockfile

\* A load goes on without having migrated the file.
Unmigrated == overlooked' = (overlooked \/ file.kind = "legacy")

-----------------------------------------------------------------------------
(* lock_config: the lock of the process, then FileLock::try_acquire, which *)
(* runs to its end on a blocking thread.                                   *)

Guard(t) ==
    /\ At(t, "guard") /\ guard[Home[t]] = None
    /\ guard' = [guard EXCEPT ![Home[t]] = t]
    /\ Goto(t, "create")
    /\ UNCHANGED <<disk, procs, ghosts>>

\* create_new; a future that was dropped gives the lock back at once.
Create(t, label) ==
    /\ At(t, label) /\ lockfile = NoLock
    /\ lockfile' \in IF dropped[t] THEN {NoLock, Mine(t)} ELSE {Mine(t)}
    /\ IF dropped[t] THEN Finish(t) ELSE Goto(t, "read")
    /\ UNCHANGED <<file, procs, guard, ghosts>>

\* Mutant: any lock file that is there is taken for stale.
ExistsAny(t) ==
    /\ At(t, "create") /\ lockfile # NoLock
    /\ judged' = [judged EXCEPT ![t] = lockfile]
    /\ pc' = [pc EXCEPT ![t] = "remove"]
    /\ UNCHANGED <<disk, procs, guard, goal, seen, dropped, ghosts>>

\* A lock file is there: stale is one whose process is gone, by its pid or,
\* if that was never written, by its age.
Exists(t) ==
    /\ At(t, "create") /\ lockfile # NoLock /\ Dead(lockfile)
    /\ judged' = [judged EXCEPT ![t] = lockfile]
    /\ pc' = [pc EXCEPT ![t] = "remove"]
    /\ UNCHANGED <<disk, procs, guard, goal, seen, dropped, ghosts>>

\* recover_stale_lock removes the file at that path, whosever it is by now.
Remove(t) ==
    /\ At(t, "remove")
    /\ lockfile' = NoLock
    /\ robbed' = (robbed \/ lockfile \notin {NoLock, judged[t]})
    /\ Accident(lockfile \notin {NoLock, judged[t]})
    /\ pc' = [pc EXCEPT ![t] = "again"] /\ judged' = [judged EXCEPT ![t] = NoLock]
    /\ UNCHANGED <<file, procs, guard, goal, seen, dropped, overlooked>>

\* Mutant: the lock of the process is not given back with the error.
LockedKeeps(t) ==
    /\ \/ At(t, "create") /\ lockfile # NoLock /\ ~Dead(lockfile)
       \/ At(t, "again") /\ lockfile # NoLock
    /\ Finish(t)
    /\ UNCHANGED <<disk, procs, guard, ghosts>>

\* AlreadyLocked: nobody waits for the lock file.
Locked(t) ==
    /\ \/ At(t, "create") /\ lockfile # NoLock /\ ~Dead(lockfile)
       \/ At(t, "again") /\ lockfile # NoLock
    /\ Free(t) /\ Finish(t)
    /\ UNCHANGED <<disk, procs, ghosts>>

-----------------------------------------------------------------------------
(* Under the lock: read, perhaps write, unlock.                            *)

\* What serde makes of the file: it knows nothing of the old format's fields,
\* takes the defaults instead, and finds the version to be the current one.
Parsed == IF file.kind = "legacy" THEN {} ELSE file.fields

\* Mutant: migrate goes by what it read before it had the lock.
ResultPeeked(t) ==
    CASE goal[t] = "update" /\ file.kind # "corrupt"  -> File("sound", Parsed \cup {t})
      [] goal[t] = "migrate"                          -> File("sound", {Preference})
      [] goal[t] = "create" /\ file.kind = "missing"  -> File("sound", {})
      [] OTHER                                        -> file

\* What is to be written, given what was read; nothing, if that is None.
Result(t) ==
    CASE goal[t] = "update" /\ file.kind # "corrupt"  -> File("sound", Parsed \cup {t})
      [] goal[t] = "migrate" /\ file.kind = "legacy"  -> File("sound", file.fields)
      [] goal[t] = "create" /\ file.kind = "missing"  -> File("sound", {})
      [] OTHER                                        -> file

\* Of what was read or written the rest of the operation needs the kind, and
\* whether its update is in it.
Outcome(f, t) == File(f.kind, f.fields \cap {t})

Read(t) ==
    /\ At(t, "read")
    /\ IF Result(t) = file
       THEN pc' = [pc EXCEPT ![t] = "unlock"] /\ seen' = [seen EXCEPT ![t] = Outcome(file, t)]
       ELSE pc' = [pc EXCEPT ![t] = "write"] /\ seen' = [seen EXCEPT ![t] = Result(t)]
    /\ UNCHANGED <<disk, procs, guard, goal, judged, dropped, ghosts>>

\* Path::exists says no also where it cannot tell: an update then starts from the
\* defaults, and load_or_create writes them, over the file that is there.
TakeForAbsent(t) ==
    /\ At(t, "read") /\ goal[t] \in {"update", "create"} /\ file.kind # "missing"
    /\ pc' = [pc EXCEPT ![t] = "write"]
    /\ seen' = [seen EXCEPT ![t] = File("sound", IF goal[t] = "update" THEN {t} ELSE {})]
    /\ Accident(TRUE)
    /\ UNCHANGED <<disk, procs, guard, goal, judged, dropped, robbed, overlooked>>

\* write_atomic, on a blocking thread: it happens also after its future was
\* dropped and the locks were given back.
Write(t) ==
    /\ At(t, "write")
    /\ file' = seen[t] /\ overlooked' = FALSE
    /\ Accident(dropped[t])
    /\ IF dropped[t] THEN Finish(t)
       ELSE /\ pc' = [pc EXCEPT ![t] = "unlock"]
            /\ seen' = [seen EXCEPT ![t] = Outcome(@, t)]
            /\ UNCHANGED <<goal, judged, dropped>>
    /\ UNCHANGED <<lockfile, procs, guard, robbed>>

\* Drop of the guards; what follows depends on what was read.
Unlock(t) ==
    /\ At(t, "unlock")
    /\ Release /\ Free(t)
    /\ CASE goal[t] = "update"  -> Finish(t)
         [] goal[t] = "migrate" -> Enter(t, "load")
         [] goal[t] = "load" /\ seen[t].kind = "missing" -> Enter(t, "create")
         [] goal[t] = "load" /\ seen[t].kind = "corrupt" -> Goto(t, "aside")
         [] OTHER -> Finish(t)
    /\ answered' = IF goal[t] = "update" /\ t \in seen[t].fields /\ ~spoiled
                  THEN answered \cup {t} ELSE answered
    /\ loaded' = [loaded EXCEPT ![Home[t]] =
                    @ \/ (goal[t] \in {"load", "create"} /\ seen[t].kind \in {"sound", "legacy"})]
    /\ UNCHANGED <<file, crashes, life, robbed, overlooked, spoiled>>

-----------------------------------------------------------------------------
(* Operations of SettingsManager.                                          *)

\* update_partial, which reads the file anew under the lock.
BeginUpdate(t) ==
    /\ At(t, "idle") /\ loaded[Home[t]]
    /\ Enter(t, "update")
    /\ UNCHANGED <<disk, procs, guard, ghosts>>

\* load looks at the format without a lock and takes one to migrate; a file it
\* cannot read here it takes for one that needs no migration.
BeginLoad(t) ==
    /\ At(t, "idle")
    /\ \/ file.kind = "legacy" /\ Enter(t, "migrate") /\ UNCHANGED overlooked
       \/ Enter(t, "load") /\ Unmigrated
    /\ UNCHANGED <<disk, procs, guard, answered, robbed, spoiled>>

\* quarantine_corrupt_file renames what is at the path, without a lock.
PutAside(t) ==
    /\ At(t, "aside")
    /\ IF file.kind = "missing" THEN Finish(t) ELSE Enter(t, "create")
    /\ file' = Missing /\ overlooked' = FALSE
    /\ Accident(file.kind = "sound")
    /\ UNCHANGED <<lockfile, procs, guard, robbed>>

\* Every access to the disk may fail; the error ends the operation and leaves the
\* file as it was, or comes after the file was replaced, as if abandoned then.  But a migration that cannot read the file under the lock
\* says that there is nothing to migrate, and the load goes on.
IoError(t) ==
    /\ pc[t] \in {"create", "remove", "again", "read", "write", "aside"}
    /\ \/ Finish(t) /\ UNCHANGED overlooked
       \/ At(t, "read") /\ goal[t] = "migrate" /\ Enter(t, "load") /\ Unmigrated
    /\ GiveBack(t)
    /\ UNCHANGED <<file, procs, answered, robbed, spoiled>>

-----------------------------------------------------------------------------

\* The future of a request is dropped: its guards are, a closure that runs on
\* a blocking thread goes on.
Abandon(t) ==
    /\ pc[t] \notin {"idle", "aside"} /\ ~dropped[t]
    /\ IF pc[t] \in {"create", "remove", "again", "write"}
       THEN dropped' = [dropped EXCEPT ![t] = TRUE] /\ UNCHANGED <<pc, goal, seen, judged>>
       ELSE Finish(t)
    /\ GiveBack(t)
    /\ UNCHANGED <<file, procs, ghosts>>

\* A process dies and is started again with another pid; its lock file stays.
Crash(p) ==
    /\ crashes < MaxCrashes /\ crashes' = crashes + 1
    /\ life' = [life EXCEPT ![p] = @ + 1] /\ loaded' = [loaded EXCEPT ![p] = FALSE]
    /\ guard' = [guard EXCEPT ![p] = None]
    /\ LET Reset(f, v) == [t \in Tasks |-> IF Home[t] = p THEN v ELSE f[t]]
       IN  /\ pc' = Reset(pc, "idle") /\ goal' = Reset(goal, "load")
           /\ seen' = Reset(seen, Missing) /\ judged' = Reset(judged, NoLock)
           /\ dropped' = Reset(dropped, FALSE)
    /\ UNCHANGED <<disk, ghosts>>

Step(t) == Guard(t) \/ Create(t, "create") \/ Create(t, "again") \/ Exists(t) \/ Remove(t)
              \/ Locked(t) \/ Read(t) \/ TakeForAbsent(t) \/ Write(t) \/ Unlock(t) \/ PutAside(t) \/ IoError(t)

Next == \/ \E t \in Tasks : Step(t) \/ BeginUpdate(t) \/ BeginLoad(t) \/ Abandon(t)
        \/ \E p \in Processes : Crash(p)

Spec == Init /\ [][Next]_vars

-----------------------------------------------------------------------------

\* The types, and the lock of a process is held by exactly the task whose future
\* is between taking and leaving it.
TypeOK ==
    /\ file \in [kind : Kinds, fields : SUBSET Fields]
    /\ lockfile \in [by : Tasks \cup {None}, life : 0..MaxCrashes]
    /\ crashes \in 0..MaxCrashes /\ life \in [Processes -> 0..MaxCrashes] /\ loaded \in [Processes -> BOOLEAN]
    /\ \A p \in Processes : guard[p] # None => guard[p] \in Tasks /\ Home[guard[p]] = p
    /\ \A t \in Tasks :
         /\ guard[Home[t]] = t <=> pc[t] \notin {"idle", "guard", "aside"} /\ ~dropped[t]
         /\ pc[t] \in {"idle", "guard", "create", "remove", "again", "read", "write", "unlock", "aside"}
         /\ goal[t] \in Goals /\ seen[t] \in [kind : Kinds, fields : SUBSET Fields]
         /\ judged[t] = NoLock \/ judged[t].by \in Tasks
    /\ answered \subseteq Tasks /\ overlooked \in BOOLEAN
    /\ robbed \in BOOLEAN /\ spoiled \in BOOLEAN /\ (robbed => spoiled)

\* Two tasks are never under the lock of the file at once, of one process or
\* of two, whatever process died, unless a lock file was removed that had
\* taken the place of the stale one (lock.rs, recover_stale_lock).
InsideAlone ==
    ~robbed =>
        \A s, t \in Tasks : Inside(s) /\ Inside(t) => s = t

\* Every change of the file is one whole operation, and an update that was
\* answered is in the file from then on, whatever errors, deaths and dropped
\* futures come between, until the first of four accidents: a lock file removed
\* that was not stale, a sound file put aside, a write that came after its future
\* was dropped, a file that is there taken for absent.  The setting of an old file outlives the migration too, unless a
\* load could not read the file when it looked for the old format.
Cell == INSTANCE ConfigCell WITH
            Updates <- Tasks, kind <- file.kind, fields <- file.fields
KeepsCell == Cell!Spec

=============================================================================
