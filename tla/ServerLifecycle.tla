-------------------------- MODULE ServerLifecycle --------------------------
(***************************************************************************)
(* CoreServerService (application/src/service/server.rs) seen from one     *)
(* instance: the process table entry, the starting and stopping flags, the *)
(* weakly held lifecycle mutex, the operating system's processes, and any  *)
(* number of concurrent callers.                                           *)
(*                                                                         *)
(* A label of pc[c] is a point where caller c can be interrupted: an await *)
(* or a moment where it holds no std::sync::Mutex.  An action runs from    *)
(* one such point to the next, so a critical section of the process table  *)
(* is one step.                                                            *)
(***************************************************************************)
EXTENDS Naturals, FiniteSets

CONSTANTS Callers,      \* concurrent calls into the service
          Locks,        \* identities of AsyncMutex allocations
          None,         \* no lock, no caller
          MaxSpawn,     \* bound: processes spawned in a behaviour
          FailingKills, \* callers whose terminate_tree may fail on a running process
          Cancellable   \* callers whose future the host may drop at an await

ASSUME LifecycleAssumption ==
    /\ MaxSpawn \in Nat
    /\ FailingKills \subseteq Callers
    /\ Cancellable \subseteq Callers
    /\ None \notin Callers \union Locks

VARIABLES entry,     \* processes[id]: the pid of the managed process, 0 if absent
          recorder,  \* does the managed process hold a LogRecorder?
          live,      \* pids the operating system is running
          spawned,   \* how many pids were handed out; pids are 1, 2, ...
          starting,  \* id \in starting
          stopping,  \* id \in stopping
          slot,      \* lifecycle_locks[id]: the mutex the Weak names
          ref,       \* ref[c]: the mutex caller c keeps alive with an Arc
          owner,     \* owner[l]: the caller that holds mutex l
          pc, op,    \* where each caller is, in which operation
          mine,      \* mine[c]: the pid the start of c spawned, 0 before
          late,      \* late[c]: the deadline of the stop or restart of c passed
          registered, \* does the registry's memory hold the instance?
          asked,     \* history: pids to which a stop or restart wrote "stop"
          forsaken,  \* history: pids whose start was dropped, or not rolled back
          removedAt  \* history: while it is deleted, spawned when it was

table   == <<entry, recorder>>
flags   == <<starting, stopping>>
system  == <<live, spawned>>
mutexes == <<slot, ref, owner>>
locals  == <<op, mine, late>>
records == <<registered, asked, forsaken, removedAt>>
vars    == <<table, system, flags, mutexes, pc, locals, records>>

LockedOps == {"start", "restart", "stop", "force"}
Ops       == LockedOps \union {"status", "command"}
Resting   == {"idle", "ok", "err", "cancelled"}
Starting  == {"start_check", "start_reap", "start_build", "start_spawn", "start_insert",
              "start_persist", "start_rollback", "start_take", "start_record"}
Labels    == Resting \union Starting \union
             {"lock", "wait", "lookup", "send", "stop_mark", "stop_poll", "stop_kill",
              "stop_remove", "stop_drain", "restart_reap", "restart_read",
              "await_reap", "await_read", "force_kill", "status_reap"}
Pids      == 1..MaxSpawn

\* The awaits at which a dropped future stops; elsewhere a call runs on.
AwaitPoints == {"wait", "lookup", "start_build", "start_persist", "start_record",
                "stop_poll", "stop_drain", "await_reap"}

FirstStep(o) == CASE o = "start"   -> "start_check"
                  [] o = "restart" -> "restart_reap"
                  [] o = "stop"    -> "send"
                  [] o = "force"   -> "force_kill"
                  [] o = "status"  -> "status_reap"
                  [] o = "command" -> "send"

Init ==
    /\ entry = 0 /\ recorder = FALSE
    /\ live = {} /\ spawned = 0
    /\ starting = FALSE /\ stopping = FALSE
    /\ slot = None
    /\ ref = [c \in Callers |-> None]
    /\ owner = [l \in Locks |-> None]
    /\ pc = [c \in Callers |-> "idle"]
    /\ op = [c \in Callers |-> "status"]
    /\ mine = [c \in Callers |-> 0]
    /\ late = [c \in Callers |-> FALSE]
    /\ registered = TRUE
    /\ asked = {} /\ forsaken = {} /\ removedAt = 0

-----------------------------------------------------------------------------
(* Shared pieces of the steps.                                              *)

\* managed.daemon.poll() finds the managed process gone.
Exited  == entry # 0 /\ entry \notin live
Running == entry \in live

Goto(c, label) == pc' = [pc EXCEPT ![c] = label] /\ UNCHANGED <<mutexes, locals>>

\* The call returns: its guard unlocks the mutex and its Arc is dropped.
Return(c, outcome) ==
    /\ pc' = [pc EXCEPT ![c] = outcome]
    /\ owner' = [l \in Locks |-> IF owner[l] = c THEN None ELSE owner[l]]
    /\ ref' = [ref EXCEPT ![c] = None]
    /\ op' = [op EXCEPT ![c] = "status"]
    /\ mine' = [mine EXCEPT ![c] = 0]
    /\ late' = [late EXCEPT ![c] = FALSE]
    /\ UNCHANGED slot

RemoveEntry == entry' = 0 /\ recorder' = FALSE

\* Mutant: the entry is taken without polling its process.
ReapWithoutPoll == IF entry # 0 THEN RemoveEntry ELSE UNCHANGED table

\* take_recorder_after_exit: the entry goes only if its process has exited.
ReapIfExited == IF Exited THEN RemoveEntry ELSE UNCHANGED table

\* Mutant: terminate_tree returns when the signal is sent, without waiting.
KillSignalled == Running /\ UNCHANGED system

\* terminate_tree returns Ok only for a process that poll still finds running.
KillOk == Running /\ live' = live \ {entry} /\ UNCHANGED spawned
KillErr(c) == (Exited \/ (Running /\ c \in FailingKills)) /\ UNCHANGED system

-----------------------------------------------------------------------------
(* Entering a call: lock_lifecycle, then find_instance.                     *)

Call(c) ==
    /\ pc[c] \in Resting
    /\ \E o \in Ops :
        /\ op' = [op EXCEPT ![c] = o]
        /\ pc' = [pc EXCEPT ![c] = IF o \in LockedOps THEN "lock" ELSE "lookup"]
    /\ UNCHANGED <<table, system, flags, mutexes, mine, late, records>>

\* Mutant: every call puts a new mutex into the map.
TakeNewLock(c) ==
    /\ pc[c] = "lock"
    /\ \E l \in Locks :
        /\ \A d \in Callers : ref[d] # l
        /\ slot' = l
        /\ ref' = [ref EXCEPT ![c] = l]
    /\ pc' = [pc EXCEPT ![c] = "wait"]
    /\ UNCHANGED <<table, system, flags, owner, locals, records>>

\* Upgrade the Weak while some Arc is alive, otherwise put in a new mutex.
TakeLock(c) ==
    /\ pc[c] = "lock"
    /\ \E l \in Locks :
        /\ IF \E d \in Callers : slot # None /\ ref[d] = slot
           THEN l = slot
           ELSE \A d \in Callers : ref[d] # l
        /\ slot' = l
        /\ ref' = [ref EXCEPT ![c] = l]
    /\ pc' = [pc EXCEPT ![c] = "wait"]
    /\ UNCHANGED <<table, system, flags, owner, locals, records>>

Acquire(c) ==
    /\ pc[c] = "wait"
    /\ owner[ref[c]] = None
    /\ owner' = [owner EXCEPT ![ref[c]] = c]
    /\ pc' = [pc EXCEPT ![c] = "lookup"]
    /\ UNCHANGED <<table, system, flags, slot, ref, locals, records>>

\* find reads the registry's memory; an instance that is not there is an error.
Lookup(c) ==
    /\ pc[c] = "lookup"
    /\ IF registered THEN Goto(c, FirstStep(op[c])) ELSE Return(c, "err")
    /\ UNCHANGED <<table, system, flags, records>>

-----------------------------------------------------------------------------
(* start_unlocked, also the last part of a restart.                         *)

\* Mutant: the running process is not checked for.
StartUnchecked(c) ==
    /\ pc[c] = "start_check"
    /\ Goto(c, "start_reap")
    /\ UNCHANGED <<table, system, flags, records>>

StartCheck(c) ==
    /\ pc[c] = "start_check"
    /\ IF Running THEN Return(c, "err") ELSE Goto(c, "start_reap")
    /\ UNCHANGED <<table, system, flags, records>>

StartReap(c) ==
    /\ pc[c] = "start_reap"
    /\ ReapIfExited
    /\ Goto(c, "start_build")
    /\ UNCHANGED <<system, flags, records>>

\* build_process_command, which may scan for Java installations.
StartBuild(c) ==
    /\ pc[c] = "start_build"
    /\ Goto(c, "start_spawn") \/ Return(c, "err")
    /\ UNCHANGED <<table, system, flags, records>>

SpawnFails(c) ==
    /\ pc[c] = "start_spawn"
    /\ Return(c, "err")
    /\ UNCHANGED <<table, system, flags, records>>

\* Mutant: the pid is taken from the counter before it moves.
SpawnOldPid(c) ==
    /\ pc[c] = "start_spawn"
    /\ spawned < MaxSpawn
    /\ spawned' = spawned + 1
    /\ live' = live \union {spawned}
    /\ mine' = [mine EXCEPT ![c] = spawned]
    /\ starting' = TRUE
    /\ pc' = [pc EXCEPT ![c] = "start_insert"]
    /\ UNCHANGED <<table, stopping, mutexes, op, late, records>>

Spawn(c) ==
    /\ pc[c] = "start_spawn"
    /\ spawned < MaxSpawn
    /\ spawned' = spawned + 1
    /\ live' = live \union {spawned + 1}
    /\ mine' = [mine EXCEPT ![c] = spawned + 1]
    /\ starting' = TRUE
    /\ pc' = [pc EXCEPT ![c] = "start_insert"]
    /\ UNCHANGED <<table, stopping, mutexes, op, late, records>>

Insert(c) ==
    /\ pc[c] = "start_insert"
    /\ entry' = mine[c] /\ recorder' = FALSE
    /\ Goto(c, "start_persist")
    /\ UNCHANGED <<system, flags, records>>

\* Mutant: the record is written back whether or not it is still there.
PersistAnyway(c) ==
    /\ pc[c] = "start_persist"
    /\ Goto(c, "start_take") \/ Goto(c, "start_rollback")
    /\ UNCHANGED <<table, system, flags, records>>

\* update_last_started: the save fails, or the instance was deleted meanwhile.
PersistStart(c) ==
    /\ pc[c] = "start_persist"
    /\ (registered /\ Goto(c, "start_take")) \/ Goto(c, "start_rollback")
    /\ UNCHANGED <<table, system, flags, records>>

\* force_stop_unlocked, whose error is only logged, then clear_starting.
Rollback(c) ==
    /\ pc[c] = "start_rollback"
    /\ \/ KillOk /\ RemoveEntry /\ stopping' = FALSE /\ UNCHANGED forsaken
       \/ entry = 0 /\ stopping' = FALSE /\ UNCHANGED <<table, system, forsaken>>
       \/ KillErr(c) /\ forsaken' = forsaken \union {entry} /\ UNCHANGED <<table, stopping>>
    /\ starting' = FALSE
    /\ Return(c, "err")
    /\ UNCHANGED <<registered, asked, removedAt>>

\* A status call may already have reaped the process; starting then stays set.
TakeOutput(c) ==
    /\ pc[c] = "start_take"
    /\ IF entry = 0 THEN Return(c, "err") ELSE Goto(c, "start_record")
    /\ UNCHANGED <<table, system, flags, records>>

\* Mutant: the flag is not cleared.
AttachKeepsStarting(c) ==
    /\ pc[c] = "start_record"
    /\ recorder' = (entry # 0)
    /\ Return(c, "ok")
    /\ UNCHANGED <<entry, system, flags, records>>

AttachRecorder(c) ==
    /\ pc[c] = "start_record"
    /\ recorder' = (entry # 0)
    /\ starting' = FALSE
    /\ Return(c, "ok")
    /\ UNCHANGED <<entry, system, stopping, records>>

StartStep(c) == \/ StartCheck(c) \/ StartReap(c) \/ StartBuild(c)
                \/ SpawnFails(c) \/ Spawn(c) \/ Insert(c) \/ PersistStart(c)
                \/ Rollback(c) \/ TakeOutput(c) \/ AttachRecorder(c)

-----------------------------------------------------------------------------
(* send_command_inner and stop_unlocked.                                    *)

\* No entry, an exited process, or a write error on its standard input.
SendFails(c) ==
    /\ pc[c] = "send"
    /\ Return(c, "err")
    /\ UNCHANGED <<table, system, flags, records>>

Send(c) ==
    /\ pc[c] = "send"
    /\ Running
    /\ IF op[c] = "command"
       THEN Return(c, "ok") /\ UNCHANGED asked
       ELSE Goto(c, "stop_mark") /\ asked' = asked \union {entry}
    /\ UNCHANGED <<table, system, flags, registered, forsaken, removedAt>>

MarkStopping(c) ==
    /\ pc[c] = "stop_mark"
    /\ stopping' = TRUE
    /\ Goto(c, IF op[c] = "stop" THEN "stop_poll" ELSE "await_reap")
    /\ UNCHANGED <<table, system, starting, records>>

\* Mutant: the deadline is computed anew on every turn of the loop.
DeadlineRecomputed(c) ==
    /\ pc[c] \in {"stop_poll", "await_reap", "await_read"}
    /\ late' = [late EXCEPT ![c] = FALSE]
    /\ UNCHANGED <<table, system, flags, mutexes, pc, op, mine, records>>

DeadlinePasses(c) ==
    /\ pc[c] \in {"stop_poll", "await_reap", "await_read"}
    /\ ~late[c]
    /\ late' = [late EXCEPT ![c] = TRUE]
    /\ UNCHANGED <<table, system, flags, mutexes, pc, op, mine, records>>

\* One turn of the polling loop; with the process running it only sleeps.
StopPoll(c) ==
    /\ pc[c] = "stop_poll"
    /\ \/ /\ entry = 0
          /\ stopping' = FALSE
          /\ Return(c, "ok")
          /\ UNCHANGED <<table, starting>>
       \/ /\ Exited /\ recorder
          /\ RemoveEntry
          /\ stopping' = FALSE
          /\ Goto(c, "stop_drain")
          /\ UNCHANGED starting
       \/ /\ Exited /\ ~recorder
          /\ RemoveEntry
          /\ Goto(c, IF late[c] THEN "stop_kill" ELSE "stop_poll")
          /\ UNCHANGED flags
       \/ /\ Running /\ late[c]
          /\ Goto(c, "stop_kill")
          /\ UNCHANGED <<table, flags>>
    /\ UNCHANGED <<system, records>>

\* On an error the managed process and the stopping flag stay as they are.
StopKill(c) ==
    /\ pc[c] = "stop_kill"
    /\ \/ KillOk /\ Goto(c, "stop_remove")
       \/ entry = 0 /\ Goto(c, "stop_remove") /\ UNCHANGED system
       \/ KillErr(c) /\ Return(c, "err")
    /\ UNCHANGED <<table, flags, records>>

StopRemove(c) ==
    /\ pc[c] = "stop_remove"
    /\ RemoveEntry
    /\ stopping' = FALSE
    /\ IF recorder THEN Goto(c, "stop_drain") ELSE Return(c, "ok")
    /\ UNCHANGED <<system, starting, records>>

StopDrain(c) ==
    /\ pc[c] = "stop_drain"
    /\ Return(c, "ok")
    /\ UNCHANGED <<table, system, flags, records>>

StopStep(c) == \/ SendFails(c) \/ Send(c) \/ MarkStopping(c) \/ StopPoll(c)
               \/ StopKill(c) \/ StopRemove(c) \/ StopDrain(c)

\* force_stop_unlocked: one critical section of the process table.
ForceStop(c) ==
    /\ pc[c] = "force_kill"
    /\ \/ KillOk /\ RemoveEntry /\ starting' = FALSE /\ stopping' = FALSE /\ Return(c, "ok")
       \/ /\ entry = 0
          /\ starting' = FALSE /\ stopping' = FALSE
          /\ Return(c, "ok")
          /\ UNCHANGED <<table, system>>
       \/ KillErr(c) /\ Return(c, "err") /\ UNCHANGED <<table, flags>>
    /\ UNCHANGED records

-----------------------------------------------------------------------------
(* restart: status_for_instance takes the process table twice.              *)

\* What the second critical section of status_for_instance reports.
Reported == CASE entry = 0 -> "Stopped"
              [] entry # 0 /\ stopping -> "Stopping"
              [] entry # 0 /\ ~stopping /\ starting -> "Starting"
              [] OTHER -> "Running"

\* take_recorder_after_exit yields a recorder: the status is Stopped at once.
RestartReap(c) ==
    /\ pc[c] \in {"restart_reap", "await_reap"}
    /\ ReapIfExited
    /\ IF Exited /\ recorder
       THEN /\ starting' = FALSE /\ stopping' = FALSE
            /\ Goto(c, "start_check")
       ELSE /\ Goto(c, IF pc[c] = "restart_reap" THEN "restart_read" ELSE "await_read")
            /\ UNCHANGED flags
    /\ UNCHANGED <<system, records>>

\* Stopped: clear both flags and start; active: ask it to stop, or wait, or
\* give up with TerminalState, leaving the stopping flag set.
RestartRead(c) ==
    /\ pc[c] \in {"restart_read", "await_read"}
    /\ \/ /\ Reported = "Stopped"
          /\ starting' = FALSE /\ stopping' = FALSE
          /\ Goto(c, "start_check")
       \/ /\ Reported # "Stopped" /\ pc[c] = "restart_read"
          /\ Goto(c, "send")
          /\ UNCHANGED flags
       \/ /\ Reported # "Stopped" /\ pc[c] = "await_read"
          /\ IF late[c] THEN Return(c, "err") ELSE Goto(c, "await_reap")
          /\ UNCHANGED flags
    /\ UNCHANGED <<table, system, records>>

\* status and server_stopped: whoever asks also reaps, without the lock.
StatusReap(c) ==
    /\ pc[c] = "status_reap"
    /\ ReapIfExited
    /\ Return(c, "ok")
    /\ UNCHANGED <<system, flags, records>>

-----------------------------------------------------------------------------
(* The environment.                                                         *)

ProcessExit(p) ==
    /\ p \in live
    /\ live' = live \ {p}
    /\ UNCHANGED <<table, spawned, flags, mutexes, pc, locals, records>>

\* The host drops the future of a call that is suspended at an await.
Cancel(c) ==
    /\ c \in Cancellable
    /\ pc[c] \in AwaitPoints
    /\ Return(c, "cancelled")
    /\ forsaken' = forsaken \union ({mine[c]} \ {0})
    /\ UNCHANGED <<table, system, flags, registered, asked, removedAt>>

\* CoreInstanceService::delete, which asks nobody whether the server runs.
DeleteInstance ==
    /\ registered
    /\ registered' = FALSE
    /\ removedAt' = spawned
    /\ UNCHANGED <<table, system, flags, mutexes, pc, locals, asked, forsaken>>

\* The caller of create chooses the identifier, maybe one that was deleted.
CreateInstance ==
    /\ ~registered
    /\ registered' = TRUE /\ removedAt' = 0
    /\ UNCHANGED <<table, system, flags, mutexes, pc, locals, asked, forsaken>>

Progress(c) == \/ TakeLock(c) \/ Acquire(c) \/ Lookup(c) \/ StartStep(c) \/ StopStep(c)
               \/ ForceStop(c) \/ RestartReap(c) \/ RestartRead(c) \/ StatusReap(c)

Next == \/ \E c \in Callers : Call(c) \/ Progress(c) \/ DeadlinePasses(c) \/ Cancel(c)
        \/ \E p \in Pids : ProcessExit(p)
        \/ DeleteInstance \/ CreateInstance

Spec == Init /\ [][Next]_vars

\* Tasks are scheduled and clocks advance; tokio's mutex is first come, first
\* served, so a waiting call gets it if it is released again and again.
\* Nothing is assumed of users, of processes, or of cancellation.
FairSpec ==
    /\ Spec
    /\ \A c \in Callers : /\ WF_vars(Progress(c)) /\ WF_vars(DeadlinePasses(c))
                          /\ SF_vars(Acquire(c))

-----------------------------------------------------------------------------
(* Properties.                                                              *)

TypeOK ==
    /\ entry \in 0..MaxSpawn /\ recorder \in BOOLEAN
    /\ live \subseteq Pids /\ spawned \in 0..MaxSpawn
    /\ starting \in BOOLEAN /\ stopping \in BOOLEAN
    /\ slot \in Locks \union {None}
    /\ ref \in [Callers -> Locks \union {None}]
    /\ owner \in [Locks -> Callers \union {None}]
    /\ pc \in [Callers -> Labels] /\ op \in [Callers -> Ops]
    /\ mine \in [Callers -> 0..MaxSpawn]
    /\ late \in [Callers -> BOOLEAN]
    /\ registered \in BOOLEAN
    /\ asked \subseteq Pids /\ forsaken \subseteq Pids /\ removedAt \in 0..MaxSpawn

\* Caller c is inside start, restart, stop or force_stop, past lock_lifecycle.
Inside(c) == op[c] \in LockedOps /\ pc[c] \notin Resting \union {"lock", "wait"}

\* The instance's operations exclude each other although the mutex is only
\* weakly held by the map and is recreated whenever nobody refers to it.
Exclusive == \A c, d \in Callers : Inside(c) /\ Inside(d) => c = d

\* Every running process is in the table, except in the few instructions of a
\* start between Daemon::spawn and the insertion: none is ever lost.
LiveIsTracked ==
    live \subseteq {entry} \union {mine[c] : c \in {d \in Callers : pc[d] = "start_insert"}}

\* What makes the lock exclude: all who refer to a mutex refer to the one in the
\* map, exactly the callers past lock_lifecycle refer to one, and whoever is
\* inside owns it.
LockInv ==
    /\ \A c \in Callers :
        /\ ref[c] # None => ref[c] = slot
        /\ ref[c] # None <=> pc[c] = "wait" \/ Inside(c)
        /\ Inside(c) => owner[ref[c]] = c
        /\ pc[c] \in {"lock", "wait"} => op[c] \in LockedOps
        /\ pc[c] \notin Resting /\ op[c] = "status" => pc[c] \in {"lookup", "status_reap"}
        /\ pc[c] \notin Resting /\ op[c] = "command" => pc[c] \in {"lookup", "send"}
    /\ \A l \in Locks, c \in Callers : owner[l] = c => Inside(c) /\ ref[c] = l

\* What a call inside has established about the managed process at its label.
SectionInv ==
    /\ live \subseteq 1..spawned
    /\ \A c \in Callers :
        /\ pc[c] \in {"start_reap", "stop_remove"} => entry \notin live
        /\ pc[c] \in {"start_build", "start_spawn", "start_insert"} => entry = 0

\* Two processes never run in the instance's directory at the same time.
OneProcess == Cardinality(live) <= 1

\* The processes of the instance: one at most, and that one is never lost.
OneAndTracked == OneProcess /\ LiveIsTracked

\* A deleted instance stays down: a start that looked it up before the deletion
\* and spawned its process after it takes the process down again, unless the
\* start is dropped or the rollback fails.  (Nothing stops a process that already
\* ran: whoever would stop it does not find the instance any more.)
DeletedStaysDown ==
    ~registered => \A p \in live : p > removedAt =>
        \/ p \in forsaken
        \/ \E c \in Callers :
             mine[c] = p /\ pc[c] \in {"start_insert", "start_persist", "start_rollback"}

\* A stop or force_stop that returns Ok has brought the instance down.
StopOkMeansDown ==
    [][\A c \in Callers :
         op[c] \in {"stop", "force"} /\ pc[c] \notin Resting /\ pc'[c] = "ok"
           => live' = {} /\ entry' = 0]_vars

\* What status and the console show is so: "Starting" (which "covers only the
\* race window of the spawn") and a process without a log recorder mean that a
\* start is under way, unless the start of this very process was dropped or could
\* not be rolled back, and "Stopping" ("being stopped gracefully") that somebody
\* asked a process to stop, if only one that came before this one.
StatusIsTrue ==
    /\ (Reported = "Starting" \/ (Running /\ ~recorder)) /\ entry \notin forsaken
         => \E c \in Callers : pc[c] \in Starting
    /\ Reported = "Stopping" => \E p \in asked : p <= entry

\* The service implements its port's promise: the running process is the live
\* one, and a call's answer is where the caller rests.
Promise == INSTANCE ServerPromise
             WITH up   <- IF live = {} THEN 0 ELSE CHOOSE p \in live : TRUE,
                  last <- spawned,
                  call <- [c \in Callers |-> IF pc[c] \in Resting THEN pc[c] ELSE op[c]],
                  own  <- mine
KeepsPromise == Promise!Spec

\* server.rs:565: "Starting" covers only the race window of the spawn.
StartingIsSpawnWindow ==
    Reported = "Starting" => \E c \in Callers : pc[c] \in Starting

\* The lock is never held for ever: every call returns, whatever the others
\* and the process do.
CallsReturn == \A c \in Callers : pc[c] \notin Resting ~> pc[c] \in Resting

=============================================================================
