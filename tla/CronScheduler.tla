---------------------------- MODULE CronScheduler ----------------------------
(***************************************************************************)
(* The scheduled tasks of the servers: CronTaskService                     *)
(* (crates/feature/src/server/cron_task/service.rs) keeps the list in      *)
(* memory and in a JSON file; CoreCronTaskService (application/src/        *)
(* service/cron.rs) puts it behind a mutex, which the API calls and the    *)
(* background scheduler share, and drives the scheduler.                   *)
(*                                                                         *)
(* A task's expression is a period: it is due at the multiples of it.  The *)
(* action of a task (restart, command) is modelled in ServerLifecycle; its *)
(* success or failure is only recorded.                                    *)
(***************************************************************************)
EXTENDS Integers, FiniteSetsExt

CONSTANTS Callers,      \* concurrent API calls
          Scheduler,    \* the background task
          None,         \* no value
          Periods,      \* cron expressions
          MaxTasks,     \* bound: tasks ever created
          MaxTime,      \* bound: the clock
          MaxCalls,     \* bound: API calls
          MaxCrashes,   \* bound: deaths of the host
          MayFail,      \* may saving the file fail?
          MayCancel     \* may a call's future be dropped?

ASSUME CronAssumption ==
    /\ Scheduler \notin Callers /\ None \notin Callers \union {Scheduler}
    /\ Periods \subseteq Nat \ {0}
    /\ {MaxTasks, MaxTime, MaxCalls, MaxCrashes} \subseteq Nat
    /\ {MayFail, MayCancel} \subseteq BOOLEAN

VARIABLES now,          \* the clock
          up, stopping, \* the host runs; its shutdown has begun
          memory, disk, \* the task list: of the service, of the file
          late,         \* lists that dropped saves are still writing
          holder,       \* who holds the service's mutex
          pc, request,  \* what an actor does, what a caller asks for
          previous, at, \* the holder's list before its change, its time
          due,          \* the due tasks the scheduler has yet to run
          made, calls, crashes,
          recorded,     \* history: each task's last occurrence run and saved
          slept,        \* history: when each task was last disabled
          dropped,      \* history: a save was dropped and none succeeded since
          reverted      \* history: a dropped save wrote its list after all

clock  == <<now, slept>>
host   == <<up, stopping, crashes>>
files  == <<disk, late, dropped, reverted>>
work   == <<previous, at, due>>
api    == <<request, made, calls>>
vars   == <<clock, host, memory, files, holder, pc, work, api, recorded>>

Actors == Callers \union {Scheduler}
Ids    == 1..MaxTasks
Task   == [on : BOOLEAN, period : Periods, next : Nat]
Lists  == [Ids -> Task \union {None}]
Empty  == [t \in Ids |-> None]
Request == [kind : {"create", "update", "delete", "toggle", "run"},
            task : Ids, on : BOOLEAN, period : Periods]

Init ==
    /\ now = 0 /\ slept = [t \in Ids |-> 0]
    /\ up = TRUE /\ stopping = FALSE /\ crashes = 0
    /\ memory = Empty /\ disk = memory
    /\ late = {} /\ dropped = FALSE /\ reverted = FALSE
    /\ holder = None
    /\ pc = [a \in Actors |-> IF a = Scheduler THEN "sleep" ELSE "idle"]
    /\ request = [c \in Callers |-> None]
    /\ previous = memory /\ at = 0 /\ due = {}
    /\ made = 0 /\ calls = 0 /\ recorded = [t \in Ids |-> 0]

-----------------------------------------------------------------------------
(* The list.                                                                *)

\* next_run_after: the first occurrence strictly after a time.
NextRun(period, time) == (time \div period + 1) * period

\* The filter of run_due.
IsDue(t) == memory[t] # None /\ memory[t].on /\ memory[t].next <= now

\* The task a draft describes.
Drafted(r) == [on |-> r.on, period |-> r.period, next |-> NextRun(r.period, now)]

\* Mutant: switching a task on keeps the occurrence it had.
ChangedKeepsNext(r) ==
    CASE r.kind = "create" -> [memory EXCEPT ![made + 1] = Drafted(r)]
      [] r.kind = "update" -> [memory EXCEPT ![r.task] = Drafted(r)]
      [] r.kind = "delete" -> [memory EXCEPT ![r.task] = None]
      [] r.kind = "toggle" -> [memory EXCEPT ![r.task].on = r.on]

\* create, update, delete and set_enabled: the list with the change; switching
\* a task on schedules it anew, switching it off does not.
Changed(r) ==
    CASE r.kind = "create" -> [memory EXCEPT ![made + 1] = Drafted(r)]
      [] r.kind = "update" -> [memory EXCEPT ![r.task] = Drafted(r)]
      [] r.kind = "delete" -> [memory EXCEPT ![r.task] = None]
      [] r.kind = "toggle" ->
           [memory EXCEPT ![r.task] =
              [on |-> r.on, period |-> memory[r.task].period,
               next |-> IF r.on THEN NextRun(memory[r.task].period, now) ELSE memory[r.task].next]]

-----------------------------------------------------------------------------
(* Time.                                                                    *)

Tick ==
    /\ now < MaxTime /\ now' = now + 1
    /\ slept' = [t \in Ids |->
           IF /\ holder = None
              /\ memory[t] # None /\ ~memory[t].on
              /\ disk[t] # None /\ ~disk[t].on
           THEN now' ELSE slept[t]]
    /\ UNCHANGED <<host, memory, files, holder, pc, work, api, recorded>>

-----------------------------------------------------------------------------
(* The mutex.                                                               *)

Goto(a, label) == pc' = [pc EXCEPT ![a] = label]

\* The operation ends and its guard is dropped.
Release(a) ==
    /\ holder' = IF holder = a THEN None ELSE holder
    /\ Goto(a, IF a = Scheduler THEN "sleep" ELSE "idle")
    /\ previous' = IF holder = a THEN Empty ELSE previous
    /\ at' = IF holder = a THEN 0 ELSE at
    /\ request' = IF a = Scheduler THEN request ELSE [request EXCEPT ![a] = None]

\* An API call; a task is created and updated enabled, and disabled by toggle.
Call(c) ==
    /\ up /\ pc[c] = "idle" /\ calls < MaxCalls
    /\ calls' = calls + 1
    /\ \E r \in Request :
        /\ r.kind = "create" => r.task = 1
        /\ r.kind \in {"create", "update", "delete", "run"} => r.on
        /\ r.kind \notin {"create", "update"} => r.period = CHOOSE p \in Periods : TRUE
        /\ request' = [request EXCEPT ![c] = r]
    /\ Goto(c, "wait")
    /\ UNCHANGED <<clock, host, memory, files, holder, work, made, recorded>>

\* The task does not exist: TaskNotFound.
NotFound(c) ==
    /\ pc[c] = "wait" /\ holder = None
    /\ request[c].kind # "create" /\ memory[request[c].task] = None
    /\ Release(c)
    /\ UNCHANGED <<clock, host, memory, files, due, made, calls, recorded>>

\* The call gets the mutex and changes the list in memory.
Change(c) ==
    /\ pc[c] = "wait" /\ holder = None
    /\ request[c].kind # "run"
    /\ IF request[c].kind = "create" THEN made < MaxTasks ELSE memory[request[c].task] # None
    /\ holder' = c
    /\ previous' = memory /\ memory' = Changed(request[c])
    /\ made' = IF request[c].kind = "create" THEN made + 1 ELSE made
    /\ Goto(c, "save")
    /\ UNCHANGED <<clock, host, files, at, due, request, calls, recorded>>

\* run_now.
RunNow(c) ==
    /\ pc[c] = "wait" /\ holder = None
    /\ request[c].kind = "run" /\ memory[request[c].task] # None
    /\ holder' = c /\ at' = now
    /\ Goto(c, "execute")
    /\ UNCHANGED <<clock, host, memory, files, previous, due, api, recorded>>

-----------------------------------------------------------------------------
(* The scheduler.                                                           *)

\* Mutant: the due tasks are collected and the mutex is given back.
CollectAndRelease ==
    /\ up /\ pc[Scheduler] = "sleep" /\ holder = None
    /\ due' = {t \in Ids : IsDue(t)} /\ at' = now
    /\ holder' = None
    /\ Goto(Scheduler, IF due' = {} THEN "sleep" ELSE "execute")
    /\ UNCHANGED <<clock, host, memory, files, previous, api, recorded>>

\* The delay, after an error the longer one, has passed, and run_due gets the
\* mutex, which it keeps for all the tasks.
Collect ==
    /\ up /\ pc[Scheduler] = "sleep" /\ holder = None
    /\ due' = {t \in Ids : IsDue(t)}
    /\ IF due' = {} THEN Release(Scheduler)
       ELSE /\ holder' = Scheduler /\ at' = now /\ Goto(Scheduler, "execute")
            /\ UNCHANGED <<previous, request>>
    /\ UNCHANGED <<clock, host, memory, files, made, calls, recorded>>

\* The shutdown signal is seen between two runs.
StopScheduler ==
    /\ pc[Scheduler] = "sleep" /\ stopping
    /\ Goto(Scheduler, "off")
    /\ UNCHANGED <<clock, host, memory, files, holder, work, api, recorded>>

-----------------------------------------------------------------------------
(* Running a task, by run_now or run_due, and saving.                       *)

\* Tasks run in the order of the list.
Current(a) == IF a = Scheduler THEN Min(due) ELSE request[a].task

\* The restart or the command; it may take its time.
Execute(a) ==
    /\ pc[a] = "execute"
    /\ Goto(a, "record")
    /\ UNCHANGED <<clock, host, memory, files, holder, work, api, recorded>>

\* Mutant: the attempt is recorded, the task is not scheduled anew.
RecordOnly(a) ==
    /\ pc[a] = "record"
    /\ previous' = memory
    /\ Goto(a, "save")
    /\ UNCHANGED <<clock, host, memory, files, holder, at, due, api, recorded>>

\* record_attempt: the next occurrence is counted from the time the run began.
Record(a) ==
    /\ pc[a] = "record"
    /\ previous' = memory
    /\ memory' = [memory EXCEPT ![Current(a)].next = NextRun(memory[Current(a)].period, at)]
    /\ Goto(a, "save")
    /\ UNCHANGED <<clock, host, files, holder, at, due, api, recorded>>

\* The list is in the file; the scheduler goes on with its next task.
Saved(a) ==
    /\ pc[a] = "save"
    /\ disk' = memory /\ dropped' = (dropped /\ late # {})
    /\ IF a = Scheduler
       THEN /\ recorded' = [recorded EXCEPT ![Current(a)] = previous[Current(a)].next]
            /\ due' = due \ {Current(a)}
       ELSE UNCHANGED <<recorded, due>>
    /\ IF a = Scheduler /\ due' # {}
       THEN Goto(a, "execute") /\ UNCHANGED <<holder, previous, at, request>>
       ELSE Release(a)
    /\ UNCHANGED <<clock, host, memory, late, reverted, made, calls>>

\* Mutant: the change stays in memory.
SaveFailsDirty(a) ==
    /\ MayFail /\ pc[a] = "save"
    /\ due' = IF a = Scheduler THEN {} ELSE due
    /\ Release(a)
    /\ UNCHANGED <<clock, host, memory, files, made, calls, recorded>>

\* Mutant: an error ends the scheduler.
SaveFailsForGood(a) ==
    /\ MayFail /\ pc[a] = "save"
    /\ memory' = previous
    /\ due' = IF a = Scheduler THEN {} ELSE due
    /\ holder' = None /\ Goto(a, IF a = Scheduler THEN "off" ELSE "idle")
    /\ UNCHANGED <<clock, host, files, previous, at, api, recorded>>

\* persist_or_restore: the list is put back; run_due gives up the other tasks.
SaveFails(a) ==
    /\ MayFail /\ pc[a] = "save"
    /\ memory' = previous
    /\ due' = IF a = Scheduler THEN {} ELSE due
    /\ Release(a)
    /\ UNCHANGED <<clock, host, files, made, calls, recorded>>

-----------------------------------------------------------------------------
(* Dropped calls and the host's death.                                      *)

\* The call's future is dropped while it waits, for the mutex, the action or the
\* file; nobody restores the list, and a write handed to a thread goes on.
Cancel(c) ==
    /\ MayCancel /\ pc[c] \in {"wait", "record", "save"}
    /\ Release(c)
    /\ dropped' = (dropped \/ pc[c] = "save")
    /\ \/ UNCHANGED late
       \/ pc[c] = "save" /\ late' = late \union {memory}
    /\ UNCHANGED <<clock, host, memory, disk, reverted, due, made, calls, recorded>>

LateWrite ==
    /\ \E list \in late : disk' = list /\ late' = late \ {list}
    /\ reverted' = TRUE
    /\ UNCHANGED <<clock, host, memory, dropped, holder, pc, work, api, recorded>>

\* The host begins its shutdown, which waits for the scheduler.
Shutdown ==
    /\ up /\ ~stopping /\ stopping' = TRUE
    /\ UNCHANGED <<clock, up, crashes, memory, files, holder, pc, work, api, recorded>>

\* The process ends, in order or not; a save under way may have reached the disk.
\* From here on memory stands for what the next process will load.
Die ==
    /\ up /\ up' = FALSE /\ stopping' = FALSE
    /\ \/ pc[Scheduler] = "off" /\ UNCHANGED crashes
       \/ crashes < MaxCrashes /\ crashes' = crashes + 1
    /\ \/ disk' = disk
       \/ holder # None /\ pc[holder] = "save" /\ disk' = memory
    /\ memory' = disk'
    /\ late' = {} /\ dropped' = FALSE
    /\ holder' = None /\ previous' = Empty /\ at' = 0 /\ due' = {}
    /\ pc' = [a \in Actors |-> IF a = Scheduler THEN "off" ELSE "idle"]
    /\ request' = [c \in Callers |-> None]
    /\ UNCHANGED <<clock, reverted, made, calls, recorded>>

Restart ==
    /\ ~up /\ up' = TRUE
    /\ Goto(Scheduler, "sleep")
    /\ UNCHANGED <<clock, stopping, crashes, memory, files, holder, work, api, recorded>>

Next ==
    \/ Tick
    \/ \E c \in Callers : Call(c) \/ NotFound(c) \/ Change(c) \/ RunNow(c) \/ Cancel(c)
    \/ Collect \/ StopScheduler
    \/ \E a \in Actors : Execute(a) \/ Record(a) \/ Saved(a) \/ SaveFails(a)
    \/ LateWrite \/ Shutdown \/ Die \/ Restart

Spec == Init /\ [][Next]_vars

\* The scheduler's timer fires and the mutex is a fair queue, actions return, the
\* holder goes on, and saving does not fail for ever.
Fairness ==
    /\ SF_vars(Collect)
    /\ \A a \in Actors : WF_vars(Execute(a)) /\ WF_vars(Record(a)) /\ SF_vars(Saved(a))

FairSpec == Spec /\ Fairness

-----------------------------------------------------------------------------
(* Properties.                                                              *)

\* Every variable has its type; the mutex is held exactly by the actor that is
\* between its lock and its return, which excludes all others.
TypeOK ==
    /\ now \in 0..MaxTime
    /\ up \in BOOLEAN /\ stopping \in BOOLEAN /\ dropped \in BOOLEAN /\ reverted \in BOOLEAN
    /\ memory \in Lists /\ disk \in Lists /\ previous \in Lists /\ late \subseteq Lists
    /\ holder \in Actors \union {None}
    /\ pc \in [Actors -> {"idle", "sleep", "wait", "execute", "record", "save", "off"}]
    /\ \A a \in Actors : pc[a] \in {"execute", "record", "save"} <=> holder = a
    /\ request \in [Callers -> Request \union {None}]
    /\ at \in 0..MaxTime /\ due \subseteq Ids
    /\ made \in 0..MaxTasks /\ calls \in 0..MaxCalls /\ crashes \in 0..MaxCrashes
    /\ recorded \in [Ids -> 0..MaxTime] /\ slept \in [Ids -> 0..MaxTime]

\* Whenever nobody is at work the list in memory is the one in the file, also
\* after a failed save (persist_or_restore), unless a save was dropped.
DiskIsMemory ==
    up /\ holder = None /\ ~dropped /\ late = {} => disk = memory

\* The scheduler runs a task only while the task exists, is enabled and is due:
\* nothing was deleted, disabled or moved since it was collected (run_due).
RunsOnlyWhatIsDue ==
    [][pc[Scheduler] = "execute" /\ pc'[Scheduler] = "record" => IsDue(Min(due))]_vars

\* An occurrence whose run was saved is not run again by the scheduler, over
\* failed saves, other tasks and restarts of the host (record_attempt).
OncePerOccurrence ==
    [][pc[Scheduler] = "execute" /\ pc'[Scheduler] = "record" /\ ~reverted
        => memory[Min(due)].next > recorded[Min(due)]]_vars

\* An occurrence that passed while the task was disabled is not made up for when
\* the task is enabled again (set_enabled, update).
NotWhileDisabled ==
    [][pc[Scheduler] = "execute" /\ pc'[Scheduler] = "record" /\ ~reverted
        => memory[Min(due)].next > slept[Min(due)]]_vars

\* Every run of the scheduler is one the user's schedule asks for.
RunsAreRight == RunsOnlyWhatIsDue /\ OncePerOccurrence /\ NotWhileDisabled

\* The scheduler catches up: when the clock stands still no task stays due for
\* ever, whatever the calls and the other tasks do and however often saving
\* fails, unless the host goes down (run_due, start_scheduler_with_intervals).
CatchesUp ==
    []<>(~up \/ stopping \/ \A t \in Ids : ~IsDue(t))
=============================================================================
