# SeaLantern: TLA+ models, checks and proofs

SeaLantern runs Minecraft servers: it creates instances, starts and stops their Java processes, keeps their console
output, backs their directories up, runs scheduled tasks and opens tunnels to them. This directory holds TLA+ models of
its concurrent core, the TLC runs that check them and the TLAPS proofs about them. Paths are relative to the
repository's root.

- [1. The system](#1-the-system): components, state, interactions, what is hard about them
- [2. Modules and how they correspond to the code](#2-modules-and-how-they-correspond-to-the-code)
- [3. Runs, bounds and fairness](#3-runs-bounds-and-fairness)
- [4. Where the code and its documentation disagree](#4-where-the-code-and-its-documentation-disagree)
- [5. Proofs](#5-proofs)
- [6. What the models leave out](#6-what-the-models-leave-out)
- [7. Plan](#7-plan)

To check a model: `tlc -workers 2 -config ServerLifecycle_all.cfg MCServerLifecycle`; to check the proofs:
`tlapm ServerLifecycleProofs.tla`, and likewise `ColdBackupProofs`, `NetworkSettingsProofs`, `CronSchedulerProofs`,
`OnlineTunnelProofs`, `PluginLifecycleProofs`, `ConfigLocksProofs` and `DownloadsProofs`.

## 1. The system

The Rust code is layered: `crates/contract` (data types), `crates/core` (domain rules, processes), `crates/infra`
(files, SQLite, network, downloads), `crates/feature` (capabilities built on them) and `application`, whose *ports* are
the traits and whose *services* are their implementations. Two hosts run the same container of services
(`application/src/services.rs`): the desktop host `src-tauri`, whose commands run to the end, and the web host
`server`, whose framework drops the future of a handler when its client disconnects, at whatever `await` it has
reached. `src` is the Vue frontend; `crates/vendor` is third-party code.

| component | state it keeps | operations | what is hard about it | correct when |
| --- | --- | --- | --- | --- |
| Server process lifecycle (`service/server.rs`, `core/process/daemon.rs`) | table of managed processes, sets `starting` and `stopping`, a map of weak references to one async mutex per instance | start, stop, force_stop, restart, status, send_command | mutexes that are recreated, polling with deadlines, processes that exit by themselves, rollback, dropped futures | one process at most, none lost, answers true, states reported truly |
| Log pipeline (`service/log_recorder.rs`, `feature/server/log/writer.rs`) | channel, batch, SQLite rows | submit, flush by size or timer, shutdown | readers, writer and shutdown race; transactions fail | order kept, nothing lost without an error, cursors name rows |
| Command capture, console (`service/command_capture.rs`, `console.rs`) | a global registry of senders per server | register, forward, deregister | concurrent captures share a vector by position | each capture hears its answer and leaves nothing behind |
| Cold backup and restore (`service/backup.rs`, `feature/backup/manager.rs`) | archives and records on disk, the server directory | create, list, delete, restore | the server may start meanwhile; crash or error between renames | data never lost, what is listed restores |
| Scheduled tasks (`service/cron.rs`, `feature/server/cron_task`) | the task list in memory and in a file | create, update, toggle, delete, run now, run due | failing and dropped saves, restarts, long executions | each occurrence run once, changes not lost |
| Settings and network runtime (`service/settings.rs`, `network_settings.rs`, `proxy_monitoring.rs`, `infra/net`) | proxy mode on disk, in memory and in the runtime, with revisions | get, update, partial update, monitor, client | three copies, optimistic commits, other processes | memory and runtime agree, system proxy followed |
| Configuration files and locks (`infra/persistence`, `infra/fs`) | JSON files, lock files, in-process locks | load, save, locked update, backup, quarantine | several processes, stale locks, crashes | no lost update, no torn file |
| Online tunnel (`feature/online/service.rs`, `service/online_tunnel.rs`) | a host session slot, a join service, a start mutex, a cancel flag | host, join, stop, status, shutdown | starting without the lock, cancellation | one tunnel at most, none leaked |
| Downloads (`infra/download`) | a table of downloads, chunk tasks, atomic counters | create, progress, cancel | chunks fail separately, completion races cancellation | the status is final and true |
| Application plugins (`application/src/plugin`, `feature/app_plugin`) | policy database and runtime table | load, enable, disable, unload, invoke | two states without a common lock | the two agree when idle |
| Instances, registry (`service/instance.rs`, `infra/persistence/instance_registry.rs`) | JSON registry | create, import, rename, delete | imports race; deletion of running servers | an instance is registered once |
| Provisioning, Java, players, system, catalogue, updates, download links | none or a cache | queries | formats and parsers | - |

How they interact. Backups and scheduled tasks call the lifecycle service (a state query; restart and send_command). A
start reads the registry and the settings, updates the registry, and creates a log pipeline; a stop awaits the
pipeline's shutdown. The log pipeline forwards lines to the command captures, whose commands go through the lifecycle
service. Settings push the proxy into the network runtime, which downloads and updates use. Every persisted list goes
through the configuration files. `services.rs` starts the scheduler and the proxy monitor and stops them, with the
tunnel, at shutdown; servers are left running.

`PROJECT.json` lists every component with its status, and under `hazards` each place where this code is hard to test,
with the property that would catch it going wrong, what that property excepts, or the reason why there is none.

## 2. Modules and how they correspond to the code

In every module a label of `pc` is a place where the code can be interrupted: an `await`, or a moment when it holds
none of its short (`std::sync`) mutexes. A step runs from one label to the next, so a critical section is one step.
Definitions whose comment begins with *Mutant* are altered copies of the definition below them; they are used by no
specification and serve to show that a property notices such a mistake.

### ServerLifecycle, ServerPromise, ServerLifecycleProofs

`ServerLifecycle` is `CoreServerService` for one instance; the services of different instances share nothing but
short mutexes.

| variable | code |
| --- | --- |
| `entry`, `recorder` | the `ManagedProcess` of the instance in `processes`, and whether its `recorder` is set |
| `starting`, `stopping` | membership of the id in the two flag sets |
| `slot`, `ref`, `owner` | the `Weak` in `lifecycle_locks`, the `Arc`s of the callers, the holder of each mutex |
| `live`, `spawned` | the processes of the operating system |
| `pc`, `op`, `mine`, `late` | a caller's place, its operation, the process it spawned, whether its deadline passed |
| `registered` | whether the registry's memory holds the instance (`service/instance.rs`) |
| `asked`, `forsaken`, `removedAt` | histories: processes to which "stop" was written; processes whose start was dropped or could not be rolled back; while the instance is deleted, how many processes there had been |

Actions: `TakeLock` and `Acquire` are `lock_lifecycle`; `StartCheck` to `AttachRecorder` are `start_unlocked` with
each of its error exits, `Rollback` included; `Send`, `MarkStopping`, `StopPoll`, `StopKill`, `StopRemove` and
`StopDrain` are `stop_unlocked`; `ForceStop`, the `Restart...` steps and `StatusReap` the other operations;
`ProcessExit` is the server's own end, `Cancel` the drop of a future at one of `AwaitPoints`, which releases the mutex
and the `Arc` and leaves everything else as it is. `DeleteInstance` and `CreateInstance` are the two operations of the
registry that matter to a server: they take neither the lifecycle mutex nor a look at the process table. A call looks
the instance up once (`Lookup`), and a start meets the registry again when it saves its metadata (`PersistStart`), which
fails for an instance that is gone; so a start that was under way when its instance was deleted takes its process down
again, which is what `DeletedStaysDown` says.

`ServerPromise` says what the port `application/src/port/server.rs` promises, without locks, tables or flags: at most
one process, and what each answer says of it at the moment it is given. `FailingKills` are the callers that may meet a
failing `terminate_tree`: only their failed starts may leave a process behind. `KeepsPromise` is the refinement: `up` is the
live process, `call` the operation or the label at which a caller rests.

### LogPipeline

`LogRecorder` and `LogWriter` of one process; its proofs are in `ServerLifecycleProofs`. `Read` and
`EndOfFile` are the blocking readers; `channel` is the unbounded command channel; `Receive`, `Tick`, `FlushOnTimer`
and `Finish` are the writer's loop, whose timer starts anew with every line, since each turn of the `select!` creates
a new sleep; `InsertRow`, `Commit` and `Abort` are `flush_batch`, where the event with the row's id is published *before*
the commit and a failure is ignored. `keeper` is where the owner is: `Shutdown` and `ShutdownReturns`, or
`DropRecorder` when a start finds its table entry gone.

Two facts a reader of the code may want to know. After a rollback subscribers have seen lines that no row holds, and
the ids are used again: `CursorsAreRows`, a half of `LogIsOutput`, therefore speaks of committed lines. And `shutdown`
does not wait for the readers: lines that they submit after `Stop` are dropped silently, so the last words of a server
that is stopped can be missing from its log; `accepted` counts only lines submitted before `Stop`.

### CommandCapture

Proved about in `ServerLifecycleProofs`. `slots` is the vector of senders, `index[c]` the one the
registration returned, `inbox` the bounded channels, `to` the snapshot of senders that `forward_to_captures` clones
before it sends outside of the lock. `Silence` and `DeadlinePassed` are the quiet window and the deadline; `Close`
deregisters by index; `DropCapture` drops the future and leaves the sender behind. `overlap` and `overrun` are histories
that say when a capture was alone and when its channel was full.

### ColdBackup, ColdBackupProofs

`dir`, `aside`, `leftover`, `archive`, `listed` are what is on the disk: the server directory, directories renamed
away by a restore (under way, and left behind by a dead host), the published archives and the records. A create
checks twice, copies part by part into a temporary directory, publishes the archive and then writes the record; a
delete removes the archive and then the record; a restore extracts, copies the directory, applies the archive, renames
the directory away and the new one in, or renames it back. `FileError` is an error at any file operation before the
renames; either of these may fail on its own, and so may the renaming back (`RollBack`), which leaves no directory in
place and the data in `leftover`. `Crash` is the death of the host at any moment, which forgets the process table: the
server becomes an orphan, which the new host takes for stopped. `ReadLogs` is the console opening the log database,
which creates the directory if it is missing. `current` and `doomed` are histories of the data the directory is meant
to hold and of backups somebody began to delete; `disturbed` says of a backup or a restore that the server was an
orphan at its second check, or was started, or that another restore renamed the directory, while it still relied on
finding the directory as it was.

`CopiesAreWhole` says what the two copies are worth when nothing disturbed them: a backup is the directory as it was at
one moment (`QuietBackupIsSnapshot`), and a restore puts in place the archive over the directory it has renamed away
(`QuietRestoreIsMerge`), although it copied both several steps before its two renames, with other calls, log readers
and errors in between.

### NetworkSettings, NetworkSettingsProofs

`disk`, `memory` and `runtime` are the three copies of the proxy mode; a route stands for the proxy the client is
built for, and `runtime.revision` for `state_revision`. An operation holds the manager's mutex (`holder`), repairs if
`network_desynchronized` (`desync`) is set, prepares a candidate from the system proxy and the runtime's revision,
saves, and commits the candidate if the revision is the same, at most three times in all, preparing
it anew after a conflict. `MonitorReads` and
`MonitorApplies` are `proxy_monitoring.rs`, `UseClient` the first use of the client, `ForeignWrite` another process's
save, `Cancel` a dropped future. `unseen` and `behind` are histories that name two exceptions the code really has:
a save whose outcome the service never learns, and a commit whose reading of the system proxy the monitor overtook.

### CronScheduler, CronSchedulerProofs

`memory` and `disk` are the task list, `holder` the service's mutex, `due` the tasks the scheduler copied and has yet
to run; a cron expression is a period and `NextRun` the first multiple after a time. The scheduler holds the mutex
through all due tasks and their executions (`Collect`, `Execute`, `Record`, `Saved`, `SaveFails`), so API calls wait.
A save that fails restores the previous list; a save whose caller's future is dropped goes on in its blocking thread
and writes its list later (`late`, `LateWrite`, `infra/fs/atomic.rs`), possibly after a newer save; `reverted` marks
that this happened. `Shutdown`, `Die` and `Restart` are the host's; a restart loads the file.

### OnlineTunnel, OnlineTunnelProofs

`OnlineTunnelService`. `slot` and `holder` are the published host session and the mutex around it, `starter` the mutex
`host_start`, `cancel` the flag `host_cancel`, `open` the sculk nodes that are not closed, `join` the phase of sculk's
join service. A host claims the start mutex and then works *without* the lock of the slot (`Claim`, `Bind`,
`Continue`, `FanOut`, `Retain`), so that a stop need not wait for it; it looks at the flag twice on the way and a
third time under the lock (`LockSlot`), publishes (`Publish`) or gives up and closes its node (`GiveUp`, `Abandon`). A
stop sets the flag, takes the session, closes it, stops the join and silences the fan-out and the announcement
(`BeginStop` to `Hush`); a shutdown silences first, then closes the session and shuts the join down, whatever its
phase. `fan`, `stray`, `news`, `applying` and `lan` are the task that forwards events and the announcement of a joined
world on the local network: `abort` stops the task at an `await`, not in the middle of an update. Sculk itself
(`JoinMoves`) is a library and modelled from its use.

### PluginLifecycle, PluginLifecycleProofs

One plugin, between `PluginPolicyStore` (a SQLite database: `enabled`, `trusted`, `granted`, `stored`; in memory:
`session`, `tokens`) and `PluginManager` (`state`, `code`, `lock`), which share no lock. `Begin`, `Fingerprint`,
`Known`, `Statement` and `SetPolicy` are the policy side of load, enable, disable and unload, with `reconcile_bundle`
statement by statement; `BeginScript`, `EndScript`, `NoScript` and `Rollback` the runtime side; `Statement...` may fail
and `Restart` may happen between any two. A call (`Ask`, `Invoke`, then `Read...`, `Audit`, `Consume`) gathers the facts
its capability needs one after the other, from the outside or from inside a script that holds the manager's lock. The
user's `Grant...`, `SetTrust`, `Revoke...`, `Distrust`, `IssueToken` and `EndSession` are actions of their own, and a
new version of the bundle may be put into the directory at any moment. `seen`, `given` and `spent` are histories: what
held during a call, for which bundle each consent was given, what each token let through.

### ConfigLocks, ConfigCell, ConfigLocksProofs

`ConfigLocks` is the settings file and the tasks of several processes that load and update it. `guard` is the entry of
`process_lock_registry`, `lockfile` the lock file with the process that wrote it, `file` what is at the path: nothing,
a corrupt file, one of the old format, a sound one. `Create`, `Exists`, `Remove` and `Locked` are `fs/lock.rs` with the
recovery of a stale lock: a task reads the pid in the lock file, finds the process dead and removes whatever is at the
path *then*. `Read`, `Write`, `Unlock` are an update, a migration or a creation; `PutAside` is the quarantine of a
corrupt file, which takes no lock. `Abandon` drops a future: its guards go, a closure in its blocking thread goes on and
may write late. `Crash` ends a process and starts it again with another pid, its lock file left behind.

Every access to the disk may fail (`IoError`), and then the operation ends with the locks given back, but in three
places the code goes on. A migration that cannot read the file, before it has the lock (`BeginLoad`) or under it
(`IoError`), says that there was nothing to migrate; the load goes on with the old format, which parses as defaults
(`Parsed`), and `overlooked` is the history of that. `Path::exists` says no where it cannot tell (`TakeForAbsent`). And a
lock file that its holder cannot remove (`Release`) stays: everybody else is refused until that process is gone.

`ConfigCell` is what all this promises: a cell that is created, repaired and updated in one step each, keeps every
answered update until an accident, and keeps the setting of an old file until it is migrated, unless its format was
overlooked (`Overwrite`). `KeepsCell` is the refinement, and there are four accidents: a lock file removed that was not
the stale one, a sound file put aside, a late write, a file taken for absent.

### Downloads, DownloadsProofs

`SplitRanges` is `split_ranges`, in blocks of one write. `Open` creates and empties the file, `Spawn` starts a task per
range and the monitor, `Insert` enters the download in the manager's table; `Drop` is a request dropped at an `await`
in between, whose tasks then run without anybody who could cancel them. A task asks, validates, writes and flushes;
`flight` is a block handed to tokio's blocking pool, which lands (`Land`) even if the task was cancelled meanwhile.
`Await`, `Review` and `MarkCompleted` are the monitor, which awaits the tasks in order, looks at the cancellation and
only then sets `completed`. A caller clones a status, reads it in two steps and removes what is finished, or cancels it.
All downloads are saved to *one* path, the case nothing in the code forbids; each has contents of its own. `crowded`
and `short` are histories of the two exceptions of `CompletedIsWhole`: another download with the same path that ran or
still wrote, and a server that sent less than a range (the length of an answer is not compared).

## 3. Runs, bounds and fairness

| run | question | bounds | distinct states |
| --- | --- | --- | --- |
| `lifecycle` | Do callers with any sequence of operations keep to one process, tracked and truly reported, does a deleted instance stay down, does every answer keep the port's promise, and does every call return? | 2 callers, one of them droppable at any await, the other's `terminate_tree` may fail; 2 mutex allocations, 2 spawns; deletion and creation at any time | 441 thousand |
| `starting_outlives` | Is `Starting` shown only while a start is under way? No: section 4 | as above, no kill fails | (violated) |
| `log_pipeline` | What do the database, the subscribers and the caller of stop get, with failing transactions? | one output of 4 lines and the recorder's own line, batches of 2, a window of one tick | 66 thousand |
| `command_capture` | Does a capture that is alone hear its answer, and does every capture return? | 3 captures, 2 at a time, channels of one line, dropped futures | 272 thousand |
| `capture_slot_shift` | Does the registry hold one sender per capture? No: section 4 | 2 captures | (violated) |
| `backup` | Are the data and the archives safe from errors, deaths of the host, log readers and other backup calls? | 2 callers, 2 backups, 2 parts, 2 writes of the server | 6.9 million (symmetry) |
| `network_settings` | Do disk, memory and runtime agree again after failures, conflicts and other processes' saves? | 2 callers, 2 operations, modes adaptive and disabled, 2 routes, 1 system change, 1 foreign save | 899 thousand |
| `cron_scheduler` | Does each occurrence run once, of a task that is due, and does the scheduler catch up, over failing saves and restarts? | 2 tasks, periods 1 and 2, clock to 2, 3 API calls, 1 death of the host | 988 thousand |
| `online_tunnel` | Is there one tunnel at most, does a stop end the start it finds under way, is no node leaked, does the announcement end with the join? | 2 callers, 2 host sessions, 2 joins | 2.4 million (symmetry) |
| `plugin_lifecycle` | Are calls authorised, do consents stay with the bundle they were given to, do policy and runtime agree? | 2 requests, 2 bundles, 1 token | 4.1 million (symmetry) |
| `config_locks` | Do processes that share the settings file lose an update, also when one dies and its lock is recovered, or an access to the disk fails? | 3 tasks in 2 processes, 1 death, any number of errors, any state of the file | 4.1 million (symmetry) |
| `downloads` | Is what is reported completed on the disk, and does every download end with a verdict? | 2 downloads of 2 blocks, 2 threads, 1 fault, 1 caller | 4.8 million |

Every passing run has a type invariant; the other properties are stated, with the lines they are about, in the
comments above their definitions.

**Why these bounds are enough.** The lifecycle's hazards need a caller inside an operation and one that waits, arrives
when the mutex is released, or takes neither mutex nor turn (a status), and an old process next to a new one: two
callers, each of whom calls again and again, and two spawns. That one of them is the one whose future is dropped and
the other the one whose kills fail loses nothing: both meet every step of the other, and a call whose kill fails
returns, and can be dropped no more. Two allocations are as many as can be referred to at once, because a new one is
made only when nobody refers to the old. What a third caller adds is the business of the theorems, which hold for any
number. A batch of two and five lines fill batches, leave remainders for the timer and for the last flush, and let a
transaction fail at every line. Captures interfere in pairs; the third follows the pair and meets what it left. A
mixed backup needs two parts and one write between their copies; the second write tells a restored version from a
newer one. The optimistic commit needs one competing change to conflict, and two callers to queue behind the mutex;
the modes that differ are one that follows the system and one that does not. Two tasks are the least with which one
due task can fail while another waits; a clock of two passes an occurrence while a task runs or is disabled. One
caller's start and another's stop, each of which may be followed by the next call, meet at every `await`; the second
host session and the second join tell a stop's own from a later one, and what a third caller adds is the business of
the theorems, which hold for any number. Two requests overlap, and a third would only be refused by the locks the two
hold; two bundles are an old and a new one, and one token is spent twice by two calls or not at all. A robbed lock
needs one process that died, two tasks that judge its lock and one that takes it: three tasks in two processes. Two
ranges are the least with which one fails while another writes, two downloads the least with which one writes into the
other's file; ranges of every size are the business of `RangesPartition`.

**Fairness**, where a run checks liveness:
- `ServerLifecycle`: tokio polls every ready task and timers fire, hence weak fairness of each caller's progress and of
  its deadline; the async mutex is a FIFO semaphore, hence strong fairness of `Acquire`. Processes need never exit, and
  no one need call.
- `LogPipeline`: weak fairness of the reader threads, the writer task and the owner's steps. Nothing makes a process
  write or exit; transactions may fail for ever, and end all the same.
- `CommandCapture`: weak fairness of the capture's steps and of the forwarding reader. The deadline is strongly fair:
  it is read at the top of every turn of the loop, so no stream of lines holds it off. Answers need not come.
- `NetworkSettings`: weak fairness of the monitor's periodic reading, strong of its application, which shares the
  runtime's lock with others. Reading may fail any number of times.
- `CronScheduler`: strong fairness of the scheduler's `Collect`, since tokio's mutex is fair; weak of its execution
  and its bookkeeping; strong of a save that succeeds, which says that saving does not fail for ever.

`network_settings`, `cron_scheduler` and `downloads` set `CHECK_DEADLOCK FALSE`: their bounded clocks, call counters
and downloads run out, and then nothing is left to do. The other runs check deadlock. `backup`, `online_tunnel`,
`plugin_lifecycle`, `config_locks` and `downloads` check safety only: their state spaces leave no room for liveness,
and a host, a plugin's script or a lock file that another process holds may indeed take for ever.

**Preconditions in the properties** are states the code really reaches, named in the property:
- `AloneIsServed` (`AloneIsExact` and `AnswerReaches`) speaks of captures that do not overlap; those that do are
  `capture_slot_shift`.
- `CopiesAreWhole` (`QuietBackupIsSnapshot` and `QuietRestoreIsMerge`) speaks of backups and restores that nothing
  disturbed between their second check and their last use of the directory, and of a backup that nobody deletes while it
  is restored; section 4 has the others.
- `SettingsAgree` (`InForce` and `SavedBeforeInForce`) and `FollowsSystem` speak of saves and readings the service knows
  of, `RunsAreRight` (`RunsOnlyWhatIsDue`, `OncePerOccurrence`, `NotWhileDisabled`) of lists that no dropped save has put
  back.
- `StatusIsTrue` says of `Stopping` only that some process of the instance was asked to stop, and excepts from its other
  half a process whose own start was dropped or could not be rolled back (`forsaken`); `DeletedStaysDown` excepts the same
  processes; `KeepsPromise` lets only a caller in `FailingKills` answer an error with its process running: section 4.
- `OneTunnel` speaks of starts that did not overlap and excepts a session whose status query failed (`dropped`);
  `LanFollowsJoin` excepts (`stale`) an update that the task was applying when it was aborted, and a join's task that a
  host's start aborted or, after a stop that failed, the next join replaced.
- `ConsentIsForThisCode` and `EnabledIsRunning` except `mixed`, `overlap` and `unsaved`, `InsideAlone` and `KeepsCell`
  `robbed`, `spoiled` and `overlooked`, `CompletedIsWhole` `crowded` and `short`; sections 2 and 4 say what they are.

Every other property holds without one. `KeepsPromise` contains what a reader may look for by name: one process at
most, a failed start or restart that leaves no process, a restart that leaves at most its own, a stop that leaves none.

## 4. Where the code and its documentation disagree

Two are runs that TLC finds violated (`PROJECT.json` quotes the line each contradicts):
- **Slots shift** (`capture_slot_shift`). A capture is deregistered by its index in a vector that shorter-lived captures
  shorten: after the first removal the second removes nothing, or somebody else's sender.
- **Starting outlives the start** (`starting_outlives`). The comment at `service/server.rs:565` says that `Starting`
  covers only the race window of the spawn. A client of the web host that disconnects while its start saves the metadata
  or attaches the log pipeline leaves the flag set and the process in the table, and every status says `Starting` for as
  long as that process runs.

The following were found in the same way; the models reach them, and a property of a passing run names each as an
exception:
- **A forsaken process** (`StatusIsTrue`, `KeepsPromise`, `forsaken`). When the rollback of a start fails
  (`terminate_tree` fails after the metadata could not be saved), its error is only logged: the start answers with an
  error and its process runs on, shown as `Running`, without a log recorder. A dropped start leaves its process in the
  same way, with `Starting` set.
- **A stale `stopping` flag** (`StatusIsTrue`). A stop whose `terminate_tree` fails, or a restart that ends in
  `TerminalState`, leaves the flag set (`service/server.rs:614`). The process then exits, a status reaps it without
  touching the flags, and the next process is reported `Stopping`, which `contract/src/server/models.rs:15` explains
  as being stopped gracefully, though nobody asked it to stop.
- **The window of a backup stays open** (`QuietBackupIsSnapshot`). The comment at `service/backup.rs:84` says that the
  second check closes the window between check and copy; it narrows it. A server started after it is copied while it
  runs.
- **A restore loses what the server wrote** (`QuietRestoreIsMerge`). The same window is open to a restore: a server
  started while the directory is staged writes into the directory that is then renamed away and removed.
- **A change nobody repairs** (`InForce`, `unseen`). The comment at `service/settings.rs:34` says that the next
  operation repairs a commit that failed after the save. A partial update without a proxy adopts another process's
  proxy and prepares it only after the save (line 155); if that fails, `network_desynchronized` is not set, and no
  later operation sees a difference.
- **A stale route** (`FollowsSystem`, `behind`). `network_settings.rs:41` reads the system proxy before the runtime's
  revision; a newer one that the monitor applies in between is overwritten by the commit, and the monitor, which
  compares with what it applied last, does not apply it again, although `contract/src/proxy.rs:47` says that the
  adaptive mode follows the latest.
- **More than one tunnel** (`OneTunnel`, `overlap`). Line 7 of `online/service.rs` promises one active tunnel at most.
  A join checks that nothing runs and then starts; a host may begin in between. Two hosts that both passed the check
  follow one another through the start mutex, and the second overwrites the first's slot, whose node stays open.
- **A session nobody can stop** (`dropped`). If the status query at line 217 fails after the session is published, the
  host answers with the error and the published session is dropped without being closed.
- **A late stop** silences too much: its `stop_fanout` and its end of the announcement come after it gave the slot's
  lock back (299-304), and meet whatever was started since; and a stop that arrives while a join is between its check
  and its start finds nothing to stop.
- **A stale announcement** (`stale`): aborting the fan-out does not stop the update it is applying.
- **Consents and code of different bundles** (`mixed`): the directory is replaced between the fingerprint and the
  load, a consent is given or a second load runs in the middle of a reconcile, or a load is refused because older code
  is loaded, after it has already revoked the consents, stored the new fingerprint and written `enabled = false` for a
  plugin that goes on running.
- **Policy and runtime apart** (`overlap`, `unsaved`): enable and disable that overlap, or a rollback of enable that
  cannot be saved.
- **Facts of different moments** (`Authorised`): the consents a call needs are read one after the other, so a call may
  pass although they never held together.
- **A robbed lock** (`robbed`), **a sound file put aside**, **a late write**, **a file taken for absent** (`spoiled`):
  see ConfigLocks in section 2.
- **An old format overlooked** (`overlooked`). The comment at `config/sealantern/manager.rs:397` says that without the
  migration the preferences of an old file would be overwritten and lost. When the migration cannot read the file
  (lines 402-405, 415-421) it answers `Ok(false)`, as if there were nothing to migrate; if the load's own read succeeds
  a moment later, it takes the old file for one of defaults, and the next `update_partial`, which makes no backup,
  overwrites the preference. A later load that comes before any update still migrates it.
- **Two downloads to one path** (`crowded`): nothing keeps them apart, and both may be reported completed. A failed
  range cancels no other and a cancelled task's last write may still land, so even a retry after an error can meet the
  writes of the download it retries.

Seen while modelling, and described here only:
- Deleting an instance asks nobody whether its server runs (`service/instance.rs:92`). A start that is under way takes its
  process down again (`DeletedStaysDown`), but a server that already runs goes on, and stop, force_stop and restart then
  fail to find its instance: nothing in the service can stop it, until the instance is created again under the same
  identifier, which the caller chooses.
- The comment at `service/server.rs:210` says that an empty detection of Java installations is not cached; the code at
  line 232 caches it, as the comment at line 230 says.
- A console that reads the log while a restore has the directory renamed away creates it anew: the second rename and
  the rollback then both fail, and the data stays in the renamed directory (`leftover`), which `DataSurvives` counts
  as surviving. The same is so when the renaming back fails for a reason of its own (`backup/manager.rs:694`): then there
  is no directory in place at all, the error names neither the renamed one nor what to do with it, and nothing renames
  it back later.
- `SettingsManager::update` sets the memory and then awaits the save: if the future is dropped in between, the memory
  has settings that are not in force and perhaps not saved, with no flag to say so (`unseen`).
- A save whose future was dropped writes late, over a newer save (`reverted`): after a restart of the host a deleted
  task can be back and a recorded occurrence due again.
- The comment at `download/multi.rs:61` says that a server that gives no length is served by the streaming download;
  the probe answers such a server with an error (`net/client.rs:230`), so only an empty file gets there. The streaming
  download does not flush: it says completed while its last write may be under way, and an error of that write is lost.
- `AsyncPluginManager::invoke` (`app_plugin/manager.rs:132`) takes a standard mutex on a worker of the async runtime; a
  script that waits for the network may hold it, and enough calls block every worker, which the comment above it (line 78)
  means to avoid.

## 5. Proofs

Every invariant, every action property and both refinements that the runs check are also theorems: they hold for any
number of callers, processes, files, lines, versions and deaths, not just for the small instances of section 3. Each
theorem assumes what its module assumes of its constants (`LifecycleAssumption`, `PipelineAssumption` and so on: bounds
are natural numbers, `None` is not one of the things it stands beside), and nothing else: no theorem has a hypothesis. TLC
evaluates these assumptions in every run. The exceptions that section 3 lists are part of the properties and so of the
theorems. "Type invariant" below stands for a theorem `Typing`, whose property is
`TypeOK`.

The proofs share one layout. An invariant is strengthened until it is inductive and the strengthening is a conjunction of
named parts, one for each thing it says. A part is proved step by step over the actions (`...Step`), with lemmas for
what many actions have in common: what a step of caller *c* leaves to the others (`...Others`, `...After`, `...Kept`),
and that a step which touches none of a part's variables keeps it. A last step combines the parts.

### The server lifecycle (`ServerLifecycleProofs`)

| theorem | what it says | property |
| --- | --- | --- |
| `Typing` | type invariant | `TypeOK` |
| `MutualExclusion` | the weakly held, recreated mutex serialises start, restart, stop and force_stop | `Exclusive` |
| `NoProcessIsLost`, `AtMostOneProcess` | a running process is in the table or in the hands of the start that has just spawned it; at most one runs | (the halves of `OneAndTracked`) |
| `TableKnowsProcess` | the two together | `OneAndTracked` |
| `StopIsDown` | a stop or force_stop that answers Ok has brought the instance down | `StopOkMeansDown` |
| `StoppingWasAsked` | a status is not `Stopping` unless this process or an earlier one was asked to stop | (half of `StatusIsTrue`) |
| `StatusTells` | moreover, a status is not `Starting`, or `Running` without a recorder, unless a start is under way or the process is `forsaken` | `StatusIsTrue` |
| `DeletionHolds` | no process spawned after the instance was deleted is left running, unless it is `forsaken` | `DeletedStaysDown` |
| `PromiseKept` | the service implements `ServerPromise` | `KeepsPromise` |

All hold with dropped futures, failing kills, deletions and any number of callers. `StatusTells` and `PromiseKept` once
assumed that nothing is dropped and no kill fails. Instead of assuming failures away, the properties now say whose they
are: `forsaken` is the set of processes that a dropped start or a failed rollback left behind, `FailingKills` the
callers whose error may mean that.

*The argument.* `Exclusive` is not inductive: a caller that comes back to `lock` could hold an old mutex while another
one is created. `LockInv` adds that all references are to the mutex in the map (the `Weak` is replaced only when nobody
holds an `Arc`), that exactly the callers past `lock_lifecycle` hold one, and that whoever is inside owns it; two
callers inside then own the same mutex. It is preserved without regard to processes (`LockStep`). `OneProcess` rests on
what a call has established at each label: `SectionInv` says that the entry is gone, or its process has exited, at
the labels between the check and the insertion of a start and at the removal of a stop; with `LiveIsTracked`, a spawn
happens only when nothing runs. `SectionInv` needs exclusion, because another start inside the same section would
insert an entry behind the first one's back. `Inductive` proves the conjunction of the four; `TrackingStep` goes
through the actions, and `QuietStep` covers the many that touch neither table nor processes.
`StopIsDown` adds `StopPath`: the labels a stop and a force_stop can be at, and that the entry stays gone while a stop
waits for the log pipeline, since no start can insert one meanwhile. `OkStep` leaves four steps with which such a call
can answer Ok, and in each of them only the entry's process could run.

`StatusTells` and `PromiseKept` add `LaneInv`, which ties labels to operations and says that a call owns a process from
its spawn to its answer and no longer. `AskedInv` orders processes by their pids, so that whoever was asked to stop came
no later than the one in the table; `HandedInv` says that whatever makes the managed process look unfinished is in the
hands of its start, unless it is `forsaken`; it is kept by a drop because a start in whose hands a process is owns the very
one in the table (`LaneInv`). `DeletedStaysDown` is itself inductive given the others: a process spawned after the
deletion belongs to a start that still has the registry before it, which then sends it to the rollback; there the entry's
process is the only one there is (`OnlyTheEntry`), so that it is killed, gone or `forsaken`. The refinement maps the spawn to the promise's own, the end of the process, by itself or by a kill,
to its end, and an answer to an answer; every other step is a stutter. An answer needs what `SectionInv`, `StopPath` and
`LaneInv` know at its label.

### The log pipeline and the captures (also `ServerLifecycleProofs`)

The log pipeline is created by a start and awaited by a stop, and the captures' commands go through the lifecycle, so
their theorems stand at the end of the same module, which extends all three.

| theorem | what it says | property |
| --- | --- | --- |
| `LogTyping`, `CaptureTyping` | type invariants; no channel of a capture exceeds its capacity | `LogTypeOK`, `CaptureTypeOK` |
| `LogInOrder` | the database holds each output's lines in order and lacks only those of failed transactions; a cursor that clients have seen names the row of its line, if that was not lost | `LogIsOutput` |
| `LogFlushes` | when shutdown returns, every line submitted before it is stored or was in a failed transaction | `ShutdownFlushes` |
| `CaptureServed` | a capture that overlaps with none hears its answer and leaves the registry exact | `AloneIsServed` |

*The argument.* A line goes from the channel to the batch, to the flush, to the rows of the open transaction and to the
database. `Whole` is these five, database first, as one sequence. Most steps move a line or a batch from one stage to the
next and leave `Whole` as it is (`MovesOn`); a submitted line comes last (`ComesLast`); a failed transaction cuts its part
out of the middle (`DropsMiddle`, `CutIs`). Order therefore need not be followed through the stages: `OrderInv` says that
`Whole` is in order and lacks only lost lines, `PipesInv` that a pipe continues where the reader is, `AcceptedInv` that an
accepted line stands in `Whole` ahead of every `Stop`, or is lost, and `StageInv` which stages are empty where the writer
is. When shutdown returns `Stop` is first in what is left, so what stood ahead of it is in the database. `CursorInv` reads
an event's id as a position in the rows, those of the open transaction included, which stays the line's own: a failed
transaction cuts off the end of the rows only, and what it cuts off is lost.
`StopIsNoLine` is an assumption on the constant `Stop`: the shutdown command is not a line; in the code it is another variant of the
enum `WriteCommand`.

For the captures, `OnlyInv` says that a capture which has always been alone holds the last slot and no sender is double,
so that its removal by index hits itself; `AnswerInv` follows its answer from the snapshot of senders to the channel and
to what it heard.

### Cold backup (`ColdBackupProofs`)

| theorem | what it says | property |
| --- | --- | --- |
| `Typing` | type invariant; a directory is renamed away only while its restore publishes | `TypeOK` |
| `NothingLost` | a listed backup nobody began to delete has its archive; the data are in the directory or beside it | `NothingIsLost` |
| `CopiesWhole` | an undisturbed backup is the directory as it was throughout, and an undisturbed restore puts its archive over the directory it has renamed away | `CopiesAreWhole` |

*The argument.* `HeldInv`: whoever publishes has the directory it renamed away in its hands. `OwnInv`: the id of a backup
under construction is its maker's own and not listed yet, so no delete or restore can be about it. `KnownInv`: a backup
being restored is listed, or somebody began to delete it, so no create publishes under its id. `SameInv`: what an
undisturbed create or restore has copied so far equals the directory as it is now, because the server is down and any
start or renaming disturbs. `MergeInv` carries this through a restore: what it unpacked is the archive as it is
(`KnownInv` and `OwnInv`: nobody writes it), what it staged is the archive over the directory in place, and, after the
first rename, over the directory it holds.

### Settings and network (`NetworkSettingsProofs`)

| theorem | what it says | property |
| --- | --- | --- |
| `Typing` | type invariant; the manager's mutex has one holder | `TypeOK` |
| `NothingOverwritten` | a commit replaces only the state its candidate was built from | `NoLostChange` |
| `InAgreement` | between operations, the runtime has the mode in memory or the service knows that it has not; no mode is in force that was never saved | `SettingsAgree` |

*The argument.* `RevisionInv`: a candidate's base is never later than the runtime's revision, and if they are equal the
state is the very one the candidate was built from, since every change takes the next revision (`Advances`). `AgreeInv`
says, for each place an operation that has the mutex can be at, what it has done to memory and runtime so far;
`SavedInv` that the mode in memory and the one in force were saved, unless one is being written.

### Scheduled tasks (`CronSchedulerProofs`)

| theorem | what it says | property |
| --- | --- | --- |
| `Typing` | type invariant; the service's mutex has one holder | `TypeOK` |
| `FileFollows` | when nobody is at work, the list in memory is the one in the file | `DiskIsMemory` |
| `OnlyWhatIsDue` | a task runs only when it is enabled and due, never twice for an occurrence whose run was saved, never for one that passed while it was disabled | `RunsAreRight` |

*The argument.* `DueInv`: the tasks that were collected stay due while the scheduler has the mutex, because nobody
changes the list without it. `PastInv` puts what was recorded before the run that is under way. `FileInv`: during a save
the file has the list as it was before; afterwards the two agree. `AheadInv`: in every list that may come into force
(memory, file, the list a failing save restores) a task's next occurrence lies after all those it has run and saved;
this is what an occurrence run twice would break, and what a late write does break (`reverted`).

### Online tunnel (`OnlineTunnelProofs`)

| theorem | what it says | property |
| --- | --- | --- |
| `Typing` | type invariant; the two mutexes are held by exactly the calls between taking and leaving them | `TypeOK` |
| `AnnouncementFollows` | an announced world is one whose join is up, or the update that ends it is on its way | `LanFollowsJoin` |
| `StopsAreFinal` | a start of a host that a stop found under way is not published once the stop has answered; if no starts overlap, its node is closed when the call ends | `StopIsFinal` |
| `OneAtMost` | starts that do not overlap make one tunnel, and no node is left open without anybody who has it | `OneTunnel` |

*The argument.* `FreshInv`: the session being started is in one caller's hands only. `EndInv`: what is published, or about
to be, no finished stop has found; while the cancel flag is clear, no stop at all has found the starts under way. This is
why the third look at the flag, under the slot's lock, is the one that counts. `Alone`: while starts do not overlap, the
one under way found the slot empty and the join idle, and they are so until it publishes. `LanInv` follows an
announcement through the update being applied and those still to come.

### Application plugins (`PluginLifecycleProofs`)

| theorem | what it says | property |
| --- | --- | --- |
| `Typing` | type invariant; the manager's lock is held by exactly the operation whose script runs | `TypeOK` |
| `OnlyAuthorised` | a call reaches the host only if each fact it needs held at some moment of its evaluation; a token lets one call through | `Authorised` |
| `ConsentsFollow` | while code of a bundle runs, every consent in force was given to that bundle | `ConsentIsForThisCode` |
| `EnabledRuns` | the policy says enabled only of a plugin that is enabled in the manager or about to be | `EnabledIsRunning` |

*The argument.* `PlaceInv` ties operations to labels. `ReadInv`: the facts a call has read by its label are among those
seen to hold. `Consistent`: consents and code are of the bundle the store names, and a reconcile has revoked the old ones
*before* its statement that stores the new bundle; the order of its statements is what makes a crash between any two of
them harmless. `EnabledInv`: without overlap an operation other than enable has the policy off once it has set it.

### Configuration files (`ConfigLocksProofs`)

| theorem | what it says | property |
| --- | --- | --- |
| `Typing` | type invariant; the lock within a process is held by exactly the task whose future is between taking and leaving it | `TypeOK` |
| `ExclusionHolds` | two tasks are never under the lock of the settings file at once, until a lock file is removed that was not the stale one | `InsideAlone` |
| `CellIsKept` | the settings file implements `ConfigCell`, whatever accesses to the disk fail: answered updates stay until the first accident, an old setting until it is migrated or its format was overlooked | `KeepsCell` |

*The argument.* The lock of the process plays no part in the exclusion; the lock file alone gives it. `InsideOwns` says
that the lock file names whoever is under the lock, in the present life of its process; two such tasks are one. It is
kept by `Remove` because what was judged to be stale is of a life that is over (`JudgedIsDead`; lives only grow), so if
the lock file is still the one judged, nobody under the lock owns it. `DroppedBlocks` says that a dropped future leaves
a task only in a closure on a blocking thread, so that `Unlock` is never run for a task whose guards are gone. For the
refinement, `Fits` adds what each task knows: who is about to write has computed it from the file as it still is
(nobody else is under the lock, and putting a corrupt file aside, which takes no lock, meets a missing or corrupt file
or is an accident), who is about to unlock has seen nothing that the file lacks, and who saw the file corrupt will not
find it in the old format. `Formats` says that as long as no load overlooked an old format, no process has loaded the
file and nobody is doing anything but migrating it, so that nobody can update it. `KNextKeeps` and `FormatsStep` go
through the actions; `CellStep` maps a write to `Update`, `Migrate`, `Create` or, of an overlooked format, `Overwrite`, an
unlock to `Answer`, the rename to `SetAside`, a load or an error that overlooks the format to `Overlook`, an accident to
`Spoil`, and the rest to stutters. `GuardInv`
is about the locks within the processes, which only `TypeOK` speaks of.

### Downloads (`DownloadsProofs`)

| theorem | what it says | property |
| --- | --- | --- |
| `RangesPartition` | for every size and number of threads, each block of a file lies in exactly one of the ranges of `split_ranges` | (a lemma about the operator `SplitRanges`) |
| `Typing` | type invariant; no task is given or writes a block outside the file | `TypeOK` |
| `VerdictAtEnd` | a monitor that has ended leaves its download completed, failed or cancelled, with no task running | `EndHasVerdict` |
| `CompletedWhole` | a download that was alone on its path, was not answered too short and is told to be completed has every block on the disk | `CompletedIsWhole` |

*The argument.* `RangesPartition` rests on what integer division means (`Quotient`), on the monotony of products and on
`Sizes`: no range is empty and together they do not exceed the file; the last range takes the rest. `CoverInv`: each task
has written its range up to where it is, but for the block in flight. `VerdictInv` follows the monitor: the tasks it has
awaited have ended, and one that failed is remembered. When it marks the download completed, all tasks have ended well,
every block lies in a range, and nobody else writes the file (`AloneInv`); `ToldInv` carries this to the caller that
reads the mark later.

### Only model-checked

The liveness properties `CallsReturn`, `WriterDelivers`, `CapturesReturn`, `FollowsSystem` and `CatchesUp`: fairness and
`ENABLED` are out of the proof system's reach. They hold on the instances of section 3.


## 6. What the models leave out

- **Lifecycle**: resolving Java and building the command line (their failure is `StartBuild`'s error), `list_states`,
  process groups (a server is one process), a failing `poll`, poisoned mutexes, and a second life of the host: servers
  outlive it, and the next host knows nothing of them.
- **Log pipeline**: the text of the lines, encodings, the paging of the history; the drop of empty lines is a line not
  submitted.
- **Command capture**: stripping of prefixes and parsing of answers; other servers, whose registries are separate.
- **Backup**: the archive format, the list's filter, symbolic links; the check of ids and paths appears as an error.
  What a failed removal leaves behind (temporary directories, a renamed directory after the second rename succeeded) is
  not followed: nothing in the code looks at it again.
- **Settings**: every setting but the proxy mode; quarantine and migration of the file are in ConfigLocks. A dropped future's write
  happens at the drop, if at all. A panic of the monitor's refresh, after which its
  loop forgets what it applied last and applies it again, is left out.
- **Scheduler**: the syntax of expressions and time zones; what an action does is the lifecycle's business. The
  scheduler's waking up and its taking of the mutex are one step.
- **Tunnel**: sculk's protocol, relays and tickets (a refusal), the forwarding of events to the user interface.
- **Plugins**: several plugins, the Lua engine, manifests (a plugin asks for what its manifest declares), the counting of
  the rate limit (a refusal that may come at any time), the rows of the audit, grants per session of kinds no host
  offers.
- **Configuration files**: backups, reset and import (they replace everything and read nothing), the upgrade of a
  version (an update with a backup), the reuse of a pid, `store.rs`. A lock file whose pid could not be written is
  judged by its age, which the model takes for its process being gone.
- **Downloads**: the streaming download, progress counters, the query of all downloads (a poll of each), the listing of
  links. A failed write of a block is an error of its task.
- The components with status `not_modelled` in `PROJECT.json` are queries, inspections, formats and user interface,
  without state that several actors change.
- **Registry of instances**: only what its deletions and creations mean to a server is modelled (`registered`); renaming,
  importing and the list are a mutex around locked updates of a file, for which see ConfigLocks.

## 7. Plan

The modules of the plan are written, and all of their safety is proved. What would add most:
- `ServerPromise` in place of the server that `ColdBackup` and `CronScheduler` use, which may start or stop at any moment
  and is weaker than the promise; `PromiseKept` is what justifies the composition;
- a second life of the host in `ServerLifecycle`: servers outlive it, and the next one knows nothing of them;
- imports and renames in the registry, next to the deletions and creations that `ServerLifecycle` has;
- fairness for the download's monitor, on a smaller instance than `downloads`.
