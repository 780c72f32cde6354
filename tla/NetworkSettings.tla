--------------------------- MODULE NetworkSettings ---------------------------
(***************************************************************************)
(* The proxy settings in three places: on the disk, in the memory of       *)
(* CoreSettingsService (application/src/service/settings.rs) and in the    *)
(* network runtime (crates/infra/src/net/runtime.rs), which the monitor of *)
(* the system proxy (proxy_monitoring.rs) changes as well.  An operation   *)
(* prepares the new runtime state, saves the settings and then commits     *)
(* what it prepared if the runtime's revision is still the same.           *)
(*                                                                         *)
(* Of the settings only the proxy mode is kept; a route stands for a proxy *)
(* the client is built for.                                                *)
(***************************************************************************)
EXTENDS Naturals, FiniteSets

CONSTANTS Callers,      \* concurrent operations
          Modes,        \* ProxyMode: "adaptive", "preserve", "manual", "disabled"
          SystemRoutes, \* what the operating system may report
          Manual,       \* the route of the manual mode
          Direct,       \* no proxy
          None,         \* no value
          MaxCalls,     \* bound: operations
          MaxChanges,   \* bound: changes of the system proxy
          MaxForeign,   \* bound: writes of another process
          MayFail,      \* may reading the system proxy, saving, applying fail?
          MayCancel     \* may a caller's future be dropped?

ASSUME NetworkAssumption ==
    /\ "adaptive" \in Modes
    /\ Modes \subseteq {"adaptive", "preserve", "manual", "disabled"}
    /\ Direct \in SystemRoutes /\ None \notin SystemRoutes \union {Manual} \union Modes
    /\ None \notin Callers
    /\ {MaxCalls, MaxChanges, MaxForeign} \subseteq Nat
    /\ {MayFail, MayCancel} \subseteq BOOLEAN

VARIABLES system, changes,      \* the system proxy; how often it changed
          disk, foreign,        \* the persisted mode; writes of other processes
          memory,               \* SettingsManager's mode
          holder,               \* who holds the manager's mutex, or initializes
          initialized,          \* network_initialized
          desync,               \* network_desynchronized
          runtime,              \* NetworkState: mode, route and revision
          pc, op, phase,        \* what each caller does, and what it prepares for
          target,               \* the mode it prepares, saves or commits
          old,                  \* the mode before its operation
          snapshot, prepared,   \* the system proxy it read, its candidate
          attempt,              \* commits that met a conflict
          calls,                \* operations so far
          previous, monitor,    \* the monitor's last applied and next snapshot
          saved,                \* history: modes that were ever on the disk
          unseen,               \* history: a save the service does not know of
          behind                \* history: the last commit installed a route that
                                \* differs from what the monitor applied last

network  == <<system, changes>>
files    == <<disk, foreign, saved>>
service  == <<memory, holder, initialized, desync>>
caller   == <<op, phase, target, old, snapshot, prepared, attempt, calls>>
watch    == <<previous, monitor>>
ghosts   == <<unseen, behind>>
vars     == <<network, files, service, runtime, pc, caller, watch, ghosts>>

Routes == SystemRoutes \union {Manual}
State  == [mode : Modes, route : Routes, revision : Nat]
Candidates == [base : Nat, seen : State \union {None}, next : State]

ASSUME NoneAssumption == None \notin State /\ None \notin Candidates

Init ==
    /\ system \in SystemRoutes /\ changes = 0
    /\ disk \in Modes /\ foreign = 0 /\ memory = disk
    /\ holder = None /\ initialized = FALSE /\ desync = FALSE
    /\ runtime = None
    /\ pc = [c \in Callers |-> "idle"]
    /\ op = [c \in Callers |-> "get"]
    /\ phase = [c \in Callers |-> "repair"]
    /\ target = [c \in Callers |-> None]
    /\ old = [c \in Callers |-> None]
    /\ snapshot = [c \in Callers |-> None]
    /\ prepared = [c \in Callers |-> None]
    /\ attempt = [c \in Callers |-> 0]
    /\ calls = 0
    /\ previous = None /\ monitor = None
    /\ saved = {disk} /\ unseen = FALSE /\ behind = FALSE

-----------------------------------------------------------------------------
(* NetworkRuntime.                                                          *)

\* resolve, of the proxy controller.
Resolve(mode, route) ==
    CASE mode \in {"adaptive", "preserve"} -> route
      [] mode = "manual"                   -> Manual
      [] OTHER                             -> Direct

Revision == IF runtime = None THEN 0 ELSE runtime.revision

\* The state that follows the present one; its revision grows if it differs.
Following(mode, route) ==
    [mode |-> mode, route |-> route,
     revision |-> IF runtime # None /\ runtime.mode = mode /\ runtime.route = route
                  THEN Revision ELSE Revision + 1]

\* handle_system_proxy_change: only the adaptive mode follows.
AfterChange(route) ==
    IF runtime = None THEN Following("adaptive", route)
    ELSE IF runtime.mode = "adaptive" THEN Following("adaptive", route)
    ELSE runtime

\* client(): the first consumer builds the default state.
UseClient ==
    /\ runtime = None
    /\ runtime' = Following("adaptive", Direct)
    /\ UNCHANGED <<network, files, service, pc, caller, watch, ghosts>>

-----------------------------------------------------------------------------
(* The monitor of the system proxy.                                         *)

SystemChanges ==
    /\ changes < MaxChanges /\ changes' = changes + 1
    /\ system' \in SystemRoutes \ {system}
    /\ UNCHANGED <<files, service, runtime, pc, caller, watch, ghosts>>

\* A reading equal to the last applied one is not applied again.
MonitorReads ==
    /\ monitor = None /\ previous # system
    /\ monitor' = system
    /\ UNCHANGED <<network, files, service, runtime, pc, caller, previous, ghosts>>

MonitorApplies ==
    /\ monitor # None
    /\ runtime' = AfterChange(monitor)
    /\ previous' = monitor /\ monitor' = None /\ behind' = FALSE
    /\ UNCHANGED <<network, files, service, pc, caller, unseen>>

\* Mutant: the reading counts as applied although applying it failed.
FailureForgotten ==
    /\ MayFail /\ monitor # None
    /\ previous' = monitor /\ monitor' = None
    /\ UNCHANGED <<network, files, service, runtime, pc, caller, ghosts>>

\* The client for the new route cannot be built: the reading is not recorded.
MonitorFails ==
    /\ MayFail /\ monitor # None
    /\ monitor' = None
    /\ UNCHANGED <<network, files, service, runtime, pc, caller, previous, ghosts>>

-----------------------------------------------------------------------------
(* One operation: the mutex, initialization and repair.                     *)

Goto(c, label) == pc' = [pc EXCEPT ![c] = label]

\* The operation returns; its guard is dropped.
Return(c) ==
    /\ Goto(c, "idle")
    /\ holder' = IF holder = c THEN None ELSE holder
    /\ target' = [target EXCEPT ![c] = None]
    /\ old' = [old EXCEPT ![c] = None]
    /\ snapshot' = [snapshot EXCEPT ![c] = None]
    /\ prepared' = [prepared EXCEPT ![c] = None]
    /\ attempt' = [attempt EXCEPT ![c] = 0]
    /\ UNCHANGED <<op, phase, calls>>

\* Prepare the runtime for a mode, for the sake of a phase of the operation.
Prepare(c, p, mode) ==
    /\ phase' = [phase EXCEPT ![c] = p]
    /\ target' = [target EXCEPT ![c] = mode]
    /\ Goto(c, "read")

\* get, update (import_json, and reset for the default mode) and
\* update_partial with a proxy or without one.
Call(c) ==
    /\ pc[c] = "idle" /\ calls < MaxCalls
    /\ calls' = calls + 1
    /\ \E o \in {"get", "update", "partial", "other"}, m \in Modes :
        /\ op' = [op EXCEPT ![c] = o]
        /\ target' = [target EXCEPT ![c] = IF o \in {"update", "partial"} THEN m ELSE None]
    /\ Goto(c, "lock")
    /\ UNCHANGED <<phase, old, snapshot, prepared, attempt>>
    /\ UNCHANGED <<network, files, service, runtime, watch, ghosts>>

\* get_or_try_init: one caller initializes the runtime, the others wait.  What
\* it was asked for waits in old.
Initialize(c) ==
    /\ pc[c] = "lock" /\ ~initialized /\ holder = None
    /\ holder' = c
    /\ old' = [old EXCEPT ![c] = target[c]]
    /\ Prepare(c, "initialize", memory)
    /\ UNCHANGED <<op, snapshot, prepared, attempt, calls, memory, initialized, desync>>
    /\ UNCHANGED <<network, files, runtime, watch, ghosts>>

\* lock_synchronized_manager: the mutex, then repair_network_if_needed.
Lock(c) ==
    /\ pc[c] = "lock" /\ initialized /\ holder = None
    /\ holder' = c
    /\ IF desync
       THEN old' = [old EXCEPT ![c] = target[c]] /\ Prepare(c, "repair", memory)
       ELSE Goto(c, "operate") /\ UNCHANGED <<old, phase, target>>
    /\ UNCHANGED <<op, snapshot, prepared, attempt, calls, memory, initialized, desync>>
    /\ UNCHANGED <<network, files, runtime, watch, ghosts>>

\* What the operation does first: a change of the proxy is prepared before it
\* is saved; update compares it with the memory, update_partial does not.
Operate(c) ==
    /\ pc[c] = "operate" /\ op[c] # "get"
    /\ old' = [old EXCEPT ![c] = memory]
    /\ IF op[c] = "partial" \/ (op[c] = "update" /\ target[c] # memory)
       THEN Prepare(c, "prepare", target[c])
       ELSE Goto(c, "save") /\ UNCHANGED <<phase, target>>
    /\ UNCHANGED <<op, snapshot, prepared, attempt, calls, service>>
    /\ UNCHANGED <<network, files, runtime, watch, ghosts>>

Get(c) ==
    /\ pc[c] = "operate" /\ op[c] = "get"
    /\ Return(c)
    /\ UNCHANGED <<network, files, memory, initialized, desync, runtime, watch, ghosts>>

-----------------------------------------------------------------------------
(* Prepare and commit.                                                      *)

\* prepare: the system proxy is read first, and only for a mode that needs it.
ReadSystem(c) ==
    /\ pc[c] = "read"
    /\ snapshot' = [snapshot EXCEPT ![c] =
           IF target[c] \in {"adaptive", "preserve"} THEN system ELSE Direct]
    /\ Goto(c, "resolve")
    /\ UNCHANGED <<op, phase, target, old, prepared, attempt, calls>>
    /\ UNCHANGED <<network, files, service, runtime, watch, ghosts>>

\* The system proxy cannot be read or the client not be built: the error leaves
\* the operation.  If that is after the save, because the operation itself had
\* nothing to prepare, nobody notes that the runtime is behind.
PrepareFails(c) ==
    /\ MayFail /\ pc[c] = "read"
    /\ unseen' = (unseen \/ phase[c] = "late")
    /\ Return(c)
    /\ UNCHANGED <<network, files, memory, initialized, desync, runtime, watch, behind>>

Candidate(c) ==
    [base |-> Revision, seen |-> runtime,
     next |-> Following(target[c], Resolve(target[c], snapshot[c]))]

\* Mutant: what was prepared is committed before it is saved.
CommitFirst(c) ==
    /\ pc[c] = "resolve"
    /\ prepared' = [prepared EXCEPT ![c] = Candidate(c)]
    /\ Goto(c, "commit")
    /\ UNCHANGED <<op, phase, target, old, snapshot, attempt, calls>>
    /\ UNCHANGED <<network, files, service, runtime, watch, ghosts>>

\* prepare_proxy_settings: the candidate, the revision it is based on, and, as a
\* history, the state that had it.
PrepareCandidate(c) ==
    /\ pc[c] = "resolve"
    /\ prepared' = [prepared EXCEPT ![c] = Candidate(c)]
    /\ Goto(c, IF phase[c] = "prepare" THEN "save" ELSE "commit")
    /\ desync' = (desync \/ phase[c] = "late")
    /\ UNCHANGED <<op, phase, target, old, snapshot, attempt, calls>>
    /\ UNCHANGED <<network, files, memory, holder, initialized, runtime, watch, ghosts>>

Install(c) ==
    /\ runtime' = prepared[c].next
    /\ behind' = (previous # None /\ runtime'.mode = "adaptive" /\ runtime'.route # previous)

\* The commit of an initialization or a repair; the operation proper follows.
Commit(c) ==
    /\ pc[c] = "commit" /\ phase[c] \in {"initialize", "repair"}
    /\ prepared[c].base = Revision
    /\ Install(c)
    /\ initialized' = TRUE
    /\ desync' = (desync /\ phase[c] # "repair")
    /\ holder' = IF phase[c] = "initialize" THEN None ELSE c
    /\ Goto(c, IF phase[c] = "initialize" THEN "lock" ELSE "operate")
    /\ target' = [target EXCEPT ![c] = old[c]]
    /\ old' = [old EXCEPT ![c] = None]
    /\ snapshot' = [snapshot EXCEPT ![c] = None]
    /\ prepared' = [prepared EXCEPT ![c] = None]
    /\ attempt' = [attempt EXCEPT ![c] = 0]
    /\ UNCHANGED <<op, phase, calls, memory, network, files, watch, unseen>>

\* Mutant: what was prepared is committed whatever happened since.
CommitUnchecked(c) ==
    /\ pc[c] = "commit" /\ phase[c] \notin {"initialize", "repair"}
    /\ Install(c)
    /\ desync' = FALSE
    /\ Return(c)
    /\ UNCHANGED <<network, files, memory, initialized, watch, unseen>>

\* The commit that ends an operation.
CommitChange(c) ==
    /\ pc[c] = "commit" /\ phase[c] \notin {"initialize", "repair"}
    /\ prepared[c].base = Revision
    /\ Install(c)
    /\ desync' = FALSE
    /\ Return(c)
    /\ UNCHANGED <<network, files, memory, initialized, watch, unseen>>

Again(c) ==
    /\ attempt' = [attempt EXCEPT ![c] = @ + 1]
    /\ Prepare(c, IF phase[c] \in {"prepare", "late"} THEN "retry" ELSE phase[c], target[c])
    /\ UNCHANGED <<op, old, snapshot, prepared, calls, holder>>

\* Mutant: the attempts are counted from one.
ConflictOnceMore(c) ==
    /\ pc[c] = "commit" /\ prepared[c].base # Revision
    /\ \/ attempt[c] = 3 /\ Return(c)
       \/ attempt[c] < 3 /\ Again(c)
    /\ UNCHANGED <<network, files, memory, initialized, desync, runtime, watch, ghosts>>

\* NetworkCommitError::Conflict: prepared again, and committed three times at most.
Conflict(c) ==
    /\ pc[c] = "commit" /\ prepared[c].base # Revision
    /\ \/ attempt[c] = 2 /\ Return(c)
       \/ attempt[c] < 2 /\ Again(c)
    /\ UNCHANGED <<network, files, memory, initialized, desync, runtime, watch, ghosts>>

-----------------------------------------------------------------------------
(* Saving.                                                                  *)

\* SettingsManager::update puts the new settings into memory, then saves.
SetMemory(c) ==
    /\ pc[c] = "save" /\ op[c] = "update"
    /\ memory' = target[c]
    /\ Goto(c, "write")
    /\ UNCHANGED <<holder, initialized, desync, caller, network, files, runtime, watch, ghosts>>

\* The settings are on the disk and in memory: commit, if the proxy changed.
Persisted(c, mode) ==
    /\ disk' = mode /\ saved' = saved \union {mode} /\ memory' = mode
    /\ IF mode = old[c]
       THEN Return(c) /\ UNCHANGED desync
       ELSE /\ IF prepared[c] # None
               THEN /\ Goto(c, "commit") /\ desync' = TRUE
                    /\ target' = [target EXCEPT ![c] = mode] /\ UNCHANGED phase
               ELSE Prepare(c, "late", mode) /\ UNCHANGED desync
            /\ UNCHANGED <<op, old, snapshot, prepared, attempt, calls, holder>>
    /\ UNCHANGED <<foreign, network, initialized, runtime, watch, ghosts>>

WriteUpdate(c) == pc[c] = "write" /\ Persisted(c, target[c])

\* update_partial merges into what is on the disk, under the file's lock.
WritePartial(c) ==
    /\ pc[c] = "save" /\ op[c] # "update"
    /\ Persisted(c, IF op[c] = "partial" THEN target[c] ELSE disk)

\* Mutant: a failed save leaves the new settings in memory.
SaveFailsDirty(c) ==
    /\ MayFail /\ pc[c] \in {"save", "write"}
    /\ Return(c)
    /\ UNCHANGED <<memory, network, files, initialized, desync, runtime, watch, ghosts>>

\* The memory is rolled back.
SaveFails(c) ==
    /\ MayFail /\ pc[c] \in {"save", "write"}
    /\ memory' = old[c]
    /\ Return(c)
    /\ UNCHANGED <<network, files, initialized, desync, runtime, watch, ghosts>>

\* The future is dropped while it waits for the mutex or for the disk; a write
\* under way may still be done.
Cancel(c) ==
    /\ MayCancel
    /\ pc[c] \in {"lock", "write"} \/ (pc[c] = "save" /\ op[c] # "update")
    /\ Return(c)
    /\ \/ UNCHANGED files
       \/ /\ pc[c] = "write" \/ (pc[c] = "save" /\ op[c] = "partial")
          /\ disk' = target[c] /\ saved' = saved \union {target[c]} /\ UNCHANGED foreign
    /\ unseen' = (unseen \/ (pc[c] = "write" /\ target[c] # old[c]))
    /\ UNCHANGED <<network, memory, initialized, desync, runtime, watch, behind>>

\* Another process saves its settings.
ForeignWrite ==
    /\ foreign < MaxForeign /\ foreign' = foreign + 1
    /\ disk' \in Modes \ {disk} /\ saved' = saved \union {disk'}
    /\ UNCHANGED <<network, service, runtime, pc, caller, watch, ghosts>>

Operation(c) ==
    \/ Call(c) \/ Initialize(c) \/ Lock(c) \/ Operate(c) \/ Get(c)
    \/ ReadSystem(c) \/ PrepareFails(c) \/ PrepareCandidate(c)
    \/ Commit(c) \/ CommitChange(c) \/ Conflict(c)
    \/ SetMemory(c) \/ WriteUpdate(c) \/ WritePartial(c) \/ SaveFails(c)

Next ==
    \/ \E c \in Callers : Operation(c) \/ Cancel(c)
    \/ SystemChanges \/ MonitorReads \/ MonitorApplies \/ MonitorFails
    \/ UseClient \/ ForeignWrite

Spec == Init /\ [][Next]_vars

\* The monitor polls for ever, reading succeeds again and again, and so does
\* building the client; nothing is asked of the callers.
Fairness == WF_vars(MonitorReads) /\ SF_vars(MonitorApplies)

FairSpec == Spec /\ Fairness

-----------------------------------------------------------------------------
(* Properties.                                                              *)

\* Every variable has its type, and the mutex is held exactly by the operation
\* that is past it.
TypeOK ==
    /\ system \in SystemRoutes /\ changes \in 0..MaxChanges
    /\ disk \in Modes /\ foreign \in 0..MaxForeign /\ memory \in Modes
    /\ holder \in Callers \union {None}
    /\ initialized \in BOOLEAN /\ desync \in BOOLEAN /\ unseen \in BOOLEAN /\ behind \in BOOLEAN
    /\ runtime = None \/ runtime \in State
    /\ pc \in [Callers -> {"idle", "lock", "operate", "read", "resolve",
                           "commit", "save", "write"}]
    /\ op \in [Callers -> {"get", "update", "partial", "other"}]
    /\ phase \in [Callers -> {"initialize", "repair", "prepare", "late", "retry"}]
    /\ target \in [Callers -> Modes \union {None}] /\ old \in [Callers -> Modes \union {None}]
    /\ snapshot \in [Callers -> SystemRoutes \union {None}]
    /\ prepared \in [Callers -> Candidates \union {None}]
    /\ attempt \in [Callers -> 0..2] /\ calls \in 0..MaxCalls
    /\ previous \in SystemRoutes \union {None} /\ monitor \in SystemRoutes \union {None}
    /\ saved \subseteq Modes
    /\ \A c \in Callers : pc[c] \notin {"idle", "lock"} <=> holder = c

\* Whenever no operation is under way the runtime works with the settings of the
\* service, unless the service knows that it does not (settings.rs:34) or a save
\* went by unseen.
InForce ==
    initialized /\ holder = None /\ ~desync /\ ~unseen => runtime.mode = memory

\* A mode comes into force only after it was on the disk (settings.rs, prepare
\* before saving, commit after it); the default needs no save.
SavedBeforeInForce ==
    runtime # None /\ ~unseen => runtime.mode \in saved \union {"adaptive"}

\* Disk, memory and runtime do not drift apart unnoticed.
SettingsAgree == InForce /\ SavedBeforeInForce

\* A commit never overwrites a change of the runtime it has not seen: equal
\* revisions mean that the state is still the one the candidate was built from
\* (runtime.rs, commit_prepared_proxy_update).
NoLostChange ==
    [][\A c \in Callers :
        pc[c] = "commit" /\ pc'[c] # "commit" /\ runtime' = prepared[c].next
            => runtime \in {prepared[c].seen, prepared[c].next}]_vars

\* In the adaptive mode the route ends up at what the system reports, once that
\* stays the same, whatever fails in between, except behind a commit whose
\* reading the monitor had overtaken (proxy_monitoring.rs, refresh_proxy).
FollowsSystem ==
    <>[](runtime # None /\ runtime.mode = "adaptive" /\ ~behind => runtime.route = system)

=============================================================================
