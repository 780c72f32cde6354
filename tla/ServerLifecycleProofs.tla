----------------------- MODULE ServerLifecycleProofs -----------------------
(***************************************************************************)
(* Proofs about one server process.  ServerLifecycle: types, mutual        *)
(* exclusion by a weakly held mutex, that no two processes of the instance *)
(* run at once, what a stop that answers Ok has done, that the status      *)
(* tells the truth, that a deleted instance stays down, and that the       *)
(* service implements ServerPromise.  At the end, the two modules of what  *)
(* a process has with it: LogPipeline (what a start creates and a stop     *)
(* waits for) and CommandCapture (who hears what the process answers).     *)
(***************************************************************************)
EXTENDS ServerLifecycle, LogPipeline, CommandCapture, TLAPS, FiniteSetTheorems, SequenceTheorems

\* Every step that is not stuttering, with the caller or process that takes it.
LEMMA NextCases ==
    ASSUME Next
    PROVE  \/ \E c \in Callers :
                \/ Call(c) \/ TakeLock(c) \/ Acquire(c) \/ Lookup(c)
                \/ StartCheck(c) \/ StartReap(c) \/ StartBuild(c) \/ SpawnFails(c)
                \/ Spawn(c) \/ Insert(c) \/ PersistStart(c) \/ Rollback(c)
                \/ TakeOutput(c) \/ AttachRecorder(c)
                \/ SendFails(c) \/ Send(c) \/ MarkStopping(c) \/ StopPoll(c)
                \/ StopKill(c) \/ StopRemove(c) \/ StopDrain(c)
                \/ ForceStop(c) \/ RestartReap(c) \/ RestartRead(c) \/ StatusReap(c)
                \/ DeadlinePasses(c) \/ Cancel(c)
           \/ \E p \in Pids : ProcessExit(p)
           \/ DeleteInstance \/ CreateInstance
BY DEF Next, Progress, StartStep, StopStep

\* What a returning call does to the variables that Return sets.
LEMMA ReturnTypes ==
    ASSUME TypeOK, NEW c \in Callers, NEW outcome \in Labels, Return(c, outcome)
    PROVE  /\ pc' \in [Callers -> Labels]
           /\ op' \in [Callers -> Ops]
           /\ ref' \in [Callers -> Locks \union {None}]
           /\ owner' \in [Locks -> Callers \union {None}]
           /\ mine' \in [Callers -> 0..MaxSpawn]
           /\ late' \in [Callers -> BOOLEAN]
           /\ slot' \in Locks \union {None}
BY LifecycleAssumption DEF TypeOK, Return, Ops, LockedOps

LEMMA GotoTypes ==
    ASSUME TypeOK, NEW c \in Callers, NEW label \in Labels, Goto(c, label)
    PROVE  /\ pc' \in [Callers -> Labels]
           /\ op' \in [Callers -> Ops]
           /\ ref' \in [Callers -> Locks \union {None}]
           /\ owner' \in [Locks -> Callers \union {None}]
           /\ mine' \in [Callers -> 0..MaxSpawn]
           /\ late' \in [Callers -> BOOLEAN]
           /\ slot' \in Locks \union {None}
BY DEF TypeOK, Goto, mutexes, locals

LEMMA FirstStepLabel == \A o \in Ops : FirstStep(o) \in Labels
BY DEF FirstStep, Ops, LockedOps, Labels, Starting

\* The managed process is removed or left alone.
LEMMA TableTypes ==
    ASSUME TypeOK, RemoveEntry \/ ReapIfExited \/ UNCHANGED table
    PROVE  entry' \in 0..MaxSpawn /\ recorder' \in BOOLEAN
<1>1. 0 \in 0..MaxSpawn
  BY LifecycleAssumption
<1>2. (entry' = 0 /\ recorder' = FALSE) \/ (entry' = entry /\ recorder' = recorder)
  BY DEF RemoveEntry, ReapIfExited, table
<1> QED BY <1>1, <1>2 DEF TypeOK

\* terminate_tree removes at most one process.
LEMMA SystemTypes ==
    ASSUME TypeOK, KillOk \/ (\E c \in Callers : KillErr(c)) \/ UNCHANGED system
    PROVE  live' \subseteq Pids /\ spawned' \in 0..MaxSpawn
BY DEF TypeOK, KillOk, KillErr, system

-----------------------------------------------------------------------------
\* Every variable keeps its type, for any number of callers, mutexes and pids.
THEOREM Typing == Spec => []TypeOK
<1>1. Init => TypeOK
  <2> SUFFICES ASSUME Init PROVE TypeOK
    OBVIOUS
  <2>1. 0 \in 0..MaxSpawn
    BY LifecycleAssumption
  <2>2. "idle" \in Labels /\ "status" \in Ops
    BY DEF Labels, Resting, Ops
  <2> QED BY <2>1, <2>2 DEF Init, TypeOK
<1>2. TypeOK /\ [Next]_vars => TypeOK'
  <2> SUFFICES ASSUME TypeOK, Next PROVE TypeOK'
    BY DEF vars, table, system, flags, mutexes, locals, records, TypeOK
  <2> USE LifecycleAssumption DEF records
  <2> DEFINE Locals == /\ pc' \in [Callers -> Labels]
                       /\ op' \in [Callers -> Ops]
                       /\ ref' \in [Callers -> Locks \union {None}]
                       /\ owner' \in [Locks -> Callers \union {None}]
                       /\ mine' \in [Callers -> 0..MaxSpawn]
                       /\ late' \in [Callers -> BOOLEAN]
                       /\ slot' \in Locks \union {None}
  <2>0. \A c \in Callers : \A label \in Labels :
          Goto(c, label) \/ Return(c, label) => Locals
    BY GotoTypes, ReturnTypes
  <2> HIDE DEF Locals
  <2>1. ASSUME NEW c \in Callers, Call(c) PROVE TypeOK'
    BY <2>1 DEF TypeOK, Call, table, system, flags, mutexes, Labels, Pids
  <2>2. ASSUME NEW c \in Callers, TakeLock(c) PROVE TypeOK'
    BY <2>2 DEF TypeOK, TakeLock, table, system, flags, locals, Labels, Pids
  <2>3. ASSUME NEW c \in Callers, Acquire(c) PROVE TypeOK'
    <3>1. ref[c] \in Locks \union {None}
      BY <2>3 DEF TypeOK
    <3>2. owner' \in [Locks -> Callers \union {None}]
      BY <2>3 DEF TypeOK, Acquire
    <3> QED BY <2>3, <3>2 DEF TypeOK, Acquire, table, system, flags, locals, Labels, Pids
  <2>4. ASSUME NEW c \in Callers, Lookup(c) PROVE TypeOK'
    <3>1. Locals
      BY <2>4, <2>0, FirstStepLabel DEF Lookup, TypeOK, Labels, Resting
    <3> QED BY <2>4, <3>1 DEF TypeOK, Locals, Lookup, table, system, flags
  <2>5. ASSUME NEW c \in Callers, StartCheck(c) PROVE TypeOK'
    <3>1. Locals
      BY <2>5, <2>0 DEF StartCheck, Labels, Resting, Starting
    <3> QED BY <2>5, <3>1 DEF TypeOK, Locals, StartCheck, table, system, flags
  <2>6. ASSUME NEW c \in Callers, StartReap(c) PROVE TypeOK'
    <3>1. Locals
      BY <2>6, <2>0 DEF StartReap, Labels, Resting, Starting
    <3>2. entry' \in 0..MaxSpawn /\ recorder' \in BOOLEAN
      BY <2>6, TableTypes DEF StartReap
    <3> QED BY <2>6, <3>1, <3>2 DEF TypeOK, Locals, StartReap, system, flags
  <2>7. ASSUME NEW c \in Callers, StartBuild(c) PROVE TypeOK'
    <3>1. Locals
      BY <2>7, <2>0 DEF StartBuild, Labels, Resting, Starting
    <3> QED BY <2>7, <3>1 DEF TypeOK, Locals, StartBuild, table, system, flags
  <2>8. ASSUME NEW c \in Callers, SpawnFails(c) PROVE TypeOK'
    <3>1. Locals
      BY <2>8, <2>0 DEF SpawnFails, Labels, Resting
    <3> QED BY <2>8, <3>1 DEF TypeOK, Locals, SpawnFails, table, system, flags
  <2>9. ASSUME NEW c \in Callers, Spawn(c) PROVE TypeOK'
    <3>1. spawned + 1 \in Pids /\ spawned + 1 \in 0..MaxSpawn
      BY <2>9 DEF TypeOK, Spawn, Pids
    <3>2. live' \subseteq Pids /\ mine' \in [Callers -> 0..MaxSpawn]
      BY <2>9, <3>1 DEF TypeOK, Spawn
    <3> QED BY <2>9, <3>1, <3>2
            DEF TypeOK, Spawn, table, mutexes, Labels, Starting
  <2>10. ASSUME NEW c \in Callers, Insert(c) PROVE TypeOK'
    <3>1. Locals
      BY <2>10, <2>0 DEF Insert, Labels, Resting, Starting
    <3> QED BY <2>10, <3>1 DEF TypeOK, Locals, Insert, system, flags
  <2>11. ASSUME NEW c \in Callers, PersistStart(c) PROVE TypeOK'
    <3>1. Locals
      BY <2>11, <2>0 DEF PersistStart, Labels, Resting, Starting
    <3> QED BY <2>11, <3>1 DEF TypeOK, Locals, PersistStart, table, system, flags
  <2>12. ASSUME NEW c \in Callers, Rollback(c) PROVE TypeOK'
    <3>1. Locals
      BY <2>12, <2>0 DEF Rollback, Labels, Resting
    <3>2. entry' \in 0..MaxSpawn /\ recorder' \in BOOLEAN
      BY <2>12, TableTypes DEF Rollback, table
    <3>3. live' \subseteq Pids /\ spawned' \in 0..MaxSpawn
      BY <2>12, SystemTypes DEF Rollback
    <3>4. starting' \in BOOLEAN /\ stopping' \in BOOLEAN
      BY <2>12 DEF TypeOK, Rollback
    <3>5. forsaken' \subseteq Pids
      <4>1. forsaken' = forsaken \/ (KillErr(c) /\ forsaken' = forsaken \union {entry})
        BY <2>12 DEF Rollback
      <4>2. KillErr(c) => entry \in Pids
        BY DEF KillErr, Exited, Running, TypeOK, Pids
      <4> QED BY <4>1, <4>2 DEF TypeOK
    <3> QED BY <2>12, <3>1, <3>2, <3>3, <3>4, <3>5 DEF TypeOK, Locals, Rollback
  <2>13. ASSUME NEW c \in Callers, TakeOutput(c) PROVE TypeOK'
    <3>1. Locals
      BY <2>13, <2>0 DEF TakeOutput, Labels, Resting, Starting
    <3> QED BY <2>13, <3>1 DEF TypeOK, Locals, TakeOutput, table, system, flags
  <2>14. ASSUME NEW c \in Callers, AttachRecorder(c) PROVE TypeOK'
    <3>1. Locals
      BY <2>14, <2>0 DEF AttachRecorder, Labels, Resting
    <3> QED BY <2>14, <3>1 DEF TypeOK, Locals, AttachRecorder, system
  <2>15. ASSUME NEW c \in Callers, SendFails(c) PROVE TypeOK'
    <3>1. Locals
      BY <2>15, <2>0 DEF SendFails, Labels, Resting
    <3> QED BY <2>15, <3>1 DEF TypeOK, Locals, SendFails, table, system, flags
  <2>16. ASSUME NEW c \in Callers, Send(c) PROVE TypeOK'
    <3>1. Locals
      BY <2>16, <2>0 DEF Send, Labels, Resting
    <3>2. asked' \subseteq Pids
      BY <2>16 DEF Send, Running, TypeOK
    <3> QED BY <2>16, <3>1, <3>2 DEF TypeOK, Locals, Send, table, system, flags
  <2>17. ASSUME NEW c \in Callers, MarkStopping(c) PROVE TypeOK'
    <3>1. Locals
      BY <2>17, <2>0 DEF MarkStopping, Labels
    <3> QED BY <2>17, <3>1 DEF TypeOK, Locals, MarkStopping, table, system
  <2>18. ASSUME NEW c \in Callers, StopPoll(c) PROVE TypeOK'
    <3>1. Locals
      BY <2>18, <2>0 DEF StopPoll, Labels, Resting
    <3>2. entry' \in 0..MaxSpawn /\ recorder' \in BOOLEAN
      BY <2>18, TableTypes DEF StopPoll, table
    <3>3. starting' \in BOOLEAN /\ stopping' \in BOOLEAN
      BY <2>18 DEF TypeOK, StopPoll, flags
    <3> QED BY <2>18, <3>1, <3>2, <3>3 DEF TypeOK, Locals, StopPoll, system
  <2>19. ASSUME NEW c \in Callers, StopKill(c) PROVE TypeOK'
    <3>1. Locals
      BY <2>19, <2>0 DEF StopKill, Labels, Resting
    <3> QED BY <2>19, <3>1 DEF TypeOK, Locals, StopKill, KillOk, KillErr, table, system, flags
  <2>20. ASSUME NEW c \in Callers, StopRemove(c) PROVE TypeOK'
    <3>1. Locals
      BY <2>20, <2>0 DEF StopRemove, Labels, Resting
    <3>2. entry' \in 0..MaxSpawn /\ recorder' \in BOOLEAN
      BY <2>20, TableTypes DEF StopRemove
    <3> QED BY <2>20, <3>1, <3>2 DEF TypeOK, Locals, StopRemove, system
  <2>21. ASSUME NEW c \in Callers, StopDrain(c) PROVE TypeOK'
    <3>1. Locals
      BY <2>21, <2>0 DEF StopDrain, Labels, Resting
    <3> QED BY <2>21, <3>1 DEF TypeOK, Locals, StopDrain, table, system, flags
  <2>22. ASSUME NEW c \in Callers, ForceStop(c) PROVE TypeOK'
    <3>1. Locals
      BY <2>22, <2>0 DEF ForceStop, Labels, Resting
    <3>2. entry' \in 0..MaxSpawn /\ recorder' \in BOOLEAN
      BY <2>22, TableTypes DEF ForceStop, table
    <3>3. live' \subseteq Pids /\ spawned' \in 0..MaxSpawn
      BY <2>22, SystemTypes DEF ForceStop
    <3>4. starting' \in BOOLEAN /\ stopping' \in BOOLEAN
      BY <2>22 DEF TypeOK, ForceStop, flags
    <3> QED BY <2>22, <3>1, <3>2, <3>3, <3>4 DEF TypeOK, Locals, ForceStop
  <2>23. ASSUME NEW c \in Callers, RestartReap(c) PROVE TypeOK'
    <3>1. Locals
      BY <2>23, <2>0 DEF RestartReap, Labels, Starting
    <3>2. entry' \in 0..MaxSpawn /\ recorder' \in BOOLEAN
      BY <2>23, TableTypes DEF RestartReap
    <3>3. starting' \in BOOLEAN /\ stopping' \in BOOLEAN
      BY <2>23 DEF TypeOK, RestartReap, flags
    <3> QED BY <2>23, <3>1, <3>2, <3>3 DEF TypeOK, Locals, RestartReap, system
  <2>24. ASSUME NEW c \in Callers, RestartRead(c) PROVE TypeOK'
    <3>1. Locals
      BY <2>24, <2>0 DEF RestartRead, Labels, Starting, Resting
    <3>2. starting' \in BOOLEAN /\ stopping' \in BOOLEAN
      BY <2>24 DEF TypeOK, RestartRead, flags
    <3> QED BY <2>24, <3>1, <3>2 DEF TypeOK, Locals, RestartRead, table, system
  <2>25. ASSUME NEW c \in Callers, StatusReap(c) PROVE TypeOK'
    <3>1. Locals
      BY <2>25, <2>0 DEF StatusReap, Labels, Resting
    <3>2. entry' \in 0..MaxSpawn /\ recorder' \in BOOLEAN
      BY <2>25, TableTypes DEF StatusReap
    <3> QED BY <2>25, <3>1, <3>2 DEF TypeOK, Locals, StatusReap, system, flags
  <2>26. ASSUME NEW c \in Callers, DeadlinePasses(c) PROVE TypeOK'
    BY <2>26 DEF TypeOK, DeadlinePasses, table, system, flags, mutexes
  <2>27. ASSUME NEW c \in Callers, Cancel(c) PROVE TypeOK'
    <3>1. Locals
      BY <2>27, <2>0 DEF Cancel, Labels, Resting
    <3>2. mine[c] \in Pids \union {0}
      BY DEF TypeOK, Pids
    <3>3. forsaken' \subseteq Pids
      BY <2>27, <3>2 DEF TypeOK, Cancel
    <3> QED BY <2>27, <3>1, <3>3 DEF TypeOK, Locals, Cancel, table, system, flags
  <2>28. ASSUME NEW p \in Pids, ProcessExit(p) PROVE TypeOK'
    BY <2>28 DEF TypeOK, ProcessExit, table, flags, mutexes, locals
  <2>29. ASSUME DeleteInstance \/ CreateInstance PROVE TypeOK'
    <3>1. registered' \in BOOLEAN /\ removedAt' \in 0..MaxSpawn
      <4>1. registered' \in BOOLEAN /\ removedAt' \in {0, spawned}
        BY <2>29 DEF DeleteInstance, CreateInstance
      <4>2. 0 \in 0..MaxSpawn /\ spawned \in 0..MaxSpawn
        BY DEF TypeOK
      <4> QED BY <4>1, <4>2
    <3>2. UNCHANGED <<table, system, flags, mutexes, pc, locals, asked, forsaken>>
      BY <2>29 DEF DeleteInstance, CreateInstance
    <3> QED BY <3>1, <3>2 DEF TypeOK, table, system, flags, mutexes, locals
  <2> QED
    BY NextCases, <2>1, <2>2, <2>3, <2>4, <2>5, <2>6, <2>7, <2>8, <2>9, <2>10, <2>11,
       <2>12, <2>13, <2>14, <2>15, <2>16, <2>17, <2>18, <2>19, <2>20, <2>21, <2>22,
       <2>23, <2>24, <2>25, <2>26, <2>27, <2>28, <2>29
<1> QED BY <1>1, <1>2, PTL DEF Spec

-----------------------------------------------------------------------------
(* Mutual exclusion.                                                        *)

\* The labels past lock_lifecycle, and those a lock-free call goes through.
Within == Labels \ (Resting \union {"lock", "wait"})

\* A step that moves one call forward without touching the mutex.
LEMMA StepKeepsLock ==
    ASSUME TypeOK, LockInv, NEW c \in Callers, NEW label \in Within,
           pc[c] \in Within, op[c] \in LockedOps \/ label \in {FirstStep(op[c])},
           pc' = [pc EXCEPT ![c] = label], UNCHANGED <<mutexes, op>>
    PROVE  LockInv'
<1>1. /\ label \notin Resting \union {"lock", "wait"}
      /\ pc[c] \notin Resting \union {"lock", "wait"}
  BY DEF Within
<1>2. \A d \in Callers : pc'[d] = IF d = c THEN label ELSE pc[d]
  BY DEF TypeOK
<1>3. \A d \in Callers : Inside(d)' <=> Inside(d)
  BY <1>1, <1>2 DEF Inside
<1>4. ref' = ref /\ owner' = owner /\ slot' = slot /\ op' = op
  BY DEF mutexes
<1>5. \A d \in Callers : pc'[d] = "wait" <=> pc[d] = "wait"
  BY <1>1, <1>2
<1>6. ASSUME NEW d \in Callers
      PROVE  /\ pc'[d] \in {"lock", "wait"} => op'[d] \in LockedOps
             /\ pc'[d] \notin Resting /\ op'[d] = "status" => pc'[d] \in {"lookup", "status_reap"}
             /\ pc'[d] \notin Resting /\ op'[d] = "command" => pc'[d] \in {"lookup", "send"}
  <2>1. CASE d = c
    BY <2>1, <1>1, <1>2, <1>4 DEF LockedOps, FirstStep
  <2>2. CASE d # c
    BY <2>2, <1>2, <1>4 DEF LockInv
  <2> QED BY <2>1, <2>2
<1>7. \A l \in Locks : owner[l] # None => owner[l] \in Callers
  BY DEF TypeOK
<1> QED BY <1>3, <1>4, <1>5, <1>6, <1>7 DEF LockInv

\* Returning releases the mutex the call held and forgets the one it waited for.
LEMMA ReturnKeepsLock ==
    ASSUME TypeOK, LockInv, NEW c \in Callers, NEW outcome \in Resting, Return(c, outcome)
    PROVE  LockInv'
<1>1. \A d \in Callers : /\ pc'[d] = IF d = c THEN outcome ELSE pc[d]
                         /\ op'[d] = IF d = c THEN "status" ELSE op[d]
                         /\ ref'[d] = IF d = c THEN None ELSE ref[d]
  BY DEF TypeOK, Return
<1>2. slot' = slot /\ \A l \in Locks : owner'[l] = IF owner[l] = c THEN None ELSE owner[l]
  BY DEF TypeOK, Return
<1>3. \A d \in Callers : Inside(d)' <=> d # c /\ Inside(d)
  BY <1>1 DEF Inside
<1>4. None \notin Callers /\ \A l \in Locks : owner[l] # None => owner[l] \in Callers
  BY LifecycleAssumption DEF TypeOK
<1>5. ASSUME NEW d \in Callers
      PROVE  /\ ref'[d] # None => ref'[d] = slot'
             /\ ref'[d] # None <=> pc'[d] = "wait" \/ Inside(d)'
             /\ Inside(d)' => owner'[ref'[d]] = d
             /\ pc'[d] \in {"lock", "wait"} => op'[d] \in LockedOps
             /\ pc'[d] \notin Resting /\ op'[d] = "status" => pc'[d] \in {"lookup", "status_reap"}
             /\ pc'[d] \notin Resting /\ op'[d] = "command" => pc'[d] \in {"lookup", "send"}
  <2>1. CASE d = c
    BY <2>1, <1>1, <1>3 DEF Resting
  <2>2. CASE d # c
    <3>1. Inside(d) => owner[ref[d]] = d /\ ref[d] \in Locks
      BY DEF LockInv, TypeOK
    <3> QED BY <2>2, <3>1, <1>1, <1>2, <1>3, <1>4 DEF LockInv
  <2> QED BY <2>1, <2>2
<1>6. ASSUME NEW l \in Locks, NEW d \in Callers, owner'[l] = d
      PROVE  Inside(d)' /\ ref'[d] = l
  BY <1>6, <1>1, <1>2, <1>3, <1>4 DEF LockInv
<1> QED BY <1>5, <1>6 DEF LockInv

\* The mutex a caller refers to is the map's, also when it was just recreated.
LEMMA LockStep == TypeOK /\ LockInv /\ [Next]_vars => LockInv'
<1> SUFFICES ASSUME TypeOK, LockInv, Next PROVE LockInv'
  BY DEF vars, mutexes, locals, LockInv, Inside
<1> USE LifecycleAssumption
<1>1. ASSUME NEW c \in Callers, Call(c) PROVE LockInv'
  <2>1. PICK o \in Ops : /\ op' = [op EXCEPT ![c] = o]
                         /\ pc' = [pc EXCEPT ![c] = IF o \in LockedOps THEN "lock" ELSE "lookup"]
    BY <1>1 DEF Call
  <2>2. ref' = ref /\ owner' = owner /\ slot' = slot
    BY <1>1 DEF Call, mutexes
  <2>3. \A d \in Callers : d # c => pc'[d] = pc[d] /\ op'[d] = op[d]
    BY <2>1 DEF TypeOK
  <2>4. op'[c] = o /\ pc'[c] = IF o \in LockedOps THEN "lock" ELSE "lookup"
    BY <2>1 DEF TypeOK
  <2>5. pc[c] \in Resting /\ ~Inside(c) /\ ~Inside(c)' /\ ref[c] = None
    BY <1>1, <2>4 DEF Call, Inside, LockInv, Resting
  <2>6. \A d \in Callers : Inside(d)' <=> Inside(d)
    BY <2>3, <2>5 DEF Inside
  <2>7. \A l \in Locks : owner[l] # None => owner[l] \in Callers
    BY DEF TypeOK
  <2>8. ASSUME NEW d \in Callers
        PROVE  /\ ref[d] # None <=> pc'[d] = "wait" \/ Inside(d)
               /\ pc'[d] \in {"lock", "wait"} => op'[d] \in LockedOps
               /\ pc'[d] \notin Resting /\ op'[d] = "status" => pc'[d] \in {"lookup", "status_reap"}
               /\ pc'[d] \notin Resting /\ op'[d] = "command" => pc'[d] \in {"lookup", "send"}
    <3>1. CASE d = c
      BY <3>1, <2>4, <2>5 DEF LockedOps
    <3>2. CASE d # c
      BY <3>2, <2>3 DEF LockInv
    <3> QED BY <3>1, <3>2
  <2> QED BY <2>2, <2>6, <2>7, <2>8 DEF LockInv
<1>2. ASSUME NEW c \in Callers, TakeLock(c) PROVE LockInv'
  <2>1. PICK l \in Locks : /\ slot' = l /\ ref' = [ref EXCEPT ![c] = l]
                           /\ IF \E d \in Callers : slot # None /\ ref[d] = slot
                              THEN l = slot
                              ELSE \A d \in Callers : ref[d] # l
    BY <1>2 DEF TakeLock
  <2>2. /\ pc[c] = "lock" /\ owner' = owner /\ op' = op
        /\ pc' = [pc EXCEPT ![c] = "wait"]
    BY <1>2 DEF TakeLock, locals
  <2>3. \A d \in Callers : /\ ref'[d] = IF d = c THEN l ELSE ref[d]
                           /\ pc'[d] = IF d = c THEN "wait" ELSE pc[d]
    BY <2>1, <2>2 DEF TypeOK
  <2>4. ref[c] = None /\ op[c] \in LockedOps
    BY <2>2 DEF LockInv, Inside
  <2>5. \A d \in Callers : Inside(d)' <=> Inside(d)
    BY <2>2, <2>3 DEF Inside
  <2>6. ASSUME NEW d \in Callers, ref[d] # None PROVE l = slot
    BY <2>1, <2>6 DEF LockInv
  <2>7. l # None
    OBVIOUS
  <2>8. ~Inside(c)
    BY <2>2 DEF Inside
  <2>9. ASSUME NEW d \in Callers
        PROVE  /\ ref'[d] # None => ref'[d] = slot'
               /\ ref'[d] # None <=> pc'[d] = "wait" \/ Inside(d)'
               /\ Inside(d)' => owner'[ref'[d]] = d
               /\ pc'[d] \in {"lock", "wait"} => op'[d] \in LockedOps
               /\ pc'[d] \notin Resting /\ op'[d] = "status" => pc'[d] \in {"lookup", "status_reap"}
               /\ pc'[d] \notin Resting /\ op'[d] = "command" => pc'[d] \in {"lookup", "send"}
    <3>1. CASE d = c
      BY <3>1, <2>1, <2>2, <2>3, <2>4, <2>5, <2>7, <2>8 DEF LockedOps
    <3>2. CASE d # c
      BY <3>2, <2>1, <2>2, <2>3, <2>5, <2>6 DEF LockInv
    <3> QED BY <3>1, <3>2
  <2>10. ASSUME NEW k \in Locks, NEW d \in Callers, owner'[k] = d
         PROVE  Inside(d)' /\ ref'[d] = k
    <3>1. Inside(d) /\ ref[d] = k
      BY <2>10, <2>2 DEF LockInv
    <3> QED BY <3>1, <2>2, <2>3, <2>5, <2>8
  <2> QED BY <2>9, <2>10 DEF LockInv
<1>3. ASSUME NEW c \in Callers, Acquire(c) PROVE LockInv'
  <2>1. /\ pc[c] = "wait" /\ op' = op /\ slot' = slot /\ ref' = ref
        /\ pc' = [pc EXCEPT ![c] = "lookup"]
        /\ owner[ref[c]] = None /\ owner' = [owner EXCEPT ![ref[c]] = c]
    BY <1>3 DEF Acquire, locals
  <2>2. \A d \in Callers : pc'[d] = IF d = c THEN "lookup" ELSE pc[d]
    BY <2>1 DEF TypeOK
  <2>3. ref[c] \in Locks /\ ref[c] = slot /\ op[c] \in LockedOps
    BY <2>1 DEF LockInv, TypeOK
  <2>4. \A k \in Locks : owner'[k] = IF k = ref[c] THEN c ELSE owner[k]
    BY <2>1, <2>3 DEF TypeOK
  <2>5. \A d \in Callers : Inside(d)' <=> d = c \/ Inside(d)
    BY <2>1, <2>2, <2>3 DEF Inside, Resting
  <2>6. ~Inside(c)
    BY <2>1 DEF Inside
  <2>7. ASSUME NEW d \in Callers
        PROVE  /\ ref'[d] # None => ref'[d] = slot'
               /\ ref'[d] # None <=> pc'[d] = "wait" \/ Inside(d)'
               /\ Inside(d)' => owner'[ref'[d]] = d
               /\ pc'[d] \in {"lock", "wait"} => op'[d] \in LockedOps
               /\ pc'[d] \notin Resting /\ op'[d] = "status" => pc'[d] \in {"lookup", "status_reap"}
               /\ pc'[d] \notin Resting /\ op'[d] = "command" => pc'[d] \in {"lookup", "send"}
    <3>1. CASE d = c
      BY <3>1, <2>1, <2>2, <2>3, <2>4, <2>5 DEF LockedOps
    <3>2. CASE d # c
      <4>1. Inside(d) => owner[ref[d]] = d /\ ref[d] \in Locks
        BY DEF LockInv, TypeOK
      <4> QED BY <3>2, <4>1, <2>1, <2>2, <2>4, <2>5 DEF LockInv
    <3> QED BY <3>1, <3>2
  <2>8. ASSUME NEW k \in Locks, NEW d \in Callers, owner'[k] = d
        PROVE  Inside(d)' /\ ref'[d] = k
    <3>1. owner[k] = d => Inside(d) /\ ref[d] = k
      BY DEF LockInv
    <3> QED BY <2>8, <3>1, <2>1, <2>4, <2>5
  <2> QED BY <2>7, <2>8 DEF LockInv
<1>4. \A c \in Callers, outcome \in Resting : Return(c, outcome) => LockInv'
  BY ReturnKeepsLock
<1>5. ASSUME NEW c \in Callers, NEW label \in Within, pc[c] \in Within, op[c] \in LockedOps,
             Goto(c, label)
      PROVE  LockInv'
  BY <1>5, StepKeepsLock DEF Goto, locals
<1>6. Resting = {"idle", "ok", "err", "cancelled"}
  BY DEF Resting
<1>7. \A c \in Callers : pc[c] \in Within \ {"lookup", "status_reap", "send"} => op[c] \in LockedOps
  BY DEF Within, LockInv, TypeOK, Ops, LockedOps
<1>8. ASSUME NEW c \in Callers, Lookup(c) PROVE LockInv'
  <2>1. CASE Goto(c, FirstStep(op[c]))
    <3>1. op[c] \in Ops
      BY DEF TypeOK
    <3>2. FirstStep(op[c]) \in Within
      BY <3>1 DEF FirstStep, Ops, LockedOps, Within, Labels, Resting, Starting
    <3>3. pc[c] \in Within
      BY <1>8 DEF Lookup, Within, Labels, Resting
    <3> QED BY <2>1, <3>2, <3>3, StepKeepsLock DEF Goto, locals
  <2>2. CASE Return(c, "err")
    BY <2>2, <1>4, <1>6
  <2> QED BY <1>8, <2>1, <2>2 DEF Lookup
<1>9. ASSUME NEW c \in Callers, StartStep(c) PROVE LockInv'
  <2>1. pc[c] \in Within /\ op[c] \in LockedOps
    BY <1>7, <1>9 DEF StartStep, StartCheck, StartReap, StartBuild, SpawnFails, Spawn, Insert,
       PersistStart, Rollback, TakeOutput, AttachRecorder, Within, Labels, Resting, Starting
  <2>2. Starting \subseteq Within
    BY DEF Starting, Within, Labels, Resting
  <2>3. CASE Spawn(c)
    <3>1. pc' = [pc EXCEPT ![c] = "start_insert"] /\ UNCHANGED <<mutexes, op>>
      BY <2>3 DEF Spawn
    <3>2. "start_insert" \in Within
      BY <2>2 DEF Starting
    <3> QED BY <2>1, <3>1, <3>2, StepKeepsLock
  <2>4. CASE \/ StartCheck(c) \/ StartReap(c) \/ StartBuild(c) \/ SpawnFails(c) \/ Insert(c)
             \/ PersistStart(c) \/ Rollback(c) \/ TakeOutput(c) \/ AttachRecorder(c)
    <3>1. (\E label \in Starting : Goto(c, label)) \/ (\E outcome \in Resting : Return(c, outcome))
      BY <2>4, <1>6 DEF StartCheck, StartReap, StartBuild, SpawnFails, Insert, PersistStart,
         Rollback, TakeOutput, AttachRecorder, Starting
    <3> QED BY <3>1, <2>1, <2>2, <1>4, <1>5
  <2> QED BY <1>9, <2>3, <2>4 DEF StartStep
<1>10. ASSUME NEW c \in Callers, StopStep(c) PROVE LockInv'
  <2>1. pc[c] \in Within
    BY <1>10 DEF StopStep, SendFails, Send, MarkStopping, StopPoll, StopKill, StopRemove,
       StopDrain, Within, Labels, Resting
  <2>2. \/ \E outcome \in Resting : Return(c, outcome)
        \/ /\ op[c] \in LockedOps
           /\ \E label \in {"stop_mark", "stop_poll", "await_reap", "stop_kill", "stop_remove",
                             "stop_drain"} : Goto(c, label)
    <3>1. CASE SendFails(c) \/ StopDrain(c)
      BY <3>1, <1>6 DEF SendFails, StopDrain
    <3>2. CASE Send(c)
      <4>1. op[c] # "command" => op[c] \in LockedOps
        BY <3>2 DEF Send, LockInv, TypeOK, Ops, Resting
      <4> QED BY <3>2, <4>1, <1>6 DEF Send
    <3>3. CASE MarkStopping(c) \/ StopPoll(c) \/ StopKill(c) \/ StopRemove(c)
      <4>1. op[c] \in LockedOps
        BY <3>3, <2>1, <1>7 DEF MarkStopping, StopPoll, StopKill, StopRemove
      <4> QED BY <3>3, <4>1, <1>6 DEF MarkStopping, StopPoll, StopKill, StopRemove
    <3> QED BY <1>10, <3>1, <3>2, <3>3 DEF StopStep
  <2>3. {"stop_mark", "stop_poll", "await_reap", "stop_kill", "stop_remove", "stop_drain"}
           \subseteq Within
    BY DEF Within, Labels, Resting
  <2> QED BY <2>1, <2>2, <2>3, <1>4, <1>5
<1>11. ASSUME NEW c \in Callers, ForceStop(c) PROVE LockInv'
  BY <1>11, <1>4, <1>6 DEF ForceStop
<1>12. ASSUME NEW c \in Callers, RestartReap(c) \/ RestartRead(c) PROVE LockInv'
  <2>1. pc[c] \in Within /\ op[c] \in LockedOps
    BY <1>12, <1>7 DEF RestartReap, RestartRead, Within, Labels, Resting
  <2>2. \/ \E outcome \in Resting : Return(c, outcome)
        \/ \E label \in {"start_check", "restart_read", "await_read", "send", "await_reap"} :
             Goto(c, label)
    BY <1>12, <1>6 DEF RestartReap, RestartRead
  <2>3. {"start_check", "restart_read", "await_read", "send", "await_reap"} \subseteq Within
    BY DEF Within, Labels, Resting, Starting
  <2> QED BY <2>1, <2>2, <2>3, <1>4, <1>5
<1>13. ASSUME NEW c \in Callers, StatusReap(c) \/ Cancel(c) PROVE LockInv'
  BY <1>13, <1>4, <1>6 DEF StatusReap, Cancel
<1>14. ASSUME NEW c \in Callers, DeadlinePasses(c) PROVE LockInv'
  BY <1>14 DEF DeadlinePasses, mutexes, LockInv, Inside
<1>15. ASSUME NEW p \in Pids, ProcessExit(p) PROVE LockInv'
  BY <1>15 DEF ProcessExit, mutexes, locals, LockInv, Inside
<1>16. ASSUME DeleteInstance \/ CreateInstance PROVE LockInv'
  BY <1>16 DEF DeleteInstance, CreateInstance, mutexes, locals, LockInv, Inside
<1> QED
  BY <1>1, <1>2, <1>3, <1>8, <1>9, <1>10, <1>11, <1>12, <1>13, <1>14, <1>15, <1>16
     DEF Next, Progress

\* start, restart, stop and force_stop of one instance exclude each other.
THEOREM MutualExclusion == Spec => []Exclusive
<1>1. Init => LockInv
  BY LifecycleAssumption DEF Init, LockInv, Inside, Resting
<1>2. TypeOK /\ LockInv => Exclusive
  BY LifecycleAssumption DEF LockInv, Exclusive
<1> QED BY <1>1, <1>2, LockStep, Typing, PTL DEF Spec

-----------------------------------------------------------------------------
(* No process is lost and no two run at once.                               *)

\* Whoever is at one of these labels is past lock_lifecycle.
Critical == {"start_reap", "stop_remove", "start_build", "start_spawn", "start_insert"}

LEMMA CriticalInside ==
    ASSUME TypeOK, LockInv, NEW c \in Callers, pc[c] \in Critical
    PROVE  Inside(c)
BY DEF Critical, Inside, LockInv, TypeOK, Ops, Resting

LEMMA LockExcludes == ASSUME TypeOK, LockInv PROVE Exclusive
BY LifecycleAssumption DEF LockInv, Exclusive, TypeOK

\* A step of c that spawns nothing and drops only an entry whose process is
\* gone keeps every section's knowledge, if c's own new label is justified.
LEMMA QuietStep ==
    ASSUME TypeOK, SectionInv, LiveIsTracked, NEW c \in Callers, NEW label,
           pc' = [pc EXCEPT ![c] = label],
           \A d \in Callers : d # c => mine'[d] = mine[d],
           pc[c] # "start_insert", label # "start_insert",
           live' \subseteq live, spawned' = spawned,
           entry' = entry \/ (entry' = 0 /\ entry \notin live'),
           label \in {"start_reap", "stop_remove"} => entry' \notin live',
           label \in {"start_build", "start_spawn"} => entry' = 0
    PROVE  SectionInv' /\ LiveIsTracked'
<1>1. \A d \in Callers : pc'[d] = IF d = c THEN label ELSE pc[d]
  BY DEF TypeOK
<1>2. 0 \notin live
  BY LifecycleAssumption DEF TypeOK, Pids
<1>3. SectionInv'
  BY <1>1, <1>2 DEF SectionInv
<1>4. ASSUME NEW p \in live'
      PROVE  p = entry' \/ \E d \in Callers : pc'[d] = "start_insert" /\ p = mine'[d]
  <2>1. p = entry \/ \E d \in Callers : pc[d] = "start_insert" /\ p = mine[d]
    BY <1>4 DEF LiveIsTracked
  <2> QED BY <2>1, <1>1, <1>4
<1>5. LiveIsTracked'
  BY <1>4 DEF LiveIsTracked
<1> QED BY <1>3, <1>5

LEMMA TrackingStep ==
    TypeOK /\ LockInv /\ SectionInv /\ LiveIsTracked /\ [Next]_vars
      => SectionInv' /\ LiveIsTracked'
<1> SUFFICES ASSUME TypeOK, LockInv, SectionInv, LiveIsTracked, [Next]_vars
             PROVE  SectionInv' /\ LiveIsTracked'
  OBVIOUS
<1> USE LifecycleAssumption
<1>a. 0 \notin live
  BY DEF TypeOK, Pids
\* A step by c to a label that claims nothing of the table.
<1>b. ASSUME NEW c \in Callers, pc[c] # "start_insert",
             NEW label \in Labels \ Critical,
             Goto(c, label) \/ Return(c, label),
             live' \subseteq live, spawned' = spawned,
             entry' = entry \/ (entry' = 0 /\ entry \notin live')
      PROVE  SectionInv' /\ LiveIsTracked'
  <2>1. pc' = [pc EXCEPT ![c] = label] /\ \A d \in Callers : d # c => mine'[d] = mine[d]
    BY <1>b DEF Goto, Return, locals, TypeOK
  <2>2. label \notin Critical
    OBVIOUS
  <2> QED BY <1>b, <2>1, <2>2, QuietStep DEF Critical
<1>c. (Resting \subseteq Labels \ Critical) /\ Resting = {"idle", "ok", "err", "cancelled"}
  BY DEF Resting, Labels, Critical
<1>1. ASSUME NEW c \in Callers, Call(c) PROVE SectionInv' /\ LiveIsTracked'
  <2>1. PICK label \in {"lock", "lookup"} : pc' = [pc EXCEPT ![c] = label]
    BY <1>1 DEF Call
  <2> QED BY <1>1, <2>1, QuietStep DEF Call, Resting, table, system
<1>2. ASSUME NEW c \in Callers, TakeLock(c) \/ Acquire(c) PROVE SectionInv' /\ LiveIsTracked'
  <2>1. PICK label \in {"wait", "lookup"} : pc' = [pc EXCEPT ![c] = label]
    BY <1>2 DEF TakeLock, Acquire
  <2> QED BY <1>2, <2>1, QuietStep DEF TakeLock, Acquire, table, system, locals
<1>3. ASSUME NEW c \in Callers, Lookup(c) PROVE SectionInv' /\ LiveIsTracked'
  <2>1. FirstStep(op[c]) \in Labels \ Critical
    BY FirstStepLabel DEF TypeOK, FirstStep, Ops, LockedOps, Critical
  <2> QED BY <1>3, <1>b, <1>c, <2>1 DEF Lookup, table, system
<1>4. ASSUME NEW c \in Callers, StartCheck(c) PROVE SectionInv' /\ LiveIsTracked'
  <2>1. CASE Running
    BY <1>4, <2>1, <1>b, <1>c DEF StartCheck, table, system
  <2>2. CASE ~Running
    <3>1. pc' = [pc EXCEPT ![c] = "start_reap"] /\ mine' = mine /\ pc[c] = "start_check"
      BY <1>4, <2>2 DEF StartCheck, Goto, locals
    <3> QED BY <1>4, <2>2, <3>1, QuietStep DEF StartCheck, Running, table, system
  <2> QED BY <2>1, <2>2
<1>5. ASSUME NEW c \in Callers, StartReap(c) PROVE SectionInv' /\ LiveIsTracked'
  <2>1. pc' = [pc EXCEPT ![c] = "start_build"] /\ mine' = mine /\ pc[c] = "start_reap"
    BY <1>5 DEF StartReap, Goto, locals
  <2>2. entry \notin live
    BY <2>1 DEF SectionInv
  <2>3. entry' = 0 /\ live' = live /\ spawned' = spawned
    BY <1>5, <2>2 DEF StartReap, ReapIfExited, Exited, RemoveEntry, table, system
  <2> QED BY <2>1, <2>2, <2>3, QuietStep
<1>6. ASSUME NEW c \in Callers, StartBuild(c) PROVE SectionInv' /\ LiveIsTracked'
  <2>1. CASE Return(c, "err")
    BY <1>6, <2>1, <1>b, <1>c DEF StartBuild, table, system
  <2>2. CASE Goto(c, "start_spawn")
    <3>1. /\ pc' = [pc EXCEPT ![c] = "start_spawn"] /\ mine' = mine
          /\ pc[c] = "start_build" /\ entry' = entry /\ live' = live /\ spawned' = spawned
      BY <1>6, <2>2 DEF StartBuild, Goto, locals, table, system
    <3>2. entry = 0
      BY <3>1 DEF SectionInv
    <3> QED BY <3>1, <3>2, QuietStep
  <2> QED BY <1>6, <2>1, <2>2 DEF StartBuild
<1>7. ASSUME NEW c \in Callers, Spawn(c) PROVE SectionInv' /\ LiveIsTracked'
  <2>1. /\ pc[c] = "start_spawn" /\ pc' = [pc EXCEPT ![c] = "start_insert"]
        /\ mine' = [mine EXCEPT ![c] = spawned + 1]
        /\ live' = live \union {spawned + 1} /\ spawned' = spawned + 1 /\ entry' = entry
    BY <1>7 DEF Spawn, table
  <2>2. entry = 0 /\ spawned \in Nat
    BY <2>1 DEF SectionInv, TypeOK
  <2>3. \A d \in Callers : /\ pc'[d] = IF d = c THEN "start_insert" ELSE pc[d]
                           /\ mine'[d] = IF d = c THEN spawned + 1 ELSE mine[d]
    BY <2>1 DEF TypeOK
  <2>4. 0 \notin live'
    BY <2>1, <2>2, <1>a
  <2>5. live' \subseteq 1..spawned'
    BY <2>1, <2>2 DEF SectionInv
  <2>6. SectionInv'
    BY <2>1, <2>2, <2>3, <2>4, <2>5 DEF SectionInv
  <2>7. ASSUME NEW p \in live'
        PROVE  p = entry' \/ \E d \in Callers : pc'[d] = "start_insert" /\ p = mine'[d]
    <3>1. CASE p = spawned + 1
      BY <3>1, <2>3
    <3>2. CASE p \in live
      <4>1. p = entry \/ \E d \in Callers : pc[d] = "start_insert" /\ p = mine[d]
        BY <3>2 DEF LiveIsTracked
      <4> QED BY <4>1, <2>1, <2>3
    <3> QED BY <2>1, <2>7, <3>1, <3>2
  <2> QED BY <2>6, <2>7 DEF LiveIsTracked
<1>8. ASSUME NEW c \in Callers, Insert(c) PROVE SectionInv' /\ LiveIsTracked'
  <2>1. /\ pc[c] = "start_insert" /\ pc' = [pc EXCEPT ![c] = "start_persist"]
        /\ live' = live /\ spawned' = spawned /\ entry' = mine[c]
    BY <1>8 DEF Insert, Goto, system
  <2>2. Inside(c) /\ Exclusive
    BY <2>1, CriticalInside, LockExcludes DEF Critical
  <2>3. \A d \in Callers : d # c => pc[d] \notin Critical
    BY <2>2, CriticalInside DEF Exclusive
  <2>4. \A d \in Callers : pc'[d] \notin Critical
    BY <2>1, <2>3 DEF TypeOK, Critical
  <2>5. SectionInv'
    BY <2>1, <2>4 DEF SectionInv, Critical
  <2>6. \A p \in live : p = mine[c]
    BY <2>1, <2>3, <1>a DEF LiveIsTracked, SectionInv, Critical
  <2> QED BY <2>1, <2>5, <2>6 DEF LiveIsTracked
<1>9. ASSUME NEW c \in Callers,
             SpawnFails(c) \/ PersistStart(c) \/ TakeOutput(c) \/ AttachRecorder(c)
      PROVE  SectionInv' /\ LiveIsTracked'
  <2>1. {"start_take", "start_rollback", "start_record"} \subseteq Labels \ Critical
    BY DEF Labels, Starting, Critical
  <2>2. pc[c] # "start_insert"
    BY <1>9 DEF SpawnFails, PersistStart, TakeOutput, AttachRecorder
  <2>3. \E label \in Labels \ Critical : Goto(c, label) \/ Return(c, label)
    BY <1>9, <2>1, <1>c DEF SpawnFails, PersistStart, TakeOutput, AttachRecorder
  <2>4. entry' = entry /\ live' = live /\ spawned' = spawned
    BY <1>9 DEF SpawnFails, PersistStart, TakeOutput, AttachRecorder, table, system
  <2> QED BY <2>2, <2>3, <2>4, <1>b
<1>10. ASSUME NEW c \in Callers, Rollback(c) \/ ForceStop(c) PROVE SectionInv' /\ LiveIsTracked'
  <2>1. pc[c] # "start_insert"
    BY <1>10 DEF Rollback, ForceStop
  <2>2. \E label \in Labels \ Critical : Return(c, label)
    BY <1>10, <1>c DEF Rollback, ForceStop
  <2>3. /\ live' \subseteq live /\ spawned' = spawned
        /\ entry' = entry \/ (entry' = 0 /\ entry \notin live')
    BY <1>10 DEF Rollback, ForceStop, KillOk, KillErr, RemoveEntry, table, system
  <2> QED BY <2>1, <2>2, <2>3, <1>b
<1>11. ASSUME NEW c \in Callers, SendFails(c) \/ Send(c) \/ MarkStopping(c) \/ StopDrain(c)
       PROVE  SectionInv' /\ LiveIsTracked'
  <2>1. {"stop_mark", "stop_poll", "await_reap"} \subseteq Labels \ Critical
    BY DEF Labels, Critical
  <2>2. pc[c] # "start_insert"
    BY <1>11 DEF SendFails, Send, MarkStopping, StopDrain
  <2>3. \E label \in Labels \ Critical : Goto(c, label) \/ Return(c, label)
    BY <1>11, <2>1, <1>c DEF SendFails, Send, MarkStopping, StopDrain
  <2>4. entry' = entry /\ live' = live /\ spawned' = spawned
    BY <1>11 DEF SendFails, Send, MarkStopping, StopDrain, table, system
  <2> QED BY <2>2, <2>3, <2>4, <1>b
<1>12. ASSUME NEW c \in Callers, StopPoll(c) PROVE SectionInv' /\ LiveIsTracked'
  <2>1. {"stop_drain", "stop_kill", "stop_poll"} \subseteq Labels \ Critical
    BY DEF Labels, Critical
  <2>2. \E label \in Labels \ Critical : Goto(c, label) \/ Return(c, label)
    BY <1>12, <2>1, <1>c DEF StopPoll
  <2>3. /\ pc[c] # "start_insert" /\ live' = live /\ spawned' = spawned
        /\ entry' = entry \/ (entry' = 0 /\ entry \notin live')
    BY <1>12 DEF StopPoll, Exited, RemoveEntry, table, system
  <2> QED BY <2>2, <2>3, <1>b
<1>13. ASSUME NEW c \in Callers, StopKill(c) PROVE SectionInv' /\ LiveIsTracked'
  <2>1. CASE Return(c, "err")
    BY <1>13, <2>1, <1>b, <1>c DEF StopKill, KillOk, KillErr, table, system
  <2>2. CASE Goto(c, "stop_remove")
    <3>1. /\ pc[c] = "stop_kill" /\ entry' = entry /\ spawned' = spawned
          /\ pc' = [pc EXCEPT ![c] = "stop_remove"] /\ mine' = mine
      BY <1>13, <2>2 DEF StopKill, KillOk, KillErr, Goto, locals, table, system
    <3>2. live' \subseteq live /\ entry' \notin live'
      <4>1. pc' # [pc EXCEPT ![c] = "err"]
        BY <3>1 DEF TypeOK
      <4>2. ~Return(c, "err")
        BY <4>1 DEF Return
      <4> QED BY <1>13, <4>2, <1>a DEF StopKill, KillOk, table, system
    <3> QED BY <3>1, <3>2, QuietStep
  <2> QED BY <1>13, <2>1, <2>2 DEF StopKill
<1>14. ASSUME NEW c \in Callers, StopRemove(c) PROVE SectionInv' /\ LiveIsTracked'
  <2>1. "stop_drain" \in Labels \ Critical
    BY DEF Labels, Critical
  <2>2. entry \notin live /\ live' = live /\ spawned' = spawned /\ entry' = 0
        /\ pc[c] # "start_insert"
    BY <1>14 DEF StopRemove, SectionInv, RemoveEntry, system
  <2>3. \E label \in Labels \ Critical : Goto(c, label) \/ Return(c, label)
    BY <1>14, <2>1, <1>c DEF StopRemove
  <2> QED BY <2>2, <2>3, <1>b
<1>15. ASSUME NEW c \in Callers, RestartReap(c) \/ RestartRead(c) \/ StatusReap(c) \/ Cancel(c)
       PROVE  SectionInv' /\ LiveIsTracked'
  <2>1. {"start_check", "restart_read", "await_read", "send", "await_reap"}
           \subseteq Labels \ Critical
    BY DEF Labels, Starting, Critical
  <2>2. \E label \in Labels \ Critical : Goto(c, label) \/ Return(c, label)
    BY <1>15, <2>1, <1>c DEF RestartReap, RestartRead, StatusReap, Cancel
  <2>3. /\ pc[c] # "start_insert" /\ live' = live /\ spawned' = spawned
        /\ entry' = entry \/ (entry' = 0 /\ entry \notin live')
    BY <1>15 DEF RestartReap, RestartRead, StatusReap, Cancel, AwaitPoints, ReapIfExited, Exited,
       RemoveEntry, table, system
  <2> QED BY <2>2, <2>3, <1>b
<1>16. ASSUME NEW p \in Pids, ProcessExit(p) PROVE SectionInv' /\ LiveIsTracked'
  BY <1>16 DEF ProcessExit, SectionInv, LiveIsTracked, table, locals
<1>17. ASSUME NEW c \in Callers, DeadlinePasses(c) PROVE SectionInv' /\ LiveIsTracked'
  BY <1>17 DEF DeadlinePasses, SectionInv, LiveIsTracked, table, system
<1>18. CASE DeleteInstance \/ CreateInstance \/ UNCHANGED vars
  BY <1>18 DEF DeleteInstance, CreateInstance, vars, table, system, locals, SectionInv, LiveIsTracked
<1> QED
  BY <1>1, <1>2, <1>3, <1>4, <1>5, <1>6, <1>7, <1>8, <1>9, <1>10, <1>11, <1>12, <1>13,
     <1>14, <1>15, <1>16, <1>17, <1>18, NextCases

\* The strengthening that is inductive, as a theorem of the specification.
LEMMA Inductive == Spec => [](TypeOK /\ LockInv /\ SectionInv /\ LiveIsTracked)
<1>1. Init => LockInv /\ SectionInv /\ LiveIsTracked
  BY LifecycleAssumption DEF Init, LockInv, SectionInv, LiveIsTracked, Inside, Resting
<1> QED BY <1>1, LockStep, TrackingStep, Typing, PTL DEF Spec

\* Every running process stays in the table or in the hands of its start.
THEOREM NoProcessIsLost == Spec => []LiveIsTracked
BY Inductive, PTL

\* All the processes that run are one.
LEMMA OneAtATime ==
    ASSUME TypeOK, LockInv, SectionInv, LiveIsTracked
    PROVE  \E x : live \subseteq {x}
<1>1. 0 \notin live
  BY LifecycleAssumption DEF TypeOK, Pids
<1>2. CASE \E c \in Callers : pc[c] = "start_insert"
  <2>1. PICK c \in Callers : pc[c] = "start_insert"
    BY <1>2
  <2>2. \A d \in Callers : pc[d] = "start_insert" => d = c
    BY <2>1, CriticalInside, LockExcludes DEF Exclusive, Critical
  <2>3. entry = 0
    BY <2>1 DEF SectionInv
  <2>4. live \subseteq {mine[c]}
    BY <1>1, <2>2, <2>3 DEF LiveIsTracked
  <2> QED BY <2>4
<1>3. CASE ~\E c \in Callers : pc[c] = "start_insert"
  <2>1. live \subseteq {entry}
    BY <1>3 DEF LiveIsTracked
  <2> QED BY <2>1
<1> QED BY <1>2, <1>3

\* Never two processes in the instance's directory, however many callers race,
\* are cancelled, or see terminate_tree fail.
THEOREM AtMostOneProcess == Spec => []OneProcess
<1>1. ASSUME TypeOK, LockInv, SectionInv, LiveIsTracked PROVE OneProcess
  <2>1. PICK x : live \subseteq {x}
    BY <1>1, OneAtATime
  <2>2. IsFiniteSet({x}) /\ Cardinality({x}) = 1
    BY FS_Singleton
  <2> QED BY <2>1, <2>2, FS_Subset DEF OneProcess
<1> QED BY <1>1, Inductive, PTL

\* The process table always tells the whole truth about what runs: there is one
\* process at most, and it is in the table or in the hands of its start.
THEOREM TableKnowsProcess == Spec => []OneAndTracked
BY AtMostOneProcess, NoProcessIsLost, PTL DEF OneAndTracked

-----------------------------------------------------------------------------
(* What an Ok of stop and force_stop says.                                  *)

StopLabels == {"lock", "wait", "lookup", "send", "stop_mark", "stop_poll", "stop_kill",
               "stop_remove", "stop_drain"}

\* Where a stop and a force_stop can be, and that the entry is gone, for good,
\* when a stop waits for the log pipeline.
StopPath ==
    \A c \in Callers :
        /\ op[c] = "stop" => pc[c] \in Resting \union StopLabels
        /\ op[c] = "force" => pc[c] \in Resting \union {"lock", "wait", "lookup", "force_kill"}
        /\ pc[c] = "stop_drain" => entry = 0

LEMMA GotoKeepsPath ==
    ASSUME TypeOK, StopPath, NEW c \in Callers, NEW label \in Labels, Goto(c, label),
           entry' \in {entry, 0},
           op[c] = "stop" => label \in StopLabels,
           op[c] = "force" => label = "force_kill",
           label = "stop_drain" => entry' = 0
    PROVE  StopPath'
<1>1. op' = op /\ \A d \in Callers : pc'[d] = IF d = c THEN label ELSE pc[d]
  BY DEF Goto, locals, TypeOK
<1> QED BY <1>1 DEF StopPath

LEMMA ReturnKeepsPath ==
    ASSUME TypeOK, StopPath, NEW c \in Callers, NEW outcome \in Resting, Return(c, outcome),
           entry' \in {entry, 0}
    PROVE  StopPath'
<1>1. \A d \in Callers : /\ pc'[d] = IF d = c THEN outcome ELSE pc[d]
                         /\ op'[d] = IF d = c THEN "status" ELSE op[d]
  BY DEF Return, TypeOK
<1> QED BY <1>1 DEF StopPath, Resting

LEMMA StopPathStep == TypeOK /\ LockInv /\ StopPath /\ [Next]_vars => StopPath'
<1> SUFFICES ASSUME TypeOK, LockInv, StopPath, [Next]_vars PROVE StopPath'
  OBVIOUS
<1>a. {"ok", "err", "cancelled"} \subseteq Resting /\ Resting \subseteq Labels
  BY DEF Resting, Labels
\* The other operations pass through none of the labels StopPath speaks of.
<1>b. ASSUME NEW c \in Callers, NEW label \in Labels, Goto(c, label), entry' \in {entry, 0},
             pc[c] \notin Resting \union StopLabels \union {"force_kill"},
             label # "stop_drain"
      PROVE  StopPath'
  <2>1. op[c] # "stop" /\ op[c] # "force"
    BY <1>b DEF StopPath, StopLabels
  <2> QED BY <1>b, <2>1, GotoKeepsPath
<1>1. ASSUME NEW c \in Callers, Call(c) PROVE StopPath'
  <2>1. PICK o \in Ops : /\ op' = [op EXCEPT ![c] = o]
                         /\ pc' = [pc EXCEPT ![c] = IF o \in LockedOps THEN "lock" ELSE "lookup"]
    BY <1>1 DEF Call
  <2>2. \A d \in Callers : /\ op'[d] = IF d = c THEN o ELSE op[d]
                           /\ pc'[d] = IF d = c THEN (IF o \in LockedOps THEN "lock" ELSE "lookup")
                                                ELSE pc[d]
    BY <2>1 DEF TypeOK
  <2>3. entry' = entry
    BY <1>1 DEF Call, table
  <2> QED BY <2>2, <2>3 DEF StopPath, StopLabels
<1>2. ASSUME NEW c \in Callers, TakeLock(c) \/ Acquire(c) PROVE StopPath'
  <2>1. PICK label \in {"wait", "lookup"} : pc' = [pc EXCEPT ![c] = label]
    BY <1>2 DEF TakeLock, Acquire
  <2>2. op' = op /\ entry' = entry /\ \A d \in Callers : pc'[d] = IF d = c THEN label ELSE pc[d]
    BY <1>2, <2>1 DEF TakeLock, Acquire, locals, table, TypeOK
  <2> QED BY <2>2 DEF StopPath, StopLabels
<1>3. ASSUME NEW c \in Callers, Lookup(c) PROVE StopPath'
  <2>1. entry' = entry
    BY <1>3 DEF Lookup, table
  <2>2. CASE Return(c, "err")
    BY <2>1, <2>2, <1>a, ReturnKeepsPath
  <2>3. CASE Goto(c, FirstStep(op[c]))
    <3>1. op[c] \in Ops /\ FirstStep(op[c]) \in Labels
      BY FirstStepLabel DEF TypeOK
    <3>2. /\ op[c] = "stop" => FirstStep(op[c]) \in StopLabels
          /\ op[c] = "force" => FirstStep(op[c]) = "force_kill"
          /\ FirstStep(op[c]) # "stop_drain"
      BY <3>1 DEF FirstStep, StopLabels, Ops, LockedOps
    <3> QED BY <2>1, <2>3, <3>1, <3>2, GotoKeepsPath
  <2> QED BY <1>3, <2>2, <2>3 DEF Lookup
<1>4. ASSUME NEW c \in Callers,
             \/ StartCheck(c) \/ StartReap(c) \/ StartBuild(c) \/ SpawnFails(c)
             \/ PersistStart(c) \/ TakeOutput(c) \/ AttachRecorder(c) \/ Rollback(c)
             \/ RestartReap(c) \/ RestartRead(c) \/ StatusReap(c)
      PROVE  StopPath'
  <2>1. entry' \in {entry, 0}
    BY <1>4 DEF StartCheck, StartReap, StartBuild, SpawnFails, PersistStart, TakeOutput,
       AttachRecorder, Rollback, RestartReap, RestartRead, StatusReap, ReapIfExited, RemoveEntry,
       table
  <2>2. pc[c] \notin Resting \union StopLabels \union {"force_kill"}
    BY <1>4 DEF StartCheck, StartReap, StartBuild, SpawnFails, PersistStart, TakeOutput,
       AttachRecorder, Rollback, RestartReap, RestartRead, StatusReap, Resting, StopLabels
  <2>3. {"start_reap", "start_build", "start_spawn", "start_take", "start_rollback",
         "start_record", "start_check", "restart_read", "await_read", "send", "await_reap"}
           \subseteq Labels \ {"stop_drain"}
    BY DEF Labels, Starting
  <2>4. \/ \E label \in Labels \ {"stop_drain"} : Goto(c, label)
        \/ \E outcome \in Resting : Return(c, outcome)
    BY <1>4, <2>3, <1>a DEF StartCheck, StartReap, StartBuild, SpawnFails, PersistStart,
       TakeOutput, AttachRecorder, Rollback, RestartReap, RestartRead, StatusReap
  <2> QED BY <2>1, <2>2, <2>4, <1>b, ReturnKeepsPath
<1>5. ASSUME NEW c \in Callers, Spawn(c) PROVE StopPath'
  <2>1. op' = op /\ entry' = entry /\ pc[c] = "start_spawn"
        /\ \A d \in Callers : pc'[d] = IF d = c THEN "start_insert" ELSE pc[d]
    BY <1>5 DEF Spawn, table, TypeOK
  <2> QED BY <2>1 DEF StopPath, StopLabels, Resting
\* Nobody waits for the log pipeline while a start inserts its process.
<1>6. ASSUME NEW c \in Callers, Insert(c) PROVE StopPath'
  <2>1. op' = op /\ pc[c] = "start_insert"
        /\ \A d \in Callers : pc'[d] = IF d = c THEN "start_persist" ELSE pc[d]
    BY <1>6 DEF Insert, Goto, locals, TypeOK
  <2>2. Inside(c) /\ Exclusive
    BY <2>1, CriticalInside, LockExcludes DEF Critical
  <2>3. \A d \in Callers : pc[d] = "stop_drain" => Inside(d)
    BY DEF Inside, LockInv, TypeOK, Ops, Resting
  <2>4. \A d \in Callers : pc'[d] # "stop_drain"
    BY <2>1, <2>2, <2>3 DEF Exclusive
  <2> QED BY <2>1, <2>4 DEF StopPath, StopLabels, Resting
<1>7. ASSUME NEW c \in Callers, SendFails(c) \/ Send(c) \/ MarkStopping(c) PROVE StopPath'
  <2>1. entry' = entry /\ pc[c] \in {"send", "stop_mark"}
    BY <1>7 DEF SendFails, Send, MarkStopping, table
  <2>2. op[c] # "force"
    BY <2>1 DEF StopPath, Resting
  <2>3. CASE \E outcome \in Resting : Return(c, outcome)
    BY <2>1, <2>3, ReturnKeepsPath
  <2>4. CASE Goto(c, "stop_mark")
    BY <2>1, <2>2, <2>4, GotoKeepsPath DEF StopLabels, Labels
  <2>5. CASE Goto(c, IF op[c] = "stop" THEN "stop_poll" ELSE "await_reap")
    BY <2>1, <2>2, <2>5, GotoKeepsPath DEF StopLabels, Labels
  <2> QED BY <1>7, <1>a, <2>3, <2>4, <2>5 DEF SendFails, Send, MarkStopping
<1>8. ASSUME NEW c \in Callers, StopPoll(c) \/ StopKill(c) \/ StopRemove(c) \/ StopDrain(c)
      PROVE  StopPath'
  <2>1. pc[c] \in {"stop_poll", "stop_kill", "stop_remove", "stop_drain"} /\ entry' \in {entry, 0}
    BY <1>8 DEF StopPoll, StopKill, StopRemove, StopDrain, RemoveEntry, table
  <2>2. op[c] # "force"
    BY <2>1 DEF StopPath, Resting
  <2>3. {"stop_drain", "stop_kill", "stop_poll", "stop_remove"} \subseteq Labels \cap StopLabels
    BY DEF Labels, StopLabels
  <2>4. \/ \E label \in Labels \cap StopLabels : Goto(c, label) /\ (label = "stop_drain" => entry' = 0)
        \/ \E outcome \in Resting : Return(c, outcome)
    BY <1>8, <2>3, <1>a DEF StopPoll, StopKill, StopRemove, StopDrain, RemoveEntry
  <2> QED BY <2>1, <2>2, <2>4, GotoKeepsPath, ReturnKeepsPath
<1>9. ASSUME NEW c \in Callers, ForceStop(c) \/ Cancel(c) PROVE StopPath'
  <2>1. entry' \in {entry, 0} /\ \E outcome \in Resting : Return(c, outcome)
    BY <1>9, <1>a DEF ForceStop, Cancel, RemoveEntry, table
  <2> QED BY <2>1, ReturnKeepsPath
<1>10. ASSUME NEW c \in Callers, DeadlinePasses(c) PROVE StopPath'
  BY <1>10 DEF DeadlinePasses, StopPath, table
<1>11. ASSUME NEW p \in Pids, ProcessExit(p) PROVE StopPath'
  BY <1>11 DEF ProcessExit, StopPath, table, locals
<1>12. CASE DeleteInstance \/ CreateInstance \/ UNCHANGED vars
  BY <1>12 DEF DeleteInstance, CreateInstance, vars, table, locals, StopPath
<1> QED BY <1>1, <1>2, <1>3, <1>4, <1>5, <1>6, <1>7, <1>8, <1>9, <1>10, <1>11, <1>12, NextCases

\* Inside a section, unless it is between spawn and insertion, the only process
\* that can run is the entry's.
LEMMA OnlyTheEntry ==
    ASSUME TypeOK, LockInv, LiveIsTracked,
           NEW c \in Callers, Inside(c), pc[c] # "start_insert"
    PROVE  live \subseteq {entry} /\ 0 \notin live
<1>1. 0 \notin live
  BY LifecycleAssumption DEF TypeOK, Pids
<1>2. \A d \in Callers : pc[d] # "start_insert"
  BY CriticalInside, LockExcludes DEF Exclusive, Critical
<1> QED BY <1>1, <1>2 DEF LiveIsTracked

\* The steps with which a stop or a force_stop can return Ok.
LEMMA OkStep ==
    ASSUME TypeOK, StopPath, Next, NEW c \in Callers,
           op[c] \in {"stop", "force"}, pc[c] \notin Resting, pc'[c] = "ok"
    PROVE  StopPoll(c) \/ StopRemove(c) \/ StopDrain(c) \/ ForceStop(c)
<1>1. pc[c] \in StopLabels \union {"force_kill"} /\ pc[c] # "ok"
  BY DEF StopPath, StopLabels, Resting
<1>a. FirstStep(op[c]) # "ok"
  BY DEF FirstStep
\* A step of another caller leaves pc[c] alone.
<1>2. ASSUME NEW d \in Callers, NEW label, pc' = [pc EXCEPT ![d] = label]
      PROVE  d = c /\ label = "ok"
  BY <1>1, <1>2 DEF TypeOK
<1>3. ASSUME NEW d \in Callers, NEW label, Goto(d, label) PROVE d = c /\ label = "ok"
  BY <1>2, <1>3 DEF Goto
<1>4. ASSUME NEW d \in Callers, NEW outcome, Return(d, outcome) PROVE d = c /\ outcome = "ok"
  BY <1>2, <1>4 DEF Return
<1>5. ASSUME NEW d \in Callers, Call(d) \/ TakeLock(d) \/ Acquire(d) \/ Spawn(d) PROVE FALSE
  BY <1>2, <1>5 DEF Call, TakeLock, Acquire, Spawn
<1>6. ASSUME NEW d \in Callers, Lookup(d) PROVE FALSE
  <2>1. CASE Goto(d, FirstStep(op[d]))
    BY <1>3, <1>a, <2>1
  <2>2. CASE Return(d, "err")
    BY <1>4, <2>2
  <2> QED BY <1>6, <2>1, <2>2 DEF Lookup
<1>7. ASSUME NEW d \in Callers,
             \/ StartCheck(d) \/ StartReap(d) \/ StartBuild(d) \/ SpawnFails(d) \/ Insert(d)
             \/ PersistStart(d) \/ Rollback(d) \/ TakeOutput(d)
      PROVE  FALSE
  BY <1>7, <1>3, <1>4 DEF StartCheck, StartReap, StartBuild, SpawnFails, Insert, PersistStart,
     Rollback, TakeOutput
<1>8. ASSUME NEW d \in Callers, AttachRecorder(d) \/ StatusReap(d) PROVE FALSE
  BY <1>8, <1>4, <1>1 DEF AttachRecorder, StatusReap, StopLabels
<1>9. ASSUME NEW d \in Callers, SendFails(d) \/ Send(d) \/ MarkStopping(d) PROVE FALSE
  <2>1. CASE SendFails(d)
    BY <2>1, <1>4 DEF SendFails
  <2>2. CASE Send(d)
    BY <2>2, <1>3, <1>4 DEF Send
  <2>3. CASE MarkStopping(d)
    <3>1. (IF op[d] = "stop" THEN "stop_poll" ELSE "await_reap") # "ok"
      OBVIOUS
    <3> QED BY <2>3, <3>1, <1>3 DEF MarkStopping
  <2> QED BY <1>9, <2>1, <2>2, <2>3
<1>10. ASSUME NEW d \in Callers, StopKill(d) PROVE FALSE
  BY <1>10, <1>3, <1>4 DEF StopKill
<1>11. ASSUME NEW d \in Callers, RestartReap(d) PROVE FALSE
  <2>1. (IF pc[d] = "restart_reap" THEN "restart_read" ELSE "await_read") # "ok"
    OBVIOUS
  <2> QED BY <1>11, <2>1, <1>3 DEF RestartReap
<1>12. ASSUME NEW d \in Callers, RestartRead(d) \/ Cancel(d) PROVE FALSE
  BY <1>12, <1>3, <1>4 DEF RestartRead, Cancel
<1>13. ASSUME NEW d \in Callers, DeadlinePasses(d) PROVE FALSE
  BY <1>13, <1>1 DEF DeadlinePasses
<1>14. ASSUME NEW p \in Pids, ProcessExit(p) PROVE FALSE
  BY <1>14, <1>1 DEF ProcessExit
<1>15. ASSUME DeleteInstance \/ CreateInstance PROVE FALSE
  BY <1>15, <1>1 DEF DeleteInstance, CreateInstance
<1>16. ASSUME NEW d \in Callers, StopPoll(d) \/ StopRemove(d) \/ StopDrain(d) \/ ForceStop(d)
       PROVE  d = c
  <2>1. \E label : Goto(d, label) \/ Return(d, label)
    BY <1>16 DEF StopPoll, StopRemove, StopDrain, ForceStop
  <2> QED BY <2>1, <1>3, <1>4
<1> QED BY <1>5, <1>6, <1>7, <1>8, <1>9, <1>10, <1>11, <1>12, <1>13, <1>14, <1>15, <1>16,
           NextCases

LEMMA PathHolds == Spec => []StopPath
<1>1. Init => StopPath
  BY DEF Init, StopPath, Resting
<1> QED BY <1>1, StopPathStep, Inductive, PTL DEF Spec

\* A stop or force_stop that answers Ok has brought the instance down, whoever
\* else calls, is cancelled or fails (stop_unlocked, force_stop_unlocked).
THEOREM StopIsDown == Spec => StopOkMeansDown
<1>3. ASSUME TypeOK, LockInv, SectionInv, LiveIsTracked, StopPath, [Next]_vars,
             NEW c \in Callers, op[c] \in {"stop", "force"}, pc[c] \notin Resting, pc'[c] = "ok"
      PROVE  live' = {} /\ entry' = 0
  <2>1. Next /\ (StopPoll(c) \/ StopRemove(c) \/ StopDrain(c) \/ ForceStop(c))
    BY <1>3, OkStep DEF vars, Resting
  <2>2. /\ pc[c] \in {"stop_poll", "stop_remove", "stop_drain", "force_kill"}
        /\ \A label : Goto(c, label) \/ Return(c, label) => label = "ok"
    BY <1>3, <2>1 DEF StopPoll, StopRemove, StopDrain, ForceStop, Goto, Return, TypeOK
  <2>3. Inside(c)
    BY <1>3, <2>2 DEF Inside, LockedOps, Resting
  <2>4. live \subseteq {entry} /\ 0 \notin live
    BY <1>3, <2>2, <2>3, OnlyTheEntry
  <2>5. CASE StopPoll(c)
    <3>1. entry = 0 /\ UNCHANGED table /\ UNCHANGED system
      <4>1. (IF late[c] THEN "stop_kill" ELSE "stop_poll") # "ok"
        OBVIOUS
      <4> QED BY <2>2, <2>5, <4>1 DEF StopPoll
    <3> QED BY <2>4, <3>1 DEF table, system
  <2>6. CASE StopRemove(c)
    BY <1>3, <2>4, <2>6 DEF StopRemove, SectionInv, RemoveEntry, system
  <2>7. CASE StopDrain(c)
    BY <1>3, <2>4, <2>7 DEF StopDrain, StopPath, table, system
  <2>8. CASE ForceStop(c)
    BY <2>2, <2>4, <2>8 DEF ForceStop, KillOk, KillErr, RemoveEntry, table, system
  <2> QED BY <2>1, <2>5, <2>6, <2>7, <2>8
<1>4. TypeOK /\ LockInv /\ SectionInv /\ LiveIsTracked /\ StopPath /\ [Next]_vars
         => [\A c \in Callers :
               op[c] \in {"stop", "force"} /\ pc[c] \notin Resting /\ pc'[c] = "ok"
                 => live' = {} /\ entry' = 0]_vars
  BY <1>3
<1> QED BY <1>4, PathHolds, Inductive, PTL DEF Spec, StopOkMeansDown

-----------------------------------------------------------------------------
(* What a label says of the operation and of its process.                   *)

\* A start or restart that has put its process into the table.
Handing == {"start_persist", "start_rollback", "start_take", "start_record"}

\* The labels each operation goes through once the registry has answered.
Lane(o) == CASE o = "start"   -> Starting
             [] o = "restart" -> Starting \union {"restart_reap", "restart_read", "send",
                                                  "stop_mark", "await_reap", "await_read"}
             [] o = "stop"    -> {"send", "stop_mark", "stop_poll", "stop_kill", "stop_remove",
                                  "stop_drain"}
             [] o = "force"   -> {"force_kill"}
             [] o = "status"  -> {"status_reap"}
             [] o = "command" -> {"send"}

\* A call stays in its lane, and owns a process exactly from its spawn to its
\* answer: the newest one until it is in the table, which then holds no other.
LaneInv ==
    \A c \in Callers :
        /\ pc[c] \notin Resting \union {"lock", "wait", "lookup"} => pc[c] \in Lane(op[c])
        /\ mine[c] # 0 <=> pc[c] \in Handing \union {"start_insert"}
        /\ pc[c] \in Handing => entry \in {0, mine[c]}
        /\ pc[c] = "start_insert" => mine[c] = spawned
        /\ pc[c] = "stop_mark" => asked # {}

LEMMA LaneStarts == \A o \in Ops : FirstStep(o) \in Lane(o) /\ FirstStep(o) # "stop_mark"
                                   /\ FirstStep(o) \notin Handing \union {"start_insert"}
BY DEF FirstStep, Lane, Ops, LockedOps, Starting, Handing

LEMMA LaneKept ==
    ASSUME TypeOK, LaneInv, NEW c \in Callers, NEW label \in Labels,
           pc' = [pc EXCEPT ![c] = label], UNCHANGED <<op, mine>>,
           entry' \in {entry, 0}, asked \subseteq asked', spawned' = spawned,
           label \notin {"lock", "wait", "lookup"} => label \in Lane(op[c]),
           label \in Handing <=> pc[c] \in Handing,
           label # "start_insert", pc[c] # "start_insert",
           label = "stop_mark" => asked' # {}
    PROVE  LaneInv'
<1>1. \A d \in Callers : pc'[d] = IF d = c THEN label ELSE pc[d]
  BY DEF TypeOK
<1> QED BY <1>1 DEF LaneInv

LEMMA GotoLane ==
    ASSUME TypeOK, LaneInv, NEW c \in Callers, NEW label \in Labels, Goto(c, label),
           entry' \in {entry, 0}, asked \subseteq asked', spawned' = spawned,
           label \in Lane(op[c]), label \in Handing <=> pc[c] \in Handing,
           label # "start_insert", pc[c] # "start_insert",
           label = "stop_mark" => asked' # {}
    PROVE  LaneInv'
BY LaneKept DEF Goto, locals

LEMMA ReturnLane ==
    ASSUME TypeOK, LaneInv, NEW c \in Callers, NEW outcome \in Resting, Return(c, outcome),
           entry' \in {entry, 0}, asked \subseteq asked', spawned' = spawned
    PROVE  LaneInv'
<1>1. \A d \in Callers : /\ pc'[d] = IF d = c THEN outcome ELSE pc[d]
                         /\ op'[d] = IF d = c THEN "status" ELSE op[d]
                         /\ mine'[d] = IF d = c THEN 0 ELSE mine[d]
  BY DEF Return, TypeOK
<1>2. outcome \notin Handing \union {"start_insert", "stop_mark"}
  BY DEF Resting, Handing
<1> QED BY <1>1, <1>2 DEF LaneInv

\* What the label of a call inside its lane says of its operation.
LEMMA LaneOp ==
    ASSUME TypeOK, LaneInv, NEW c \in Callers
    PROVE  /\ pc[c] \in Starting \union {"restart_reap", "restart_read", "await_reap", "await_read"}
                 => op[c] \in {"start", "restart"}
           /\ pc[c] \in {"restart_reap", "restart_read", "await_reap", "await_read"}
                 => op[c] = "restart"
           /\ pc[c] \in {"stop_poll", "stop_kill", "stop_remove", "stop_drain"} => op[c] = "stop"
           /\ pc[c] = "stop_mark" => op[c] \in {"stop", "restart"}
           /\ pc[c] = "send" => op[c] \in {"stop", "restart", "command"}
           /\ pc[c] = "force_kill" => op[c] = "force"
           /\ pc[c] = "status_reap" => op[c] = "status"
<1>1. op[c] \in Ops
  BY DEF TypeOK
<1>2. pc[c] \notin Resting \union {"lock", "wait", "lookup"} => pc[c] \in Lane(op[c])
  BY DEF LaneInv
<1> QED BY <1>1, <1>2 DEF Lane, Ops, LockedOps, Starting, Resting

LEMMA LaneStep ==
    TypeOK /\ LockInv /\ SectionInv /\ LaneInv /\ [Next]_vars => LaneInv'
<1> SUFFICES ASSUME TypeOK, LockInv, SectionInv, LaneInv, [Next]_vars PROVE LaneInv'
  OBVIOUS
<1> USE DEF records
<1>a. {"ok", "err", "cancelled"} \subseteq Resting
  BY DEF Resting
<1>1. ASSUME NEW c \in Callers, Call(c) PROVE LaneInv'
  <2>1. PICK o \in Ops : /\ op' = [op EXCEPT ![c] = o]
                         /\ pc' = [pc EXCEPT ![c] = IF o \in LockedOps THEN "lock" ELSE "lookup"]
    BY <1>1 DEF Call
  <2>2. mine' = mine /\ entry' = entry /\ spawned' = spawned /\ asked' = asked
    BY <1>1 DEF Call, table, system
  <2>3. pc[c] \in Resting
    BY <1>1 DEF Call
  <2>4. \A d \in Callers : d # c => op'[d] = op[d] /\ pc'[d] = pc[d]
    BY <2>1 DEF TypeOK
  <2>5. pc'[c] \in {"lock", "lookup"}
    BY <2>1 DEF TypeOK
  <2>6. mine[c] = 0
    BY <2>3 DEF LaneInv, Resting, Handing
  <2> QED BY <2>2, <2>4, <2>5, <2>6 DEF LaneInv, Handing
<1>2. ASSUME NEW c \in Callers, TakeLock(c) \/ Acquire(c) PROVE LaneInv'
  <2>1. PICK label \in {"wait", "lookup"} : pc' = [pc EXCEPT ![c] = label]
    BY <1>2 DEF TakeLock, Acquire
  <2>2. /\ op' = op /\ mine' = mine /\ entry' = entry /\ spawned' = spawned /\ asked' = asked
        /\ pc[c] \in {"lock", "wait"}
    BY <1>2 DEF TakeLock, Acquire, locals, table, system
  <2>3. label \in Labels /\ label \notin Handing /\ pc[c] \notin Handing
    BY <2>2 DEF Labels, Handing
  <2> QED BY <2>1, <2>2, <2>3, LaneKept
<1>3. ASSUME NEW c \in Callers, Lookup(c) PROVE LaneInv'
  <2>1. pc[c] = "lookup" /\ entry' = entry /\ spawned' = spawned /\ asked' = asked
    BY <1>3 DEF Lookup, table, system
  <2>2. CASE Return(c, "err")
    BY <2>1, <2>2, <1>a, ReturnLane
  <2>3. CASE Goto(c, FirstStep(op[c]))
    <3>1. op[c] \in Ops /\ FirstStep(op[c]) \in Labels
      BY FirstStepLabel DEF TypeOK
    <3> QED BY <2>1, <2>3, <3>1, LaneStarts, GotoLane DEF Handing
  <2> QED BY <1>3, <2>2, <2>3 DEF Lookup
\* The steps of a start or restart outside the hands of its process.
<1>4. ASSUME NEW c \in Callers,
             \/ StartCheck(c) \/ StartReap(c) \/ StartBuild(c) \/ SpawnFails(c)
             \/ RestartReap(c) \/ RestartRead(c)
      PROVE  LaneInv'
  <2>1. /\ entry' \in {entry, 0} /\ spawned' = spawned /\ asked' = asked
        /\ pc[c] \notin Handing \union {"start_insert"}
    BY <1>4 DEF StartCheck, StartReap, StartBuild, SpawnFails, RestartReap, RestartRead,
       ReapIfExited, RemoveEntry, table, system, Handing
  <2>2. op[c] \in {"start", "restart"}
        /\ (pc[c] \in {"restart_reap", "restart_read", "await_reap", "await_read"} => op[c] = "restart")
    BY <1>4, LaneOp DEF StartCheck, StartReap, StartBuild, SpawnFails, RestartReap, RestartRead,
       Starting
  <2>3. \/ \E outcome \in Resting : Return(c, outcome)
        \/ \E label \in {"start_reap", "start_build", "start_spawn", "start_check"} : Goto(c, label)
        \/ /\ op[c] = "restart"
           /\ \E label \in {"restart_read", "await_read", "send", "await_reap"} : Goto(c, label)
    BY <1>4, <1>a, <2>2 DEF StartCheck, StartReap, StartBuild, SpawnFails, RestartReap, RestartRead
  <2>4. {"start_reap", "start_build", "start_spawn", "start_check"} \subseteq Lane(op[c])
        /\ (op[c] = "restart" => {"restart_read", "await_read", "send", "await_reap"} \subseteq Lane(op[c]))
    BY <2>2 DEF Lane, Starting
  <2>5. {"start_reap", "start_build", "start_spawn", "start_check", "restart_read", "await_read",
         "send", "await_reap"} \subseteq Labels \ (Handing \union {"start_insert", "stop_mark"})
    BY DEF Labels, Starting, Handing
  <2>6. CASE \E outcome \in Resting : Return(c, outcome)
    BY <2>1, <2>6, ReturnLane
  <2>7. CASE \E label \in Labels \ (Handing \union {"start_insert", "stop_mark"}) :
               label \in Lane(op[c]) /\ Goto(c, label)
    BY <2>1, <2>7, GotoLane
  <2> QED BY <2>3, <2>4, <2>5, <2>6, <2>7
<1>5. ASSUME NEW c \in Callers, Spawn(c) PROVE LaneInv'
  <2>1. /\ pc[c] = "start_spawn" /\ op' = op /\ entry' = entry /\ asked' = asked
        /\ spawned' = spawned + 1 /\ spawned \in Nat
        /\ mine' = [mine EXCEPT ![c] = spawned + 1]
        /\ pc' = [pc EXCEPT ![c] = "start_insert"]
    BY <1>5 DEF Spawn, table, TypeOK
  <2>2. \A d \in Callers : /\ pc'[d] = IF d = c THEN "start_insert" ELSE pc[d]
                           /\ mine'[d] = IF d = c THEN spawned + 1 ELSE mine[d]
    BY <2>1 DEF TypeOK
  <2>3. op[c] \in {"start", "restart"}
    BY <2>1, LaneOp DEF Starting
  <2>4. "start_insert" \in Lane(op[c])
    BY <2>3 DEF Lane, Starting
  <2>5. \A d \in Callers : pc[d] = "start_insert" => d = c
    BY <2>1, CriticalInside, LockExcludes DEF Exclusive, Critical
  <2>6. \A d \in Callers : d # c => pc[d] # "start_insert"
    BY <2>5
  <2> QED BY <2>1, <2>2, <2>4, <2>6 DEF LaneInv, Handing
\* No other call is in the hands of a process: it would be inside as well.
<1>6. ASSUME NEW c \in Callers, Insert(c) PROVE LaneInv'
  <2>1. /\ pc[c] = "start_insert" /\ op' = op /\ entry' = mine[c] /\ asked' = asked
        /\ mine' = mine /\ pc' = [pc EXCEPT ![c] = "start_persist"]
    BY <1>6 DEF Insert, Goto, locals
  <2>2. \A d \in Callers : pc'[d] = IF d = c THEN "start_persist" ELSE pc[d]
    BY <2>1 DEF TypeOK
  <2>3. op[c] \in {"start", "restart"}
    BY <2>1, LaneOp DEF Starting
  <2>4. "start_persist" \in Lane(op[c])
    BY <2>3 DEF Lane, Starting
  <2>5. Inside(c) /\ Exclusive
    BY <2>1, CriticalInside, LockExcludes DEF Critical
  <2>6. ASSUME NEW d \in Callers, d # c PROVE pc[d] \notin Handing \union {"start_insert"}
    <3>1. SUFFICES ASSUME pc[d] \in Handing \union {"start_insert"} PROVE FALSE
      OBVIOUS
    <3>2. op[d] \in {"start", "restart"}
      BY <3>1, LaneOp DEF Starting, Handing
    <3>3. Inside(d)
      BY <3>1, <3>2 DEF Inside, LockedOps, Resting, Handing
    <3> QED BY <2>5, <2>6, <3>3 DEF Exclusive
  <2> QED BY <2>1, <2>2, <2>4, <2>6 DEF LaneInv, Handing
<1>7. ASSUME NEW c \in Callers, PersistStart(c) \/ TakeOutput(c) PROVE LaneInv'
  <2>1. /\ pc[c] \in Handing /\ pc[c] # "start_insert"
        /\ entry' = entry /\ spawned' = spawned /\ asked' = asked
    BY <1>7 DEF PersistStart, TakeOutput, Handing, table, system
  <2>2. op[c] \in {"start", "restart"}
    BY <2>1, LaneOp DEF Starting, Handing
  <2>3. \/ Return(c, "err")
        \/ \E label \in {"start_take", "start_rollback", "start_record"} : Goto(c, label)
    BY <1>7 DEF PersistStart, TakeOutput
  <2>4. /\ {"start_take", "start_rollback", "start_record"} \subseteq Lane(op[c])
        /\ {"start_take", "start_rollback", "start_record"} \subseteq Labels \cap Handing
        /\ "stop_mark" \notin Handing /\ "start_insert" \notin Handing
    BY <2>2 DEF Lane, Starting, Labels, Handing
  <2> QED BY <2>1, <2>3, <2>4, <1>a, GotoLane, ReturnLane
<1>8. ASSUME NEW c \in Callers, Rollback(c) \/ AttachRecorder(c) \/ ForceStop(c) \/ StatusReap(c)
             \/ Cancel(c) \/ StopDrain(c) \/ SendFails(c)
      PROVE  LaneInv'
  <2>1. entry' \in {entry, 0} /\ spawned' = spawned /\ asked' = asked
    BY <1>8 DEF Rollback, AttachRecorder, ForceStop, StatusReap, Cancel, StopDrain, SendFails,
       ReapIfExited, RemoveEntry, KillOk, KillErr, table, system
  <2>2. \E outcome \in Resting : Return(c, outcome)
    BY <1>8, <1>a DEF Rollback, AttachRecorder, ForceStop, StatusReap, Cancel, StopDrain, SendFails
  <2> QED BY <2>1, <2>2, ReturnLane
<1>9. ASSUME NEW c \in Callers, Send(c) PROVE LaneInv'
  <2>1. pc[c] = "send" /\ entry' = entry /\ spawned' = spawned /\ asked \subseteq asked'
    BY <1>9 DEF Send, table, system
  <2>2. CASE op[c] = "command"
    BY <1>9, <2>1, <2>2, <1>a, ReturnLane DEF Send
  <2>3. CASE op[c] # "command"
    <3>1. op[c] \in {"stop", "restart"}
      BY <2>1, <2>3, LaneOp
    <3>2. Goto(c, "stop_mark") /\ asked' # {}
      BY <1>9, <2>3 DEF Send
    <3>3. "stop_mark" \in Lane(op[c])
      BY <3>1 DEF Lane
    <3>4. "stop_mark" \in Labels /\ "stop_mark" \notin Handing /\ "send" \notin Handing
      BY DEF Labels, Handing
    <3> QED BY <2>1, <3>2, <3>3, <3>4, GotoLane
  <2> QED BY <2>2, <2>3
<1>10. ASSUME NEW c \in Callers, MarkStopping(c) \/ StopPoll(c) \/ StopKill(c) \/ StopRemove(c)
       PROVE  LaneInv'
  <2>1. /\ pc[c] \in {"stop_mark", "stop_poll", "stop_kill", "stop_remove"}
        /\ entry' \in {entry, 0} /\ spawned' = spawned /\ asked' = asked
    BY <1>10 DEF MarkStopping, StopPoll, StopKill, StopRemove, KillOk, KillErr, RemoveEntry, table,
       system
  <2>2. pc[c] \notin Handing \union {"start_insert"}
    BY <2>1 DEF Handing
  <2>3. op[c] \in {"stop", "restart"} /\ (op[c] = "restart" => pc[c] = "stop_mark")
    BY <2>1, LaneOp
  <2>4. \/ \E outcome \in Resting : Return(c, outcome)
        \/ /\ op[c] = "stop"
           /\ \E label \in {"stop_poll", "stop_kill", "stop_remove", "stop_drain"} : Goto(c, label)
        \/ op[c] = "restart" /\ Goto(c, "await_reap")
    BY <1>10, <1>a, <2>3 DEF MarkStopping, StopPoll, StopKill, StopRemove
  <2>5. /\ op[c] = "stop" => {"stop_poll", "stop_kill", "stop_remove", "stop_drain"} \subseteq Lane(op[c])
        /\ op[c] = "restart" => "await_reap" \in Lane(op[c])
    BY DEF Lane
  <2>6. {"stop_poll", "stop_kill", "stop_remove", "stop_drain", "await_reap"}
           \subseteq Labels \ (Handing \union {"start_insert", "stop_mark"})
    BY DEF Labels, Handing
  <2>7. CASE \E outcome \in Resting : Return(c, outcome)
    BY <2>1, <2>7, ReturnLane
  <2>8. CASE \E label \in Labels \ (Handing \union {"start_insert", "stop_mark"}) :
               label \in Lane(op[c]) /\ Goto(c, label)
    BY <2>1, <2>2, <2>8, GotoLane
  <2> QED BY <2>4, <2>5, <2>6, <2>7, <2>8
<1>11. ASSUME NEW c \in Callers, DeadlinePasses(c) PROVE LaneInv'
  BY <1>11 DEF DeadlinePasses, table, system, LaneInv
<1>12. ASSUME NEW p \in Pids, ProcessExit(p) PROVE LaneInv'
  BY <1>12 DEF ProcessExit, table, locals, LaneInv
<1>13. CASE DeleteInstance \/ CreateInstance \/ UNCHANGED vars
  BY <1>13 DEF DeleteInstance, CreateInstance, vars, table, system, locals, LaneInv
<1> QED BY <1>1, <1>2, <1>3, <1>4, <1>5, <1>6, <1>7, <1>8, <1>9, <1>10, <1>11, <1>12, <1>13,
           NextCases

-----------------------------------------------------------------------------
(* What the status says.                                                    *)

\* Processes come and go in the order of their pids, so that whoever was asked
\* to stop came no later than the one that is in the table.
AskedInv ==
    /\ entry <= spawned
    /\ asked \subseteq 1..spawned
    /\ stopping => asked # {}
    /\ entry # 0 => \A p \in asked : p <= entry

LEMMA AskedStep == TypeOK /\ SectionInv /\ LaneInv /\ AskedInv /\ [Next]_vars => AskedInv'
<1> SUFFICES ASSUME TypeOK, SectionInv, LaneInv, AskedInv, [Next]_vars PROVE AskedInv'
  OBVIOUS
<1> USE DEF records
<1>a. entry \in Nat /\ spawned \in Nat
  BY DEF TypeOK
\* A step that neither spawns nor asks, and at most drops the entry.
<1>b. ASSUME entry' \in {entry, 0}, spawned' = spawned, asked' = asked, (stopping' => stopping)
      PROVE  AskedInv'
  BY <1>a, <1>b DEF AskedInv
<1>1. ASSUME NEW c \in Callers,
             \/ Call(c) \/ TakeLock(c) \/ Acquire(c) \/ Lookup(c)
             \/ StartCheck(c) \/ StartReap(c) \/ StartBuild(c) \/ SpawnFails(c)
             \/ PersistStart(c) \/ Rollback(c) \/ TakeOutput(c) \/ AttachRecorder(c)
      PROVE  AskedInv'
  <2>1. /\ entry' \in {entry, 0} /\ spawned' = spawned /\ asked' = asked
        /\ (stopping' => stopping)
    BY <1>1 DEF Call, TakeLock, Acquire, Lookup, StartCheck, StartReap, StartBuild, SpawnFails,
       PersistStart, Rollback, TakeOutput, AttachRecorder, ReapIfExited, RemoveEntry, KillOk,
       KillErr, table, system, flags
  <2> QED BY <2>1, <1>b
<1>2. ASSUME NEW c \in Callers,
             \/ SendFails(c) \/ StopPoll(c) \/ StopKill(c) \/ StopRemove(c) \/ StopDrain(c)
             \/ ForceStop(c) \/ RestartReap(c) \/ RestartRead(c) \/ StatusReap(c)
             \/ DeadlinePasses(c) \/ Cancel(c)
      PROVE  AskedInv'
  <2>1. /\ entry' \in {entry, 0} /\ spawned' = spawned /\ asked' = asked
        /\ (stopping' => stopping)
    BY <1>2 DEF SendFails, StopPoll, StopKill, StopRemove, StopDrain, ForceStop, RestartReap,
       RestartRead, StatusReap, DeadlinePasses, Cancel, ReapIfExited, RemoveEntry, KillOk,
       KillErr, table, system, flags
  <2> QED BY <2>1, <1>b
<1>3. ASSUME NEW c \in Callers, Spawn(c) PROVE AskedInv'
  BY <1>3, <1>a DEF Spawn, table, AskedInv
<1>4. ASSUME NEW c \in Callers, Insert(c) PROVE AskedInv'
  <2>1. mine[c] = spawned /\ entry' = mine[c] /\ spawned' = spawned /\ asked' = asked
        /\ stopping' = stopping
    BY <1>4 DEF Insert, LaneInv, system, flags
  <2> QED BY <2>1, <1>a DEF AskedInv
<1>5. ASSUME NEW c \in Callers, Send(c) PROVE AskedInv'
  <2>1. entry \in live /\ entry' = entry /\ spawned' = spawned /\ stopping' = stopping
        /\ asked' \in {asked, asked \union {entry}}
    BY <1>5 DEF Send, Running, table, system, flags
  <2>2. entry \in 1..spawned
    BY <2>1 DEF SectionInv
  <2> QED BY <2>1, <2>2, <1>a DEF AskedInv
<1>6. ASSUME NEW c \in Callers, MarkStopping(c) PROVE AskedInv'
  <2>1. asked # {} /\ entry' = entry /\ spawned' = spawned /\ asked' = asked
    BY <1>6 DEF MarkStopping, LaneInv, table, system
  <2> QED BY <2>1 DEF AskedInv
<1>7. ASSUME NEW p \in Pids, ProcessExit(p) PROVE AskedInv'
  BY <1>7, <1>b DEF ProcessExit, table, flags
<1>8. CASE DeleteInstance \/ CreateInstance \/ UNCHANGED vars
  BY <1>8, <1>b DEF DeleteInstance, CreateInstance, vars, table, system, flags
<1> QED BY <1>1, <1>2, <1>3, <1>4, <1>5, <1>6, <1>7, <1>8, NextCases

\* Whatever makes the managed process look unfinished is in the hands of its
\* start, unless that start was dropped or could not roll the process back.
HandedInv ==
    entry # 0 /\ entry \notin forsaken /\ (starting \/ (entry \in live /\ ~recorder))
        => \E c \in Callers : pc[c] \in Handing

LEMMA HandedStep == TypeOK /\ SectionInv /\ LaneInv /\ HandedInv /\ [Next]_vars => HandedInv'
<1> SUFFICES ASSUME TypeOK, SectionInv, LaneInv, HandedInv, [Next]_vars PROVE HandedInv'
  OBVIOUS
<1> USE DEF records
\* A step that takes nobody out of the hands of a start keeps what held.
<1>a. ASSUME NEW c \in Callers, NEW label, pc' = [pc EXCEPT ![c] = label],
             pc[c] \in Handing => label \in Handing,
             entry' = 0 \/ (entry' = entry /\ recorder' = recorder),
             live' \subseteq live, forsaken' = forsaken, (starting' => starting)
      PROVE  HandedInv'
  <2>1. \A d \in Callers : pc[d] \in Handing => pc'[d] \in Handing
    BY <1>a DEF TypeOK
  <2> QED BY <1>a, <2>1 DEF HandedInv
<1>b. ASSUME NEW c \in Callers, pc[c] \notin Handing, \E label : Goto(c, label) \/ Return(c, label),
             entry' = 0 \/ (entry' = entry /\ recorder' = recorder),
             live' \subseteq live, forsaken' = forsaken, (starting' => starting)
      PROVE  HandedInv'
  BY <1>a, <1>b DEF Goto, Return
<1>1. ASSUME NEW c \in Callers, Call(c) \/ TakeLock(c) \/ Acquire(c) PROVE HandedInv'
  <2>1. pc[c] \notin Handing /\ \E label : pc' = [pc EXCEPT ![c] = label]
    BY <1>1 DEF Call, TakeLock, Acquire, Handing, Resting
  <2>2. /\ entry' = entry /\ recorder' = recorder /\ live' = live /\ starting' = starting /\ forsaken' = forsaken
    BY <1>1 DEF Call, TakeLock, Acquire, table, system, flags
  <2> QED BY <2>1, <2>2, <1>a
<1>2. ASSUME NEW c \in Callers,
             \/ Lookup(c) \/ StartCheck(c) \/ StartReap(c) \/ StartBuild(c) \/ SpawnFails(c)
             \/ SendFails(c) \/ Send(c) \/ MarkStopping(c) \/ StopPoll(c) \/ StopKill(c)
      PROVE  HandedInv'
  <2>1. pc[c] \notin Handing
    BY <1>2 DEF Lookup, StartCheck, StartReap, StartBuild, SpawnFails, SendFails, Send,
       MarkStopping, StopPoll, StopKill, Handing
  <2>2. \E label : Goto(c, label) \/ Return(c, label)
    BY <1>2 DEF Lookup, StartCheck, StartReap, StartBuild, SpawnFails, SendFails, Send,
       MarkStopping, StopPoll, StopKill
  <2>3. /\ entry' = 0 \/ (entry' = entry /\ recorder' = recorder)
        /\ live' \subseteq live /\ forsaken' = forsaken /\ (starting' => starting)
    BY <1>2 DEF Lookup, StartCheck, StartReap, StartBuild, SpawnFails, SendFails, Send,
       MarkStopping, StopPoll, StopKill, ReapIfExited, RemoveEntry, KillOk, KillErr, table, system,
       flags
  <2> QED BY <2>1, <2>2, <2>3, <1>b
<1>3. ASSUME NEW c \in Callers,
             \/ StopRemove(c) \/ StopDrain(c) \/ ForceStop(c) \/ RestartReap(c) \/ RestartRead(c)
             \/ StatusReap(c)
      PROVE  HandedInv'
  <2>1. pc[c] \notin Handing
    BY <1>3 DEF StopRemove, StopDrain, ForceStop, RestartReap, RestartRead, StatusReap, Handing
  <2>2. \E label : Goto(c, label) \/ Return(c, label)
    BY <1>3 DEF StopRemove, StopDrain, ForceStop, RestartReap, RestartRead, StatusReap
  <2>3. /\ entry' = 0 \/ (entry' = entry /\ recorder' = recorder)
        /\ live' \subseteq live /\ forsaken' = forsaken /\ (starting' => starting)
    BY <1>3 DEF StopRemove, StopDrain, ForceStop, RestartReap, RestartRead, StatusReap,
       ReapIfExited, RemoveEntry, KillOk, KillErr, table, system, flags
  <2> QED BY <2>1, <2>2, <2>3, <1>b
<1>4. ASSUME NEW c \in Callers, Spawn(c) PROVE HandedInv'
  BY <1>4 DEF Spawn, SectionInv, table, HandedInv
<1>5. ASSUME NEW c \in Callers, Insert(c) PROVE HandedInv'
  <2>1. pc'[c] = "start_persist"
    BY <1>5 DEF Insert, Goto, TypeOK
  <2> QED BY <2>1 DEF HandedInv, Handing
<1>6. ASSUME NEW c \in Callers, PersistStart(c) PROVE HandedInv'
  <2>1. PICK label \in {"start_take", "start_rollback"} : Goto(c, label)
    BY <1>6 DEF PersistStart
  <2>2. entry' = entry /\ recorder' = recorder /\ live' = live /\ starting' = starting /\ forsaken' = forsaken
    BY <1>6 DEF PersistStart, table, system, flags
  <2> QED BY <2>1, <2>2, <1>a DEF Goto, Handing
\* The start gives its process up: killed, gone before, reaped by another, or
\* left alone because it could not be killed.
<1>7. ASSUME NEW c \in Callers, Rollback(c) PROVE HandedInv'
  <2>1. ~starting' /\ (entry' = 0 \/ entry' \in forsaken')
    BY <1>7 DEF Rollback, RemoveEntry, table
  <2> QED BY <2>1 DEF HandedInv
<1>8. ASSUME NEW c \in Callers, TakeOutput(c) PROVE HandedInv'
  <2>1. entry' = entry /\ recorder' = recorder /\ live' = live /\ starting' = starting /\ forsaken' = forsaken
    BY <1>8 DEF TakeOutput, table, system, flags
  <2>2. CASE entry = 0
    BY <2>1, <2>2 DEF HandedInv
  <2>3. CASE entry # 0
    BY <1>8, <2>1, <2>3, <1>a DEF TakeOutput, Goto, Handing
  <2> QED BY <2>2, <2>3
<1>9. ASSUME NEW c \in Callers, AttachRecorder(c) PROVE HandedInv'
  BY <1>9 DEF AttachRecorder, HandedInv
<1>10. ASSUME NEW c \in Callers, DeadlinePasses(c) PROVE HandedInv'
  BY <1>10 DEF DeadlinePasses, table, system, flags, HandedInv
\* A start that is dropped with its process in its hands forsakes it.
<1>11. ASSUME NEW c \in Callers, Cancel(c) PROVE HandedInv'
  <2>1. /\ entry' = entry /\ recorder' = recorder /\ live' = live /\ starting' = starting
        /\ pc' = [pc EXCEPT ![c] = "cancelled"] /\ forsaken \subseteq forsaken'
        /\ mine[c] \in forsaken' \union {0}
    BY <1>11 DEF Cancel, Return, table, system, flags
  <2>2. CASE pc[c] \in Handing
    <3>1. entry \in {0, mine[c]} /\ mine[c] # 0
      BY <2>2 DEF LaneInv
    <3> QED BY <2>1, <3>1 DEF HandedInv
  <2>3. CASE pc[c] \notin Handing
    <3>1. \A d \in Callers : pc[d] \in Handing => pc'[d] \in Handing
      BY <2>1, <2>3 DEF TypeOK
    <3> QED BY <2>1, <3>1 DEF HandedInv
  <2> QED BY <2>2, <2>3
<1>12. ASSUME NEW p \in Pids, ProcessExit(p) PROVE HandedInv'
  BY <1>12 DEF ProcessExit, table, flags, HandedInv
<1>13. CASE DeleteInstance \/ CreateInstance \/ UNCHANGED vars
  BY <1>13 DEF DeleteInstance, CreateInstance, vars, table, system, flags, HandedInv
<1> QED BY <1>1, <1>2, <1>3, <1>4, <1>5, <1>6, <1>7, <1>8, <1>9, <1>10, <1>11, <1>12, <1>13,
           NextCases

LEMMA LanesHold == Spec => [](LaneInv /\ AskedInv)
<1>1. Init => LaneInv /\ AskedInv
  <2>1. Init => LaneInv
    BY DEF Init, LaneInv, Resting, Handing
  <2> QED BY <2>1 DEF Init, AskedInv
<1> QED BY <1>1, LaneStep, AskedStep, Inductive, PTL DEF Spec

\* "Stopping" is shown only after some process of the instance was asked to stop,
\* this one or one before it, whatever is dropped or fails (status_for_instance).
THEOREM StoppingWasAsked == Spec => [](Reported = "Stopping" => \E p \in asked : p <= entry)
<1>1. ASSUME AskedInv PROVE Reported = "Stopping" => \E p \in asked : p <= entry
  <2> SUFFICES ASSUME Reported = "Stopping" PROVE \E p \in asked : p <= entry
    OBVIOUS
  <2>1. entry # 0 /\ stopping
    BY DEF Reported
  <2> QED BY <1>1, <2>1 DEF AskedInv
<1> QED BY <1>1, LanesHold, PTL

\* status and the console tell the truth for any number of callers, whoever is
\* dropped and whatever terminate_tree does: "Starting" and a process without a
\* recorder mean a start under way, except for the very process whose start was
\* dropped or could not be rolled back (status_for_instance).
THEOREM StatusTells == Spec => []StatusIsTrue
<1>1. Init => HandedInv
  BY DEF Init, HandedInv
<1>2. Spec => []HandedInv
  BY <1>1, HandedStep, LanesHold, Inductive, PTL DEF Spec
<1>3. ASSUME TypeOK, HandedInv, Reported = "Stopping" => \E p \in asked : p <= entry
      PROVE  StatusIsTrue
  <2>1. ASSUME Reported = "Starting" \/ (Running /\ ~recorder), entry \notin forsaken
        PROVE  \E c \in Callers : pc[c] \in Starting
    <3>1. entry # 0 /\ (starting \/ (entry \in live /\ ~recorder))
      <4>1. CASE Reported = "Starting"
        BY <4>1 DEF Reported
      <4>2. CASE Running /\ ~recorder
        BY <1>3, <4>2 DEF Running, TypeOK, Pids
      <4> QED BY <2>1, <4>1, <4>2
    <3> QED BY <1>3, <2>1, <3>1 DEF HandedInv, Handing, Starting
  <2> QED BY <1>3, <2>1 DEF StatusIsTrue
<1> QED BY <1>2, <1>3, StoppingWasAsked, Inductive, PTL

-----------------------------------------------------------------------------
(* A deleted instance.                                                      *)

\* Where a start still has its new process to itself, or is to kill it.
Pending == {"start_insert", "start_persist", "start_rollback"}

\* A step that leaves no such label keeps what holds of a deleted instance.
LEMMA DownKept ==
    ASSUME TypeOK, DeletedStaysDown, NEW c \in Callers, pc[c] \notin Pending,
           \A d \in Callers \ {c} : pc'[d] = pc[d] /\ mine'[d] = mine[d],
           live' \subseteq live, forsaken \subseteq forsaken',
           UNCHANGED <<registered, removedAt>>
    PROVE  DeletedStaysDown'
<1>1. ASSUME NEW d \in Callers, pc[d] \in Pending PROVE pc'[d] = pc[d] /\ mine'[d] = mine[d]
  BY <1>1
<1> QED BY <1>1 DEF DeletedStaysDown, Pending

LEMMA DownStep ==
    TypeOK /\ LockInv /\ SectionInv /\ LiveIsTracked /\ LaneInv /\ DeletedStaysDown /\ [Next]_vars
      => DeletedStaysDown'
<1> SUFFICES ASSUME TypeOK, LockInv, SectionInv, LiveIsTracked, LaneInv, DeletedStaysDown,
                    [Next]_vars
             PROVE  DeletedStaysDown'
  OBVIOUS
<1> USE DEF records
<1>a. ASSUME NEW c \in Callers, pc[c] \notin Pending, \E label : Goto(c, label) \/ Return(c, label),
             live' \subseteq live, forsaken \subseteq forsaken', UNCHANGED <<registered, removedAt>>
      PROVE  DeletedStaysDown'
  <2>1. \A d \in Callers \ {c} : pc'[d] = pc[d] /\ mine'[d] = mine[d]
    BY <1>a DEF Goto, Return, locals, TypeOK
  <2> QED BY <1>a, <2>1, DownKept
<1>1. ASSUME NEW c \in Callers, Call(c) \/ TakeLock(c) \/ Acquire(c) \/ DeadlinePasses(c)
      PROVE  DeletedStaysDown'
  <2>1. /\ pc[c] \notin Pending /\ mine' = mine /\ \A d \in Callers \ {c} : pc'[d] = pc[d]
    BY <1>1 DEF Call, TakeLock, Acquire, DeadlinePasses, locals, Resting, Pending, TypeOK
  <2>2. live' = live /\ forsaken' = forsaken /\ UNCHANGED <<registered, removedAt>>
    BY <1>1 DEF Call, TakeLock, Acquire, DeadlinePasses, system
  <2> QED BY <2>1, <2>2, DownKept
<1>2. ASSUME NEW c \in Callers,
             \/ Lookup(c) \/ StartCheck(c) \/ StartReap(c) \/ StartBuild(c) \/ SpawnFails(c)
             \/ TakeOutput(c) \/ AttachRecorder(c)
             \/ SendFails(c) \/ Send(c) \/ MarkStopping(c) \/ StopPoll(c)
      PROVE  DeletedStaysDown'
  <2>1. pc[c] \notin Pending
    BY <1>2 DEF Lookup, StartCheck, StartReap, StartBuild, SpawnFails, TakeOutput, AttachRecorder,
       SendFails, Send, MarkStopping, StopPoll, Pending
  <2>2. \E label : Goto(c, label) \/ Return(c, label)
    BY <1>2 DEF Lookup, StartCheck, StartReap, StartBuild, SpawnFails, TakeOutput, AttachRecorder,
       SendFails, Send, MarkStopping, StopPoll
  <2>3. live' = live /\ forsaken' = forsaken /\ UNCHANGED <<registered, removedAt>>
    BY <1>2 DEF Lookup, StartCheck, StartReap, StartBuild, SpawnFails, TakeOutput, AttachRecorder,
       SendFails, Send, MarkStopping, StopPoll, system
  <2> QED BY <2>1, <2>2, <2>3, <1>a
<1>3. ASSUME NEW c \in Callers,
             \/ StopKill(c) \/ StopRemove(c) \/ StopDrain(c) \/ ForceStop(c)
             \/ RestartReap(c) \/ RestartRead(c) \/ StatusReap(c)
      PROVE  DeletedStaysDown'
  <2>1. pc[c] \notin Pending
    BY <1>3 DEF StopKill, StopRemove, StopDrain, ForceStop, RestartReap, RestartRead, StatusReap,
       Pending
  <2>2. \E label : Goto(c, label) \/ Return(c, label)
    BY <1>3 DEF StopKill, StopRemove, StopDrain, ForceStop, RestartReap, RestartRead, StatusReap
  <2>3. live' \subseteq live /\ forsaken' = forsaken /\ UNCHANGED <<registered, removedAt>>
    BY <1>3 DEF StopKill, StopRemove, StopDrain, ForceStop, RestartReap, RestartRead, StatusReap,
       KillOk, KillErr, system
  <2> QED BY <2>1, <2>2, <2>3, <1>a
\* The new process is in the hands of the start that spawns it.
<1>4. ASSUME NEW c \in Callers, Spawn(c) PROVE DeletedStaysDown'
  <2>1. /\ pc[c] = "start_spawn" /\ live' = live \union {spawned + 1}
        /\ forsaken' = forsaken /\ UNCHANGED <<registered, removedAt>>
    BY <1>4 DEF Spawn
  <2>2. \A d \in Callers : /\ pc'[d] = IF d = c THEN "start_insert" ELSE pc[d]
                           /\ mine'[d] = IF d = c THEN spawned + 1 ELSE mine[d]
    BY <1>4 DEF Spawn, TypeOK
  <2>3. \A d \in Callers : pc[d] \in Pending => pc'[d] = pc[d] /\ mine'[d] = mine[d]
    BY <2>1, <2>2 DEF Pending
  <2> QED BY <2>1, <2>2, <2>3 DEF DeletedStaysDown, Pending
\* The start goes on to the record, which a deleted instance does not have.
<1>5. ASSUME NEW c \in Callers, Insert(c) \/ PersistStart(c) PROVE DeletedStaysDown'
  <2>1. /\ live' = live /\ forsaken' = forsaken /\ mine' = mine
        /\ UNCHANGED <<registered, removedAt>>
    BY <1>5 DEF Insert, PersistStart, Goto, locals, system
  <2>2. CASE registered
    BY <2>1, <2>2 DEF DeletedStaysDown
  <2>3. CASE ~registered
    <3>1. \A d \in Callers : pc[d] \in Pending => pc'[d] \in Pending
      BY <1>5, <2>3 DEF Insert, PersistStart, Goto, TypeOK, Pending
    <3> QED BY <2>1, <3>1 DEF DeletedStaysDown, Pending
  <2> QED BY <2>2, <2>3
\* The rollback kills the process, finds it gone, or forsakes it.
<1>6. ASSUME NEW c \in Callers, Rollback(c) PROVE DeletedStaysDown'
  <2>1. op[c] \in {"start", "restart"}
    BY <1>6, LaneOp DEF Rollback, Starting
  <2>2. Inside(c) /\ pc[c] # "start_insert"
    BY <1>6, <2>1 DEF Rollback, Inside, LockedOps, Resting
  <2>3. live \subseteq {entry} /\ 0 \notin live
    BY <2>2, OnlyTheEntry
  <2>4. live' \subseteq forsaken'
    BY <1>6, <2>3 DEF Rollback, KillOk, KillErr, system
  <2> QED BY <2>4 DEF DeletedStaysDown
<1>7. ASSUME NEW c \in Callers, Cancel(c) PROVE DeletedStaysDown'
  <2>1. /\ live' = live /\ forsaken \subseteq forsaken' /\ UNCHANGED <<registered, removedAt>>
        /\ mine[c] \in forsaken' \union {0}
        /\ \A d \in Callers \ {c} : pc'[d] = pc[d] /\ mine'[d] = mine[d]
    BY <1>7 DEF Cancel, Return, system, TypeOK
  <2>2. 0 \notin live
    BY LifecycleAssumption DEF TypeOK, Pids
  <2> QED BY <2>1, <2>2 DEF DeletedStaysDown
<1>8. ASSUME NEW p \in Pids, ProcessExit(p) PROVE DeletedStaysDown'
  BY <1>8 DEF ProcessExit, locals, DeletedStaysDown
\* Whatever runs when the instance goes was spawned before.
<1>9. CASE DeleteInstance
  BY <1>9 DEF DeleteInstance, system, SectionInv, TypeOK, DeletedStaysDown
<1>10. CASE CreateInstance
  BY <1>10 DEF CreateInstance, DeletedStaysDown
<1>11. CASE UNCHANGED vars
  BY <1>11 DEF vars, system, locals, DeletedStaysDown
<1> QED BY <1>1, <1>2, <1>3, <1>4, <1>5, <1>6, <1>7, <1>8, <1>9, <1>10, <1>11, NextCases

\* No process is left running for an instance that was deleted before it was
\* spawned, however many starts are under way when the registry forgets it, unless
\* its start is dropped or cannot be rolled back (delete_inner, start_unlocked).
THEOREM DeletionHolds == Spec => []DeletedStaysDown
<1>1. Init => DeletedStaysDown
  BY DEF Init, DeletedStaysDown
<1> QED BY <1>1, DownStep, LanesHold, Inductive, PTL DEF Spec

-----------------------------------------------------------------------------
(* The refinement of ServerPromise.                                         *)

\* The running process of a set of at most one, as the refinement maps it.
UpOf(pids) == IF pids = {} THEN 0 ELSE CHOOSE p \in pids : TRUE

LEMMA UpOfOne == UpOf({}) = 0 /\ \A p : UpOf({p}) = p
<1>1. UpOf({}) = 0
  BY DEF UpOf
<1>2. ASSUME NEW p PROVE UpOf({p}) = p
  <2>1. (CHOOSE q \in {p} : TRUE) \in {p}
    OBVIOUS
  <2> QED BY <2>1 DEF UpOf
<1> QED BY <1>1, <1>2

\* A call that goes on is invisible, with the process as it was.
LEMMA StutterMaps ==
    ASSUME TypeOK, NEW c \in Callers, NEW label, label \notin Resting, pc[c] \notin Resting,
           pc' = [pc EXCEPT ![c] = label], UNCHANGED <<op, mine, spawned, live>>
    PROVE  UNCHANGED Promise!vars
<1>1. \A d \in Callers : (IF pc'[d] \in Resting THEN pc'[d] ELSE op'[d])
                            = (IF pc[d] \in Resting THEN pc[d] ELSE op[d])
  BY DEF TypeOK
<1> QED BY <1>1 DEF Promise!vars

LEMMA GotoMaps ==
    ASSUME TypeOK, NEW c \in Callers, NEW label \in Labels \ Resting, pc[c] \notin Resting,
           Goto(c, label), UNCHANGED <<spawned, live>>
    PROVE  UNCHANGED Promise!vars
BY StutterMaps DEF Goto, locals

\* A return is an answer, if it says of the process what the promise asks.
LEMMA AnswerMaps ==
    ASSUME TypeOK, NEW c \in Callers, NEW outcome \in {"ok", "err", "cancelled"},
           pc[c] \notin Resting, Return(c, outcome), spawned' = spawned,
           UpOf(live') = UpOf(live) \/ (op[c] \in LockedOps /\ UpOf(live') = 0),
           outcome = "ok" /\ op[c] \in {"stop", "force"} => UpOf(live') = 0,
           outcome = "ok" /\ op[c] \in {"start", "restart"}
              => mine[c] # 0 /\ UpOf(live') \in {0, mine[c]},
           outcome = "err" /\ mine[c] # 0 /\ c \notin FailingKills => UpOf(live') # mine[c]
    PROVE  Promise!Next
<1> DEFINE Call1 == [d \in Callers |-> IF pc[d] \in Resting THEN pc[d] ELSE op[d]]
           Call2 == [d \in Callers |-> IF pc'[d] \in Resting THEN pc'[d] ELSE op'[d]]
<1>1. \A d \in Callers : pc'[d] = IF d = c THEN outcome ELSE pc[d]
  BY DEF TypeOK, Return
<1>2. \A d \in Callers : d # c => op'[d] = op[d]
  BY DEF TypeOK, Return
<1>3. outcome \in Resting
  BY DEF Resting
<1>4. Call2 = [Call1 EXCEPT ![c] = outcome]
  BY <1>1, <1>2, <1>3
<1>5. Call1[c] = op[c] /\ op[c] \in Ops
  BY DEF TypeOK
<1>6. mine' = [mine EXCEPT ![c] = 0]
  BY DEF Return
<1>7. Promise!Answer(c, outcome)
  <2> HIDE DEF Call1, Call2
  <2>1. Call1[c] \in Promise!Operations
    BY <1>5 DEF Ops, LockedOps, Promise!Operations, Promise!Mutators
  <2>2. UpOf(live') = UpOf(live) \/ (Call1[c] \in Promise!Mutators /\ UpOf(live') = 0)
    BY <1>5 DEF LockedOps, Promise!Mutators
  <2>3. /\ outcome = "ok" /\ Call1[c] \in {"stop", "force"} => UpOf(live') = 0
        /\ outcome = "ok" /\ Call1[c] \in {"start", "restart"}
              => mine[c] # 0 /\ UpOf(live') \in {0, mine[c]}
        /\ outcome = "err" /\ mine[c] # 0 /\ c \notin FailingKills => UpOf(live') # mine[c]
    BY <1>5
  <2> QED BY <2>1, <2>2, <2>3, <1>4, <1>6 DEF Promise!Answer, UpOf, Call1, Call2
<1>8. outcome \in Promise!Answers \ {"idle"}
  BY DEF Promise!Answers
<1> QED BY <1>7, <1>8 DEF Promise!Next

LEMMA RefinementStep ==
    TypeOK /\ LockInv /\ SectionInv /\ LiveIsTracked /\ StopPath /\ LaneInv /\ [Next]_vars
      => [Promise!Next]_(Promise!vars)
<1> SUFFICES ASSUME TypeOK, LockInv, SectionInv, LiveIsTracked, StopPath, LaneInv, [Next]_vars
             PROVE  Promise!Next \/ UNCHANGED Promise!vars
  OBVIOUS
<1>a. 0 \notin live /\ UpOf({}) = 0
  BY UpOfOne, LifecycleAssumption DEF TypeOK, Pids
\* An error of a call that owns no process and leaves all as it is.
<1>b. ASSUME NEW c \in Callers, NEW outcome \in {"err", "cancelled"}, Return(c, outcome),
             pc[c] \notin Resting, outcome = "err" => pc[c] \notin Handing \union {"start_insert"},
             live' = live, spawned' = spawned
      PROVE  Promise!Next
  <2>1. outcome = "err" => mine[c] = 0
    BY <1>b DEF LaneInv
  <2> QED BY <1>b, <2>1, AnswerMaps
\* An Ok of a stop or a force_stop, with the process gone.
<1>c. ASSUME NEW c \in Callers, Return(c, "ok"), op[c] \in {"stop", "force"}, pc[c] \notin Resting,
             live' = {}, spawned' = spawned
      PROVE  Promise!Next
  BY <1>a, <1>c, AnswerMaps DEF LockedOps
\* An Ok of a call that changes nothing.
<1>d. ASSUME NEW c \in Callers, Return(c, "ok"), op[c] \in {"command", "status"}, pc[c] \notin Resting,
             live' = live, spawned' = spawned
      PROVE  Promise!Next
  BY <1>d, AnswerMaps
\* The only process there is goes down and nobody is told.
<1>e. ASSUME NEW p \in live, live \subseteq {p}, live' = {}, spawned' = spawned, mine' = mine, op' = op,
             \A d \in Callers : pc'[d] = pc[d] \/ (pc[d] \notin Resting /\ pc'[d] \notin Resting)
      PROVE  Promise!Next
  <2>1. live = {p}
    BY <1>e
  <2>2. UpOf(live) = p /\ UpOf(live) # 0 /\ UpOf(live') = 0
    BY <2>1, <1>a, <1>e, UpOfOne
  <2>3. \A d \in Callers : (IF pc'[d] \in Resting THEN pc'[d] ELSE op'[d])
                              = (IF pc[d] \in Resting THEN pc[d] ELSE op[d])
    BY <1>e
  <2>4. Promise!Down
    BY <1>e, <2>2, <2>3 DEF Promise!Down, UpOf
  <2> QED BY <2>4 DEF Promise!Next
<1>1. ASSUME NEW c \in Callers, Call(c) PROVE Promise!Next
  <2>1. PICK o \in Ops : /\ op' = [op EXCEPT ![c] = o]
                         /\ pc' = [pc EXCEPT ![c] = IF o \in LockedOps THEN "lock" ELSE "lookup"]
    BY <1>1 DEF Call
  <2>2. pc[c] \in Resting /\ mine' = mine /\ spawned' = spawned /\ live' = live
    BY <1>1 DEF Call, system
  <2> DEFINE Call1 == [d \in Callers |-> IF pc[d] \in Resting THEN pc[d] ELSE op[d]]
             Call2 == [d \in Callers |-> IF pc'[d] \in Resting THEN pc'[d] ELSE op'[d]]
  <2>3. \A d \in Callers : /\ d # c => pc'[d] = pc[d] /\ op'[d] = op[d]
                           /\ d = c => pc'[d] \notin Resting /\ op'[d] = o
    BY <2>1 DEF TypeOK, Resting
  <2>4. Call2 = [Call1 EXCEPT ![c] = o]
    BY <2>3
  <2>5. Call1[c] \in Promise!Answers
    BY <2>2 DEF Resting, Promise!Answers
  <2>6. o \in Promise!Operations
    BY DEF Ops, LockedOps, Promise!Operations, Promise!Mutators
  <2> HIDE DEF Call1, Call2
  <2>7. \E x \in Promise!Operations : Call2 = [Call1 EXCEPT ![c] = x]
    BY <2>4, <2>6
  <2>8. UpOf(live') = UpOf(live)
    BY <2>2
  <2>9. Promise!Begin(c)
    BY <2>2, <2>5, <2>7, <2>8 DEF Promise!Begin, Call1, Call2, UpOf
  <2> QED BY <2>9 DEF Promise!Next
<1>2. ASSUME NEW c \in Callers, TakeLock(c) \/ Acquire(c) \/ DeadlinePasses(c)
      PROVE  UNCHANGED Promise!vars
  <2>1. pc[c] \notin Resting /\ UNCHANGED <<op, mine, spawned, live>>
    BY <1>2 DEF TakeLock, Acquire, DeadlinePasses, locals, system, Resting
  <2>2. CASE TakeLock(c) \/ Acquire(c)
    <3>1. PICK label \in {"wait", "lookup"} : pc' = [pc EXCEPT ![c] = label]
      BY <2>2 DEF TakeLock, Acquire
    <3> QED BY <2>1, <3>1, StutterMaps DEF Resting
  <2>3. CASE DeadlinePasses(c)
    <3>1. pc' = pc
      BY <2>3 DEF DeadlinePasses
    <3> QED BY <2>1, <3>1 DEF Promise!vars
  <2> QED BY <1>2, <2>2, <2>3
<1>3. ASSUME NEW c \in Callers,
             \/ Lookup(c) \/ StartCheck(c) \/ StartReap(c) \/ StartBuild(c) \/ SpawnFails(c)
             \/ Insert(c) \/ PersistStart(c) \/ SendFails(c) \/ MarkStopping(c)
             \/ RestartReap(c) \/ RestartRead(c)
      PROVE  Promise!Next \/ UNCHANGED Promise!vars
  <2>1. pc[c] \notin Resting /\ live' = live /\ spawned' = spawned
    BY <1>3 DEF Lookup, StartCheck, StartReap, StartBuild, SpawnFails, Insert, PersistStart,
       SendFails, MarkStopping, RestartReap, RestartRead, Resting, system
  <2>2. FirstStep(op[c]) \in Labels \ Resting
    BY FirstStepLabel DEF TypeOK, FirstStep, Ops, LockedOps, Resting
  <2>3. {"start_reap", "start_build", "start_spawn", "start_persist", "start_take",
         "start_rollback", "stop_poll", "await_reap", "start_check", "restart_read",
         "await_read", "send"} \subseteq Labels \ Resting
    BY DEF Labels, Starting, Resting
  <2>4. \/ /\ Return(c, "err") /\ pc[c] \notin Handing \union {"start_insert"}
        \/ \E label \in Labels \ Resting : Goto(c, label)
    <3>1. CASE Lookup(c) \/ StartCheck(c) \/ StartReap(c) \/ StartBuild(c) \/ SpawnFails(c)
      BY <3>1, <2>2, <2>3 DEF Lookup, StartCheck, StartReap, StartBuild, SpawnFails, Handing
    <3>2. CASE Insert(c) \/ PersistStart(c) \/ SendFails(c) \/ MarkStopping(c)
      BY <3>2, <2>3 DEF Insert, PersistStart, SendFails, MarkStopping, Handing
    <3>3. CASE RestartReap(c) \/ RestartRead(c)
      BY <3>3, <2>3 DEF RestartReap, RestartRead, Handing
    <3> QED BY <1>3, <3>1, <3>2, <3>3
  <2> QED BY <2>1, <2>4, <1>b, GotoMaps
<1>4. ASSUME NEW c \in Callers, Spawn(c) PROVE Promise!Next
  <2>1. /\ pc[c] = "start_spawn" /\ spawned < MaxSpawn /\ op' = op
        /\ mine' = [mine EXCEPT ![c] = spawned + 1]
        /\ live' = live \union {spawned + 1} /\ spawned' = spawned + 1
        /\ pc' = [pc EXCEPT ![c] = "start_insert"]
    BY <1>4 DEF Spawn
  <2>2. live = {}
    <3>1. entry = 0 /\ Inside(c)
      BY <2>1, CriticalInside DEF SectionInv, Critical
    <3> QED BY <2>1, <3>1, OnlyTheEntry
  <2>3. UpOf(live) = 0 /\ UpOf(live') = spawned + 1
    BY <2>1, <2>2, UpOfOne
  <2>4. \A d \in Callers : (IF pc'[d] \in Resting THEN pc'[d] ELSE op'[d])
                              = (IF pc[d] \in Resting THEN pc[d] ELSE op[d])
    BY <2>1 DEF TypeOK, Resting
  <2>5. mine[c] = 0
    BY <2>1 DEF LaneInv, Handing
  <2>6. pc[c] \notin Resting /\ op[c] \in {"start", "restart"}
    BY <2>1, LaneOp DEF Starting, Resting
  <2>7. Promise!Spawn(c)
    BY <2>1, <2>3, <2>4, <2>5, <2>6 DEF Promise!Spawn, UpOf
  <2> QED BY <2>7 DEF Promise!Next
\* What a call in the hands of its start knows of the process.
<1>f. ASSUME NEW c \in Callers, pc[c] \in Handing
      PROVE  /\ live \subseteq {entry} /\ entry \in {0, mine[c]} /\ mine[c] # 0
             /\ op[c] \in {"start", "restart"} /\ pc[c] \notin Resting
  <2>1. op[c] \in {"start", "restart"}
    BY <1>f, LaneOp DEF Starting, Handing
  <2>2. Inside(c) /\ pc[c] # "start_insert" /\ pc[c] \notin Resting
    BY <1>f, <2>1 DEF Inside, LockedOps, Resting, Handing
  <2> QED BY <1>f, <2>1, <2>2, OnlyTheEntry DEF LaneInv
<1>5. ASSUME NEW c \in Callers, Rollback(c) PROVE Promise!Next
  <2>1. pc[c] \in Handing /\ Return(c, "err")
    BY <1>5 DEF Rollback, Handing
  <2>2. spawned' = spawned /\ (live' = {} \/ (live' = live /\ c \in FailingKills))
    BY <1>5, <2>1, <1>a, <1>f DEF Rollback, KillOk, KillErr, Exited, system
  <2>3. CASE live' = {}
    BY <2>1, <2>2, <2>3, <1>a, <1>f, AnswerMaps DEF LockedOps
  <2>4. CASE live' = live /\ c \in FailingKills
    BY <2>1, <2>2, <2>4, <1>f, AnswerMaps
  <2> QED BY <2>2, <2>3, <2>4
<1>6. ASSUME NEW c \in Callers, TakeOutput(c) PROVE Promise!Next \/ UNCHANGED Promise!vars
  <2>1. pc[c] \in Handing /\ live' = live /\ spawned' = spawned
    BY <1>6 DEF TakeOutput, Handing, system
  <2>2. CASE entry = 0
    <3>1. live' = {} /\ Return(c, "err")
      BY <1>6, <2>1, <2>2, <1>a, <1>f DEF TakeOutput
    <3> QED BY <2>1, <3>1, <1>a, <1>f, AnswerMaps
  <2>3. CASE entry # 0
    <3>1. Goto(c, "start_record") /\ "start_record" \in Labels \ Resting
      BY <1>6, <2>3 DEF TakeOutput, Labels, Starting, Resting
    <3> QED BY <2>1, <3>1, <1>f, GotoMaps
  <2> QED BY <2>2, <2>3
<1>7. ASSUME NEW c \in Callers, AttachRecorder(c) PROVE Promise!Next
  <2>1. pc[c] \in Handing /\ Return(c, "ok") /\ live' = live /\ spawned' = spawned
    BY <1>7 DEF AttachRecorder, Handing, system
  <2>2. live = {} \/ live = {mine[c]}
    BY <2>1, <1>a, <1>f
  <2>3. UpOf(live') \in {0, mine[c]}
    BY <2>1, <2>2, UpOfOne
  <2> QED BY <2>1, <2>3, <1>f, AnswerMaps
<1>8. ASSUME NEW c \in Callers, Send(c) PROVE Promise!Next \/ UNCHANGED Promise!vars
  <2>1. pc[c] \notin Resting /\ live' = live /\ spawned' = spawned
    BY <1>8 DEF Send, Resting, system
  <2>2. CASE op[c] = "command"
    BY <1>8, <2>1, <2>2, <1>d DEF Send
  <2>3. CASE op[c] # "command"
    <3>1. Goto(c, "stop_mark") /\ "stop_mark" \in Labels \ Resting
      BY <1>8, <2>3 DEF Send, Labels, Resting
    <3> QED BY <2>1, <3>1, GotoMaps
  <2> QED BY <2>2, <2>3
\* The steps of a stop, and of a force_stop, inside the lock.
<1>g. ASSUME NEW c \in Callers,
             pc[c] \in {"stop_poll", "stop_kill", "stop_remove", "stop_drain", "force_kill"}
      PROVE  live \subseteq {entry} /\ op[c] \in {"stop", "force"} /\ pc[c] \notin Resting
  <2>1. op[c] \in {"stop", "force"}
    BY <1>g, LaneOp
  <2>2. Inside(c) /\ pc[c] # "start_insert" /\ pc[c] \notin Resting
    BY <1>g, <2>1 DEF Inside, LockedOps, Resting
  <2> QED BY <2>1, <2>2, OnlyTheEntry
<1>9. ASSUME NEW c \in Callers, StopPoll(c) \/ StopRemove(c) \/ StopDrain(c)
      PROVE  Promise!Next \/ UNCHANGED Promise!vars
  <2>1. /\ pc[c] \in {"stop_poll", "stop_remove", "stop_drain"}
        /\ live' = live /\ spawned' = spawned
    BY <1>9 DEF StopPoll, StopRemove, StopDrain, system
  <2>2. {"stop_drain", "stop_kill", "stop_poll"} \subseteq Labels \ Resting
    BY DEF Labels, Resting
  <2>3. \/ Return(c, "ok") /\ entry \notin live
        \/ \E label \in Labels \ Resting : Goto(c, label)
    <3>1. CASE StopPoll(c)
      BY <3>1, <2>2, <1>a DEF StopPoll
    <3>2. CASE StopRemove(c)
      BY <3>2, <2>2 DEF StopRemove, SectionInv
    <3>3. CASE StopDrain(c)
      BY <3>3, <1>a DEF StopDrain, StopPath
    <3> QED BY <1>9, <3>1, <3>2, <3>3
  <2>4. CASE Return(c, "ok") /\ entry \notin live
    <3>1. live' = {}
      BY <2>1, <2>4, <1>g
    <3> QED BY <2>1, <2>4, <3>1, <1>c, <1>g
  <2> QED BY <2>1, <2>3, <2>4, <1>g, GotoMaps
<1>10. ASSUME NEW c \in Callers, StopKill(c) PROVE Promise!Next \/ UNCHANGED Promise!vars
  <2>1. pc[c] = "stop_kill" /\ pc[c] \notin Handing \union {"start_insert"}
    BY <1>10 DEF StopKill, Handing
  <2>2. "stop_remove" \in Labels \ Resting
    BY DEF Labels, Resting
  <2>3. CASE KillErr(c) /\ Return(c, "err")
    BY <2>1, <2>3, <1>b, <1>g DEF KillErr, system
  <2>4. CASE entry = 0 /\ Goto(c, "stop_remove") /\ UNCHANGED system
    BY <2>1, <2>2, <2>4, <1>g, GotoMaps DEF system
  <2>5. CASE KillOk /\ Goto(c, "stop_remove")
    <3>1. entry \in live /\ live \subseteq {entry} /\ live' = {} /\ spawned' = spawned
      BY <2>1, <2>5, <1>g DEF KillOk, Running
    <3>2. /\ mine' = mine /\ op' = op
          /\ \A d \in Callers : pc'[d] = pc[d] \/ (pc[d] \notin Resting /\ pc'[d] \notin Resting)
      BY <2>1, <2>2, <2>5, <1>g DEF Goto, locals, TypeOK
    <3> QED BY <3>1, <3>2, <1>e
  <2> QED BY <1>10, <2>3, <2>4, <2>5 DEF StopKill
<1>11. ASSUME NEW c \in Callers, ForceStop(c) PROVE Promise!Next
  <2>1. pc[c] = "force_kill" /\ pc[c] \notin Handing \union {"start_insert"}
    BY <1>11 DEF ForceStop, Handing
  <2>2. CASE KillErr(c) /\ Return(c, "err")
    BY <2>1, <2>2, <1>b, <1>g DEF KillErr, system
  <2>3. CASE Return(c, "ok") /\ (KillOk \/ (entry = 0 /\ UNCHANGED system))
    <3>1. live' = {} /\ spawned' = spawned
      BY <2>1, <2>3, <1>a, <1>g DEF KillOk, system
    <3> QED BY <2>1, <2>3, <3>1, <1>c, <1>g
  <2> QED BY <1>11, <2>2, <2>3 DEF ForceStop
<1>12. ASSUME NEW c \in Callers, StatusReap(c) PROVE Promise!Next
  <2>1. pc[c] = "status_reap" /\ Return(c, "ok") /\ live' = live /\ spawned' = spawned
    BY <1>12 DEF StatusReap, system
  <2> QED BY <2>1, <1>d, LaneOp DEF Resting
<1>13. ASSUME NEW c \in Callers, Cancel(c) PROVE Promise!Next
  BY <1>13, <1>b DEF Cancel, AwaitPoints, Resting, system
<1>14. ASSUME NEW p \in Pids, ProcessExit(p) PROVE Promise!Next
  <2>1. p \in live /\ live' = live \ {p} /\ spawned' = spawned /\ pc' = pc /\ mine' = mine /\ op' = op
    BY <1>14 DEF ProcessExit, locals
  <2>2. live \subseteq {p}
    BY <2>1, OneAtATime
  <2> QED BY <2>1, <2>2, <1>e
<1>15. CASE DeleteInstance \/ CreateInstance \/ UNCHANGED vars
  <2>1. UNCHANGED <<live, spawned, pc, op, mine>>
    BY <1>15 DEF DeleteInstance, CreateInstance, vars, system, locals
  <2> QED BY <2>1 DEF Promise!vars
<1> QED
  BY <1>1, <1>2, <1>3, <1>4, <1>5, <1>6, <1>7, <1>8, <1>9, <1>10, <1>11, <1>12, <1>13, <1>14,
     <1>15, NextCases

\* The service keeps the promise of its port (ServerService) whatever callers
\* race and calls are dropped: at most one process, spawned by a start when none
\* ran, and every answer true when given.  Only a start whose own rollback meets
\* a failing terminate_tree may answer an error with its process running.
THEOREM PromiseKept == Spec => KeepsPromise
<1>1. Init => Promise!Init
  <2> SUFFICES ASSUME Init PROVE Promise!Init
    OBVIOUS
  <2>1. [c \in Callers |-> IF pc[c] \in Resting THEN pc[c] ELSE op[c]] = [c \in Callers |-> "idle"]
    BY DEF Init, Resting
  <2> QED BY <2>1 DEF Init, Promise!Init
<1> QED BY <1>1, RefinementStep, PathHolds, LanesHold, Inductive, PTL DEF Spec, KeepsPromise,
           Promise!Spec

-----------------------------------------------------------------------------
(* The log pipeline of the process, which a start of the instance creates   *)
(* and a stop waits for: LogPipeline, whose module has its own variables.   *)

\* What the channel carries.
Items == Line \union {Stop}

\* What a line is.
LEMMA LinesAre ==
    /\ Startup \notin Outputs /\ Stop \notin Line
    /\ \A l \in Line : l.n \in Nat /\ (l.from \notin Outputs => l.from = Startup)
BY PipelineAssumption, StopIsNoLine DEF Line

-----------------------------------------------------------------------------
(* Sequences that are moved from stage to stage.                            *)

\* The head of one sequence becomes the last of the one before it.
LEMMA MoveHead ==
    ASSUME NEW S, NEW s \in Seq(S), NEW t \in Seq(S), t # <<>>
    PROVE  Append(s, Head(t)) \o Tail(t) = s \o t
<1>1. Append(s, Head(t)) \in Seq(S) /\ Tail(t) \in Seq(S)
  BY HeadTailProperties, AppendProperties
<1>2. Len(Append(s, Head(t)) \o Tail(t)) = Len(s \o t)
  BY <1>1, ConcatProperties, HeadTailProperties, AppendProperties
<1>3. ASSUME NEW i \in 1..Len(s \o t) PROVE (Append(s, Head(t)) \o Tail(t))[i] = (s \o t)[i]
  <2>1. i \in Nat /\ i <= Len(s) + Len(t)
    BY ConcatProperties
  <2>2. CASE i <= Len(s)
    BY <1>1, <2>1, <2>2, ConcatProperties, HeadTailProperties, AppendProperties
  <2>3. CASE i = Len(s) + 1
    BY <1>1, <2>1, <2>3, ConcatProperties, HeadTailProperties, AppendProperties
  <2>4. CASE i > Len(s) + 1
    BY <1>1, <2>1, <2>4, ConcatProperties, HeadTailProperties, AppendProperties
  <2> QED BY <2>1, <2>2, <2>3, <2>4
<1> QED BY <1>1, <1>2, <1>3, SeqEqual, ConcatProperties

LEMMA AppendLast ==
    ASSUME NEW S, NEW s \in Seq(S), NEW t \in Seq(S), NEW x \in S
    PROVE  s \o Append(t, x) = Append(s \o t, x)
BY AppendIsConcat, ConcatAssociative, ConcatProperties

\* The lines of each source come in their order, and none is missing but those of gone.
Sorted(s, gone) ==
    /\ \A i, j \in DOMAIN s :
          i < j /\ s[i] # Stop /\ s[j] # Stop /\ s[i].from = s[j].from => s[i].n < s[j].n
    /\ \A l \in InSeq(s) \ {Stop} : \A n \in 1..(l.n - 1) :
          [from |-> l.from, n |-> n] \in InSeq(s) \union gone

\* The line a is in the sequence, ahead of every Stop.
Ahead(s, a) == \E i \in DOMAIN s : s[i] = a /\ \A j \in 1..i : s[j] # Stop

LEMMA AppendIs ==
    ASSUME NEW S, NEW s \in Seq(S), NEW x \in S
    PROVE  /\ Append(s, x) \in Seq(S) /\ Len(Append(s, x)) = Len(s) + 1
           /\ DOMAIN s = 1..Len(s) /\ DOMAIN Append(s, x) = 1..(Len(s) + 1)
           /\ \A i \in 1..Len(s) : Append(s, x)[i] = s[i]
           /\ Append(s, x)[Len(s) + 1] = x
           /\ InSeq(Append(s, x)) = InSeq(s) \union {x}
<1>1. /\ Append(s, x) \in Seq(S) /\ Len(Append(s, x)) = Len(s) + 1 /\ Len(s) \in Nat
      /\ DOMAIN s = 1..Len(s) /\ DOMAIN Append(s, x) = 1..(Len(s) + 1)
      /\ \A i \in 1..Len(s) : Append(s, x)[i] = s[i]
      /\ Append(s, x)[Len(s) + 1] = x
  BY AppendProperties, LenProperties
<1>2. InSeq(Append(s, x)) = InSeq(s) \union {x}
  <2>1. \A i \in 1..(Len(s) + 1) : i \in 1..Len(s) \/ i = Len(s) + 1
    BY <1>1
  <2>2. InSeq(Append(s, x)) \subseteq InSeq(s) \union {x}
    BY <1>1, <2>1 DEF InSeq
  <2>3. InSeq(s) \union {x} \subseteq InSeq(Append(s, x))
    <3>1. 1..Len(s) \subseteq 1..(Len(s) + 1) /\ Len(s) + 1 \in 1..(Len(s) + 1)
      BY <1>1
    <3> QED BY <1>1, <3>1 DEF InSeq
  <2> QED BY <2>2, <2>3
<1> QED BY <1>1, <1>2

\* Where the items of p \o (m \o q) are in p \o q.
Shift(p, m, i) == IF i <= Len(p) THEN i ELSE i + Len(m)

\* w is v with m put in after p.
Fits(p, m, w, v) ==
    /\ \A i \in DOMAIN v : Shift(p, m, i) \in DOMAIN w /\ w[Shift(p, m, i)] = v[i]
    /\ \A k \in DOMAIN w : w[k] \in InSeq(m) \/ \E i \in DOMAIN v : k = Shift(p, m, i)
    /\ InSeq(w) = InSeq(v) \union InSeq(m)

LEMMA CutIs ==
    ASSUME NEW S, NEW p \in Seq(S), NEW m \in Seq(S), NEW q \in Seq(S)
    PROVE  Fits(p, m, p \o (m \o q), p \o q)
<1> DEFINE w == p \o (m \o q)
           v == p \o q
<1>1. /\ w \in Seq(S) /\ v \in Seq(S) /\ m \o q \in Seq(S)
      /\ Len(w) = Len(p) + (Len(m) + Len(q)) /\ Len(v) = Len(p) + Len(q)
      /\ DOMAIN w = 1..Len(w) /\ DOMAIN v = 1..Len(v) /\ DOMAIN m = 1..Len(m)
      /\ Len(p) \in Nat /\ Len(m) \in Nat /\ Len(q) \in Nat /\ Len(m \o q) = Len(m) + Len(q)
  BY ConcatProperties, LenProperties
<1>2. \A i \in 1..Len(p) : w[i] = p[i] /\ v[i] = p[i]
  BY <1>1, ConcatProperties
<1>3. \A i \in 1..Len(m) : w[Len(p) + i] = m[i]
  <2>1. \A i \in 1..Len(m) : (m \o q)[i] = m[i]
    BY <1>1, ConcatProperties
  <2>2. \A i \in 1..Len(m) : w[Len(p) + i] = (m \o q)[i]
    BY <1>1, ConcatProperties
  <2> QED BY <2>1, <2>2
<1>4. \A i \in 1..Len(q) : w[Len(p) + Len(m) + i] = q[i] /\ v[Len(p) + i] = q[i]
  <2>1. \A i \in 1..Len(q) : (m \o q)[Len(m) + i] = q[i]
    BY <1>1, ConcatProperties
  <2>2. \A i \in 1..Len(q) : w[Len(p) + (Len(m) + i)] = (m \o q)[Len(m) + i]
    BY <1>1, ConcatProperties
  <2>3. \A i \in 1..Len(q) : v[Len(p) + i] = q[i]
    BY <1>1, ConcatProperties
  <2>4. \A i \in 1..Len(q) : Len(p) + (Len(m) + i) = Len(p) + Len(m) + i
    BY <1>1
  <2> QED BY <2>1, <2>2, <2>3, <2>4
<1>5. ASSUME NEW i \in DOMAIN v
      PROVE  Shift(p, m, i) \in DOMAIN w /\ w[Shift(p, m, i)] = v[i]
  <2>1. CASE i <= Len(p)
    BY <1>1, <1>2, <2>1 DEF Shift
  <2>2. CASE i > Len(p)
    <3>1. PICK k \in 1..Len(q) : i = Len(p) + k
      <4>1. i - Len(p) \in 1..Len(q) /\ i = Len(p) + (i - Len(p))
        BY <1>1, <2>2
      <4> QED BY <4>1
    <3>2. Shift(p, m, i) = Len(p) + Len(m) + k
      BY <1>1, <2>2, <3>1 DEF Shift
    <3> QED BY <1>1, <1>4, <3>1, <3>2
  <2> QED BY <1>1, <2>1, <2>2
<1>7. ASSUME NEW k \in DOMAIN w
      PROVE  w[k] \in InSeq(m) \/ \E i \in DOMAIN v : k = Shift(p, m, i)
  <2>1. CASE k <= Len(p)
    BY <1>1, <2>1 DEF Shift
  <2>2. CASE k > Len(p) /\ k <= Len(p) + Len(m)
    <3>1. k - Len(p) \in 1..Len(m) /\ k = Len(p) + (k - Len(p))
      BY <1>1, <2>2
    <3> QED BY <1>1, <1>3, <3>1 DEF InSeq
  <2>3. CASE k > Len(p) + Len(m)
    <3>1. k - Len(m) \in 1..Len(v) /\ ~(k - Len(m) <= Len(p)) /\ (k - Len(m)) + Len(m) = k
      BY <1>1, <2>3
    <3> QED BY <1>1, <3>1 DEF Shift
  <2> QED BY <1>1, <2>1, <2>2, <2>3
<1>8. InSeq(m) \subseteq InSeq(w)
  <2>1. \A i \in 1..Len(m) : Len(p) + i \in DOMAIN w
    BY <1>1
  <2> QED BY <1>1, <1>3, <2>1 DEF InSeq
<1>9. InSeq(v) \subseteq InSeq(w)
  BY <1>5 DEF InSeq
<1>10. InSeq(w) \subseteq InSeq(v) \union InSeq(m)
  BY <1>5, <1>7 DEF InSeq
<1> QED BY <1>5, <1>7, <1>8, <1>9, <1>10 DEF Fits

LEMMA ShiftOrders ==
    ASSUME NEW S, NEW p \in Seq(S), NEW m \in Seq(S), NEW i \in Nat, NEW j \in Nat, i < j
    PROVE  Shift(p, m, i) < Shift(p, m, j)
BY LenProperties DEF Shift

\* A line may be added that is later than all of its source, and misses none.
LEMMA SortedAppend ==
    ASSUME NEW s \in Seq(Items), NEW x \in Items, NEW gone, Sorted(s, gone),
           \A l \in Line : l.n \in Nat,
           x # Stop => /\ \A l \in InSeq(s) \ {Stop} : l.from = x.from => l.n < x.n
                       /\ \A n \in 1..(x.n - 1) : [from |-> x.from, n |-> n] \in InSeq(s) \union gone
    PROVE  Sorted(Append(s, x), gone)
<1> DEFINE t == Append(s, x)
<1>1. /\ DOMAIN s = 1..Len(s) /\ DOMAIN t = 1..(Len(s) + 1) /\ InSeq(t) = InSeq(s) \union {x}
      /\ \A i \in 1..Len(s) : t[i] = s[i]
      /\ t[Len(s) + 1] = x
      /\ Len(s) \in Nat
  BY AppendIs, LenProperties
<1>2. ASSUME NEW i \in DOMAIN t, NEW j \in DOMAIN t,
             i < j, t[i] # Stop, t[j] # Stop, t[i].from = t[j].from
      PROVE  t[i].n < t[j].n
  <2>1. i \in 1..Len(s)
    BY <1>1, <1>2
  <2>2. CASE j \in 1..Len(s)
    BY <1>1, <1>2, <2>1, <2>2 DEF Sorted
  <2>3. CASE j = Len(s) + 1
    BY <1>1, <1>2, <2>1, <2>3 DEF InSeq
  <2> QED BY <1>1, <2>2, <2>3
<1>3. ASSUME NEW l \in InSeq(t) \ {Stop}, NEW n \in 1..(l.n - 1)
      PROVE  [from |-> l.from, n |-> n] \in InSeq(t) \union gone
  <2>1. CASE l = x
    BY <1>1, <2>1
  <2>2. CASE l \in InSeq(s)
    BY <1>1, <2>2 DEF Sorted
  <2> QED BY <1>1, <2>1, <2>2
<1> QED BY <1>2, <1>3 DEF Sorted

\* A part may be cut out if it counts as gone.
LEMMA SortedCut ==
    ASSUME NEW p \in Seq(Items), NEW m \in Seq(Items), NEW q \in Seq(Items), NEW gone,
           Sorted(p \o (m \o q), gone)
    PROVE  Sorted(p \o q, gone \union InSeq(m))
<1> DEFINE w == p \o (m \o q)
           v == p \o q
<1>1. /\ \A i \in DOMAIN v : Shift(p, m, i) \in DOMAIN w /\ w[Shift(p, m, i)] = v[i]
      /\ \A i, j \in DOMAIN v : i < j => Shift(p, m, i) < Shift(p, m, j)
      /\ InSeq(w) = InSeq(v) \union InSeq(m)
  <2>1. Fits(p, m, w, v)
    BY CutIs
  <2>3. DOMAIN v \subseteq Nat
    BY ConcatProperties, LenProperties
  <2> QED BY <2>1, <2>3, ShiftOrders DEF Fits
<1>2. ASSUME NEW i \in DOMAIN v, NEW j \in DOMAIN v,
             i < j, v[i] # Stop, v[j] # Stop, v[i].from = v[j].from
      PROVE  v[i].n < v[j].n
  BY <1>1, <1>2 DEF Sorted
<1>3. \A l \in InSeq(v) \ {Stop} : \A n \in 1..(l.n - 1) :
          [from |-> l.from, n |-> n] \in InSeq(v) \union (gone \union InSeq(m))
  BY <1>1 DEF Sorted
<1> QED BY <1>2, <1>3 DEF Sorted

LEMMA AheadAppend ==
    ASSUME NEW s \in Seq(Items), NEW x \in Items, NEW a,
           Ahead(s, a) \/ (a = x /\ Stop \notin InSeq(s) /\ x # Stop)
    PROVE  Ahead(Append(s, x), a)
<1> DEFINE t == Append(s, x)
<1>1. /\ DOMAIN s = 1..Len(s) /\ DOMAIN t = 1..(Len(s) + 1) /\ Len(s) \in Nat
      /\ \A i \in 1..Len(s) : t[i] = s[i]
      /\ t[Len(s) + 1] = x
  BY AppendIs, LenProperties
<1>2. CASE Ahead(s, a)
  <2>1. PICK i \in 1..Len(s) : s[i] = a /\ \A j \in 1..i : s[j] # Stop
    BY <1>1, <1>2 DEF Ahead
  <2>2. \A j \in 1..i : t[j] = s[j]
    BY <1>1
  <2>3. i \in DOMAIN t /\ i \in 1..i
    BY <1>1
  <2> QED BY <2>1, <2>2, <2>3 DEF Ahead
<1>3. CASE a = x /\ Stop \notin InSeq(s) /\ x # Stop
  <2>1. \A j \in 1..(Len(s) + 1) : j \in 1..Len(s) \/ j = Len(s) + 1
    BY <1>1
  <2>2. \A j \in 1..(Len(s) + 1) : t[j] # Stop
    BY <1>1, <1>3, <2>1 DEF InSeq
  <2>3. Len(s) + 1 \in DOMAIN t
    BY <1>1
  <2> QED BY <1>1, <1>3, <2>2, <2>3 DEF Ahead
<1> QED BY <1>2, <1>3

LEMMA AheadCut ==
    ASSUME NEW p \in Seq(Items), NEW m \in Seq(Items), NEW q \in Seq(Items), NEW a,
           a \notin InSeq(m), Ahead(p \o (m \o q), a)
    PROVE  Ahead(p \o q, a)
<1> DEFINE w == p \o (m \o q)
           v == p \o q
<1>1. /\ \A i \in DOMAIN v : Shift(p, m, i) \in DOMAIN w /\ w[Shift(p, m, i)] = v[i]
      /\ \A i, j \in DOMAIN v : i < j => Shift(p, m, i) < Shift(p, m, j)
      /\ \A k \in DOMAIN w : w[k] \in InSeq(m) \/ \E i \in DOMAIN v : k = Shift(p, m, i)
      /\ DOMAIN v = 1..Len(v) /\ DOMAIN w = 1..Len(w) /\ Len(v) \in Nat /\ Len(w) \in Nat
  <2>1. v \in Seq(Items) /\ w \in Seq(Items)
    BY ConcatProperties
  <2>2. DOMAIN v = 1..Len(v) /\ DOMAIN w = 1..Len(w) /\ Len(v) \in Nat /\ Len(w) \in Nat
    BY <2>1, LenProperties
  <2>3. Fits(p, m, w, v)
    BY CutIs
  <2> QED BY <2>2, <2>3, ShiftOrders DEF Fits
<1>2. PICK k \in DOMAIN w : w[k] = a /\ \A j \in 1..k : w[j] # Stop
  BY DEF Ahead
<1>3. PICK i \in DOMAIN v : k = Shift(p, m, i)
  BY <1>1, <1>2
<1>4. ASSUME NEW j \in 1..i PROVE v[j] # Stop
  <2>1. j \in DOMAIN v /\ (j < i \/ j = i)
    BY <1>1
  <2>2. Shift(p, m, j) \in 1..k
    BY <1>1, <1>3, <2>1
  <2> QED BY <1>1, <1>2, <2>1, <2>2
<1> QED BY <1>1, <1>2, <1>3, <1>4 DEF Ahead

LEMMA Regroup ==
    \A s, t, u \in Seq(Items) : (s \o t) \o u = s \o (t \o u)
BY ConcatAssociative

LEMMA HeldConcat ==
    \A s, t \in Seq(Items) : InSeq(s \o t) = InSeq(s) \union InSeq(t)
<1> SUFFICES ASSUME NEW s \in Seq(Items), NEW t \in Seq(Items)
             PROVE  InSeq(s \o t) = InSeq(s) \union InSeq(t)
  OBVIOUS
<1>1. /\ DOMAIN s = 1..Len(s) /\ DOMAIN t = 1..Len(t) /\ DOMAIN (s \o t) = 1..(Len(s) + Len(t))
      /\ Len(s) \in Nat /\ Len(t) \in Nat
  BY ConcatProperties, LenProperties
<1>2. \A i \in 1..Len(s) : i \in DOMAIN (s \o t) /\ (s \o t)[i] = s[i]
  BY <1>1, ConcatProperties
<1>3. \A i \in 1..Len(t) : Len(s) + i \in DOMAIN (s \o t) /\ (s \o t)[Len(s) + i] = t[i]
  BY <1>1, ConcatProperties
<1>4. \A k \in DOMAIN (s \o t) : k \in 1..Len(s) \/ \E i \in 1..Len(t) : k = Len(s) + i
  <2> SUFFICES ASSUME NEW k \in DOMAIN (s \o t), k \notin 1..Len(s)
               PROVE  \E i \in 1..Len(t) : k = Len(s) + i
    OBVIOUS
  <2>1. k - Len(s) \in 1..Len(t) /\ k = Len(s) + (k - Len(s))
    BY <1>1
  <2> QED BY <2>1
<1>5. InSeq(s) \subseteq InSeq(s \o t)
  BY <1>1, <1>2 DEF InSeq
<1>6. InSeq(t) \subseteq InSeq(s \o t)
  BY <1>1, <1>3 DEF InSeq
<1>7. InSeq(s \o t) \subseteq InSeq(s) \union InSeq(t)
  BY <1>1, <1>2, <1>3, <1>4 DEF InSeq
<1> QED BY <1>5, <1>6, <1>7

-----------------------------------------------------------------------------
\* Everything that was submitted and is not lost, from the rows to the channel.
Stored == db \o rows
Waiting == pending \o (batch \o channel)
Whole == Stored \o Waiting

\* The stages that are empty, and that nothing follows the writer's end.
StageInv ==
    /\ writer \notin {"write", "last"} => pending = <<>> /\ rows = <<>>
    /\ writer \in {"last", "ended"} =>
          /\ batch = <<>>
          /\ \/ channel # <<>> /\ Head(channel) = Stop
             \/ channel = <<>> /\ keeper = "dropped" /\ \A o \in Outputs : reader[o] = "eof"
    /\ writer = "none" => batch = <<>> /\ channel = <<>>
    /\ keeper = "down" => writer \in {"none", "ended"}

LEMMA HeadAppended ==
    ASSUME NEW S, NEW s \in Seq(S), NEW x \in S
    PROVE  Append(s, x) # <<>> /\ (s # <<>> => Head(Append(s, x)) = Head(s))
BY AppendProperties, HeadTailAppend

LEMMA SubmitTypes ==
    ASSUME LogTypeOK, NEW l \in Line, Submit(l)
    PROVE  channel' \in Seq(Items) /\ accepted' \subseteq Line
<1>1. channel \in Seq(Items) /\ l \in Items /\ accepted \subseteq Line
  BY DEF LogTypeOK, Items
<1> QED BY <1>1, AppendProperties DEF Submit

LEMMA LogTypesStep == LogTypeOK /\ [LogNext]_logVars => LogTypeOK'
<1> SUFFICES ASSUME LogTypeOK, [LogNext]_logVars PROVE LogTypeOK'
  OBVIOUS
<1> USE DEF LogTypeOK
<1>c. BatchSize \in Nat \ {0} /\ MaxLines \in Nat /\ Window \in Nat
  BY PipelineAssumption
<1>1. ASSUME NEW o \in Outputs, Emit(o) PROVE LogTypeOK'
  <2>1. written[o] + 1 \in 0..MaxLines
    BY <1>1, <1>c DEF Emit
  <2>2. [from |-> o, n |-> written[o] + 1] \in Line
    BY <1>1, <1>c DEF Emit, Line
  <2>3. Append(pipe[o], [from |-> o, n |-> written[o] + 1]) \in Seq(Line)
    BY <2>2, AppendProperties
  <2> QED BY <1>1, <2>1, <2>3 DEF Emit, flush
<1>2. ASSUME NEW o \in Outputs, Read(o) PROVE LogTypeOK'
  <2>1. Head(pipe[o]) \in Line /\ Tail(pipe[o]) \in Seq(Line)
    BY <1>2, HeadTailProperties DEF Read
  <2>2. channel' \in Seq(Items) /\ accepted' \subseteq Line
    BY <1>2, <2>1, SubmitTypes DEF Read
  <2> QED BY <1>2, <2>1, <2>2 DEF Read, flush, Items
<1>3. ASSUME NEW o \in Outputs, EndOfFile(o) PROVE LogTypeOK'
  BY <1>3 DEF EndOfFile, flush, process
<1>4. CASE Exit
  BY <1>4 DEF Exit, flush
<1>5. CASE Announce
  <2>1. [from |-> Startup, n |-> 1] \in Line
    BY DEF Line
  <2>2. channel' \in Seq(Items) /\ accepted' \subseteq Line
    BY <1>5, <2>1, SubmitTypes DEF Announce
  <2> QED BY <1>5, <2>2 DEF Announce, flush, process, Items
<1>6. CASE Shutdown
  <2>1. Append(channel, Stop) \in Seq(Line \union {Stop})
    BY AppendProperties
  <2> QED BY <1>6, <2>1 DEF Shutdown, flush, process
<1>7. CASE DropRecorder
  BY <1>7 DEF DropRecorder, flush, process
<1>8. CASE ShutdownReturns
  BY <1>8 DEF ShutdownReturns, flush, process
<1>9. CASE Receive
  <2>1. Head(channel) \in Line /\ Tail(channel) \in Seq(Line \union {Stop})
    BY <1>9, HeadTailProperties DEF Receive
  <2>2. Append(batch, Head(channel)) \in Seq(Line) /\ Len(Append(batch, Head(channel))) \in Nat
    BY <2>1, AppendProperties, LenProperties
  <2>3. <<>> \in Seq(Line) /\ Len(<<>>) = 0
    BY EmptySeq
  <2>4. CASE Len(Append(batch, Head(channel))) >= BatchSize
    <3>1. batch' = <<>> /\ pending' = Append(batch, Head(channel)) /\ writer' \in {"write", "recv"}
      BY <1>9, <2>4 DEF Receive, Flush
    <3> QED BY <1>9, <1>c, <2>1, <2>2, <2>3, <2>4, <3>1 DEF Receive, Flush, process
  <2>5. CASE Len(Append(batch, Head(channel))) < BatchSize
    <3>1. /\ batch' = Append(batch, Head(channel)) /\ idle' = 0
          /\ UNCHANGED <<writer, pending, rows, db, events, lost>>
      BY <1>9, <1>c, <2>2, <2>5 DEF Receive, flush
    <3> QED BY <1>9, <1>c, <2>1, <2>2, <2>5, <3>1 DEF Receive, process
  <2> QED BY <1>c, <2>2, <2>4, <2>5
<1>10. CASE Finish
  BY <1>10, <1>c, EmptySeq DEF Finish, Flush, process
<1>11. CASE Tick
  BY <1>11, <1>c DEF Tick, flush, process
<1>12. CASE FlushOnTimer
  BY <1>12, <1>c, EmptySeq DEF FlushOnTimer, Flush, process
<1>13. CASE InsertRow
  <2>1. /\ Head(pending) \in Line /\ Tail(pending) \in Seq(Line)
        /\ Append(rows, Head(pending)) \in Seq(Line)
    BY <1>13, HeadTailProperties, AppendProperties DEF InsertRow
  <2>2. [seq |-> Len(db) + Len(rows) + 1, line |-> Head(pending)] \in Event
    BY <2>1, LenProperties DEF Event
  <2> QED BY <1>13, <2>1, <2>2 DEF InsertRow, process
<1>14. CASE Commit
  BY <1>14, ConcatProperties, EmptySeq DEF Commit, AfterWrite, process
<1>15. CASE Abort
  <2>1. InSeq(rows) \subseteq Line /\ InSeq(pending) \subseteq Line
    BY ElementOfSeq, LenProperties DEF InSeq
  <2> QED BY <1>15, <2>1, EmptySeq DEF Abort, AfterWrite, process
<1>16. CASE UNCHANGED logVars
  BY <1>16 DEF logVars, process, flush
<1> QED
  BY <1>1, <1>2, <1>3, <1>4, <1>5, <1>6, <1>7, <1>8, <1>9, <1>10, <1>11, <1>12, <1>13, <1>14,
     <1>15, <1>16 DEF LogNext, Write, Done

LEMMA StageStep == LogTypeOK /\ StageInv /\ [LogNext]_logVars => StageInv'
<1> SUFFICES ASSUME LogTypeOK, StageInv, [LogNext]_logVars PROVE StageInv'
  OBVIOUS
<1>t. channel \in Seq(Items) /\ Line \subseteq Items /\ Stop \in Items
  BY DEF LogTypeOK, Items
<1>a. ASSUME NEW l \in Line, Submit(l),
             keeper # "dropped" \/ \E o \in Outputs : reader[o] # "eof"
      PROVE  /\ writer \in {"last", "ended"} => channel' # <<>> /\ Head(channel') = Stop
             /\ writer = "none" => channel' = channel
  <2>1. l \in Items
    BY <1>t
  <2> QED BY <1>a, <1>t, <2>1, HeadAppended DEF Submit, StageInv
<1>1. ASSUME NEW o \in Outputs, Emit(o) PROVE StageInv'
  BY <1>1 DEF Emit, flush, StageInv
<1>2. ASSUME NEW o \in Outputs, Read(o) PROVE StageInv'
  <2>1. Head(pipe[o]) \in Line
    BY <1>2, HeadTailProperties DEF Read, LogTypeOK
  <2>2. /\ writer \in {"last", "ended"} => channel' # <<>> /\ Head(channel') = Stop
        /\ writer = "none" => channel' = channel
    BY <1>2, <2>1, <1>a DEF Read
  <2> QED BY <1>2, <2>2 DEF Read, flush, StageInv
<1>3. ASSUME NEW o \in Outputs, EndOfFile(o) PROVE StageInv'
  BY <1>3 DEF EndOfFile, flush, StageInv, LogTypeOK
<1>4. CASE Exit
  BY <1>4 DEF Exit, flush, StageInv
<1>5. CASE Announce
  <2>1. [from |-> Startup, n |-> 1] \in Line
    BY DEF Line
  <2>2. /\ writer \in {"last", "ended"} => channel' # <<>> /\ Head(channel') = Stop
        /\ writer = "none" => channel' = channel
    BY <1>5, <2>1, <1>a DEF Announce
  <2> QED BY <1>5, <2>2 DEF Announce, flush, StageInv
<1>6. CASE Shutdown
  BY <1>6, <1>t, HeadAppended DEF Shutdown, flush, StageInv
<1>7. CASE DropRecorder
  BY <1>7 DEF DropRecorder, flush, StageInv
<1>8. CASE ShutdownReturns
  BY <1>8 DEF ShutdownReturns, flush, StageInv
<1>9. CASE Receive
  BY <1>9 DEF Receive, Flush, flush, StageInv
<1>10. CASE Finish
  BY <1>10 DEF Finish, Flush, StageInv
<1>11. CASE Tick
  BY <1>11 DEF Tick, flush, StageInv
<1>12. CASE FlushOnTimer
  BY <1>12 DEF FlushOnTimer, Flush, StageInv
<1>13. CASE InsertRow
  BY <1>13 DEF InsertRow, StageInv
<1>14. CASE Commit
  BY <1>14 DEF Commit, AfterWrite, StageInv
<1>15. CASE Abort
  BY <1>15 DEF Abort, AfterWrite, StageInv
<1>16. CASE UNCHANGED logVars
  BY <1>16 DEF logVars, process, flush, StageInv
<1> QED
  BY <1>1, <1>2, <1>3, <1>4, <1>5, <1>6, <1>7, <1>8, <1>9, <1>10, <1>11, <1>12, <1>13, <1>14,
     <1>15, <1>16 DEF LogNext, Write, Done

-----------------------------------------------------------------------------
(* What the steps do to the line of stages.                                 *)

LEMMA WholeTypes ==
    ASSUME LogTypeOK
    PROVE  /\ db \in Seq(Items) /\ rows \in Seq(Items) /\ pending \in Seq(Items)
           /\ batch \in Seq(Items) /\ channel \in Seq(Items) /\ batch \o channel \in Seq(Items)
           /\ Stored \in Seq(Items) /\ Waiting \in Seq(Items) /\ Whole \in Seq(Items)
<1>1. Line \subseteq Items
  BY DEF Items
<1>2. Seq(Line) \subseteq Seq(Items)
  BY <1>1, SeqMonotonic
<1>3. /\ db \in Seq(Items) /\ rows \in Seq(Items) /\ pending \in Seq(Items)
      /\ batch \in Seq(Items) /\ channel \in Seq(Items)
  BY <1>2 DEF LogTypeOK, Items
<1>4. Stored \in Seq(Items) /\ batch \o channel \in Seq(Items)
  BY <1>3, ConcatProperties DEF Stored
<1>5. Waiting \in Seq(Items)
  BY <1>3, <1>4, ConcatProperties DEF Waiting
<1>6. Whole \in Seq(Items)
  BY <1>4, <1>5, ConcatProperties DEF Whole
<1> QED BY <1>3, <1>4, <1>5, <1>6

\* Receiving, flushing and inserting only move lines on.
LEMMA MovesOn ==
    ASSUME LogTypeOK, StageInv,
           Receive \/ Finish \/ FlushOnTimer \/ InsertRow \/ Commit
    PROVE  Whole' = Whole
<1>t. /\ db \in Seq(Items) /\ rows \in Seq(Items) /\ pending \in Seq(Items)
      /\ batch \in Seq(Items) /\ channel \in Seq(Items) /\ batch \o channel \in Seq(Items)
      /\ Stored \in Seq(Items) /\ Waiting \in Seq(Items)
  BY WholeTypes
<1>1. CASE Receive
  <2>1. Append(batch, Head(channel)) \o Tail(channel) = batch \o channel
    BY <1>1, <1>t, MoveHead DEF Receive
  <2>2. pending = <<>> /\ Waiting = batch \o channel
    BY <1>1, <1>t, ConcatEmptySeq DEF Receive, StageInv, Waiting
  <2>3. Waiting' = Append(batch, Head(channel)) \o Tail(channel)
    <3>1. Head(channel) \in Items /\ Tail(channel) \in Seq(Items)
      BY <1>1, <1>t, HeadTailProperties DEF Receive
    <3>2. Append(batch, Head(channel)) \o Tail(channel) \in Seq(Items)
      BY <1>t, <2>1
    <3>3. \/ /\ pending' = Append(batch, Head(channel)) /\ batch' = <<>>
          \/ /\ pending' = <<>> /\ batch' = Append(batch, Head(channel))
      BY <1>1, <2>2 DEF Receive, Flush, flush
    <3>4. channel' = Tail(channel)
      BY <1>1 DEF Receive
    <3> QED BY <3>1, <3>2, <3>3, <3>4, ConcatEmptySeq DEF Waiting
  <2>4. Stored' = Stored
    BY <1>1 DEF Receive, Flush, flush, Stored
  <2> QED BY <2>1, <2>2, <2>3, <2>4 DEF Whole
<1>2. CASE Finish \/ FlushOnTimer
  <2>1. pending = <<>> /\ pending' = batch /\ batch' = <<>> /\ channel' = channel
    BY <1>2 DEF Finish, FlushOnTimer, Flush, StageInv
  <2>2. Waiting' = Waiting
    BY <1>t, <2>1, ConcatEmptySeq DEF Waiting
  <2>3. Stored' = Stored
    BY <1>2 DEF Finish, FlushOnTimer, Flush, Stored
  <2> QED BY <2>2, <2>3 DEF Whole
<1>3. CASE InsertRow
  <2>1. Head(pending) \in Items /\ Tail(pending) \in Seq(Items)
    BY <1>3, <1>t, HeadTailProperties DEF InsertRow
  <2>2. Stored' = Append(Stored, Head(pending))
    BY <1>3, <1>t, <2>1, AppendLast DEF InsertRow, Stored
  <2>3. Waiting' = Tail(pending) \o (batch \o channel)
    BY <1>3 DEF InsertRow, Waiting
  <2>4. Whole' = (Append(Stored, Head(pending)) \o Tail(pending)) \o (batch \o channel)
    <3>1. Append(Stored, Head(pending)) \in Seq(Items)
      BY <1>t, <2>1, AppendProperties
    <3>2. Append(Stored, Head(pending)) \o (Tail(pending) \o (batch \o channel))
          = (Append(Stored, Head(pending)) \o Tail(pending)) \o (batch \o channel)
      BY <1>t, <2>1, <3>1, Regroup
    <3> QED BY <2>2, <2>3, <3>2 DEF Whole
  <2>5. Append(Stored, Head(pending)) \o Tail(pending) = Stored \o pending
    BY <1>3, <1>t, MoveHead DEF InsertRow
  <2>6. (Stored \o pending) \o (batch \o channel) = Stored \o (pending \o (batch \o channel))
    BY <1>t, Regroup
  <2> QED BY <2>4, <2>5, <2>6 DEF Whole, Waiting
<1>4. CASE Commit
  <2>1. Stored' = Stored
    BY <1>4, <1>t, ConcatEmptySeq DEF Commit, Stored
  <2>2. Waiting' = Waiting
    BY <1>4 DEF Commit, Waiting
  <2> QED BY <2>1, <2>2 DEF Whole
<1> QED BY <1>1, <1>2, <1>3, <1>4

\* What is sent to the channel comes after everything else.
LEMMA ComesLast ==
    ASSUME LogTypeOK, NEW x \in Items, channel' = Append(channel, x),
           UNCHANGED <<db, rows, pending, batch>>
    PROVE  Whole' = Append(Whole, x)
<1>1. /\ db \in Seq(Items) /\ rows \in Seq(Items) /\ pending \in Seq(Items)
      /\ batch \in Seq(Items) /\ channel \in Seq(Items) /\ batch \o channel \in Seq(Items)
      /\ Stored \in Seq(Items) /\ Waiting \in Seq(Items)
  BY WholeTypes
<1>2. batch \o Append(channel, x) = Append(batch \o channel, x)
  BY <1>1, AppendLast
<1>3. pending \o Append(batch \o channel, x) = Append(Waiting, x)
  BY <1>1, AppendLast DEF Waiting
<1>4. Stored \o Append(Waiting, x) = Append(Whole, x)
  BY <1>1, AppendLast DEF Whole
<1> QED BY <1>2, <1>3, <1>4 DEF Whole, Waiting, Stored

\* A transaction that fails takes its lines out of the middle.
LEMMA DropsMiddle ==
    ASSUME LogTypeOK, Abort
    PROVE  /\ Whole = db \o ((rows \o pending) \o (batch \o channel))
           /\ Whole' = db \o (batch \o channel)
           /\ lost' = lost \union InSeq(rows \o pending)
           /\ rows \o pending \in Seq(Items) /\ batch \o channel \in Seq(Items)
<1>1. /\ db \in Seq(Items) /\ rows \in Seq(Items) /\ pending \in Seq(Items)
      /\ batch \in Seq(Items) /\ channel \in Seq(Items) /\ batch \o channel \in Seq(Items)
      /\ Stored \in Seq(Items) /\ Waiting \in Seq(Items) /\ rows \o pending \in Seq(Items)
  BY WholeTypes, ConcatProperties
<1>2. (rows \o pending) \o (batch \o channel) = rows \o Waiting
  <2>1. \A u \in Seq(Items) : (rows \o pending) \o u = rows \o (pending \o u)
    BY <1>1, Regroup
  <2> QED BY <1>1, <2>1 DEF Waiting
<1>3. Whole = db \o (rows \o Waiting)
  BY <1>1, ConcatAssociative DEF Whole, Stored
<1>4. Whole' = db \o (batch \o channel)
  <2>1. /\ rows' = <<>> /\ pending' = <<>>
        /\ db' = db /\ batch' = batch /\ channel' = channel
    BY DEF Abort
  <2>2. Stored' = db
    BY <1>1, <2>1, ConcatEmptySeq DEF Stored
  <2>3. Waiting' = batch \o channel
    BY <1>1, <2>1, ConcatEmptySeq DEF Waiting
  <2> QED BY <2>2, <2>3 DEF Whole
<1>5. InSeq(rows \o pending) = InSeq(rows) \union InSeq(pending)
  BY <1>1, HeldConcat DEF InSeq
<1> QED BY <1>1, <1>2, <1>3, <1>4, <1>5 DEF Abort

LEMMA SubmitIs ==
    ASSUME LogTypeOK, NEW l \in Line, Submit(l), UNCHANGED <<db, rows, pending, batch>>
    PROVE  \/ /\ writer \notin {"none", "ended"} /\ Whole' = Append(Whole, l)
              /\ accepted' = IF Stop \in InSeq(channel) THEN accepted ELSE accepted \union {l}
           \/ /\ writer \in {"none", "ended"} /\ Whole' = Whole /\ accepted' = accepted
<1>1. l \in Items
  BY DEF Items
<1>2. CASE writer \in {"none", "ended"}
  BY <1>2 DEF Submit, Whole, Stored, Waiting
<1>3. CASE writer \notin {"none", "ended"}
  BY <1>1, <1>3, ComesLast DEF Submit, InSeq
<1> QED BY <1>2, <1>3

\* Every other step.
PassStep ==
    \/ \E o \in Outputs : EndOfFile(o)
    \/ Exit \/ DropRecorder \/ ShutdownReturns \/ Tick
    \/ Receive \/ Finish \/ FlushOnTimer \/ Commit
    \/ UNCHANGED logVars

LEMMA PassIs ==
    ASSUME LogTypeOK, StageInv, PassStep
    PROVE  /\ Whole' = Whole /\ Stored' = Stored
           /\ UNCHANGED <<written, pipe, accepted, lost, events>>
           /\ keeper' = "starting" => keeper = "starting"
           /\ writer' \notin {"none", "ended"} => writer \notin {"none", "ended"}
<1>1. CASE \E o \in Outputs : EndOfFile(o)
  BY <1>1 DEF EndOfFile, process, flush, Whole, Stored, Waiting
<1>2. CASE Exit \/ DropRecorder \/ ShutdownReturns \/ Tick \/ UNCHANGED logVars
  BY <1>2 DEF Exit, DropRecorder, ShutdownReturns, Tick, logVars, process,
     flush, Whole, Stored, Waiting
<1>3. CASE Receive
  <2>1. Whole' = Whole
    BY <1>3, MovesOn
  <2> QED BY <1>3, <2>1 DEF Receive, Flush, flush, process, Stored
<1>4. CASE Finish \/ FlushOnTimer
  <2>1. Whole' = Whole
    BY <1>4, MovesOn
  <2> QED BY <1>4, <2>1 DEF Finish, FlushOnTimer, Flush, process, Stored
<1>5. CASE Commit
  <2>1. Whole' = Whole
    BY <1>5, MovesOn
  <2>2. Stored' = Stored
    BY <1>5, WholeTypes, ConcatEmptySeq DEF Commit, Stored
  <2> QED BY <1>5, <2>1, <2>2 DEF Commit, AfterWrite, process
<1> QED BY <1>1, <1>2, <1>3, <1>4, <1>5 DEF PassStep

LEMMA LogCases ==
    ASSUME [LogNext]_logVars
    PROVE  \/ \E o \in Outputs : Emit(o) \/ Read(o)
           \/ Announce \/ Shutdown \/ InsertRow \/ Abort \/ PassStep
BY DEF LogNext, Write, Done, PassStep

-----------------------------------------------------------------------------
(* The lines come in their order, and none is missing.                      *)

\* The lines of an output that were read.
ReadOf(o) == written[o] - Len(pipe[o])

\* A pipe holds the lines that were written and not read, in their order.
PipesInv ==
    \A o \in Outputs :
        /\ ReadOf(o) \in Nat
        /\ \A i \in 1..Len(pipe[o]) : pipe[o][i] = [from |-> o, n |-> ReadOf(o) + i]

\* The stages together hold the lines in order, only lines that were read, and, while
\* the writer is there, every line that was read and is not lost.
OrderInv ==
    /\ Sorted(Whole, lost)
    /\ \A l \in InSeq(Whole) \ {Stop} :
          IF l.from \in Outputs THEN l.n <= ReadOf(l.from) ELSE keeper # "starting"
    /\ writer \notin {"none", "ended"} =>
          \A o \in Outputs : \A n \in 1..ReadOf(o) :
              [from |-> o, n |-> n] \in InSeq(Whole) \union lost

LEMMA PipesStep == LogTypeOK /\ PipesInv /\ [LogNext]_logVars => PipesInv'
<1> SUFFICES ASSUME LogTypeOK, PipesInv, [LogNext]_logVars PROVE PipesInv'
  OBVIOUS
<1>1. ASSUME NEW o \in Outputs, Emit(o) PROVE PipesInv'
  <2> DEFINE line == [from |-> o, n |-> written[o] + 1]
  <2>1. line \in Line
    BY <1>1, PipelineAssumption DEF Emit, LogTypeOK, Line
  <2>2. written[o] \in Nat /\ pipe[o] \in Seq(Line)
    BY DEF LogTypeOK
  <2>3. /\ Len(Append(pipe[o], line)) = Len(pipe[o]) + 1 /\ Len(pipe[o]) \in Nat
        /\ \A i \in 1..Len(pipe[o]) : Append(pipe[o], line)[i] = pipe[o][i]
        /\ Append(pipe[o], line)[Len(pipe[o]) + 1] = line
    BY <2>1, <2>2, AppendProperties, LenProperties
  <2>4. /\ written'[o] = written[o] + 1 /\ pipe'[o] = Append(pipe[o], line)
        /\ \A q \in Outputs \ {o} : written'[q] = written[q] /\ pipe'[q] = pipe[q]
    BY <1>1 DEF Emit, LogTypeOK
  <2>5. ReadOf(o)' = ReadOf(o) /\ \A q \in Outputs \ {o} : ReadOf(q)' = ReadOf(q)
    BY <2>2, <2>3, <2>4 DEF ReadOf
  <2>6. \A i \in 1..(Len(pipe[o]) + 1) :
            Append(pipe[o], line)[i] = [from |-> o, n |-> ReadOf(o) + i]
    <3>1. \A i \in 1..(Len(pipe[o]) + 1) : i \in 1..Len(pipe[o]) \/ i = Len(pipe[o]) + 1
      BY <2>3
    <3>2. ReadOf(o) + (Len(pipe[o]) + 1) = written[o] + 1
      BY <2>2, <2>3 DEF ReadOf
    <3> QED BY <2>3, <3>1, <3>2 DEF PipesInv
  <2>7. ASSUME NEW q \in Outputs
        PROVE  /\ ReadOf(q)' \in Nat
               /\ \A i \in 1..Len(pipe'[q]) : pipe'[q][i] = [from |-> q, n |-> ReadOf(q)' + i]
    <3>1. CASE q = o
      BY <2>3, <2>4, <2>5, <2>6, <3>1 DEF PipesInv
    <3>2. CASE q # o
      BY <2>4, <2>5, <3>2 DEF PipesInv
    <3> QED BY <3>1, <3>2
  <2> QED BY <2>7 DEF PipesInv
<1>2. ASSUME NEW o \in Outputs, Read(o) PROVE PipesInv'
  <2>1. written[o] \in Nat /\ pipe[o] \in Seq(Line) /\ pipe[o] # <<>>
    BY <1>2 DEF LogTypeOK, Read
  <2>2. /\ Len(Tail(pipe[o])) = Len(pipe[o]) - 1 /\ Len(pipe[o]) \in Nat
        /\ \A i \in 1..Len(Tail(pipe[o])) : Tail(pipe[o])[i] = pipe[o][i + 1]
    BY <2>1, HeadTailProperties, LenProperties
  <2>3. /\ written' = written /\ pipe'[o] = Tail(pipe[o])
        /\ \A q \in Outputs \ {o} : pipe'[q] = pipe[q]
    BY <1>2 DEF Read, LogTypeOK
  <2>4. ReadOf(o)' = ReadOf(o) + 1 /\ \A q \in Outputs \ {o} : ReadOf(q)' = ReadOf(q)
    BY <2>1, <2>2, <2>3 DEF ReadOf
  <2>5. \A i \in 1..Len(Tail(pipe[o])) :
            Tail(pipe[o])[i] = [from |-> o, n |-> (ReadOf(o) + 1) + i]
    <3>1. \A i \in 1..Len(Tail(pipe[o])) :
              i + 1 \in 1..Len(pipe[o]) /\ ReadOf(o) + (i + 1) = (ReadOf(o) + 1) + i
      BY <2>1, <2>2 DEF PipesInv
    <3> QED BY <2>2, <3>1 DEF PipesInv
  <2>6. ASSUME NEW q \in Outputs
        PROVE  /\ ReadOf(q)' \in Nat
               /\ \A i \in 1..Len(pipe'[q]) : pipe'[q][i] = [from |-> q, n |-> ReadOf(q)' + i]
    <3>1. CASE q = o
      <4>1. ReadOf(o)' \in Nat
        BY <2>4 DEF PipesInv
      <4>2. \A i \in 1..Len(pipe'[o]) : pipe'[o][i] = [from |-> o, n |-> ReadOf(o)' + i]
        BY <2>3, <2>4, <2>5
      <4> QED BY <3>1, <4>1, <4>2
    <3>2. CASE q # o
      BY <2>3, <2>4, <3>2 DEF PipesInv
    <3> QED BY <3>1, <3>2
  <2> QED BY <2>6 DEF PipesInv
<1>3. ASSUME written' = written, pipe' = pipe PROVE PipesInv'
  BY <1>3 DEF PipesInv, ReadOf
<1>4. CASE Announce \/ Shutdown \/ InsertRow \/ Abort \/ PassStep
  BY <1>3, <1>4 DEF PassStep, Announce, Shutdown, InsertRow, Abort, EndOfFile, Exit,
     DropRecorder, ShutdownReturns, Tick, Receive, Finish, FlushOnTimer,
     Commit, logVars, process
<1> QED BY <1>1, <1>2, <1>4, LogCases

LEMMA OrderStep ==
    LogTypeOK /\ StageInv /\ PipesInv /\ OrderInv /\ [LogNext]_logVars
        => OrderInv'
<1> SUFFICES ASSUME LogTypeOK, StageInv, PipesInv, OrderInv, [LogNext]_logVars
             PROVE  OrderInv'
  OBVIOUS
<1>l. /\ Startup \notin Outputs /\ Stop \notin Line
      /\ \A l \in Line : l.n \in Nat /\ (l.from \notin Outputs => l.from = Startup)
  BY LinesAre
<1>w. Whole \in Seq(Items)
  BY WholeTypes
<1>h. InSeq(Whole) \subseteq Items
  BY <1>w, LenProperties, ElementOfSeq DEF InSeq
<1>1. ASSUME NEW o \in Outputs, Emit(o) PROVE OrderInv'
  <2>1. Whole' = Whole /\ UNCHANGED <<lost, keeper, writer>>
    BY <1>1 DEF Emit, flush, Whole, Stored, Waiting
  <2>2. \A q \in Outputs : ReadOf(q)' = ReadOf(q)
    <3>1. written[o] \in Nat /\ Len(pipe[o]) \in Nat /\ Len(pipe'[o]) = Len(pipe[o]) + 1
      <4>1. [from |-> o, n |-> written[o] + 1] \in Line
        BY <1>1, PipelineAssumption DEF Emit, LogTypeOK, Line
      <4> QED BY <1>1, <4>1, AppendProperties, LenProperties DEF Emit, LogTypeOK
    <3>2. written'[o] = written[o] + 1
      BY <1>1 DEF Emit, LogTypeOK
    <3>3. \A q \in Outputs \ {o} : written'[q] = written[q] /\ pipe'[q] = pipe[q]
      BY <1>1 DEF Emit, LogTypeOK
    <3> QED BY <3>1, <3>2, <3>3 DEF ReadOf
  <2> QED BY <2>1, <2>2, <1>h, <1>l DEF OrderInv, Items
<1>2. ASSUME NEW o \in Outputs, Read(o) PROVE OrderInv'
  <2> DEFINE l == Head(pipe[o])
  <2>1. l \in Line /\ l = [from |-> o, n |-> ReadOf(o) + 1] /\ ReadOf(o) \in Nat
    <3>1. pipe[o] \in Seq(Line) /\ pipe[o] # <<>>
      BY <1>2 DEF Read, LogTypeOK
    <3>2. l = pipe[o][1] /\ 1 \in 1..Len(pipe[o])
      BY <3>1, LenProperties, ConcatProperties
    <3> QED BY <3>1, <3>2, HeadTailProperties DEF PipesInv
  <2>2. ReadOf(o)' = ReadOf(o) + 1 /\ \A q \in Outputs \ {o} : ReadOf(q)' = ReadOf(q)
    <3>1. /\ written[o] \in Nat /\ pipe[o] \in Seq(Line) /\ pipe[o] # <<>>
          /\ pipe'[o] = Tail(pipe[o]) /\ written' = written
          /\ \A q \in Outputs \ {o} : pipe'[q] = pipe[q]
      BY <1>2 DEF Read, LogTypeOK
    <3>2. Len(Tail(pipe[o])) = Len(pipe[o]) - 1 /\ Len(pipe[o]) \in Nat
      BY <3>1, HeadTailProperties, LenProperties
    <3> QED BY <3>1, <3>2 DEF ReadOf
  <2>3. Submit(l) /\ UNCHANGED <<db, rows, pending, batch, lost, writer, keeper>>
    BY <1>2 DEF Read, flush
  <2>4. CASE writer \notin {"none", "ended"} /\ Whole' = Append(Whole, l)
    <3>1. InSeq(Whole') = InSeq(Whole) \union {l} /\ l \in Items
      BY <1>w, <2>1, <2>4, AppendIs DEF Items
    <3>2. Sorted(Append(Whole, l), lost)
      <4>1. \A k \in InSeq(Whole) \ {Stop} : k.from = l.from => k.n < l.n
        BY <1>h, <1>l, <2>1 DEF OrderInv, Items
      <4>2. \A n \in 1..(l.n - 1) : [from |-> l.from, n |-> n] \in InSeq(Whole) \union lost
        BY <2>1, <2>4 DEF OrderInv
      <4> QED BY <1>w, <1>l, <3>1, <4>1, <4>2, SortedAppend DEF OrderInv
    <3>3. \A k \in InSeq(Whole') \ {Stop} :
              IF k.from \in Outputs THEN k.n <= ReadOf(k.from)' ELSE keeper # "starting"
      <4>1. ASSUME NEW k \in InSeq(Whole) \ {Stop}
            PROVE  IF k.from \in Outputs THEN k.n <= ReadOf(k.from)' ELSE keeper # "starting"
        BY <1>h, <1>l, <2>1, <2>2 DEF OrderInv, Items
      <4>2. l.from = o /\ l.n <= ReadOf(o)'
        BY <2>1, <2>2
      <4>3. ASSUME NEW k \in InSeq(Whole') \ {Stop}, k = l
            PROVE  IF k.from \in Outputs THEN k.n <= ReadOf(k.from)' ELSE keeper # "starting"
        <5>1. k.from = o /\ k.n <= ReadOf(o)'
          BY <4>2, <4>3
        <5> QED BY <5>1
      <4> QED BY <3>1, <4>1, <4>3
    <3>4. ASSUME NEW q \in Outputs, NEW n \in 1..ReadOf(q)'
          PROVE  [from |-> q, n |-> n] \in InSeq(Whole') \union lost
      <4>1. CASE q = o /\ n = ReadOf(o) + 1
        BY <2>1, <3>1, <4>1
      <4>2. CASE n \in 1..ReadOf(q)
        BY <2>4, <3>1, <4>2 DEF OrderInv
      <4> QED BY <2>1, <2>2, <4>1, <4>2
    <3> QED BY <2>3, <2>4, <3>2, <3>3, <3>4 DEF OrderInv
  <2>5. CASE writer \in {"none", "ended"} /\ Whole' = Whole
    <3>1. ASSUME NEW k \in InSeq(Whole) \ {Stop}
          PROVE  IF k.from \in Outputs THEN k.n <= ReadOf(k.from)' ELSE keeper # "starting"
      BY <1>h, <1>l, <2>1, <2>2 DEF OrderInv, Items
    <3> QED BY <2>3, <2>5, <3>1 DEF OrderInv
  <2> QED BY <2>1, <2>3, <2>4, <2>5, SubmitIs
<1>3. CASE Announce
  <2> DEFINE l == [from |-> Startup, n |-> 1]
  <2>1. l \in Line /\ l \in Items
    BY DEF Items, Line
  <2>2. /\ Submit(l) /\ keeper = "starting" /\ keeper' = "attached"
        /\ UNCHANGED <<db, rows, pending, batch, lost, writer, written, pipe>>
    BY <1>3 DEF Announce, flush, process
  <2>3. \A q : ReadOf(q)' = ReadOf(q)
    BY <2>2 DEF ReadOf
  <2>4. CASE writer \notin {"none", "ended"} /\ Whole' = Append(Whole, l)
    <3>1. InSeq(Whole') = InSeq(Whole) \union {l}
      BY <1>w, <2>1, <2>4, AppendIs
    <3>2. Sorted(Append(Whole, l), lost)
      <4>1. \A k \in InSeq(Whole) \ {Stop} : k.from # Startup
        BY <1>l, <2>2 DEF OrderInv
      <4>2. 1..(l.n - 1) = {}
        OBVIOUS
      <4> QED BY <1>w, <1>l, <2>1, <4>1, <4>2, SortedAppend DEF OrderInv
    <3>3. l.from \notin Outputs
      BY <1>l
    <3> QED BY <2>2, <2>3, <2>4, <3>1, <3>2, <3>3 DEF OrderInv
  <2>5. CASE writer \in {"none", "ended"} /\ Whole' = Whole
    BY <2>2, <2>3, <2>5 DEF OrderInv
  <2> QED BY <2>1, <2>2, <2>4, <2>5, SubmitIs
<1>4. CASE Shutdown
  <2>1. /\ keeper' # "starting" /\ keeper = "attached"
        /\ UNCHANGED <<db, rows, pending, batch, lost, writer, written, pipe>>
    BY <1>4 DEF Shutdown, flush, process
  <2>2. \A q : ReadOf(q)' = ReadOf(q)
    BY <2>1 DEF ReadOf
  <2>3. CASE channel' = Append(channel, Stop)
    <3>1. Stop \in Items
      BY DEF Items
    <3>2. Whole' = Append(Whole, Stop)
      BY <2>1, <2>3, <3>1, ComesLast
    <3>3. InSeq(Whole') = InSeq(Whole) \union {Stop}
      BY <1>w, <3>1, <3>2, AppendIs
    <3>4. Sorted(Append(Whole, Stop), lost)
      BY <1>w, <1>l, <3>1, SortedAppend DEF OrderInv
    <3> QED BY <2>1, <2>2, <3>2, <3>3, <3>4 DEF OrderInv
  <2>4. CASE channel' = channel
    <3>1. Whole' = Whole
      BY <2>1, <2>4 DEF Whole, Stored, Waiting
    <3> QED BY <2>1, <2>2, <3>1 DEF OrderInv
  <2> QED BY <1>4, <2>3, <2>4 DEF Shutdown
<1>5. CASE InsertRow
  <2>1. Whole' = Whole /\ UNCHANGED <<lost, keeper, writer, written, pipe>>
    BY <1>5, MovesOn DEF InsertRow, process
  <2> QED BY <2>1 DEF OrderInv, ReadOf
<1>6. CASE Abort
  <2> DEFINE m == rows \o pending
             q == batch \o channel
  <2>1. /\ Whole = db \o (m \o q) /\ Whole' = db \o q /\ lost' = lost \union InSeq(m)
        /\ m \in Seq(Items) /\ q \in Seq(Items) /\ db \in Seq(Items)
    BY <1>6, DropsMiddle, WholeTypes
  <2>2. InSeq(Whole) = InSeq(Whole') \union InSeq(m)
    <3>1. Fits(db, m, db \o (m \o q), db \o q)
      BY <2>1, CutIs
    <3> QED BY <2>1, <3>1 DEF Fits
  <2>3. Sorted(Whole', lost')
    BY <2>1, SortedCut DEF OrderInv
  <2>4. UNCHANGED <<keeper, written, pipe>> /\ writer \notin {"none", "ended"}
    BY <1>6 DEF Abort, process
  <2> QED BY <2>1, <2>2, <2>3, <2>4 DEF OrderInv, ReadOf
<1>7. CASE PassStep
  BY <1>7, PassIs DEF OrderInv, ReadOf
<1> QED BY <1>1, <1>2, <1>3, <1>4, <1>5, <1>6, <1>7, LogCases

-----------------------------------------------------------------------------
(* What was accepted is on its way, and cursors name rows.                  *)

\* A line that was accepted is lost or ahead of the Stop.
AcceptedInv == \A a \in accepted \ lost : Ahead(Whole, a)

\* A cursor names its line in the rows, those of the open transaction included.
CursorInv ==
    \A e \in events :
        e.line \notin lost => e.seq \in DOMAIN Stored /\ Stored[e.seq] = e.line

\* A Stop waits in the channel or nowhere.
LEMMA StopIsInChannel ==
    ASSUME LogTypeOK, Stop \notin InSeq(channel)
    PROVE  Stop \notin InSeq(Whole)
<1>1. /\ db \in Seq(Items) /\ rows \in Seq(Items) /\ pending \in Seq(Items)
      /\ batch \in Seq(Items) /\ channel \in Seq(Items) /\ batch \o channel \in Seq(Items)
      /\ Stored \in Seq(Items) /\ Waiting \in Seq(Items)
  BY WholeTypes
<1>2. \A s \in Seq(Line) : InSeq(s) \subseteq Line
  BY LenProperties, ElementOfSeq DEF InSeq
<1>3. db \in Seq(Line) /\ rows \in Seq(Line) /\ pending \in Seq(Line) /\ batch \in Seq(Line)
  BY DEF LogTypeOK
<1>4. InSeq(Stored) = InSeq(db) \union InSeq(rows)
  BY <1>1, HeldConcat DEF Stored
<1>5. InSeq(batch \o channel) = InSeq(batch) \union InSeq(channel)
  BY <1>1, HeldConcat
<1>6. InSeq(Waiting) = InSeq(pending) \union InSeq(batch \o channel)
  BY <1>1, HeldConcat DEF Waiting
<1>7. InSeq(Whole) = InSeq(Stored) \union InSeq(Waiting)
  BY <1>1, HeldConcat DEF Whole
<1> QED BY <1>2, <1>3, <1>4, <1>5, <1>6, <1>7, LinesAre

LEMMA AcceptedStep ==
    LogTypeOK /\ StageInv /\ AcceptedInv /\ [LogNext]_logVars => AcceptedInv'
<1> SUFFICES ASSUME LogTypeOK, StageInv, AcceptedInv, [LogNext]_logVars
             PROVE  AcceptedInv'
  OBVIOUS
<1>w. Whole \in Seq(Items)
  BY WholeTypes
<1>1. ASSUME NEW l \in Line, Submit(l), UNCHANGED <<db, rows, pending, batch, lost>>
      PROVE  AcceptedInv'
  <2>1. l \in Items /\ l # Stop
    BY LinesAre DEF Items
  <2>2. CASE Whole' = Append(Whole, l)
             /\ accepted' = IF Stop \in InSeq(channel) THEN accepted ELSE accepted \union {l}
    <3>1. ASSUME NEW a \in accepted' \ lost PROVE Ahead(Append(Whole, l), a)
      <4>1. Ahead(Whole, a) \/ (a = l /\ Stop \notin InSeq(Whole) /\ l # Stop)
        BY <2>1, <2>2, StopIsInChannel DEF AcceptedInv
      <4> QED BY <1>w, <2>1, <4>1, AheadAppend
    <3> QED BY <1>1, <2>2, <3>1 DEF AcceptedInv
  <2>3. CASE Whole' = Whole /\ accepted' = accepted
    BY <1>1, <2>3 DEF AcceptedInv
  <2> QED BY <1>1, <2>2, <2>3, SubmitIs
<1>2. ASSUME NEW o \in Outputs, Emit(o) PROVE AcceptedInv'
  BY <1>2 DEF Emit, flush, AcceptedInv, Whole, Stored, Waiting
<1>3. ASSUME NEW o \in Outputs, Read(o) PROVE AcceptedInv'
  <2>1. Head(pipe[o]) \in Line
    BY <1>3, HeadTailProperties DEF Read, LogTypeOK
  <2> QED BY <1>1, <1>3, <2>1 DEF Read, flush
<1>4. CASE Announce
  <2>1. [from |-> Startup, n |-> 1] \in Line
    BY DEF Line
  <2> QED BY <1>1, <1>4, <2>1 DEF Announce, flush
<1>5. CASE Shutdown
  <2>1. UNCHANGED <<db, rows, pending, batch, lost, accepted>>
    BY <1>5 DEF Shutdown, flush
  <2>2. CASE channel' = Append(channel, Stop)
    <3>1. Stop \in Items
      BY DEF Items
    <3>2. Whole' = Append(Whole, Stop)
      BY <2>1, <2>2, <3>1, ComesLast
    <3>3. \A a \in accepted \ lost : Ahead(Append(Whole, Stop), a)
      BY <1>w, <3>1, AheadAppend DEF AcceptedInv
    <3> QED BY <2>1, <3>2, <3>3 DEF AcceptedInv
  <2>3. CASE channel' = channel
    BY <2>1, <2>3 DEF AcceptedInv, Whole, Stored, Waiting
  <2> QED BY <1>5, <2>2, <2>3 DEF Shutdown
<1>6. CASE InsertRow
  <2>1. Whole' = Whole /\ UNCHANGED <<lost, accepted>>
    BY <1>6, MovesOn DEF InsertRow
  <2> QED BY <2>1 DEF AcceptedInv
<1>7. CASE Abort
  <2> DEFINE m == rows \o pending
             q == batch \o channel
  <2>1. /\ Whole = db \o (m \o q) /\ Whole' = db \o q /\ lost' = lost \union InSeq(m)
        /\ m \in Seq(Items) /\ q \in Seq(Items) /\ db \in Seq(Items)
    BY <1>7, DropsMiddle, WholeTypes
  <2>2. accepted' = accepted
    BY <1>7 DEF Abort
  <2>3. ASSUME NEW a \in accepted \ (lost \union InSeq(m)) PROVE Ahead(db \o q, a)
    <3>1. a \notin InSeq(m) /\ Ahead(db \o (m \o q), a)
      BY <2>1 DEF AcceptedInv
    <3> QED BY <2>1, <3>1, AheadCut
  <2> QED BY <2>1, <2>2, <2>3 DEF AcceptedInv
<1>8. CASE PassStep
  BY <1>8, PassIs DEF AcceptedInv
<1> QED BY <1>2, <1>3, <1>4, <1>5, <1>6, <1>7, <1>8, LogCases

LEMMA CursorStep ==
    LogTypeOK /\ StageInv /\ CursorInv /\ [LogNext]_logVars => CursorInv'
<1> SUFFICES ASSUME LogTypeOK, StageInv, CursorInv, [LogNext]_logVars
             PROVE  CursorInv'
  OBVIOUS
<1>w. Stored \in Seq(Items) /\ db \in Seq(Items) /\ rows \in Seq(Items) /\ pending \in Seq(Items)
  BY WholeTypes
<1>1. ASSUME UNCHANGED <<db, rows, events, lost>> PROVE CursorInv'
  BY <1>1 DEF CursorInv, Stored
<1>2. ASSUME NEW o \in Outputs, Emit(o) \/ Read(o) PROVE CursorInv'
  BY <1>1, <1>2 DEF Emit, Read, flush
<1>3. CASE Announce \/ Shutdown
  BY <1>1, <1>3 DEF Announce, Shutdown, flush
<1>4. CASE InsertRow
  <2>1. Head(pending) \in Items
    BY <1>4, <1>w, HeadTailProperties DEF InsertRow
  <2>2. Stored' = Append(Stored, Head(pending)) /\ lost' = lost
    BY <1>4, <1>w, <2>1, AppendLast DEF InsertRow, Stored
  <2>3. Len(Stored) = Len(db) + Len(rows) /\ Len(Stored) \in Nat
    BY <1>w, ConcatProperties, LenProperties DEF Stored
  <2>4. /\ DOMAIN Stored = 1..Len(Stored) /\ DOMAIN Stored' = 1..(Len(Stored) + 1)
        /\ \A i \in 1..Len(Stored) : Stored'[i] = Stored[i]
        /\ Stored'[Len(Stored) + 1] = Head(pending)
    BY <1>w, <2>1, <2>2, AppendIs
  <2>5. ASSUME NEW e \in events', e.line \notin lost
        PROVE  e.seq \in DOMAIN Stored' /\ Stored'[e.seq] = e.line
    <3>1. CASE e \in events
      <4>1. e.seq \in 1..Len(Stored) /\ Stored[e.seq] = e.line
        BY <2>4, <2>5, <3>1 DEF CursorInv
      <4> QED BY <2>3, <2>4, <4>1
    <3>2. CASE e = [seq |-> Len(db) + Len(rows) + 1, line |-> Head(pending)]
      BY <2>3, <2>4, <3>2
    <3> QED BY <1>4, <3>1, <3>2 DEF InsertRow
  <2> QED BY <2>2, <2>5 DEF CursorInv
<1>5. CASE Abort
  <2>1. Stored' = db /\ events' = events /\ lost' = lost \union InSeq(rows) \union InSeq(pending)
    BY <1>5, <1>w, ConcatEmptySeq DEF Abort, Stored, InSeq
  <2>2. /\ DOMAIN Stored = 1..(Len(db) + Len(rows)) /\ DOMAIN db = 1..Len(db)
        /\ DOMAIN rows = 1..Len(rows) /\ Len(db) \in Nat /\ Len(rows) \in Nat
        /\ \A i \in 1..Len(db) : Stored[i] = db[i]
        /\ \A i \in 1..Len(rows) : Stored[Len(db) + i] = rows[i]
    BY <1>w, ConcatProperties, LenProperties DEF Stored
  <2>3. ASSUME NEW e \in events, e.line \notin lost'
        PROVE  e.seq \in DOMAIN db /\ db[e.seq] = e.line
    <3>1. e.seq \in 1..(Len(db) + Len(rows)) /\ Stored[e.seq] = e.line
      BY <2>1, <2>2, <2>3 DEF CursorInv
    <3>2. CASE e.seq > Len(db)
      <4>1. e.seq - Len(db) \in 1..Len(rows) /\ e.seq = Len(db) + (e.seq - Len(db))
        BY <2>2, <3>1, <3>2
      <4>2. e.line \in InSeq(rows)
        BY <2>2, <3>1, <4>1 DEF InSeq
      <4> QED BY <2>1, <2>3, <4>2
    <3> QED BY <2>2, <3>1, <3>2
  <2> QED BY <2>1, <2>3 DEF CursorInv
<1>6. CASE PassStep
  BY <1>6, PassIs DEF CursorInv
<1> QED BY <1>2, <1>3, <1>4, <1>5, <1>6, LogCases

-----------------------------------------------------------------------------
LogInv == LogTypeOK /\ StageInv /\ PipesInv /\ OrderInv /\ AcceptedInv /\ CursorInv

LEMMA LogStart == LogInit => LogInv
<1> SUFFICES ASSUME LogInit PROVE LogInv
  OBVIOUS
<1>1. LogTypeOK
  <2>1. <<>> \in Seq(Line) /\ <<>> \in Seq(Line \union {Stop}) /\ Len(<<>>) = 0
    BY EmptySeq
  <2> QED BY <2>1, PipelineAssumption DEF LogInit, LogTypeOK
<1>2. Whole = <<>> /\ Stored = <<>>
  BY <1>1, EmptySeq, ConcatEmptySeq DEF LogInit, Whole, Stored, Waiting
<1>3. DOMAIN Whole = {} /\ InSeq(Whole) = {}
  BY <1>2 DEF InSeq
<1>4. \A o \in Outputs : ReadOf(o) = 0
  BY EmptySeq DEF LogInit, ReadOf
<1>5. OrderInv
  BY <1>3, <1>4 DEF OrderInv, Sorted
<1>6. PipesInv
  BY <1>4, EmptySeq DEF PipesInv, LogInit
<1>7. StageInv /\ AcceptedInv /\ CursorInv
  BY DEF LogInit, StageInv, AcceptedInv, CursorInv
<1> QED BY <1>1, <1>5, <1>6, <1>7 DEF LogInv

LEMMA LogHolds == LogSpec => []LogInv
<1>1. LogInit => LogInv
  BY LogStart
<1>2. LogInv /\ [LogNext]_logVars => LogInv'
  BY LogTypesStep, StageStep, PipesStep, OrderStep, AcceptedStep, CursorStep DEF LogInv
<1> QED BY <1>1, <1>2, PTL DEF LogSpec

\* Types of the log pipeline, for any outputs, batch size and flush interval.
THEOREM LogTyping == LogSpec => []LogTypeOK
<1>1. LogInv => LogTypeOK
  BY DEF LogInv
<1> QED BY <1>1, LogHolds, PTL

\* Of each output the database holds the lines in their order, and misses only those
\* of transactions that failed; a cursor that clients have seen names the row of its
\* line (LogWriter, flush_batch), for any number of lines and any batches.
THEOREM LogInOrder == LogSpec => []LogIsOutput
<1>1. ASSUME LogInv PROVE LogIsOutput
  <2>1. db \in Seq(Items) /\ rows \in Seq(Items) /\ Stored \in Seq(Items) /\ Waiting \in Seq(Items)
    BY <1>1, WholeTypes DEF LogInv
  <2>2. /\ DOMAIN db = 1..Len(db) /\ DOMAIN Stored = 1..Len(Stored) /\ DOMAIN Whole = 1..Len(Whole)
        /\ Len(db) \in Nat /\ Len(db) <= Len(Stored) /\ Len(Stored) <= Len(Whole)
        /\ Len(Stored) \in Nat /\ Len(Whole) \in Nat
    BY <2>1, ConcatProperties, LenProperties DEF Stored, Whole
  <2>3. \A i \in DOMAIN db : i \in DOMAIN Stored /\ Stored[i] = db[i]
    BY <2>1, <2>2, ConcatProperties DEF Stored
  <2>4. \A i \in DOMAIN db : i \in DOMAIN Whole /\ Whole[i] = db[i]
    BY <2>1, <2>2, <2>3, ConcatProperties DEF Whole
  <2>5. \A i \in DOMAIN db : db[i] \in Line /\ db[i] # Stop
    BY <1>1, <2>2, LinesAre, ElementOfSeq DEF LogInv, LogTypeOK
  <2>6. Sorted(Whole, lost)
    BY <1>1 DEF LogInv, OrderInv
  <2>7. ASSUME NEW i \in DOMAIN db, NEW j \in DOMAIN db, i < j, db[i].from = db[j].from
        PROVE  db[i].n < db[j].n
    BY <2>4, <2>5, <2>6, <2>7 DEF Sorted
  <2>8. ASSUME NEW i \in DOMAIN db, NEW n \in 1..(db[i].n - 1)
        PROVE  [from |-> db[i].from, n |-> n] \in InSeq(db) \union lost
    <3> DEFINE earlier == [from |-> db[i].from, n |-> n]
    <3>1. earlier \in Line /\ earlier # Stop /\ n < db[i].n
      <4>1. db[i].from \in Outputs /\ db[i].n \in 1..MaxLines /\ MaxLines \in Nat
        BY <2>5, PipelineAssumption DEF Line
      <4>2. earlier \in Line
        BY <4>1 DEF Line
      <4> QED BY <4>1, <4>2, LinesAre
    <3>2. earlier \in InSeq(Whole) \union lost
      BY <2>4, <2>5, <2>6 DEF Sorted, InSeq
    <3>3. ASSUME NEW k \in DOMAIN Whole, Whole[k] = earlier PROVE k \in DOMAIN db
      <4>1. CASE k > i
        <5>1. i \in DOMAIN Whole /\ Whole[i] = db[i] /\ Whole[i] # Stop /\ i < k
          BY <2>2, <2>4, <2>5, <4>1
        <5>2. Whole[k] # Stop /\ Whole[i].from = Whole[k].from
          BY <3>1, <3>3, <5>1
        <5>3. Whole[i].n < Whole[k].n
          BY <2>6, <5>1, <5>2 DEF Sorted
        <5>4. Whole[i].n = db[i].n /\ Whole[k].n = n /\ db[i].n \in Nat
          BY <2>5, <3>3, <5>1, LinesAre
        <5> QED BY <3>1, <5>3, <5>4
      <4>2. CASE k <= i
        BY <2>2, <4>2
      <4> QED BY <2>2, <4>1, <4>2
    <3> QED BY <2>4, <3>2, <3>3 DEF InSeq
  <2>9. ASSUME NEW e \in events, e.line \notin lost, e.seq \in DOMAIN db
        PROVE  db[e.seq] = e.line
    BY <1>1, <2>3, <2>9 DEF LogInv, CursorInv
  <2> QED BY <2>7, <2>8, <2>9 DEF LogIsOutput, StoredInOrder, CursorsAreRows, InSeq
<1> QED BY <1>1, LogHolds, PTL

\* When shutdown returns, every line submitted before it is stored, unless its
\* transaction failed (LogWriter::shutdown, the last flush of the writer's loop).
THEOREM LogFlushes == LogSpec => []ShutdownFlushes
<1>1. ASSUME LogInv, keeper = "down", NEW a \in accepted \ lost PROVE a \in InSeq(db)
  <2>1. db \in Seq(Items) /\ channel \in Seq(Items)
    BY <1>1, WholeTypes DEF LogInv
  <2>2. Whole = db \o channel
    <3>1. pending = <<>> /\ rows = <<>> /\ batch = <<>>
      BY <1>1 DEF LogInv, StageInv
    <3> QED BY <2>1, <3>1, ConcatEmptySeq DEF Whole, Stored, Waiting
  <2>3. PICK i \in DOMAIN Whole : Whole[i] = a /\ \A j \in 1..i : Whole[j] # Stop
    BY <1>1 DEF LogInv, AcceptedInv, Ahead
  <2>4. /\ DOMAIN Whole = 1..(Len(db) + Len(channel)) /\ DOMAIN db = 1..Len(db)
        /\ Len(db) \in Nat /\ Len(channel) \in Nat
        /\ \A k \in 1..Len(db) : Whole[k] = db[k]
        /\ Len(channel) > 0 => Whole[Len(db) + 1] = channel[1]
    BY <2>1, <2>2, ConcatProperties, LenProperties
  <2>5. i <= Len(db)
    <3> SUFFICES ASSUME i > Len(db) PROVE FALSE
      BY <2>4
    <3>1. Len(channel) > 0 /\ channel # <<>> /\ Len(db) + 1 \in 1..i
      BY <2>1, <2>4, EmptySeq
    <3>2. Head(channel) = Stop
      BY <1>1, <3>1 DEF LogInv, StageInv
    <3>3. channel[1] = Stop
      BY <2>1, <3>1, <3>2
    <3> QED BY <2>3, <2>4, <3>1, <3>3
  <2> QED BY <2>3, <2>4, <2>5 DEF InSeq
<1>2. LogInv => ShutdownFlushes
  BY <1>1 DEF ShutdownFlushes
<1> QED BY <1>2, LogHolds, PTL

-----------------------------------------------------------------------------
(* The captures of what the process answers to a command: CommandCapture,   *)
(* whose commands go through the lifecycle service.                         *)

\* A capture whose command was sent.
Listening == {c \in Captures : stage[c] \in {"drain", "receive", "close"}}
Left == {c \in Captures : stage[c] = "cancelled"}

\* A capture that was always alone has the last sender, and no sender is double.
OnlyInv ==
    ~overlap =>
        /\ \A c, d \in Active : c = d
        /\ AloneIsExact
        /\ \A c \in Active :
              slots # <<>> /\ index[c] = Len(slots) /\ slots[Len(slots)] = c

\* An answer that was forwarded to a capture alone is on the way, in its channel or
\* with it.
AnswerInv ==
    /\ due \subseteq Listening /\ reached \subseteq Listening
    /\ ~overlap => \A c \in reached \ overrun :
          \/ forwarded = c /\ Contains(to, c)
          \/ c \in heard[c]
          \/ Contains(inbox[c], c)

LEMMA Below ==
    ASSUME NEW n \in Nat, n > 0
    PROVE  /\ n \in 1..n
           /\ n - 1 = IF 1 <= n - 1 THEN (n - 1) - 1 + 1 ELSE 0
           /\ \A i \in 1..n : i = n \/ i \in 1..(n - 1)
           /\ \A i \in 1..(n - 1) : i \in 1..n /\ i # n
OBVIOUS

LEMMA RemoveTypes ==
    ASSUME NEW S, NEW s \in Seq(S), NEW i \in DOMAIN s
    PROVE  RemoveAt(s, i) \in Seq(S)
<1>1. i \in 1..Len(s) /\ Len(s) \in Nat
  BY LenProperties
<1>2. \A k \in 1..Len(s) : s[k] \in S
  BY ElementOfSeq
<1>3. SubSeq(s, 1, i - 1) \in Seq(S)
  BY <1>1, <1>2, SubSeqProperties
<1>4. SubSeq(s, i + 1, Len(s)) \in Seq(S)
  BY <1>1, <1>2, SubSeqProperties
<1> QED BY <1>3, <1>4, ConcatProperties DEF RemoveAt

LEMMA RemoveLast ==
    ASSUME NEW S, NEW s \in Seq(S), s # <<>>
    PROVE  /\ RemoveAt(s, Len(s)) \in Seq(S)
           /\ Len(RemoveAt(s, Len(s))) = Len(s) - 1
           /\ \A i \in 1..(Len(s) - 1) : RemoveAt(s, Len(s))[i] = s[i]
<1>1. Len(s) \in Nat /\ Len(s) > 0
  BY LenProperties, EmptySeq
<1>2. \A k \in 1..Len(s) : s[k] \in S
  BY ElementOfSeq
<1>3. /\ SubSeq(s, 1, Len(s) - 1) \in Seq(S) /\ Len(SubSeq(s, 1, Len(s) - 1)) = Len(s) - 1
      /\ \A i \in 1..(Len(s) - 1) : SubSeq(s, 1, Len(s) - 1)[i] = s[i]
  <2>1. /\ SubSeq(s, 1, Len(s) - 1) \in Seq(S)
        /\ Len(SubSeq(s, 1, Len(s) - 1)) = IF 1 <= Len(s) - 1 THEN (Len(s) - 1) - 1 + 1 ELSE 0
        /\ \A i \in 1..((Len(s) - 1) - 1 + 1) : SubSeq(s, 1, Len(s) - 1)[i] = s[1 + i - 1]
    BY <1>1, <1>2, SubSeqProperties
  <2>2. (Len(s) - 1) - 1 + 1 = Len(s) - 1 /\ \A i \in Nat : 1 + i - 1 = i
    BY <1>1
  <2>3. Len(SubSeq(s, 1, Len(s) - 1)) = Len(s) - 1
    <3>1. Len(s) - 1 = IF 1 <= Len(s) - 1 THEN (Len(s) - 1) - 1 + 1 ELSE 0
      BY <1>1, Below
    <3> QED BY <2>1, <3>1
  <2>4. ASSUME NEW i \in 1..(Len(s) - 1) PROVE SubSeq(s, 1, Len(s) - 1)[i] = s[i]
    <3>1. SubSeq(s, 1, Len(s) - 1)[i] = s[1 + i - 1]
      BY <2>1, <2>2
    <3>2. 1 + i - 1 = i
      BY <1>1
    <3> QED BY <3>1, <3>2
  <2> QED BY <2>1, <2>3, <2>4
<1>4. SubSeq(s, Len(s) + 1, Len(s)) = <<>>
  BY <1>1, SubSeqEmpty
<1>5. RemoveAt(s, Len(s)) = SubSeq(s, 1, Len(s) - 1)
  BY <1>3, <1>4, ConcatEmptySeq DEF RemoveAt
<1> QED BY <1>3, <1>5

LEMMA EndTypes ==
    ASSUME CaptureTypeOK, NEW c \in Captures,
           NEW outcome \in Ended, End(c, outcome)
    PROVE  /\ stage' \in [Captures -> Ended \union {"idle", "send", "drain", "receive", "close"}]
           /\ inbox' \in [Captures -> Seq(Captures \union {Noise})]
           /\ \A d \in Captures : inbox'[d] = inbox[d] \/ inbox'[d] = <<>>
           /\ heard' \in [Captures -> SUBSET (Captures \union {Noise})]
           /\ due' \subseteq Captures
           /\ reached' \subseteq Captures /\ overrun' \subseteq Captures /\ overlap' \in BOOLEAN
BY EmptySeq DEF CaptureTypeOK, End, Move

LEMMA CaptureTypesStep ==
    CaptureTypeOK /\ [CaptureNext]_captureVars => CaptureTypeOK'
<1> SUFFICES ASSUME CaptureTypeOK, [CaptureNext]_captureVars PROVE CaptureTypeOK'
  OBVIOUS
<1>a. Capacity \in Nat /\ Len(<<>>) = 0
  BY EmptySeq, CaptureAssumption
<1>b. ASSUME NEW c \in Captures, Deregister(c)
      PROVE  slots' \in Seq(Captures) /\ index' \in [Captures -> Nat]
  BY <1>b, RemoveTypes DEF Deregister, CaptureTypeOK
<1>1. ASSUME NEW c \in Captures, Register(c) PROVE CaptureTypeOK'
  <2>1. Append(slots, c) \in Seq(Captures) /\ Len(slots) + 1 \in Nat
    BY AppendProperties, LenProperties DEF CaptureTypeOK
  <2> QED BY <1>1, <2>1 DEF Register, Move, CaptureTypeOK, forward
<1>2. ASSUME NEW c \in Captures, CommandFails(c) \/ Close(c) PROVE CaptureTypeOK'
  <2>1. PICK outcome \in Ended : End(c, outcome)
    BY <1>2 DEF CommandFails, Close, Ended
  <2>2. slots' \in Seq(Captures) /\ index' \in [Captures -> Nat] /\ UNCHANGED <<forwarded, to>>
    BY <1>2, <1>b DEF CommandFails, Close, forward
  <2> QED BY <1>a, <2>1, <2>2, EndTypes DEF CaptureTypeOK
<1>3. ASSUME NEW c \in Captures, DropCapture(c) PROVE CaptureTypeOK'
  <2>1. End(c, "cancelled") /\ "cancelled" \in Ended /\ UNCHANGED <<slots, index, forwarded, to>>
    BY <1>3 DEF DropCapture, Ended, registry, forward
  <2> QED BY <1>a, <2>1, EndTypes DEF CaptureTypeOK
<1>4. ASSUME NEW c \in Captures, SendCommand(c) \/ Drain(c) \/ DeadlinePassed(c)
                                     \/ Silence(c) \/ Disconnected(c)
      PROVE  CaptureTypeOK'
  BY <1>4 DEF SendCommand, Drain, DeadlinePassed, Silence, Disconnected, Move,
     CaptureTypeOK, registry, forward, ghosts
<1>5. ASSUME NEW c \in Captures, Take(c) PROVE CaptureTypeOK'
  <2>1. inbox[c] \in Seq(Captures \union {Noise}) /\ inbox[c] # <<>>
    BY <1>5 DEF Take, CaptureTypeOK
  <2>2. /\ Head(inbox[c]) \in Captures \union {Noise}
        /\ Tail(inbox[c]) \in Seq(Captures \union {Noise})
        /\ Len(Tail(inbox[c])) = Len(inbox[c]) - 1 /\ Len(inbox[c]) \in Nat
    BY <2>1, HeadTailProperties, LenProperties
  <2>3. \A d \in Captures : Len(inbox'[d]) <= Capacity
    BY <1>5, <1>a, <2>2 DEF Take, CaptureTypeOK
  <2> QED BY <1>5, <2>2, <2>3 DEF Take, Move, CaptureTypeOK, registry, forward,
             ghosts
<1>6. CASE Answer
  BY <1>6 DEF Answer, CaptureTypeOK, registry
<1>7. CASE TrySend
  <2> DEFINE c == Head(to)
  <2>1. c \in Captures /\ Tail(to) \in Seq(Captures)
    BY <1>7, HeadTailProperties DEF TrySend, CaptureTypeOK
  <2>2. forwarded' \in Captures \union {Noise}
    BY <1>7 DEF TrySend, CaptureTypeOK
  <2>3. overrun' \subseteq Captures
    BY <1>7 DEF TrySend, CaptureTypeOK, Active
  <2>4. /\ inbox' \in [Captures -> Seq(Captures \union {Noise})]
        /\ \A d \in Captures : Len(inbox'[d]) <= Capacity
    <3>1. CASE inbox' = inbox
      BY <3>1 DEF CaptureTypeOK
    <3>2. CASE /\ Len(inbox[c]) < Capacity
               /\ inbox' = [inbox EXCEPT ![c] = Append(@, AsHeardBy(c))]
      <4>1. AsHeardBy(c) \in Captures \union {Noise}
        BY <2>1 DEF AsHeardBy
      <4>2. inbox[c] \in Seq(Captures \union {Noise})
        BY <2>1 DEF CaptureTypeOK
      <4>3. /\ Append(inbox[c], AsHeardBy(c)) \in Seq(Captures \union {Noise})
            /\ Len(Append(inbox[c], AsHeardBy(c))) = Len(inbox[c]) + 1 /\ Len(inbox[c]) \in Nat
        BY <4>1, <4>2, AppendProperties, LenProperties
      <4>4. /\ inbox \in [Captures -> Seq(Captures \union {Noise})] /\ Capacity \in Nat
            /\ \A d \in Captures : Len(inbox[d]) <= Capacity
        BY <1>a DEF CaptureTypeOK
      <4>5. inbox' = [inbox EXCEPT ![c] = Append(inbox[c], AsHeardBy(c))]
        BY <3>2
      <4>6. \A d \in Captures :
               inbox'[d] = IF d = c THEN Append(inbox[c], AsHeardBy(c)) ELSE inbox[d]
        BY <4>4, <4>5
      <4> HIDE DEF c
      <4> QED BY <2>1, <3>2, <4>3, <4>4, <4>5, <4>6
    <3> QED BY <1>7, <3>1, <3>2 DEF TrySend
  <2> QED BY <1>7, <2>1, <2>2, <2>3, <2>4 DEF TrySend, CaptureTypeOK, registry
<1>8. CASE UNCHANGED captureVars
  BY <1>8 DEF captureVars, CaptureTypeOK, registry, forward, ghosts
<1> QED
  BY <1>1, <1>2, <1>3, <1>4, <1>5, <1>6, <1>7, <1>8 DEF CaptureNext, Capture, Finished

\* Removing the last item of a sequence without doubles removes nothing else.
LEMMA LastIsOnly ==
    ASSUME NEW s \in Seq(Captures), s # <<>>, IsInjective(s),
           NEW c, s[Len(s)] = c
    PROVE  /\ IsInjective(RemoveAt(s, Len(s)))
           /\ ToSet(RemoveAt(s, Len(s))) = ToSet(s) \ {c}
<1> DEFINE t == RemoveAt(s, Len(s))
<1>1. /\ Len(s) \in Nat /\ Len(s) > 0 /\ DOMAIN s = 1..Len(s) /\ DOMAIN t = 1..(Len(s) - 1)
      /\ \A i \in 1..(Len(s) - 1) : t[i] = s[i]
  BY RemoveLast, LenProperties, EmptySeq
<1>2. IsInjective(t)
  BY <1>1 DEF IsInjective
<1>3. \A i \in 1..Len(s) : i = Len(s) \/ i \in 1..(Len(s) - 1)
  BY <1>1, Below
<1>4. \A i \in 1..(Len(s) - 1) : i \in 1..Len(s) /\ i # Len(s) /\ Len(s) \in 1..Len(s)
  BY <1>1, Below
<1>5. \A i \in 1..(Len(s) - 1) : s[i] # c
  BY <1>1, <1>4 DEF IsInjective
<1>6. ToSet(t) \subseteq ToSet(s) \ {c}
  BY <1>1, <1>4, <1>5 DEF ToSet
<1>7. ToSet(s) \ {c} \subseteq ToSet(t)
  BY <1>1, <1>3 DEF ToSet
<1> QED BY <1>2, <1>6, <1>7

LEMMA AppendedIs ==
    ASSUME NEW s \in Seq(Captures), NEW c \in Captures
    PROVE  /\ ToSet(Append(s, c)) = ToSet(s) \union {c}
           /\ IsInjective(s) /\ c \notin ToSet(s) => IsInjective(Append(s, c))
           /\ Append(s, c) # <<>> /\ Len(Append(s, c)) = Len(s) + 1
           /\ Append(s, c)[Len(s) + 1] = c
<1>1. /\ Len(s) \in Nat /\ DOMAIN s = 1..Len(s) /\ DOMAIN Append(s, c) = 1..(Len(s) + 1)
      /\ Append(s, c) # <<>> /\ Len(Append(s, c)) = Len(s) + 1
      /\ \A i \in 1..Len(s) : Append(s, c)[i] = s[i]
      /\ Append(s, c)[Len(s) + 1] = c
  BY AppendProperties, LenProperties
<1>2. \A i \in 1..(Len(s) + 1) : i = Len(s) + 1 \/ i \in 1..Len(s)
  BY <1>1
<1>3. \A i \in 1..Len(s) : i \in 1..(Len(s) + 1) /\ i # Len(s) + 1
  BY <1>1
<1>4. Len(s) + 1 \in 1..(Len(s) + 1)
  BY <1>1
<1>5. ToSet(Append(s, c)) \subseteq ToSet(s) \union {c}
  BY <1>1, <1>2 DEF ToSet
<1>6. ToSet(s) \union {c} \subseteq ToSet(Append(s, c))
  BY <1>1, <1>3, <1>4 DEF ToSet
<1>7. ASSUME IsInjective(s), c \notin ToSet(s) PROVE IsInjective(Append(s, c))
  BY <1>1, <1>2, <1>7 DEF IsInjective, ToSet
<1> QED BY <1>1, <1>5, <1>6, <1>7

LEMMA OnlyStep == CaptureTypeOK /\ OnlyInv /\ [CaptureNext]_captureVars => OnlyInv'
<1> SUFFICES ASSUME CaptureTypeOK, OnlyInv, [CaptureNext]_captureVars, ~overlap' PROVE OnlyInv'
  BY DEF OnlyInv
<1>0. ~overlap
  BY DEF CaptureNext, Capture, Register, CommandFails, SendCommand, Drain,
     DeadlinePassed,
     Take, Silence, Disconnected, Close, DropCapture, End, Answer,
     TrySend, Finished, captureVars, ghosts
<1>a. /\ \A c, d \in Active : c = d
      /\ ToSet(slots) = Active \union Left /\ IsInjective(slots)
      /\ \A c \in Active : slots # <<>> /\ index[c] = Len(slots) /\ slots[Len(slots)] = c
  BY <1>0 DEF OnlyInv, AloneIsExact, Left
<1>b. ASSUME UNCHANGED <<slots, index>>, Active' = Active, Left' = Left
      PROVE  OnlyInv'
  BY <1>a, <1>b DEF OnlyInv, AloneIsExact, Left
<1>c. ASSUME NEW c \in Active, Deregister(c), Active' = Active \ {c}, Left' = Left
      PROVE  OnlyInv'
  <2>1. slots \in Seq(Captures) /\ slots # <<>> /\ index[c] = Len(slots) /\ slots[Len(slots)] = c
    BY <1>a, <1>c DEF CaptureTypeOK
  <2>2. Len(slots) \in DOMAIN slots
    BY <2>1, LenProperties, EmptySeq
  <2>3. slots' = RemoveAt(slots, Len(slots))
    BY <1>c, <2>1, <2>2 DEF Deregister
  <2>4. IsInjective(slots') /\ ToSet(slots') = ToSet(slots) \ {c}
    BY <1>a, <2>1, <2>3, LastIsOnly
  <2>5. Active' = {} /\ c \notin Left
    BY <1>a, <1>c DEF Active, Left, Ended
  <2> QED BY <1>a, <1>c, <2>4, <2>5 DEF OnlyInv, AloneIsExact, Left
<1>1. ASSUME NEW c \in Captures, Register(c) PROVE OnlyInv'
  <2>1. Active = {} /\ stage[c] = "idle"
    BY <1>1 DEF Register
  <2>2. Active' = {c} /\ Left' = Left
    BY <1>1, <2>1 DEF Register, Move, Active, Ended, Left, CaptureTypeOK
  <2>3. c \notin ToSet(slots)
    BY <1>a, <2>1 DEF Left
  <2>4. slots' = Append(slots, c) /\ index'[c] = Len(slots) + 1 /\ slots \in Seq(Captures)
    BY <1>1 DEF Register, CaptureTypeOK
  <2> QED BY <1>a, <2>1, <2>2, <2>3, <2>4, AppendedIs DEF OnlyInv, AloneIsExact, Left
<1>2. ASSUME NEW c \in Captures, CommandFails(c) \/ Close(c) PROVE OnlyInv'
  <2>1. c \in Active /\ Deregister(c)
    BY <1>2 DEF CommandFails, Close, Active, Ended
  <2>2. stage'[c] \in Ended \ {"cancelled"}
        /\ \A d \in Captures \ {c} : stage'[d] = stage[d]
    BY <1>2 DEF CommandFails, Close, End, Move, Ended, CaptureTypeOK
  <2>3. Active' = Active \ {c} /\ Left' = Left
    BY <2>1, <2>2 DEF Active, Left, Ended
  <2> QED BY <1>c, <2>1, <2>3
<1>3. ASSUME NEW c \in Captures, DropCapture(c) PROVE OnlyInv'
  <2>1. c \in Active /\ UNCHANGED <<slots, index>>
    BY <1>3 DEF DropCapture, Active, Ended, registry
  <2>2. stage'[c] = "cancelled" /\ \A d \in Captures \ {c} : stage'[d] = stage[d]
    BY <1>3 DEF DropCapture, End, Move, CaptureTypeOK
  <2>3. Active' = Active \ {c} /\ Left' = Left \union {c}
    BY <2>1, <2>2 DEF Active, Left, Ended
  <2>4. Active' = {} /\ ToSet(slots) = Left'
    BY <1>a, <2>1, <2>3
  <2> QED BY <1>a, <2>1, <2>4 DEF OnlyInv, AloneIsExact, Left
<1>4. ASSUME NEW c \in Captures, SendCommand(c) \/ Drain(c) \/ DeadlinePassed(c) \/ Take(c)
                                     \/ Silence(c) \/ Disconnected(c)
      PROVE  OnlyInv'
  <2>1. /\ stage[c] \in {"send", "drain", "receive"} /\ stage'[c] \in {"drain", "receive", "close"}
        /\ \A d \in Captures \ {c} : stage'[d] = stage[d]
        /\ UNCHANGED <<slots, index>>
    BY <1>4 DEF SendCommand, Drain, DeadlinePassed, Take, Silence, Disconnected,
       Move, CaptureTypeOK, registry
  <2>2. Active' = Active /\ Left' = Left
    BY <2>1 DEF Active, Left, Ended
  <2> QED BY <1>b, <2>1, <2>2
<1>5. CASE Answer \/ TrySend \/ UNCHANGED captureVars
  <2>1. UNCHANGED <<slots, index, stage>>
    BY <1>5 DEF Answer, TrySend, captureVars, registry
  <2> QED BY <1>b, <2>1 DEF Active, Left
<1> QED
  BY <1>1, <1>2, <1>3, <1>4, <1>5 DEF CaptureNext, Capture, Finished

LEMMA ContainsIs ==
    ASSUME NEW S, NEW s \in Seq(S), NEW x
    PROVE  /\ s = <<>> => ~Contains(s, x)
           /\ s # <<>> /\ Contains(s, x) /\ Head(s) # x => Contains(Tail(s), x)
           /\ \A y \in S : Contains(s, x) \/ y = x => Contains(Append(s, y), x)
<1>1. s = <<>> => ~Contains(s, x)
  BY EmptySeq DEF Contains
<1>2. ASSUME s # <<>>, Contains(s, x), Head(s) # x PROVE Contains(Tail(s), x)
  <2>1. PICK i \in 1..Len(s) : s[i] = x
    BY <1>2 DEF Contains
  <2>2. i # 1
    BY <1>2, <2>1
  <2>3. i - 1 \in 1..Len(Tail(s)) /\ Tail(s)[i - 1] = s[(i - 1) + 1] /\ (i - 1) + 1 = i
    <3>1. i - 1 \in 1..Len(Tail(s))
      BY <1>2, <2>1, <2>2, HeadTailProperties, LenProperties
    <3> QED BY <1>2, <2>1, <3>1, HeadTailProperties
  <2> QED BY <2>1, <2>3 DEF Contains
<1>3. ASSUME NEW y \in S, Contains(s, x) \/ y = x PROVE Contains(Append(s, y), x)
  <2>1. /\ Len(s) \in Nat /\ Len(Append(s, y)) = Len(s) + 1 /\ Append(s, y)[Len(s) + 1] = y
        /\ \A i \in 1..Len(s) : Append(s, y)[i] = s[i]
    BY AppendProperties, LenProperties
  <2>2. Len(s) + 1 \in 1..(Len(s) + 1) /\ \A i \in 1..Len(s) : i \in 1..(Len(s) + 1)
    BY <2>1
  <2> QED BY <1>3, <2>1, <2>2 DEF Contains
<1> QED BY <1>1, <1>2, <1>3

LEMMA AnswerStep ==
    CaptureTypeOK /\ OnlyInv /\ AnswerInv /\ [CaptureNext]_captureVars => AnswerInv'
<1> SUFFICES ASSUME CaptureTypeOK, OnlyInv, AnswerInv, [CaptureNext]_captureVars
             PROVE  AnswerInv'
  OBVIOUS
<1> DEFINE Got(c) == \/ forwarded = c /\ Contains(to, c)
                     \/ c \in heard[c]
                     \/ Contains(inbox[c], c)
<1>a. /\ due \subseteq Listening /\ reached \subseteq Listening
      /\ ~overlap => \A c \in reached \ overrun : Got(c)
  BY DEF AnswerInv
<1>b. ASSUME due' \subseteq Listening', reached' \subseteq Listening',
             ~overlap' => ~overlap,
             \A c \in reached' \ overrun' : c \in reached \ overrun /\ (Got(c) => Got(c)')
      PROVE  AnswerInv'
  BY <1>a, <1>b DEF AnswerInv
<1>1. ASSUME NEW c \in Captures, Register(c) PROVE AnswerInv'
  <2>1. Listening' = Listening
    BY <1>1 DEF Register, Move, Listening, CaptureTypeOK
  <2> QED BY <1>a, <1>b, <1>1, <2>1 DEF Register, forward
<1>2. ASSUME NEW c \in Captures, CommandFails(c) \/ Close(c) \/ DropCapture(c)
      PROVE  AnswerInv'
  <2>1. /\ \A d \in Captures \ {c} :
              stage'[d] = stage[d] /\ inbox'[d] = inbox[d] /\ heard'[d] = heard[d]
        /\ due' = due \ {c} /\ reached' = reached \ {c} /\ overrun' = overrun \ {c}
        /\ overlap' = overlap /\ UNCHANGED <<forwarded, to>>
    BY <1>2 DEF CommandFails, Close, DropCapture, End, Move, CaptureTypeOK, forward
  <2>2. Listening \ {c} \subseteq Listening'
    BY <2>1 DEF Listening
  <2>3. reached \subseteq Captures
    BY DEF CaptureTypeOK
  <2> QED BY <1>a, <1>b, <2>1, <2>2, <2>3
<1>3. ASSUME NEW c \in Captures, SendCommand(c) PROVE AnswerInv'
  <2>1. Listening' = Listening \union {c}
    BY <1>3 DEF SendCommand, Move, Listening, CaptureTypeOK
  <2> QED BY <1>a, <1>b, <1>3, <2>1 DEF SendCommand, forward, ghosts
<1>4. ASSUME NEW c \in Captures,
             Drain(c) \/ DeadlinePassed(c) \/ Silence(c) \/ Disconnected(c)
      PROVE  AnswerInv'
  <2>1. /\ UNCHANGED <<due, inbox, heard, forwarded, to, reached, overrun, overlap>>
        /\ stage[c] \in {"drain", "receive"} /\ stage'[c] \in {"drain", "receive", "close"}
        /\ \A d \in Captures \ {c} : stage'[d] = stage[d]
    BY <1>4 DEF Drain, DeadlinePassed, Silence, Disconnected, Move, CaptureTypeOK,
       forward, ghosts
  <2>2. Listening' = Listening
    BY <2>1 DEF Listening
  <2> QED BY <1>a, <1>b, <2>1, <2>2
<1>5. ASSUME NEW c \in Captures, Take(c) PROVE AnswerInv'
  <2>1. /\ UNCHANGED <<due, forwarded, to, reached, overrun, overlap>>
        /\ stage[c] = "receive" /\ stage'[c] = "drain" /\ inbox[c] # <<>>
        /\ inbox'[c] = Tail(inbox[c]) /\ heard'[c] = heard[c] \union {Head(inbox[c])}
        /\ \A d \in Captures \ {c} :
              stage'[d] = stage[d] /\ inbox'[d] = inbox[d] /\ heard'[d] = heard[d]
    BY <1>5 DEF Take, Move, CaptureTypeOK, forward, ghosts
  <2>2. Listening' = Listening
    BY <2>1 DEF Listening
  <2>3. inbox[c] \in Seq(Captures \union {Noise})
    BY DEF CaptureTypeOK
  <2>4. Got(c) => Got(c)'
    BY <2>1, <2>3, ContainsIs
  <2>5. \A d \in Captures : Got(d) => Got(d)'
    BY <2>1, <2>4
  <2>6. reached \subseteq Captures
    BY DEF CaptureTypeOK
  <2> QED BY <1>a, <1>b, <2>1, <2>2, <2>5, <2>6
<1>6. CASE Answer
  <2>1. /\ to = <<>> /\ to' = slots /\ UNCHANGED <<stage, inbox, heard, overrun, overlap>>
        /\ \/ forwarded' \in due /\ due' = due \ {forwarded'} /\ reached' = reached \union {forwarded'}
           \/ due' = due /\ reached' = reached
    BY <1>6 DEF Answer, registry
  <2>2. Listening' = Listening
    BY <2>1 DEF Listening
  <2>3. \A d : ~Contains(to, d)
    BY <2>1, ContainsIs DEF CaptureTypeOK
  <2>4. ASSUME ~overlap, NEW d \in reached' \ overrun' PROVE Got(d)'
    <3>1. CASE d \in reached
      <4>1. d \in heard[d] \/ Contains(inbox[d], d)
        BY <1>a, <2>1, <2>3, <2>4, <3>1
      <4> QED BY <2>1, <4>1
    <3>2. CASE d = forwarded' /\ d \in due
      <4>1. d \in Active
        BY <1>a, <3>2 DEF Listening, Active, Ended
      <4>2. slots \in Seq(Captures) /\ slots # <<>> /\ slots[Len(slots)] = d
        BY <2>4, <4>1 DEF OnlyInv, CaptureTypeOK
      <4>3. Len(slots) \in 1..Len(slots)
        BY <4>2, LenProperties, EmptySeq
      <4>4. Contains(slots, d)
        BY <4>2, <4>3 DEF Contains
      <4> QED BY <2>1, <3>2, <4>4
    <3> QED BY <2>1, <2>4, <3>1, <3>2
  <2> QED BY <1>a, <2>1, <2>2, <2>4 DEF AnswerInv
<1>7. CASE TrySend
  <2> DEFINE h == Head(to)
  <2>1. /\ to # <<>> /\ to' = Tail(to) /\ forwarded' = (IF to' = <<>> THEN Noise ELSE forwarded)
        /\ UNCHANGED <<stage, heard, due, reached, overlap>>
        /\ \/ /\ h \in Active /\ inbox' = [inbox EXCEPT ![h] = Append(@, AsHeardBy(h))]
              /\ overrun' = overrun
           \/ /\ overrun' = overrun \union ({h} \intersect Active) /\ inbox' = inbox
    BY <1>7 DEF TrySend, registry
  <2>2. Listening' = Listening /\ reached \subseteq Active /\ reached \subseteq Captures
    BY <1>a, <2>1 DEF Listening, Active, Ended
  <2>3. to \in Seq(Captures) /\ Tail(to) \in Seq(Captures)
    BY <2>1, HeadTailProperties DEF CaptureTypeOK
  <2>4. ASSUME NEW d \in Captures, Contains(inbox[d], d) PROVE Contains(inbox'[d], d)
    <3>1. inbox[d] \in Seq(Captures \union {Noise})
      BY DEF CaptureTypeOK
    <3>2. CASE inbox'[d] = Append(inbox[d], AsHeardBy(d))
      <4>1. AsHeardBy(d) \in Captures \union {Noise}
        BY DEF AsHeardBy
      <4> QED BY <2>4, <3>1, <3>2, <4>1, ContainsIs
    <3>3. CASE inbox'[d] = inbox[d]
      BY <2>4, <3>3
    <3> QED BY <2>1, <3>2, <3>3 DEF CaptureTypeOK
  <2>5. ASSUME NEW d \in reached \ overrun', forwarded = d, Contains(to, d) PROVE Got(d)'
    <3>1. CASE d = h
      <4>1. d \in Captures /\ d \in Active
        BY <2>2, <2>5
      <4>2. inbox'[d] = Append(inbox[d], d)
        BY <2>1, <2>5, <3>1, <4>1 DEF AsHeardBy, CaptureTypeOK
      <4>3. inbox[d] \in Seq(Captures \union {Noise})
        BY <4>1 DEF CaptureTypeOK
      <4> QED BY <4>1, <4>2, <4>3, ContainsIs
    <3>2. CASE d # h
      <4>1. Contains(Tail(to), d)
        BY <2>1, <2>3, <2>5, <3>2, ContainsIs
      <4>2. Tail(to) # <<>>
        BY <2>3, <4>1, ContainsIs
      <4> QED BY <2>1, <2>5, <4>1, <4>2
    <3> QED BY <3>1, <3>2
  <2>6. ASSUME NEW d \in reached' \ overrun' PROVE d \in reached \ overrun /\ (Got(d) => Got(d)')
    BY <2>1, <2>2, <2>4, <2>5, <2>6
  <2> QED BY <1>a, <1>b, <2>1, <2>2, <2>6
<1>8. CASE UNCHANGED captureVars
  BY <1>8 DEF captureVars, registry, forward, ghosts, AnswerInv, Listening
<1> QED
  BY <1>1, <1>2, <1>3, <1>4, <1>5, <1>6, <1>7, <1>8 DEF CaptureNext, Capture, Finished

-----------------------------------------------------------------------------
CaptureInv == CaptureTypeOK /\ OnlyInv /\ AnswerInv

LEMMA CaptureStart == CaptureInit => CaptureInv
<1> SUFFICES ASSUME CaptureInit PROVE CaptureInv
  OBVIOUS
<1>1. CaptureTypeOK
  <2>1. Len(<<>>) = 0 /\ Capacity \in Nat
    BY EmptySeq, CaptureAssumption
  <2>2. /\ <<>> \in Seq(Captures) /\ <<>> \in Seq(Captures \union {Noise})
    BY EmptySeq
  <2>3. inbox = [c \in Captures |-> <<>>] /\ heard = [c \in Captures |-> {}]
    BY DEF CaptureInit
  <2>4. /\ inbox \in [Captures -> Seq(Captures \union {Noise})]
        /\ \A c \in Captures : Len(inbox[c]) <= Capacity
        /\ heard \in [Captures -> SUBSET (Captures \union {Noise})]
    BY <2>1, <2>2, <2>3
  <2> QED BY <2>2, <2>4 DEF CaptureInit, CaptureTypeOK
<1>2. Active = {} /\ Left = {}
  BY DEF CaptureInit, Active, Left
<1>3. ToSet(slots) = {} /\ IsInjective(slots)
  BY DEF CaptureInit, ToSet, IsInjective
<1>4. OnlyInv
  BY <1>2, <1>3 DEF OnlyInv, AloneIsExact, Left
<1>5. AnswerInv
  BY DEF CaptureInit, AnswerInv
<1> QED BY <1>1, <1>4, <1>5 DEF CaptureInv

LEMMA CaptureHolds == CaptureSpec => []CaptureInv
<1>1. CaptureInit => CaptureInv
  BY CaptureStart
<1>2. CaptureInv /\ [CaptureNext]_captureVars => CaptureInv'
  BY CaptureTypesStep, OnlyStep, AnswerStep DEF CaptureInv
<1> QED BY <1>1, <1>2, PTL DEF CaptureSpec

\* Types of the captures, and that no channel holds more than its capacity.
THEOREM CaptureTyping == CaptureSpec => []CaptureTypeOK
<1>1. CaptureInv => CaptureTypeOK
  BY DEF CaptureInv
<1> QED BY <1>1, CaptureHolds, PTL

\* A capture that overlaps with no other has its sender in the registry and no other
\* but those of dropped futures, and an answer that was forwarded is in its hands or
\* in its channel, unless that was full (capture_command_output, forward_to_captures).
THEOREM CaptureServed == CaptureSpec => []AloneIsServed
<1>1. CaptureInv => AloneIsServed
  <2> SUFFICES ASSUME CaptureInv PROVE AloneIsServed
    OBVIOUS
  <2>1. AloneIsExact
    BY DEF CaptureInv, OnlyInv, AloneIsExact
  <2>2. AnswerReaches
    BY DEF CaptureInv, AnswerInv, AnswerReaches
  <2> QED BY <2>1, <2>2 DEF AloneIsServed
<1> QED BY <1>1, CaptureHolds, PTL

=============================================================================
