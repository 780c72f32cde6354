------------------------ MODULE NetworkSettingsProofs ------------------------
(***************************************************************************)
(* Proofs about NetworkSettings: types and who holds the manager's mutex,  *)
(* that disk, memory and runtime agree, and that a commit overwrites no    *)
(* change of the runtime it has not seen.                                  *)
(***************************************************************************)
EXTENDS NetworkSettings, TLAPS

Labels    == {"idle", "lock", "operate", "read", "resolve", "commit", "save", "write"}
Phases    == {"initialize", "repair", "prepare", "late", "retry"}
Ops       == {"get", "update", "partial", "other"}
Preparing == {"read", "resolve", "commit"}
Early     == {"initialize", "repair"}  \* phases before the operation proper
Asked     == {"update", "partial"}     \* operations that ask for a mode

LEMMA Constants ==
    /\ "adaptive" \in Modes /\ Direct \in SystemRoutes /\ None \notin Modes
    /\ None \notin SystemRoutes /\ None \notin Callers /\ SystemRoutes \subseteq Routes /\ Manual \in Routes
    /\ MaxCalls \in Nat /\ MaxChanges \in Nat /\ MaxForeign \in Nat
BY NetworkAssumption DEF Routes

-----------------------------------------------------------------------------
(* The operators of the runtime.                                             *)

LEMMA ResolveIs ==
    ASSUME NEW mode, NEW route \in Routes
    PROVE  Resolve(mode, route) \in Routes
BY Constants DEF Resolve

LEMMA FollowingIs ==
    ASSUME runtime = None \/ runtime \in State, NEW mode \in Modes, NEW route \in Routes
    PROVE  /\ Following(mode, route) \in State
           /\ Following(mode, route).mode = mode
           /\ Following(mode, route) = runtime \/ Following(mode, route).revision = Revision + 1
           /\ Revision \in Nat
<1>1. Revision \in Nat
  BY DEF Revision, State
<1>2. CASE runtime # None /\ runtime.mode = mode /\ runtime.route = route
  <2>1. Following(mode, route) = [mode |-> mode, route |-> route, revision |-> runtime.revision]
    BY <1>2 DEF Following, Revision
  <2>2. runtime = [mode |-> runtime.mode, route |-> runtime.route, revision |-> runtime.revision]
    BY <1>2 DEF State
  <2>3. Following(mode, route) = runtime
    BY <1>2, <2>1, <2>2
  <2> QED BY <1>1, <1>2, <2>3
<1>3. CASE ~(runtime # None /\ runtime.mode = mode /\ runtime.route = route)
  <2>1. Following(mode, route) = [mode |-> mode, route |-> route, revision |-> Revision + 1]
    BY <1>3 DEF Following
  <2> QED BY <1>1, <2>1 DEF State
<1> QED BY <1>2, <1>3

\* A change of the system proxy leaves the state alone or follows it.
LEMMA AfterChangeIs ==
    ASSUME runtime = None \/ runtime \in State, NEW route \in SystemRoutes
    PROVE  /\ AfterChange(route) \in State
           /\ AfterChange(route) = runtime \/ AfterChange(route).revision = Revision + 1
           /\ AfterChange(route).mode = IF runtime = None THEN "adaptive" ELSE runtime.mode
<1>1. "adaptive" \in Modes /\ route \in Routes
  BY Constants
<1>2. /\ Following("adaptive", route) \in State /\ Following("adaptive", route).mode = "adaptive"
      /\ Following("adaptive", route) = runtime \/ Following("adaptive", route).revision = Revision + 1
  BY <1>1, FollowingIs
<1> QED BY <1>2 DEF AfterChange

\* What a candidate says of the state it was built from.
LEMMA CandidateIs ==
    ASSUME TypeOK, NEW c \in Callers, target[c] \in Modes, snapshot[c] \in SystemRoutes
    PROVE  /\ Candidate(c) \in Candidates
           /\ Candidate(c).base = Revision /\ Candidate(c).seen = runtime
           /\ Candidate(c).next.mode = target[c]
           /\ Candidate(c).next = runtime \/ Candidate(c).next.revision = Revision + 1
<1>1. Resolve(target[c], snapshot[c]) \in Routes
  BY Constants, ResolveIs
<1> DEFINE next == Following(target[c], Resolve(target[c], snapshot[c]))
<1>2. next \in State /\ next.mode = target[c] /\ (next = runtime \/ next.revision = Revision + 1) /\ Revision \in Nat
  BY <1>1, FollowingIs DEF TypeOK
<1>3. Candidate(c) = [base |-> Revision, seen |-> runtime, next |-> next]
  BY DEF Candidate
<1> HIDE DEF next
<1> QED BY <1>2, <1>3 DEF Candidates, TypeOK

-----------------------------------------------------------------------------
(* Types, with what an operation has at hand at each of its labels.          *)

ShapeOf(c) ==
    /\ pc[c] \in {"lock", "operate"} /\ op[c] \in Asked => target[c] \in Modes
    /\ pc[c] \in Preparing => target[c] \in Modes
    /\ pc[c] \in Preparing /\ phase[c] \in Early /\ op[c] \in Asked => old[c] \in Modes
    /\ pc[c] \in Preparing /\ phase[c] \notin Early => old[c] \in Modes /\ op[c] # "get"
    /\ pc[c] \in {"save", "write"} => old[c] \in Modes /\ op[c] # "get"
    /\ pc[c] \in {"save", "write"} /\ op[c] \in Asked => target[c] \in Modes
    /\ pc[c] = "write" => op[c] = "update"
    /\ pc[c] = "resolve" => snapshot[c] \in SystemRoutes
    /\ pc[c] = "commit" => prepared[c] \in Candidates

ShapeInv == \A c \in Callers : ShapeOf(c)

\* The others are where they were, with what they had.
Others(c) ==
    \A d \in Callers \ {c} :
        /\ pc'[d] = pc[d] /\ op'[d] = op[d] /\ phase'[d] = phase[d] /\ target'[d] = target[d]
        /\ old'[d] = old[d] /\ snapshot'[d] = snapshot[d] /\ prepared'[d] = prepared[d]

LEMMA ReturnIs ==
    ASSUME TypeOK, NEW c \in Callers, Return(c)
    PROVE  /\ Others(c) /\ pc'[c] = "idle" /\ prepared'[c] = None
           /\ pc' \in [Callers -> Labels] /\ op' = op /\ phase' = phase /\ calls' = calls
           /\ target' \in [Callers -> Modes \union {None}] /\ old' \in [Callers -> Modes \union {None}]
           /\ snapshot' \in [Callers -> SystemRoutes \union {None}]
           /\ prepared' \in [Callers -> Candidates \union {None}] /\ attempt' \in [Callers -> 0..2]
           /\ holder' \in Callers \union {None} /\ holder' # c
           /\ holder' = holder \/ (holder = c /\ holder' = None)
           /\ \A d \in Callers : pc'[d] \notin {"idle", "lock"} <=> holder' = d
<1>1. pc' \in [Callers -> Labels] /\ pc'[c] = "idle"
  BY DEF TypeOK, Return, Goto, Labels
<1>2. /\ target' \in [Callers -> Modes \union {None}] /\ old' \in [Callers -> Modes \union {None}]
      /\ snapshot' \in [Callers -> SystemRoutes \union {None}]
      /\ prepared' \in [Callers -> Candidates \union {None}] /\ prepared'[c] = None
      /\ attempt' \in [Callers -> 0..2]
  BY DEF TypeOK, Return
<1>3. holder' \in Callers \union {None} /\ holder' # c /\ (holder' = holder \/ (holder = c /\ holder' = None))
  BY Constants DEF TypeOK, Return
<1>4. Others(c)
  BY DEF TypeOK, Return, Goto, Others
<1>5. \A d \in Callers : pc'[d] \notin {"idle", "lock"} <=> holder' = d
  BY <1>1, <1>3, <1>4, Constants DEF Others, TypeOK
<1> QED BY <1>1, <1>2, <1>3, <1>4, <1>5 DEF Return

LEMMA GotoIs ==
    ASSUME TypeOK, NEW c \in Callers, NEW label \in Labels, Goto(c, label)
    PROVE  /\ pc' \in [Callers -> Labels] /\ pc'[c] = label
           /\ \A d \in Callers \ {c} : pc'[d] = pc[d]
BY DEF TypeOK, Goto, Labels

\* After the save: done, or a commit of what was prepared, or a late preparation.
LEMMA PersistedIs ==
    ASSUME TypeOK, ShapeInv, NEW c \in Callers, pc[c] \in {"save", "write"},
           NEW mode \in Modes, Persisted(c, mode)
    PROVE  /\ disk' = mode /\ memory' = mode /\ saved' = saved \union {mode}
           /\ UNCHANGED <<runtime, initialized, unseen>>
           /\ Others(c) /\ op' = op
           /\ \/ mode = old[c] /\ Return(c) /\ desync' = desync
              \/ /\ prepared[c] # None /\ pc'[c] = "commit" /\ desync' = TRUE
                 /\ target'[c] = mode /\ old'[c] = old[c] /\ holder' = holder
                 /\ phase' = phase /\ prepared' = prepared
              \/ /\ prepared[c] = None /\ pc'[c] = "read" /\ desync' = desync
                 /\ target'[c] = mode /\ old'[c] = old[c] /\ holder' = holder
                 /\ phase'[c] = "late" /\ prepared' = prepared
           /\ TypeOK'
<1>1. disk' = mode /\ memory' = mode /\ saved' = saved \union {mode} /\ UNCHANGED <<runtime, initialized, unseen>>
  BY DEF Persisted, ghosts
<1>2. holder = c
  BY DEF TypeOK
<1>3. CASE mode = old[c]
  <2>1. Return(c) /\ desync' = desync
    BY <1>3 DEF Persisted
  <2>2. TypeOK'
    BY <1>1, <1>2, <2>1, ReturnIs DEF Persisted, TypeOK, Others, Labels, network, watch, ghosts
  <2> QED BY <1>1, <1>3, <2>1, <2>2, ReturnIs
<1>4. CASE mode # old[c] /\ prepared[c] # None
  <2>1. /\ Goto(c, "commit") /\ desync' = TRUE /\ target' = [target EXCEPT ![c] = mode] /\ phase' = phase
        /\ UNCHANGED <<op, old, snapshot, prepared, attempt, calls, holder>>
    BY <1>4 DEF Persisted
  <2>2. Others(c) /\ pc'[c] = "commit" /\ target'[c] = mode
    BY <2>1, GotoIs DEF Others, TypeOK, Labels
  <2>3. TypeOK'
    BY <1>1, <1>2, <2>1, GotoIs DEF Persisted, TypeOK, Labels, network, watch, ghosts
  <2> QED BY <1>1, <1>4, <2>1, <2>2, <2>3
<1>5. CASE mode # old[c] /\ prepared[c] = None
  <2>1. /\ Goto(c, "read") /\ desync' = desync /\ target' = [target EXCEPT ![c] = mode]
        /\ phase' = [phase EXCEPT ![c] = "late"]
        /\ UNCHANGED <<op, old, snapshot, prepared, attempt, calls, holder>>
    BY <1>5 DEF Persisted, Prepare
  <2>2. Others(c) /\ pc'[c] = "read" /\ target'[c] = mode /\ phase'[c] = "late"
    BY <2>1, GotoIs DEF Others, TypeOK, Labels
  <2>3. TypeOK'
    BY <1>1, <1>2, <2>1, GotoIs DEF Persisted, TypeOK, Labels, network, watch, ghosts
  <2> QED BY <1>1, <1>5, <2>1, <2>2, <2>3
<1> QED BY <1>3, <1>4, <1>5

\* The prepared state comes into force.
LEMMA InstallIs ==
    ASSUME TypeOK, ShapeInv, NEW c \in Callers, pc[c] = "commit", Install(c)
    PROVE  runtime' = prepared[c].next /\ runtime' \in State /\ behind' \in BOOLEAN
<1>1. prepared[c] \in Candidates
  BY DEF ShapeInv, ShapeOf
<1>2. runtime' = prepared[c].next /\ runtime' \in State
  BY <1>1 DEF Install, Candidates
<1>3. behind' \in BOOLEAN
  BY DEF Install
<1> QED BY <1>2, <1>3

\* The mode that is written is one.
LEMMA WrittenIs ==
    ASSUME TypeOK, ShapeInv, NEW c \in Callers
    PROVE  /\ pc[c] = "write" => target[c] \in Modes /\ op[c] = "update"
           /\ pc[c] = "save" => (IF op[c] = "partial" THEN target[c] ELSE disk) \in Modes
BY DEF TypeOK, ShapeInv, ShapeOf, Asked

LEMMA TypesStart == Init => TypeOK /\ ShapeInv
<1> SUFFICES ASSUME Init PROVE TypeOK /\ ShapeInv
  OBVIOUS
<1>1. TypeOK
  <2>1. 0 \in 0..MaxCalls /\ 0 \in 0..MaxChanges /\ 0 \in 0..MaxForeign /\ holder = None
        /\ calls = 0 /\ changes = 0 /\ foreign = 0 /\ runtime = None /\ previous = None /\ monitor = None
    BY Constants DEF Init
  <2>2. initialized = FALSE /\ desync = FALSE /\ unseen = FALSE /\ behind = FALSE
    BY DEF Init
  <2>3. pc \in [Callers -> {"idle"}] /\ op \in [Callers -> {"get"}] /\ phase \in [Callers -> {"repair"}]
    BY DEF Init
  <2>4. target \in [Callers -> {None}] /\ old \in [Callers -> {None}] /\ snapshot \in [Callers -> {None}]
        /\ prepared \in [Callers -> {None}] /\ attempt \in [Callers -> {0}]
    BY DEF Init
  <2>5. system \in SystemRoutes /\ disk \in Modes /\ memory \in Modes /\ saved \subseteq Modes
    BY DEF Init
  <2>6. /\ pc \in [Callers -> {"idle", "lock", "operate", "read", "resolve", "commit", "save", "write"}]
        /\ op \in [Callers -> {"get", "update", "partial", "other"}]
        /\ phase \in [Callers -> {"initialize", "repair", "prepare", "late", "retry"}]
        /\ \A c \in Callers : pc[c] \notin {"idle", "lock"} <=> holder = c
    BY <2>1, <2>3, Constants
  <2>7. /\ target \in [Callers -> Modes \union {None}] /\ old \in [Callers -> Modes \union {None}]
        /\ snapshot \in [Callers -> SystemRoutes \union {None}]
        /\ prepared \in [Callers -> Candidates \union {None}] /\ attempt \in [Callers -> 0..2]
    BY <2>4
  <2> QED BY <2>1, <2>2, <2>5, <2>6, <2>7 DEF TypeOK
<1>2. ShapeInv
  BY DEF Init, ShapeInv, ShapeOf, Preparing
<1> QED BY <1>1, <1>2

LEMMA TypesStep == TypeOK /\ ShapeInv /\ [Next]_vars => TypeOK' /\ ShapeInv'
<1> SUFFICES ASSUME TypeOK, ShapeInv, [Next]_vars PROVE TypeOK' /\ ShapeInv'
  OBVIOUS
<1> USE Constants
<1>1. ASSUME UseClient PROVE TypeOK' /\ ShapeInv'
  <2>1. TypeOK'
    BY <1>1, FollowingIs DEF UseClient, TypeOK, ShapeInv, ShapeOf, Others, Labels, Preparing,
       Early, Asked, network, files, service, caller, watch, ghosts
  <2>2. ShapeInv'
    BY <1>1, FollowingIs DEF UseClient, TypeOK, ShapeInv, ShapeOf, Others, Labels, Preparing,
       Early, Asked, network, files, service, caller, watch, ghosts
  <2> QED BY <2>1, <2>2
<1>2. ASSUME SystemChanges PROVE TypeOK' /\ ShapeInv'
  <2>1. TypeOK'
    BY <1>2 DEF SystemChanges, TypeOK, ShapeInv, ShapeOf, Others, Labels, Preparing, Early,
       Asked, network, files, service, caller, watch, ghosts
  <2>2. ShapeInv'
    BY <1>2 DEF SystemChanges, TypeOK, ShapeInv, ShapeOf, Others, Labels, Preparing, Early,
       Asked, network, files, service, caller, watch, ghosts
  <2> QED BY <2>1, <2>2
<1>3. ASSUME MonitorReads PROVE TypeOK' /\ ShapeInv'
  <2>1. TypeOK'
    BY <1>3 DEF MonitorReads, TypeOK, ShapeInv, ShapeOf, Others, Labels, Preparing, Early, Asked,
       network, files, service, caller, watch, ghosts
  <2>2. ShapeInv'
    BY <1>3 DEF MonitorReads, TypeOK, ShapeInv, ShapeOf, Others, Labels, Preparing, Early, Asked,
       network, files, service, caller, watch, ghosts
  <2> QED BY <2>1, <2>2
<1>4. ASSUME MonitorApplies PROVE TypeOK' /\ ShapeInv'
  <2>1. TypeOK'
    BY <1>4, AfterChangeIs DEF MonitorApplies, TypeOK, ShapeInv, ShapeOf, Others, Labels,
       Preparing, Early, Asked, network, files, service, caller, watch, ghosts
  <2>2. ShapeInv'
    BY <1>4, AfterChangeIs DEF MonitorApplies, TypeOK, ShapeInv, ShapeOf, Others, Labels,
       Preparing, Early, Asked, network, files, service, caller, watch, ghosts
  <2> QED BY <2>1, <2>2
<1>5. ASSUME MonitorFails PROVE TypeOK' /\ ShapeInv'
  <2>1. TypeOK'
    BY <1>5 DEF MonitorFails, TypeOK, ShapeInv, ShapeOf, Others, Labels, Preparing, Early, Asked,
       network, files, service, caller, watch, ghosts
  <2>2. ShapeInv'
    BY <1>5 DEF MonitorFails, TypeOK, ShapeInv, ShapeOf, Others, Labels, Preparing, Early, Asked,
       network, files, service, caller, watch, ghosts
  <2> QED BY <2>1, <2>2
<1>6. ASSUME ForeignWrite PROVE TypeOK' /\ ShapeInv'
  <2>1. TypeOK'
    BY <1>6 DEF ForeignWrite, TypeOK, ShapeInv, ShapeOf, Others, Labels, Preparing, Early, Asked,
       network, files, service, caller, watch, ghosts
  <2>2. ShapeInv'
    BY <1>6 DEF ForeignWrite, TypeOK, ShapeInv, ShapeOf, Others, Labels, Preparing, Early, Asked,
       network, files, service, caller, watch, ghosts
  <2> QED BY <2>1, <2>2
<1>7. ASSUME NEW c \in Callers, Call(c) PROVE TypeOK' /\ ShapeInv'
  <2>1. TypeOK'
    BY <1>7, GotoIs DEF Call, TypeOK, ShapeInv, ShapeOf, Others, Labels, Preparing, Early, Asked,
       network, files, service, caller, watch, ghosts
  <2>2. ShapeInv'
    BY <1>7, GotoIs DEF Call, TypeOK, ShapeInv, ShapeOf, Others, Labels, Preparing, Early, Asked,
       network, files, service, caller, watch, ghosts
  <2> QED BY <2>1, <2>2
<1>8. ASSUME NEW c \in Callers, Initialize(c) PROVE TypeOK' /\ ShapeInv'
  <2>1. TypeOK'
    BY <1>8, GotoIs DEF Initialize, Prepare, TypeOK, ShapeInv, ShapeOf, Others, Labels,
       Preparing, Early, Asked, network, files, service, caller, watch, ghosts
  <2>2. ShapeInv'
    BY <1>8, GotoIs DEF Initialize, Prepare, TypeOK, ShapeInv, ShapeOf, Others, Labels,
       Preparing, Early, Asked, network, files, service, caller, watch, ghosts
  <2> QED BY <2>1, <2>2
<1>9. ASSUME NEW c \in Callers, Lock(c) PROVE TypeOK' /\ ShapeInv'
  <2>1. TypeOK'
    BY <1>9, GotoIs DEF Lock, Prepare, TypeOK, ShapeInv, ShapeOf, Others, Labels, Preparing,
       Early, Asked, network, files, service, caller, watch, ghosts
  <2>2. ShapeInv'
    BY <1>9, GotoIs DEF Lock, Prepare, TypeOK, ShapeInv, ShapeOf, Others, Labels, Preparing,
       Early, Asked, network, files, service, caller, watch, ghosts
  <2> QED BY <2>1, <2>2
<1>10. ASSUME NEW c \in Callers, Operate(c) PROVE TypeOK' /\ ShapeInv'
  <2>1. TypeOK'
    BY <1>10, GotoIs DEF Operate, Prepare, TypeOK, ShapeInv, ShapeOf, Others, Labels, Preparing,
       Early, Asked, network, files, service, caller, watch, ghosts
  <2>2. ShapeInv'
    BY <1>10, GotoIs DEF Operate, Prepare, TypeOK, ShapeInv, ShapeOf, Others, Labels, Preparing,
       Early, Asked, network, files, service, caller, watch, ghosts
  <2> QED BY <2>1, <2>2
<1>11. ASSUME NEW c \in Callers, Get(c) PROVE TypeOK' /\ ShapeInv'
  <2>1. TypeOK'
    BY <1>11, ReturnIs DEF Get, TypeOK, ShapeInv, ShapeOf, Others, Labels, Preparing, Early,
       Asked, network, files, service, caller, watch, ghosts
  <2>2. ShapeInv'
    BY <1>11, ReturnIs DEF Get, TypeOK, ShapeInv, ShapeOf, Others, Labels, Preparing, Early,
       Asked, network, files, service, caller, watch, ghosts
  <2> QED BY <2>1, <2>2
<1>12. ASSUME NEW c \in Callers, ReadSystem(c) PROVE TypeOK' /\ ShapeInv'
  <2>1. TypeOK'
    BY <1>12, GotoIs DEF ReadSystem, TypeOK, ShapeInv, ShapeOf, Others, Labels, Preparing, Early,
       Asked, network, files, service, caller, watch, ghosts
  <2>2. ShapeInv'
    BY <1>12, GotoIs DEF ReadSystem, TypeOK, ShapeInv, ShapeOf, Others, Labels, Preparing, Early,
       Asked, network, files, service, caller, watch, ghosts
  <2> QED BY <2>1, <2>2
<1>13. ASSUME NEW c \in Callers, PrepareFails(c) PROVE TypeOK' /\ ShapeInv'
  <2>1. TypeOK'
    BY <1>13, ReturnIs DEF PrepareFails, TypeOK, ShapeInv, ShapeOf, Others, Labels, Preparing,
       Early, Asked, network, files, service, caller, watch, ghosts
  <2>2. ShapeInv'
    BY <1>13, ReturnIs DEF PrepareFails, TypeOK, ShapeInv, ShapeOf, Others, Labels, Preparing,
       Early, Asked, network, files, service, caller, watch, ghosts
  <2> QED BY <2>1, <2>2
<1>14. ASSUME NEW c \in Callers, PrepareCandidate(c) PROVE TypeOK' /\ ShapeInv'
  <2>1. TypeOK'
    BY <1>14, GotoIs, CandidateIs DEF PrepareCandidate, TypeOK, ShapeInv, ShapeOf, Others,
       Labels, Preparing, Early, Asked, network, files, service, caller, watch, ghosts
  <2>2. ShapeInv'
    BY <1>14, GotoIs, CandidateIs DEF PrepareCandidate, TypeOK, ShapeInv, ShapeOf, Others,
       Labels, Preparing, Early, Asked, network, files, service, caller, watch, ghosts
  <2> QED BY <2>1, <2>2
<1>15. ASSUME NEW c \in Callers, Commit(c) PROVE TypeOK' /\ ShapeInv'
  <2>1. TypeOK'
    <3>1. holder = c
      BY <1>15 DEF Commit, TypeOK
    <3>2. runtime' \in State /\ behind' \in BOOLEAN
      BY <1>15, InstallIs DEF Commit
    <3> QED BY <1>15, <3>1, <3>2, GotoIs DEF Commit, TypeOK, Labels, network, files, watch
  <2>2. ShapeInv'
    BY <1>15, GotoIs DEF Commit, TypeOK, ShapeInv, ShapeOf, Labels, Preparing, Early, Asked
  <2> QED BY <2>1, <2>2
<1>16. ASSUME NEW c \in Callers, CommitChange(c) PROVE TypeOK' /\ ShapeInv'
  <2>1. TypeOK'
    <3>1. holder = c
      BY <1>16 DEF CommitChange, TypeOK
    <3>2. runtime' \in State /\ behind' \in BOOLEAN
      BY <1>16, InstallIs DEF CommitChange
    <3> QED BY <1>16, <3>1, <3>2, ReturnIs DEF CommitChange, TypeOK, Others, Labels, network,
               files, watch
  <2>2. ShapeInv'
    BY <1>16, ReturnIs DEF CommitChange, TypeOK, ShapeInv, ShapeOf, Others, Preparing
  <2> QED BY <2>1, <2>2
<1>17. ASSUME NEW c \in Callers, Conflict(c) PROVE TypeOK' /\ ShapeInv'
  <2>1. TypeOK'
    BY <1>17, ReturnIs, GotoIs DEF Conflict, Again, Prepare, TypeOK, ShapeInv, ShapeOf, Others,
       Labels, Preparing, Early, Asked, network, files, service, caller, watch, ghosts
  <2>2. ShapeInv'
    BY <1>17, ReturnIs, GotoIs DEF Conflict, Again, Prepare, TypeOK, ShapeInv, ShapeOf, Others,
       Labels, Preparing, Early, Asked, network, files, service, caller, watch, ghosts
  <2> QED BY <2>1, <2>2
<1>18. ASSUME NEW c \in Callers, SetMemory(c) PROVE TypeOK' /\ ShapeInv'
  <2>1. TypeOK'
    BY <1>18, GotoIs DEF SetMemory, TypeOK, ShapeInv, ShapeOf, Others, Labels, Preparing, Early,
       Asked, network, files, service, caller, watch, ghosts
  <2>2. ShapeInv'
    BY <1>18, GotoIs DEF SetMemory, TypeOK, ShapeInv, ShapeOf, Others, Labels, Preparing, Early,
       Asked, network, files, service, caller, watch, ghosts
  <2> QED BY <2>1, <2>2
<1>19. ASSUME NEW c \in Callers, WriteUpdate(c) PROVE TypeOK' /\ ShapeInv'
  <2> DEFINE mode == target[c]
  <2>1. mode \in Modes /\ pc[c] = "write" /\ Persisted(c, mode)
    BY <1>19, WrittenIs DEF WriteUpdate
  <2> HIDE DEF mode
  <2>2. TypeOK' /\ Others(c) /\ op' = op
    BY <2>1, PersistedIs
  <2>3. \/ Return(c)
        \/ pc'[c] = "commit" /\ prepared[c] # None /\ target'[c] = mode /\ old'[c] = old[c]
             /\ phase' = phase /\ prepared' = prepared
        \/ pc'[c] = "read" /\ target'[c] = mode /\ old'[c] = old[c] /\ phase'[c] = "late"
    BY <2>1, PersistedIs
  <2>7. op[c] # "get" /\ old[c] \in Modes
    BY <2>1 DEF ShapeInv, ShapeOf
  <2>8. ASSUME Return(c) PROVE ShapeOf(c)'
    <3>1. pc'[c] = "idle"
      BY <2>8, ReturnIs
    <3> QED BY <3>1 DEF ShapeOf, Preparing
  <2>4. ShapeOf(c)'
    BY <2>1, <2>2, <2>3, <2>7, <2>8 DEF ShapeOf, Preparing, Early, Asked, TypeOK
  <2>5. \A d \in Callers \ {c} : ShapeOf(d)'
    BY <2>2 DEF ShapeInv, ShapeOf, Others
  <2>6. ShapeInv'
    BY <2>4, <2>5 DEF ShapeInv
  <2> QED BY <2>2, <2>6
<1>20. ASSUME NEW c \in Callers, WritePartial(c) PROVE TypeOK' /\ ShapeInv'
  <2> DEFINE mode == IF op[c] = "partial" THEN target[c] ELSE disk
  <2>1. mode \in Modes /\ pc[c] = "save" /\ Persisted(c, mode)
    BY <1>20, WrittenIs DEF WritePartial
  <2> HIDE DEF mode
  <2>2. TypeOK' /\ Others(c) /\ op' = op
    BY <2>1, PersistedIs
  <2>3. \/ Return(c)
        \/ pc'[c] = "commit" /\ prepared[c] # None /\ target'[c] = mode /\ old'[c] = old[c]
             /\ phase' = phase /\ prepared' = prepared
        \/ pc'[c] = "read" /\ target'[c] = mode /\ old'[c] = old[c] /\ phase'[c] = "late"
    BY <2>1, PersistedIs
  <2>7. op[c] # "get" /\ old[c] \in Modes
    BY <2>1 DEF ShapeInv, ShapeOf
  <2>8. ASSUME Return(c) PROVE ShapeOf(c)'
    <3>1. pc'[c] = "idle"
      BY <2>8, ReturnIs
    <3> QED BY <3>1 DEF ShapeOf, Preparing
  <2>4. ShapeOf(c)'
    BY <2>1, <2>2, <2>3, <2>7, <2>8 DEF ShapeOf, Preparing, Early, Asked, TypeOK
  <2>5. \A d \in Callers \ {c} : ShapeOf(d)'
    BY <2>2 DEF ShapeInv, ShapeOf, Others
  <2>6. ShapeInv'
    BY <2>4, <2>5 DEF ShapeInv
  <2> QED BY <2>2, <2>6
<1>21. ASSUME NEW c \in Callers, SaveFails(c) PROVE TypeOK' /\ ShapeInv'
  <2>1. TypeOK'
    BY <1>21, ReturnIs DEF SaveFails, TypeOK, ShapeInv, ShapeOf, Others, Labels, Preparing,
       Early, Asked, network, files, service, caller, watch, ghosts
  <2>2. ShapeInv'
    BY <1>21, ReturnIs DEF SaveFails, TypeOK, ShapeInv, ShapeOf, Others, Labels, Preparing,
       Early, Asked, network, files, service, caller, watch, ghosts
  <2> QED BY <2>1, <2>2
<1>22. ASSUME NEW c \in Callers, Cancel(c) PROVE TypeOK' /\ ShapeInv'
  <2>1. TypeOK'
    BY <1>22, ReturnIs DEF Cancel, TypeOK, ShapeInv, ShapeOf, Others, Labels, Preparing, Early,
       Asked, network, files, service, caller, watch, ghosts
  <2>2. ShapeInv'
    BY <1>22, ReturnIs DEF Cancel, TypeOK, ShapeInv, ShapeOf, Others, Labels, Preparing, Early,
       Asked, network, files, service, caller, watch, ghosts
  <2> QED BY <2>1, <2>2
<1>23. CASE UNCHANGED vars
  BY <1>23 DEF vars, TypeOK, ShapeInv, ShapeOf, Others, Labels, Preparing, Early, Asked, network,
     files, service, caller, watch, ghosts
<1> QED BY <1>1, <1>2, <1>3, <1>4, <1>5, <1>6, <1>7, <1>8, <1>9, <1>10, <1>11, <1>12, <1>13,
           <1>14, <1>15, <1>16, <1>17, <1>18, <1>19, <1>20, <1>21, <1>22, <1>23 DEF Next,
           Operation

-----------------------------------------------------------------------------
(* Revisions.                                                                *)

RevisionOf(s) == IF s = None THEN 0 ELSE s.revision

\* A candidate's base is no later than the present revision; if it is the present
\* one, the state is the one it was built from.
RevisionInv ==
    /\ runtime # None => runtime.revision > 0
    /\ \A c \in Callers : prepared[c] # None =>
        /\ prepared[c].base = RevisionOf(prepared[c].seen)
        /\ prepared[c].base <= Revision
        /\ prepared[c].base = Revision => prepared[c].seen = runtime
        /\ prepared[c].next = prepared[c].seen \/ prepared[c].next.revision = prepared[c].base + 1

\* The runtime's state stays, or one with the next revision replaces it.
Advances == runtime' = runtime \/ (runtime' \in State /\ runtime'.revision = Revision + 1)

\* What changes the runtime's state: a first use, the monitor, a commit.
LEMMA RuntimeStays ==
    ASSUME [Next]_vars
    PROVE  \/ runtime' = runtime
           \/ UseClient \/ MonitorApplies
           \/ \E c \in Callers : Commit(c) \/ CommitChange(c)
<1>1. ASSUME NEW c \in Callers,
             \/ Call(c) \/ Initialize(c) \/ Lock(c) \/ Operate(c) \/ Get(c) \/ ReadSystem(c)
             \/ PrepareFails(c) \/ PrepareCandidate(c) \/ Conflict(c)
             \/ SetMemory(c) \/ WriteUpdate(c) \/ WritePartial(c) \/ SaveFails(c) \/ Cancel(c)
      PROVE  runtime' = runtime
  BY <1>1 DEF Call, Initialize, Lock, Operate, Get, ReadSystem, PrepareFails, PrepareCandidate,
     Conflict,
     SetMemory, WriteUpdate, WritePartial, SaveFails, Cancel, Persisted
<1>2. ASSUME SystemChanges \/ MonitorReads \/ MonitorFails \/ ForeignWrite \/ UNCHANGED vars
      PROVE  runtime' = runtime
  BY <1>2 DEF SystemChanges, MonitorReads, MonitorFails, ForeignWrite, vars
<1> QED BY <1>1, <1>2 DEF Next, Operation

LEMMA Advancing ==
    ASSUME TypeOK, ShapeInv, RevisionInv, [Next]_vars
    PROVE  Advances
<1>1. ASSUME NEW c \in Callers, pc[c] = "commit", prepared[c].base = Revision, Install(c)
      PROVE  Advances
  <2>1. prepared[c] \in Candidates /\ prepared[c] # None
    BY <1>1, NoneAssumption DEF ShapeInv, ShapeOf
  <2> QED BY <1>1, <2>1, InstallIs DEF RevisionInv, Advances
<1>2. ASSUME NEW c \in Callers, Commit(c) \/ CommitChange(c)
      PROVE  Advances
  BY <1>1, <1>2 DEF Commit, CommitChange
<1>3. ASSUME UseClient PROVE Advances
  BY <1>3, FollowingIs, Constants DEF UseClient, TypeOK, Advances
<1>4. ASSUME MonitorApplies PROVE Advances
  BY <1>4, AfterChangeIs DEF MonitorApplies, TypeOK, Advances
<1> QED BY <1>2, <1>3, <1>4, RuntimeStays DEF Advances

\* A candidate is made, kept or given up.
LEMMA Candidating ==
    ASSUME TypeOK, ShapeInv, [Next]_vars, NEW c \in Callers
    PROVE  \/ prepared'[c] = prepared[c]
           \/ prepared'[c] = None
           \/ runtime' = runtime /\ prepared'[c] = Candidate(c) /\ pc[c] = "resolve"
<1>1. ASSUME NEW d \in Callers, Get(d) \/ PrepareFails(d) \/ CommitChange(d) \/ SaveFails(d) \/ Cancel(d)
      PROVE  prepared'[c] = prepared[c] \/ prepared'[c] = None
  <2>1. Return(d)
    BY <1>1 DEF Get, PrepareFails, CommitChange, SaveFails, Cancel
  <2> QED BY <2>1, ReturnIs DEF Others
<1>2. ASSUME NEW d \in Callers, Conflict(d)
      PROVE  prepared'[c] = prepared[c] \/ prepared'[c] = None
  <2>1. Return(d) \/ prepared' = prepared
    BY <1>2 DEF Conflict, Again
  <2> QED BY <2>1, ReturnIs DEF Others
<1>3. ASSUME NEW d \in Callers, WriteUpdate(d) \/ WritePartial(d)
      PROVE  prepared'[c] = prepared[c] \/ prepared'[c] = None
  <2>1. Return(d) \/ prepared' = prepared
    BY <1>3 DEF WriteUpdate, WritePartial, Persisted
  <2> QED BY <2>1, ReturnIs DEF Others
<1>4. ASSUME NEW d \in Callers, Commit(d)
      PROVE  prepared'[c] = prepared[c] \/ prepared'[c] = None
  BY <1>4 DEF Commit, TypeOK
<1>5. ASSUME NEW d \in Callers, PrepareCandidate(d)
      PROVE  \/ prepared'[c] = prepared[c]
             \/ runtime' = runtime /\ prepared'[c] = Candidate(c) /\ pc[c] = "resolve"
  BY <1>5 DEF PrepareCandidate, TypeOK
<1>6. ASSUME NEW d \in Callers,
             Call(d) \/ Initialize(d) \/ Lock(d) \/ Operate(d) \/ ReadSystem(d) \/ SetMemory(d)
      PROVE  prepared' = prepared
  BY <1>6 DEF Call, Initialize, Lock, Operate, ReadSystem, SetMemory, caller
<1>7. ASSUME \/ UseClient \/ SystemChanges \/ MonitorReads \/ MonitorApplies \/ MonitorFails
             \/ ForeignWrite \/ UNCHANGED vars
      PROVE  prepared' = prepared
  BY <1>7 DEF UseClient, SystemChanges, MonitorReads, MonitorApplies, MonitorFails, ForeignWrite,
     vars, caller
<1> QED BY <1>1, <1>2, <1>3, <1>4, <1>5, <1>6, <1>7 DEF Next, Operation

LEMMA RevisionStep == TypeOK /\ ShapeInv /\ RevisionInv /\ [Next]_vars => RevisionInv'
<1> SUFFICES ASSUME TypeOK, ShapeInv, RevisionInv, [Next]_vars PROVE RevisionInv'
  OBVIOUS
<1>1. Advances
  BY Advancing
<1>2. Revision \in Nat /\ (Revision' = Revision \/ Revision' = Revision + 1)
      /\ (Revision' = Revision => runtime' = runtime)
  BY <1>1, NoneAssumption DEF Advances, Revision, State, TypeOK
<1>3. runtime' # None => runtime'.revision > 0
  BY <1>1, <1>2 DEF Advances, RevisionInv, TypeOK, State
<1>4. ASSUME NEW c \in Callers, prepared'[c] # None
      PROVE  /\ prepared'[c].base = RevisionOf(prepared'[c].seen)
             /\ prepared'[c].base <= Revision'
             /\ prepared'[c].base = Revision' => prepared'[c].seen = runtime'
             /\ prepared'[c].next = prepared'[c].seen \/ prepared'[c].next.revision = prepared'[c].base + 1
  <2>1. CASE prepared'[c] = prepared[c]
    <3>1. prepared[c] # None /\ prepared[c].base \in Nat
      BY <1>4, <2>1 DEF TypeOK, Candidates
    <3> QED BY <1>2, <2>1, <3>1 DEF RevisionInv
  <2>2. CASE runtime' = runtime /\ prepared'[c] = Candidate(c) /\ pc[c] = "resolve"
    <3>1. target[c] \in Modes /\ snapshot[c] \in SystemRoutes
      BY <2>2 DEF ShapeInv, ShapeOf, Preparing
    <3>2. Revision' = Revision /\ RevisionOf(runtime) = Revision
      BY <2>2 DEF Revision, RevisionOf
    <3> QED BY <1>2, <2>2, <3>1, <3>2, CandidateIs
  <2> QED BY <1>4, <2>1, <2>2, Candidating
<1> QED BY <1>3, <1>4 DEF RevisionInv

\* Types and the manager's mutex, whatever fails, is dropped or changes outside.
THEOREM Typing == Spec => []TypeOK
<1>1. TypeOK /\ ShapeInv => TypeOK
  OBVIOUS
<1> QED BY <1>1, TypesStart, TypesStep, PTL DEF Spec

LEMMA Shapes == Spec => [](TypeOK /\ ShapeInv)
BY TypesStart, TypesStep, PTL DEF Spec

\* A commit replaces only a state that its candidate was built from: what the
\* monitor, a first use or another operation put there since makes it fail
\* (commit_prepared_proxy_update).
THEOREM NothingOverwritten == Spec => NoLostChange
<1>1. Init => RevisionInv
  BY DEF Init, RevisionInv
<1>2. ASSUME TypeOK, ShapeInv, RevisionInv, [Next]_vars, NEW c \in Callers,
             pc[c] = "commit", pc'[c] # "commit", runtime' = prepared[c].next
      PROVE  runtime \in {prepared[c].seen, prepared[c].next}
  <2>1. CASE runtime' = runtime
    BY <1>2, <2>1
  <2>2. CASE UseClient \/ MonitorApplies
    BY <1>2, <2>2 DEF UseClient, MonitorApplies
  <2>3. ASSUME NEW d \in Callers, Commit(d) \/ CommitChange(d)
        PROVE  runtime = prepared[c].seen
    <3>1. pc[d] = "commit" /\ prepared[d].base = Revision
      BY <2>3 DEF Commit, CommitChange
    <3>2. c = d
      BY <1>2, <3>1 DEF TypeOK
    <3>3. prepared[c] # None
      BY <1>2, NoneAssumption DEF ShapeInv, ShapeOf
    <3> QED BY <1>2, <3>1, <3>2, <3>3 DEF RevisionInv
  <2> QED BY <1>2, <2>1, <2>2, <2>3, RuntimeStays
<1>3. TypeOK /\ ShapeInv /\ RevisionInv /\ [Next]_vars
      => [\A c \in Callers :
            pc[c] = "commit" /\ pc'[c] # "commit" /\ runtime' = prepared[c].next
              => runtime \in {prepared[c].seen, prepared[c].next}]_vars
  BY <1>2
<1> QED BY <1>1, <1>3, Shapes, RevisionStep, PTL DEF Spec, NoLostChange

-----------------------------------------------------------------------------
(* Memory, runtime and disk.                                                 *)

InStep == initialized /\ ~desync => runtime.mode = memory

\* What an operation that has the mutex has done to memory and runtime so far.
AgreeOf(c) ==
    /\ pc[c] \in {"idle", "lock", "operate"} => prepared[c] = None
    /\ pc[c] = "operate" /\ ~unseen => InStep
    /\ pc[c] \in Preparing /\ phase[c] # "prepare" => target[c] = memory
    /\ pc[c] = "commit" => target[c] = memory /\ prepared[c].next.mode = target[c]
    /\ pc[c] \in Preparing /\ phase[c] = "initialize" => ~initialized
    /\ pc[c] \in Preparing /\ phase[c] \in {"repair", "retry"} => desync
    /\ pc[c] = "commit" /\ phase[c] # "initialize" => desync
    /\ pc[c] \in {"read", "resolve"} /\ phase[c] = "prepare"
         => op[c] \in Asked /\ old[c] = memory /\ (~unseen => InStep)
    /\ pc[c] = "save" => old[c] = memory /\ (~unseen => InStep)
    /\ pc[c] = "write" => target[c] = memory
    /\ pc[c] = "write" /\ ~unseen /\ initialized /\ ~desync => runtime.mode = old[c]
    /\ pc[c] \in {"save", "write"} /\ prepared[c] # None
         => op[c] \in Asked /\ phase[c] = "prepare" /\ prepared[c].next.mode = target[c]

AgreeInv ==
    /\ initialized => runtime # None
    /\ ~unseen /\ holder = None => InStep
    /\ \A c \in Callers : AgreeOf(c)

\* Only the operation that has the mutex is past it.
LEMMA OthersAgree ==
    ASSUME TypeOK, AgreeInv, NEW c \in Callers, pc[c] \notin {"idle", "lock"}, Others(c)
    PROVE  \A d \in Callers \ {c} : AgreeOf(d)'
<1>1. \A d \in Callers \ {c} : pc[d] \in {"idle", "lock"}
  BY DEF TypeOK
<1>2. \A d \in Callers \ {c} : pc'[d] \in {"idle", "lock"} /\ prepared'[d] = None
  BY <1>1 DEF Others, AgreeInv, AgreeOf
<1> QED BY <1>2 DEF AgreeOf, Preparing

\* A commit makes the runtime work with the mode in memory.
LEMMA CommitAgrees ==
    ASSUME TypeOK, ShapeInv, AgreeInv, NEW c \in Callers, pc[c] = "commit", Install(c), memory' = memory
    PROVE  runtime'.mode = memory' /\ runtime' # None
BY InstallIs, NoneAssumption DEF AgreeInv, AgreeOf

LEMMA AgreeStep == TypeOK /\ ShapeInv /\ AgreeInv /\ [Next]_vars => AgreeInv'
<1> SUFFICES ASSUME TypeOK, ShapeInv, AgreeInv, [Next]_vars PROVE AgreeInv'
  OBVIOUS
<1> USE Constants
<1>1. ASSUME UseClient PROVE AgreeInv'
  BY <1>1, FollowingIs DEF UseClient, AgreeInv, AgreeOf, InStep, TypeOK, ShapeInv, ShapeOf,
     Others, Labels, Preparing, Early, Asked, network, files, service, caller, watch, ghosts
<1>2. ASSUME SystemChanges PROVE AgreeInv'
  BY <1>2 DEF SystemChanges, AgreeInv, AgreeOf, InStep, TypeOK, ShapeInv, ShapeOf, Others,
     Labels, Preparing, Early, Asked, network, files, service, caller, watch, ghosts
<1>3. ASSUME MonitorReads PROVE AgreeInv'
  BY <1>3 DEF MonitorReads, AgreeInv, AgreeOf, InStep, TypeOK, ShapeInv, ShapeOf, Others, Labels,
     Preparing, Early, Asked, network, files, service, caller, watch, ghosts
<1>4. ASSUME MonitorApplies PROVE AgreeInv'
  <2>1. runtime' # None /\ (initialized => runtime'.mode = runtime.mode)
    BY <1>4, AfterChangeIs, NoneAssumption DEF MonitorApplies, AgreeInv, TypeOK
  <2>2. UNCHANGED <<unseen, service, pc, caller>>
    BY <1>4 DEF MonitorApplies
  <2> QED BY <2>1, <2>2 DEF AgreeInv, AgreeOf, InStep, service, caller
<1>5. ASSUME MonitorFails PROVE AgreeInv'
  BY <1>5 DEF MonitorFails, AgreeInv, AgreeOf, InStep, TypeOK, ShapeInv, ShapeOf, Others, Labels,
     Preparing, Early, Asked, network, files, service, caller, watch, ghosts
<1>6. ASSUME ForeignWrite PROVE AgreeInv'
  BY <1>6 DEF ForeignWrite, AgreeInv, AgreeOf, InStep, TypeOK, ShapeInv, ShapeOf, Others, Labels,
     Preparing, Early, Asked, network, files, service, caller, watch, ghosts
<1>7. ASSUME NEW c \in Callers, Call(c) PROVE AgreeInv'
  BY <1>7, GotoIs DEF Call, AgreeInv, AgreeOf, InStep, TypeOK, ShapeInv, ShapeOf, Others, Labels,
     Preparing, Early, Asked, network, files, service, caller, watch, ghosts
<1>8. ASSUME NEW c \in Callers, Initialize(c) PROVE AgreeInv'
  BY <1>8, GotoIs DEF Initialize, Prepare, AgreeInv, AgreeOf, InStep, TypeOK, ShapeInv, ShapeOf,
     Others, Labels, Preparing, Early, Asked, network, files, service, caller, watch, ghosts
<1>9. ASSUME NEW c \in Callers, Lock(c) PROVE AgreeInv'
  BY <1>9, GotoIs DEF Lock, Prepare, AgreeInv, AgreeOf, InStep, TypeOK, ShapeInv, ShapeOf,
     Others, Labels, Preparing, Early, Asked, network, files, service, caller, watch, ghosts
<1>10. ASSUME NEW c \in Callers, Operate(c) PROVE AgreeInv'
  BY <1>10, GotoIs DEF Operate, Prepare, AgreeInv, AgreeOf, InStep, TypeOK, ShapeInv, ShapeOf,
     Others, Labels, Preparing, Early, Asked, network, files, service, caller, watch, ghosts
<1>11. ASSUME NEW c \in Callers, Get(c) PROVE AgreeInv'
  BY <1>11, ReturnIs DEF Get, AgreeInv, AgreeOf, InStep, TypeOK, ShapeInv, ShapeOf, Others,
     Labels, Preparing, Early, Asked, network, files, service, caller, watch, ghosts
<1>12. ASSUME NEW c \in Callers, ReadSystem(c) PROVE AgreeInv'
  BY <1>12, GotoIs DEF ReadSystem, AgreeInv, AgreeOf, InStep, TypeOK, ShapeInv, ShapeOf, Others,
     Labels, Preparing, Early, Asked, network, files, service, caller, watch, ghosts
<1>13. ASSUME NEW c \in Callers, PrepareFails(c) PROVE AgreeInv'
  BY <1>13, ReturnIs DEF PrepareFails, AgreeInv, AgreeOf, InStep, TypeOK, ShapeInv, ShapeOf,
     Others, Labels, Preparing, Early, Asked, network, files, service, caller, watch, ghosts
<1>14. ASSUME NEW c \in Callers, PrepareCandidate(c) PROVE AgreeInv'
  <2>1. target[c] \in Modes /\ snapshot[c] \in SystemRoutes /\ holder = c
    BY <1>14 DEF PrepareCandidate, ShapeInv, ShapeOf, Preparing, TypeOK
  <2>2. prepared'[c].next.mode = target[c]
    BY <1>14, <2>1, CandidateIs DEF PrepareCandidate, TypeOK
  <2>3. /\ pc'[c] = IF phase[c] = "prepare" THEN "save" ELSE "commit"
        /\ desync' = (desync \/ phase[c] = "late")
        /\ UNCHANGED <<op, phase, target, old, memory, holder, initialized, runtime, unseen>>
    BY <1>14, GotoIs DEF PrepareCandidate, Labels, ghosts
  <2>4. Others(c)
    BY <1>14, GotoIs DEF PrepareCandidate, Others, Labels, TypeOK
  <2>5. phase[c] = "prepare" => op[c] \in Asked /\ old[c] = memory
    BY <1>14 DEF PrepareCandidate, AgreeInv, AgreeOf
  <2>6. /\ phase[c] = "late" => desync' = TRUE
        /\ phase[c] # "late" => desync' = desync
    BY <2>3 DEF TypeOK
  <2>7. AgreeOf(c)'
    <3>1. CASE phase[c] = "prepare"
      <4>1. pc'[c] = "save" /\ (~unseen => InStep) /\ desync' = desync
        BY <1>14, <2>3, <2>6, <3>1 DEF PrepareCandidate, AgreeInv, AgreeOf
      <4>2. ~unseen' => InStep'
        BY <2>3, <4>1 DEF InStep
      <4> QED BY <2>2, <2>3, <2>5, <3>1, <4>1, <4>2 DEF AgreeOf, Preparing
    <3>2. CASE phase[c] # "prepare"
      <4>1. pc'[c] = "commit" /\ target[c] = memory /\ phase[c] \in Phases
        BY <1>14, <2>3, <3>2 DEF PrepareCandidate, AgreeInv, AgreeOf, Preparing, TypeOK, Phases
      <4>2. phase[c] = "initialize" => ~initialized
        BY <1>14 DEF PrepareCandidate, AgreeInv, AgreeOf, Preparing
      <4>3. phase[c] # "initialize" => desync' = TRUE
        BY <1>14, <2>6, <3>2, <4>1 DEF PrepareCandidate, AgreeInv, AgreeOf, Preparing, Phases,
           TypeOK
      <4> QED BY <2>2, <2>3, <3>2, <4>1, <4>2, <4>3 DEF AgreeOf, Preparing
    <3> QED BY <3>1, <3>2
  <2> QED BY <1>14, <2>1, <2>3, <2>4, <2>7, OthersAgree DEF PrepareCandidate, AgreeInv
<1>15. ASSUME NEW c \in Callers, Commit(c) PROVE AgreeInv'
  <2>1. runtime'.mode = memory' /\ runtime' # None /\ holder = c
    BY <1>15, CommitAgrees DEF Commit, TypeOK
  <2>2. Others(c) /\ pc'[c] \in {"lock", "operate"} /\ prepared'[c] = None
    BY <1>15, GotoIs DEF Commit, Others, Labels, TypeOK
  <2>3. AgreeOf(c)'
    BY <2>1, <2>2 DEF AgreeOf, InStep, Preparing
  <2>4. \A d \in Callers \ {c} : AgreeOf(d)'
    BY <1>15, <2>2, OthersAgree DEF Commit
  <2> QED BY <2>1, <2>3, <2>4 DEF AgreeInv, InStep
<1>16. ASSUME NEW c \in Callers, CommitChange(c) PROVE AgreeInv'
  <2>1. runtime'.mode = memory' /\ runtime' # None
    BY <1>16, CommitAgrees DEF CommitChange
  <2>2. Others(c) /\ pc'[c] = "idle" /\ prepared'[c] = None
    BY <1>16, ReturnIs DEF CommitChange
  <2>3. AgreeOf(c)'
    BY <2>2 DEF AgreeOf, Preparing
  <2>4. \A d \in Callers \ {c} : AgreeOf(d)'
    BY <1>16, <2>2, OthersAgree DEF CommitChange
  <2> QED BY <2>1, <2>3, <2>4 DEF AgreeInv, InStep
<1>17. ASSUME NEW c \in Callers, Conflict(c) PROVE AgreeInv'
  BY <1>17, ReturnIs, GotoIs DEF Conflict, Again, Prepare, AgreeInv, AgreeOf, InStep, TypeOK,
     ShapeInv, ShapeOf, Others, Labels, Preparing, Early, Asked, network, files, service, caller,
     watch, ghosts
<1>18. ASSUME NEW c \in Callers, SetMemory(c) PROVE AgreeInv'
  BY <1>18, GotoIs DEF SetMemory, AgreeInv, AgreeOf, InStep, TypeOK, ShapeInv, ShapeOf, Others,
     Labels, Preparing, Early, Asked, network, files, service, caller, watch, ghosts
<1>19. ASSUME NEW c \in Callers, WriteUpdate(c) PROVE AgreeInv'
  <2> DEFINE mode == target[c]
  <2>1. mode \in Modes /\ pc[c] = "write" /\ Persisted(c, mode)
    BY <1>19, WrittenIs DEF WriteUpdate
  <2>2. prepared[c] # None => mode = target[c] /\ prepared[c].next.mode = mode /\ phase[c] = "prepare"
    BY <1>19, <2>1 DEF WriteUpdate, AgreeInv, AgreeOf, Asked
  <2> HIDE DEF mode
  <2>3. Others(c) /\ memory' = mode /\ UNCHANGED <<runtime, initialized, unseen>>
    BY <2>1, PersistedIs
  <2>4. holder = c
    BY <2>1 DEF TypeOK
  <2>5. ~unseen /\ initialized /\ ~desync => runtime.mode = old[c]
    BY <2>1 DEF AgreeInv, AgreeOf, InStep
  <2>6. ASSUME mode = old[c], Return(c), desync' = desync
        PROVE  AgreeOf(c)' /\ (~unseen' /\ holder' = None => InStep')
    BY <2>3, <2>5, <2>6, ReturnIs DEF AgreeOf, InStep, Preparing
  <2>7. ASSUME prepared[c] # None, pc'[c] = "commit", desync' = TRUE, target'[c] = mode,
               phase' = phase, prepared' = prepared, holder' = holder
        PROVE  AgreeOf(c)' /\ holder' # None
    BY <2>2, <2>3, <2>4, <2>7 DEF AgreeOf, Preparing
  <2>8. ASSUME pc'[c] = "read", target'[c] = mode, phase'[c] = "late", holder' = holder
        PROVE  AgreeOf(c)' /\ holder' # None
    BY <2>3, <2>4, <2>8 DEF AgreeOf, Preparing
  <2>9. AgreeOf(c)' /\ (~unseen' /\ holder' = None => InStep')
    BY <2>1, <2>6, <2>7, <2>8, PersistedIs
  <2>10. \A d \in Callers \ {c} : AgreeOf(d)'
    BY <2>1, <2>3, OthersAgree
  <2> QED BY <2>3, <2>9, <2>10 DEF AgreeInv
<1>20. ASSUME NEW c \in Callers, WritePartial(c) PROVE AgreeInv'
  <2> DEFINE mode == IF op[c] = "partial" THEN target[c] ELSE disk
  <2>1. mode \in Modes /\ pc[c] = "save" /\ Persisted(c, mode)
    BY <1>20, WrittenIs DEF WritePartial
  <2>2. prepared[c] # None => mode = target[c] /\ prepared[c].next.mode = mode /\ phase[c] = "prepare"
    BY <1>20, <2>1 DEF WritePartial, AgreeInv, AgreeOf, Asked
  <2> HIDE DEF mode
  <2>3. Others(c) /\ memory' = mode /\ UNCHANGED <<runtime, initialized, unseen>>
    BY <2>1, PersistedIs
  <2>4. holder = c
    BY <2>1 DEF TypeOK
  <2>5. ~unseen /\ initialized /\ ~desync => runtime.mode = old[c]
    BY <2>1 DEF AgreeInv, AgreeOf, InStep
  <2>6. ASSUME mode = old[c], Return(c), desync' = desync
        PROVE  AgreeOf(c)' /\ (~unseen' /\ holder' = None => InStep')
    BY <2>3, <2>5, <2>6, ReturnIs DEF AgreeOf, InStep, Preparing
  <2>7. ASSUME prepared[c] # None, pc'[c] = "commit", desync' = TRUE, target'[c] = mode,
               phase' = phase, prepared' = prepared, holder' = holder
        PROVE  AgreeOf(c)' /\ holder' # None
    BY <2>2, <2>3, <2>4, <2>7 DEF AgreeOf, Preparing
  <2>8. ASSUME pc'[c] = "read", target'[c] = mode, phase'[c] = "late", holder' = holder
        PROVE  AgreeOf(c)' /\ holder' # None
    BY <2>3, <2>4, <2>8 DEF AgreeOf, Preparing
  <2>9. AgreeOf(c)' /\ (~unseen' /\ holder' = None => InStep')
    BY <2>1, <2>6, <2>7, <2>8, PersistedIs
  <2>10. \A d \in Callers \ {c} : AgreeOf(d)'
    BY <2>1, <2>3, OthersAgree
  <2> QED BY <2>3, <2>9, <2>10 DEF AgreeInv
<1>21. ASSUME NEW c \in Callers, SaveFails(c) PROVE AgreeInv'
  BY <1>21, ReturnIs DEF SaveFails, AgreeInv, AgreeOf, InStep, TypeOK, ShapeInv, ShapeOf, Others,
     Labels, Preparing, Early, Asked, network, files, service, caller, watch, ghosts
<1>22. ASSUME NEW c \in Callers, Cancel(c) PROVE AgreeInv'
  BY <1>22, ReturnIs DEF Cancel, AgreeInv, AgreeOf, InStep, TypeOK, ShapeInv, ShapeOf, Others,
     Labels, Preparing, Early, Asked, network, files, service, caller, watch, ghosts
<1>23. CASE UNCHANGED vars
  BY <1>23 DEF vars, AgreeInv, AgreeOf, InStep, TypeOK, ShapeInv, ShapeOf, Others, Labels,
     Preparing, Early, Asked, network, files, service, caller, watch, ghosts
<1> QED BY <1>1, <1>2, <1>3, <1>4, <1>5, <1>6, <1>7, <1>8, <1>9, <1>10, <1>11, <1>12, <1>13,
           <1>14, <1>15, <1>16, <1>17, <1>18, <1>19, <1>20, <1>21, <1>22, <1>23 DEF Next,
           Operation


\* While no update is being written the mode in memory was saved, and so was the
\* one in force.
SavedInv == ~unseen =>
    /\ (\A c \in Callers : pc[c] # "write") => memory \in saved
    /\ \A c \in Callers : pc[c] = "write" => old[c] \in saved
    /\ runtime # None => runtime.mode \in saved \union {"adaptive"}

LEMMA SavedStep == TypeOK /\ ShapeInv /\ AgreeInv /\ SavedInv /\ [Next]_vars => SavedInv'
<1> SUFFICES ASSUME TypeOK, ShapeInv, AgreeInv, SavedInv, [Next]_vars PROVE SavedInv'
  OBVIOUS
<1> USE Constants
<1>1. ASSUME UseClient PROVE SavedInv'
  BY <1>1, FollowingIs DEF UseClient, SavedInv, AgreeInv, AgreeOf, TypeOK, ShapeInv, ShapeOf,
     Others, Labels, Preparing, Early, Asked, network, files, service, caller, watch, ghosts
<1>2. ASSUME SystemChanges PROVE SavedInv'
  BY <1>2 DEF SystemChanges, SavedInv, AgreeInv, AgreeOf, TypeOK, ShapeInv, ShapeOf, Others,
     Labels, Preparing, Early, Asked, network, files, service, caller, watch, ghosts
<1>3. ASSUME MonitorReads PROVE SavedInv'
  BY <1>3 DEF MonitorReads, SavedInv, AgreeInv, AgreeOf, TypeOK, ShapeInv, ShapeOf, Others,
     Labels, Preparing, Early, Asked, network, files, service, caller, watch, ghosts
<1>4. ASSUME MonitorApplies PROVE SavedInv'
  BY <1>4, AfterChangeIs DEF MonitorApplies, SavedInv, AgreeInv, AgreeOf, TypeOK, ShapeInv,
     ShapeOf, Others, Labels, Preparing, Early, Asked, network, files, service, caller, watch,
     ghosts
<1>5. ASSUME MonitorFails PROVE SavedInv'
  BY <1>5 DEF MonitorFails, SavedInv, AgreeInv, AgreeOf, TypeOK, ShapeInv, ShapeOf, Others,
     Labels, Preparing, Early, Asked, network, files, service, caller, watch, ghosts
<1>6. ASSUME ForeignWrite PROVE SavedInv'
  BY <1>6 DEF ForeignWrite, SavedInv, AgreeInv, AgreeOf, TypeOK, ShapeInv, ShapeOf, Others,
     Labels, Preparing, Early, Asked, network, files, service, caller, watch, ghosts
<1>7. ASSUME NEW c \in Callers, Call(c) PROVE SavedInv'
  BY <1>7, GotoIs DEF Call, SavedInv, AgreeInv, AgreeOf, TypeOK, ShapeInv, ShapeOf, Others,
     Labels, Preparing, Early, Asked, network, files, service, caller, watch, ghosts
<1>8. ASSUME NEW c \in Callers, Initialize(c) PROVE SavedInv'
  BY <1>8, GotoIs DEF Initialize, Prepare, SavedInv, AgreeInv, AgreeOf, TypeOK, ShapeInv,
     ShapeOf, Others, Labels, Preparing, Early, Asked, network, files, service, caller, watch,
     ghosts
<1>9. ASSUME NEW c \in Callers, Lock(c) PROVE SavedInv'
  BY <1>9, GotoIs DEF Lock, Prepare, SavedInv, AgreeInv, AgreeOf, TypeOK, ShapeInv, ShapeOf,
     Others, Labels, Preparing, Early, Asked, network, files, service, caller, watch, ghosts
<1>10. ASSUME NEW c \in Callers, Operate(c) PROVE SavedInv'
  BY <1>10, GotoIs DEF Operate, Prepare, SavedInv, AgreeInv, AgreeOf, TypeOK, ShapeInv, ShapeOf,
     Others, Labels, Preparing, Early, Asked, network, files, service, caller, watch, ghosts
<1>11. ASSUME NEW c \in Callers, Get(c) PROVE SavedInv'
  BY <1>11, ReturnIs DEF Get, SavedInv, AgreeInv, AgreeOf, TypeOK, ShapeInv, ShapeOf, Others,
     Labels, Preparing, Early, Asked, network, files, service, caller, watch, ghosts
<1>12. ASSUME NEW c \in Callers, ReadSystem(c) PROVE SavedInv'
  BY <1>12, GotoIs DEF ReadSystem, SavedInv, AgreeInv, AgreeOf, TypeOK, ShapeInv, ShapeOf,
     Others, Labels, Preparing, Early, Asked, network, files, service, caller, watch, ghosts
<1>13. ASSUME NEW c \in Callers, PrepareFails(c) PROVE SavedInv'
  BY <1>13, ReturnIs DEF PrepareFails, SavedInv, AgreeInv, AgreeOf, TypeOK, ShapeInv, ShapeOf,
     Others, Labels, Preparing, Early, Asked, network, files, service, caller, watch, ghosts
<1>14. ASSUME NEW c \in Callers, PrepareCandidate(c) PROVE SavedInv'
  BY <1>14, GotoIs, CandidateIs DEF PrepareCandidate, SavedInv, AgreeInv, AgreeOf, TypeOK,
     ShapeInv, ShapeOf, Others, Labels, Preparing, Early, Asked, network, files, service, caller,
     watch, ghosts
<1>15. ASSUME NEW c \in Callers, Commit(c) PROVE SavedInv'
  BY <1>15, GotoIs DEF Commit, Install, SavedInv, AgreeInv, AgreeOf, TypeOK, ShapeInv, ShapeOf,
     Others, Labels, Preparing, Early, Asked, network, files, service, caller, watch, ghosts
<1>16. ASSUME NEW c \in Callers, CommitChange(c) PROVE SavedInv'
  BY <1>16, ReturnIs DEF CommitChange, Install, SavedInv, AgreeInv, AgreeOf, TypeOK, ShapeInv,
     ShapeOf, Others, Labels, Preparing, Early, Asked, network, files, service, caller, watch,
     ghosts
<1>17. ASSUME NEW c \in Callers, Conflict(c) PROVE SavedInv'
  BY <1>17, ReturnIs, GotoIs DEF Conflict, Again, Prepare, SavedInv, AgreeInv, AgreeOf, TypeOK,
     ShapeInv, ShapeOf, Others, Labels, Preparing, Early, Asked, network, files, service, caller,
     watch, ghosts
<1>18. ASSUME NEW c \in Callers, SetMemory(c) PROVE SavedInv'
  BY <1>18, GotoIs DEF SetMemory, SavedInv, AgreeInv, AgreeOf, TypeOK, ShapeInv, ShapeOf, Others,
     Labels, Preparing, Early, Asked, network, files, service, caller, watch, ghosts
<1>19. ASSUME NEW c \in Callers, WriteUpdate(c) PROVE SavedInv'
  BY <1>19, ReturnIs, GotoIs DEF WriteUpdate, Persisted, Prepare, SavedInv, AgreeInv, AgreeOf,
     TypeOK, ShapeInv, ShapeOf, Others, Labels, Preparing, Early, Asked, network, files, service,
     caller, watch, ghosts
<1>20. ASSUME NEW c \in Callers, WritePartial(c) PROVE SavedInv'
  BY <1>20, ReturnIs, GotoIs DEF WritePartial, Persisted, Prepare, SavedInv, AgreeInv, AgreeOf,
     TypeOK, ShapeInv, ShapeOf, Others, Labels, Preparing, Early, Asked, network, files, service,
     caller, watch, ghosts
<1>21. ASSUME NEW c \in Callers, SaveFails(c) PROVE SavedInv'
  BY <1>21, ReturnIs DEF SaveFails, SavedInv, AgreeInv, AgreeOf, TypeOK, ShapeInv, ShapeOf,
     Others, Labels, Preparing, Early, Asked, network, files, service, caller, watch, ghosts
<1>22. ASSUME NEW c \in Callers, Cancel(c) PROVE SavedInv'
  <2> SUFFICES ASSUME ~unseen' PROVE SavedInv'
    BY DEF SavedInv
  <2>1. ~unseen /\ (pc[c] = "write" => target[c] = old[c]) /\ saved \subseteq saved'
        /\ UNCHANGED <<memory, runtime>>
    BY <1>22 DEF Cancel, files
  <2>2. Others(c) /\ pc'[c] = "idle"
    BY <1>22, ReturnIs DEF Cancel
  <2>3. pc[c] = "write" => memory \in saved
    BY <2>1 DEF SavedInv, AgreeInv, AgreeOf
  <2>4. (\A d \in Callers : pc'[d] # "write") => memory' \in saved'
    BY <2>1, <2>2, <2>3 DEF SavedInv, Others
  <2>5. ASSUME NEW d \in Callers, pc'[d] = "write" PROVE old'[d] \in saved'
    BY <2>1, <2>2, <2>5 DEF SavedInv, Others
  <2> QED BY <2>1, <2>4, <2>5 DEF SavedInv
<1>23. CASE UNCHANGED vars
  BY <1>23 DEF vars, SavedInv, AgreeInv, AgreeOf, TypeOK, ShapeInv, ShapeOf, Others, Labels,
     Preparing, Early, Asked, network, files, service, caller, watch, ghosts
<1> QED BY <1>1, <1>2, <1>3, <1>4, <1>5, <1>6, <1>7, <1>8, <1>9, <1>10, <1>11, <1>12, <1>13,
           <1>14, <1>15, <1>16, <1>17, <1>18, <1>19, <1>20, <1>21, <1>22, <1>23 DEF Next,
           Operation

\* Whenever nobody is at work the runtime has the mode that is in memory, and no
\* mode comes into force before it was saved, unless the service has noted that
\* the runtime is behind or an error after the save went by unseen (CoreSettingsService:
\* prepare before saving, commit after it, repair before the next operation).
THEOREM InAgreement == Spec => []SettingsAgree
<1>1. Init => AgreeInv /\ SavedInv
  <2>1. Init => AgreeInv
    BY DEF Init, AgreeInv, AgreeOf, InStep, Preparing
  <2>2. Init => SavedInv
    BY DEF Init, SavedInv
  <2> QED BY <2>1, <2>2
<1>2. AgreeInv /\ SavedInv => SettingsAgree
  BY DEF AgreeInv, InStep, SavedInv, SettingsAgree, InForce, SavedBeforeInForce
<1> QED BY <1>1, <1>2, Shapes, AgreeStep, SavedStep, PTL DEF Spec
=============================================================================
