-------------------------- MODULE ConfigLocksProofs --------------------------
(***************************************************************************)
(* Proofs about ConfigLocks, for any number of processes and tasks and     *)
(* however often processes die.  First: the lock file excludes as long as  *)
(* no lock file was removed that had taken the place of the stale one.     *)
(* Then: what is written under the lock was worked out from what the file  *)
(* still holds, and nobody updates a file of the old format unless a load  *)
(* overlooked it, so the file implements the cell ConfigCell up to the     *)
(* first accident.  Last: types and the lock of each process.              *)
(***************************************************************************)
EXTENDS ConfigLocks, TLAPS

Blocking == {"create", "remove", "again", "write"}
Labels == {"idle", "guard", "aside", "create", "remove", "again", "read", "write", "unlock"}
Lock == [by : Tasks \cup {None}, life : Nat]

\* The types of what the lock is made of.
Types ==
    /\ lockfile \in Lock /\ (lockfile # NoLock => lockfile.by \in Tasks)
    /\ life \in [Processes -> Nat]
    /\ pc \in [Tasks -> Labels]
    /\ judged \in [Tasks -> Lock]
    /\ dropped \in [Tasks -> BOOLEAN]
    /\ robbed \in BOOLEAN

\* A future that was dropped left a closure on a blocking thread.
DroppedBlocks == \A t \in Tasks : dropped[t] => pc[t] \in Blocking

\* What was judged to be stale is the lock file of a life that is over.
JudgedIsDead == \A t \in Tasks : judged[t] # NoLock => judged[t].by \in Tasks /\ Dead(judged[t])

\* Who is under the lock is the one the lock file names, in its present life.
InsideOwns == ~robbed => \A t \in Tasks : Inside(t) => lockfile = Mine(t)

IInv == Types /\ DroppedBlocks /\ JudgedIsDead /\ InsideOwns

\* The inductive invariant gives the exclusion: one lock file, one name.
LEMMA Excludes == IInv => InsideAlone
<1> SUFFICES ASSUME IInv, ~robbed, NEW s \in Tasks, NEW t \in Tasks, Inside(s), Inside(t)
             PROVE  s = t
  BY DEF InsideAlone
<1>1. lockfile = Mine(s) /\ lockfile = Mine(t)
  BY DEF IInv, InsideOwns
<1>2. Mine(s).by = s /\ Mine(t).by = t
  BY DEF Mine
<1> QED
  BY <1>1, <1>2

LEMMA InitHolds == Init => IInv
<1> SUFFICES ASSUME Init PROVE IInv
  OBVIOUS
<1>1. Types
  <2>1. NoLock \in Lock
    BY DEF NoLock, Lock
  <2>2. "idle" \in Labels
    BY DEF Labels
  <2>3. lockfile = NoLock /\ robbed = FALSE /\ life = [p \in Processes |-> 0]
    BY DEF Init
  <2>4. pc = [t \in Tasks |-> "idle"] /\ judged = [t \in Tasks |-> NoLock] /\ dropped = [t \in Tasks |-> FALSE]
    BY DEF Init
  <2> QED
    BY <2>1, <2>2, <2>3, <2>4 DEF Types
<1>2. DroppedBlocks /\ JudgedIsDead
  BY DEF Init, DroppedBlocks, JudgedIsDead
<1>3. InsideOwns
  BY DEF Init, InsideOwns, Inside
<1> QED
  BY <1>1, <1>2, <1>3 DEF IInv

\* A task's own lock is never the absence of one.
LEMMA MineIsALock ==
    ASSUME NEW t \in Tasks, Types
    PROVE  Mine(t) \in Lock /\ Mine(t) # NoLock /\ Mine(t).by = t
  BY ConfigAssumption DEF Mine, NoLock, Lock, Types

\* While somebody owns the lock file, nobody else is under the lock.
LEMMA OthersOut ==
    ASSUME IInv, ~robbed, NEW t \in Tasks, Inside(t), NEW s \in Tasks, s # t
    PROVE  ~Inside(s)
  BY Excludes DEF InsideAlone

\* A lock file that was judged to be stale is nobody's who is under the lock.
LEMMA DeadIsNotMine ==
    ASSUME Types, NEW t \in Tasks, NEW l, l = Mine(t)
    PROVE  ~Dead(l)
  BY ConfigAssumption DEF Mine, Dead, Types

\* What does not touch the lock file keeps the invariant if nobody gets under
\* the lock.
LEMMA Keeps ==
    ASSUME IInv, lockfile' = lockfile, life' = life, robbed' = robbed, judged' \in [Tasks -> Lock],
           \A t \in Tasks : judged'[t] \in {judged[t], NoLock},
           pc' \in [Tasks -> Labels], dropped' \in [Tasks -> BOOLEAN],
           \A t \in Tasks : dropped'[t] => pc'[t] \in Blocking,
           \A t \in Tasks : Inside(t)' => Inside(t)
    PROVE  IInv'
<1>1. Types'
  BY DEF IInv, Types
<1>2. DroppedBlocks'
  BY DEF DroppedBlocks
<1>3. JudgedIsDead'
  BY DEF IInv, JudgedIsDead, Dead, NoLock
<1>4. InsideOwns'
  BY DEF IInv, InsideOwns, Mine
<1> QED
  BY <1>1, <1>2, <1>3, <1>4 DEF IInv

\* What takes the lock file away keeps the invariant if nobody stays under
\* the lock.
LEMMA Frees ==
    ASSUME IInv, lockfile' = NoLock, life' = life, robbed' \in BOOLEAN,
           judged' \in [Tasks -> Lock],
           \A t \in Tasks : judged'[t] \in {judged[t], NoLock},
           pc' \in [Tasks -> Labels], dropped' \in [Tasks -> BOOLEAN],
           \A t \in Tasks : dropped'[t] => pc'[t] \in Blocking,
           ~robbed' => \A t \in Tasks : ~Inside(t)'
    PROVE  IInv'
<1>1. NoLock \in Lock
  BY DEF NoLock, Lock
<1>2. Types'
  BY <1>1 DEF IInv, Types
<1>3. DroppedBlocks'
  BY DEF DroppedBlocks
<1>4. JudgedIsDead'
  BY DEF IInv, JudgedIsDead, Dead, NoLock
<1>5. InsideOwns'
  BY DEF InsideOwns
<1> QED
  BY <1>2, <1>3, <1>4, <1>5 DEF IInv

\* The end of an operation, for the fields of a task.
LEMMA FinishDoes ==
    ASSUME IInv, NEW t \in Tasks, Finish(t)
    PROVE  /\ judged' \in [Tasks -> Lock] /\ pc' \in [Tasks -> Labels]
           /\ dropped' \in [Tasks -> BOOLEAN]
           /\ \A s \in Tasks : judged'[s] \in {judged[s], NoLock}
           /\ \A s \in Tasks : dropped'[s] => pc'[s] \in Blocking
           /\ ~Inside(t)'
           /\ \A s \in Tasks : s # t => (Inside(s)' <=> Inside(s))
<1>1. NoLock \in Lock
  BY DEF NoLock, Lock
<1>2. "idle" \in Labels
  BY DEF Labels
<1>3. /\ pc' = [pc EXCEPT ![t] = "idle"] /\ judged' = [judged EXCEPT ![t] = NoLock]
      /\ dropped' = [dropped EXCEPT ![t] = FALSE]
  BY DEF Finish
<1> QED
  BY <1>1, <1>2, <1>3 DEF IInv, Types, DroppedBlocks, Inside

\* A task goes from one label to another; nothing else of it changes.
LEMMA GotoDoes ==
    ASSUME IInv, NEW t \in Tasks, NEW label \in Labels, ~dropped[t],
           pc' = [pc EXCEPT ![t] = label], UNCHANGED <<judged, dropped>>
    PROVE  /\ judged' \in [Tasks -> Lock] /\ pc' \in [Tasks -> Labels]
           /\ dropped' \in [Tasks -> BOOLEAN]
           /\ \A s \in Tasks : judged'[s] \in {judged[s], NoLock}
           /\ \A s \in Tasks : dropped'[s] => pc'[s] \in Blocking
           /\ Inside(t)' <=> label \in {"read", "write", "unlock"}
           /\ \A s \in Tasks : s # t => (Inside(s)' <=> Inside(s))
  BY DEF IInv, Types, DroppedBlocks, Inside

\* Of a task that is not on a blocking thread the future is still there.
LEMMA NotDropped ==
    ASSUME IInv, NEW t \in Tasks, pc[t] \notin Blocking
    PROVE  ~dropped[t]
  BY DEF IInv, DroppedBlocks, Types

LEMMA GuardKeeps == ASSUME IInv, NEW t \in Tasks, Guard(t) PROVE IInv'
<1>1. ~dropped[t]
  BY NotDropped DEF Guard, At, Blocking
<1>2. pc[t] = "guard" /\ pc' = [pc EXCEPT ![t] = "create"]
      /\ UNCHANGED <<lockfile, life, robbed, judged, dropped>>
  BY DEF Guard, At, Goto, disk, procs, ghosts
<1>3. "create" \in Labels \ {"read", "write", "unlock"}
  BY DEF Labels
<1>4. \A s \in Tasks : Inside(s)' => Inside(s)
  BY <1>1, <1>2, <1>3, GotoDoes
<1> QED
  BY <1>1, <1>2, <1>3, <1>4, GotoDoes, Keeps

LEMMA CreateKeeps ==
    ASSUME IInv, NEW t \in Tasks, NEW label \in {"create", "again"}, Create(t, label)
    PROVE  IInv'
<1>1. lockfile = NoLock /\ life' = life /\ robbed' = robbed /\ pc[t] = label
  BY DEF Create, At, procs, ghosts
<1>2. CASE lockfile' = lockfile
  <2>1. Finish(t)
    BY <1>1, <1>2, MineIsALock DEF Create, IInv
  <2> QED
    BY <1>1, <1>2, <2>1, FinishDoes, Keeps
<1>3. CASE lockfile' = Mine(t)
  <2>1. \/ Finish(t)
        \/ /\ ~dropped[t] /\ judged' = judged /\ dropped' = dropped
           /\ pc' = [pc EXCEPT ![t] = "read"]
    BY DEF Create, Goto
  <2>2. /\ judged' \in [Tasks -> Lock] /\ pc' \in [Tasks -> Labels]
        /\ dropped' \in [Tasks -> BOOLEAN]
        /\ \A s \in Tasks : judged'[s] \in {judged[s], NoLock}
        /\ \A s \in Tasks : dropped'[s] => pc'[s] \in Blocking
        /\ \A s \in Tasks : s # t => (Inside(s)' <=> Inside(s))
    <3>1. CASE Finish(t)
      BY <3>1, FinishDoes
    <3>2. CASE /\ ~dropped[t] /\ judged' = judged /\ dropped' = dropped
               /\ pc' = [pc EXCEPT ![t] = "read"]
      BY <3>2, GotoDoes DEF Labels
    <3> QED
      BY <2>1, <3>1, <3>2
  <2>3. ASSUME ~robbed, NEW s \in Tasks PROVE ~Inside(s)
    BY <1>1, <2>3, MineIsALock DEF IInv, InsideOwns
  <2>4. Types'
    <3>1. Mine(t) \in Lock /\ Mine(t).by \in Tasks
      BY MineIsALock DEF IInv
    <3> QED
      BY <1>1, <1>3, <2>2, <3>1 DEF IInv, Types
  <2>5. DroppedBlocks'
    BY <2>2 DEF DroppedBlocks
  <2>6. JudgedIsDead'
    BY <1>1, <2>2 DEF IInv, JudgedIsDead, Dead, NoLock
  <2>7. InsideOwns'
    <3>1. Mine(t)' = Mine(t)
      BY <1>1 DEF Mine
    <3> QED
      BY <1>1, <1>3, <2>2, <2>3, <3>1 DEF InsideOwns
  <2> QED
    BY <2>4, <2>5, <2>6, <2>7 DEF IInv
<1> QED
  BY <1>1, <1>2, <1>3 DEF Create

LEMMA ExistsKeeps == ASSUME IInv, NEW t \in Tasks, Exists(t) PROVE IInv'
<1>1. /\ lockfile # NoLock /\ Dead(lockfile) /\ pc[t] = "create"
      /\ judged' = [judged EXCEPT ![t] = lockfile] /\ pc' = [pc EXCEPT ![t] = "remove"]
      /\ UNCHANGED <<lockfile, life, robbed, dropped>>
  BY DEF Exists, At, disk, procs, ghosts
<1>2. Types'
  <2>1. "remove" \in Labels
    BY DEF Labels
  <2> QED
    BY <1>1, <2>1 DEF IInv, Types
<1>3. DroppedBlocks'
  BY <1>1 DEF IInv, Types, DroppedBlocks, Blocking
<1>4. JudgedIsDead'
  <2>1. lockfile.by \in Tasks
    BY <1>1 DEF IInv, Types
  <2>2. \A s \in Tasks : judged'[s] = IF s = t THEN lockfile ELSE judged[s]
    BY <1>1 DEF IInv, Types
  <2> QED
    BY <1>1, <2>1, <2>2 DEF IInv, JudgedIsDead, Dead, NoLock
<1>5. InsideOwns'
  <2>1. ASSUME NEW s \in Tasks, Inside(s)' PROVE Inside(s)
    BY <1>1, <2>1 DEF IInv, Types, Inside
  <2> QED
    BY <1>1, <2>1 DEF IInv, InsideOwns, Mine
<1> QED
  BY <1>2, <1>3, <1>4, <1>5 DEF IInv

LEMMA RemoveKeeps == ASSUME IInv, NEW t \in Tasks, Remove(t) PROVE IInv'
<1>1. /\ pc[t] = "remove" /\ lockfile' = NoLock /\ life' = life /\ dropped' = dropped
      /\ robbed' = (robbed \/ lockfile \notin {NoLock, judged[t]})
      /\ pc' = [pc EXCEPT ![t] = "again"] /\ judged' = [judged EXCEPT ![t] = NoLock]
  BY DEF Remove, At, procs
<1>2. NoLock \in Lock
  BY DEF NoLock, Lock
<1>3. /\ judged' \in [Tasks -> Lock] /\ pc' \in [Tasks -> Labels]
      /\ \A s \in Tasks : judged'[s] \in {judged[s], NoLock}
      /\ \A s \in Tasks : dropped'[s] => pc'[s] \in Blocking
  <2>1. "again" \in Labels /\ "again" \in Blocking
    BY DEF Labels, Blocking
  <2> QED
    BY <1>1, <1>2, <2>1 DEF IInv, Types, DroppedBlocks
<1>4. ASSUME ~robbed', NEW s \in Tasks PROVE ~Inside(s)'
  <2>1. SUFFICES ASSUME Inside(s) PROVE FALSE
    BY <1>1 DEF IInv, Types, Inside
  <2>2. ~robbed /\ lockfile \in {NoLock, judged[t]}
    BY <1>1, <1>4
  <2>3. lockfile = Mine(s) /\ lockfile # NoLock
    BY <2>1, <2>2, MineIsALock DEF IInv, InsideOwns
  <2>4. Dead(lockfile)
    BY <2>2, <2>3 DEF IInv, JudgedIsDead
  <2> QED
    BY <2>3, <2>4, DeadIsNotMine DEF IInv
<1>5. robbed' \in BOOLEAN /\ dropped' \in [Tasks -> BOOLEAN]
  BY <1>1 DEF IInv, Types
<1> QED
  BY <1>1, <1>3, <1>4, <1>5, Frees

LEMMA LockedKeepsIt == ASSUME IInv, NEW t \in Tasks, Locked(t) PROVE IInv'
<1>1. Finish(t) /\ lockfile' = lockfile /\ life' = life /\ robbed' = robbed
  BY DEF Locked, disk, procs, ghosts
<1> QED
  BY <1>1, FinishDoes, Keeps

LEMMA ReadKeeps == ASSUME IInv, NEW t \in Tasks, Read(t) PROVE IInv'
<1>1. ~dropped[t]
  BY NotDropped DEF Read, At, Blocking
<1>2. /\ pc[t] = "read" /\ UNCHANGED <<lockfile, life, robbed, judged, dropped>>
      /\ \/ pc' = [pc EXCEPT ![t] = "unlock"]
         \/ pc' = [pc EXCEPT ![t] = "write"]
  BY DEF Read, At, disk, procs, ghosts
<1>3. Inside(t)
  BY <1>1, <1>2 DEF Inside
<1> QED
  <2>1. CASE pc' = [pc EXCEPT ![t] = "unlock"]
    BY <1>1, <1>2, <1>3, <2>1, GotoDoes, Keeps DEF Labels
  <2>2. CASE pc' = [pc EXCEPT ![t] = "write"]
    BY <1>1, <1>2, <1>3, <2>2, GotoDoes, Keeps DEF Labels
  <2> QED
    BY <1>2, <2>1, <2>2

LEMMA TakeForAbsentKeeps == ASSUME IInv, NEW t \in Tasks, TakeForAbsent(t) PROVE IInv'
<1>1. ~dropped[t]
  BY NotDropped DEF TakeForAbsent, At, Blocking
<1>2. /\ pc[t] = "read" /\ UNCHANGED <<lockfile, life, robbed, judged, dropped>>
      /\ pc' = [pc EXCEPT ![t] = "write"]
  BY DEF TakeForAbsent, At, disk, procs
<1>3. Inside(t)
  BY <1>1, <1>2 DEF Inside
<1> QED
  BY <1>1, <1>2, <1>3, GotoDoes, Keeps DEF Labels

LEMMA WriteKeeps == ASSUME IInv, NEW t \in Tasks, Write(t) PROVE IInv'
<1>1. pc[t] = "write" /\ UNCHANGED <<lockfile, life, robbed>>
  BY DEF Write, At, procs
<1>2. CASE dropped[t]
  BY <1>1, <1>2, FinishDoes, Keeps DEF Write
<1>3. CASE ~dropped[t]
  <2>1. pc' = [pc EXCEPT ![t] = "unlock"] /\ UNCHANGED <<judged, dropped>>
    BY <1>3 DEF Write
  <2>2. Inside(t)
    BY <1>1, <1>3 DEF Inside
  <2> QED
    BY <1>1, <1>3, <2>1, <2>2, GotoDoes, Keeps DEF Labels
<1> QED
  BY <1>2, <1>3

LEMMA UnlockKeeps == ASSUME IInv, NEW t \in Tasks, Unlock(t) PROVE IInv'
<1>1. ~dropped[t] /\ pc[t] = "unlock"
  BY NotDropped DEF Unlock, At, Blocking
<1>2. lockfile' \in {NoLock, lockfile} /\ life' = life /\ robbed' = robbed
  BY DEF Unlock, Release
<1>3. \/ Finish(t)
      \/ /\ \E label \in {"guard", "aside"} : pc' = [pc EXCEPT ![t] = label]
         /\ UNCHANGED <<judged, dropped>>
  BY DEF Unlock, Enter, Goto
<1> DEFINE Leaves ==
      /\ judged' \in [Tasks -> Lock] /\ pc' \in [Tasks -> Labels]
      /\ dropped' \in [Tasks -> BOOLEAN]
      /\ \A s \in Tasks : judged'[s] \in {judged[s], NoLock}
      /\ \A s \in Tasks : dropped'[s] => pc'[s] \in Blocking
      /\ ~Inside(t)' /\ \A s \in Tasks : s # t => (Inside(s)' <=> Inside(s))
<1>4. Leaves
  <2>1. CASE Finish(t)
    BY <2>1, FinishDoes
  <2>2. ASSUME NEW label \in {"guard", "aside"}, pc' = [pc EXCEPT ![t] = label],
               UNCHANGED <<judged, dropped>>
        PROVE  Leaves
    BY <1>1, <2>2, GotoDoes DEF Labels
  <2> QED
    BY <1>3, <2>1, <2>2
<1>5. Inside(t)
  BY <1>1 DEF Inside
<1>6. ~robbed' => \A s \in Tasks : ~Inside(s)'
  BY <1>2, <1>4, <1>5, OthersOut
<1>7. robbed' \in BOOLEAN
  BY <1>2 DEF IInv, Types
<1>8. CASE lockfile' = NoLock
  BY <1>2, <1>4, <1>6, <1>7, <1>8, Frees
<1>9. CASE lockfile' = lockfile
  <2>1. \A s \in Tasks : Inside(s)' => Inside(s)
    BY <1>4
  <2> QED
    BY <1>2, <1>4, <1>9, <2>1, Keeps
<1> QED
  BY <1>2, <1>8, <1>9

\* The steps that begin or end an operation outside the lock.
LEMMA OutsideKeeps ==
    ASSUME IInv, NEW t \in Tasks, BeginUpdate(t) \/ BeginLoad(t) \/ PutAside(t)
    PROVE  IInv'
<1>1. ~dropped[t]
  BY NotDropped DEF BeginUpdate, BeginLoad, PutAside, At, Blocking
<1>2. UNCHANGED <<lockfile, life, robbed>>
  BY DEF BeginUpdate, BeginLoad, PutAside, disk, procs, ghosts
<1>3. \/ Finish(t)
      \/ pc' = [pc EXCEPT ![t] = "guard"] /\ UNCHANGED <<judged, dropped>>
  BY DEF BeginUpdate, BeginLoad, PutAside, Enter
<1> QED
  <2>1. CASE Finish(t)
    BY <1>2, <2>1, FinishDoes, Keeps
  <2>2. CASE pc' = [pc EXCEPT ![t] = "guard"] /\ UNCHANGED <<judged, dropped>>
    <3>1. "guard" \in Labels \ {"read", "write", "unlock"}
      BY DEF Labels
    <3>2. \A s \in Tasks : Inside(s)' => Inside(s)
      BY <1>1, <2>2, <3>1, GotoDoes
    <3> QED
      BY <1>1, <1>2, <2>2, <3>1, <3>2, GotoDoes, Keeps
  <2> QED
    BY <1>3, <2>1, <2>2

LEMMA AbandonKeeps == ASSUME IInv, NEW t \in Tasks, Abandon(t) PROVE IInv'
<1>1. ~dropped[t] /\ UNCHANGED <<life, robbed>>
      /\ lockfile' \in {NoLock, lockfile} /\ (~Inside(t) => lockfile' = lockfile)
  BY DEF Abandon, GiveBack, procs, ghosts, Release
<1>2. /\ judged' \in [Tasks -> Lock] /\ pc' \in [Tasks -> Labels]
      /\ dropped' \in [Tasks -> BOOLEAN]
      /\ \A s \in Tasks : judged'[s] \in {judged[s], NoLock}
      /\ \A s \in Tasks : dropped'[s] => pc'[s] \in Blocking
      /\ ~Inside(t)' /\ \A s \in Tasks : s # t => (Inside(s)' <=> Inside(s))
  <2>1. CASE pc[t] \in {"create", "remove", "again", "write"}
    <3>1. dropped' = [dropped EXCEPT ![t] = TRUE] /\ UNCHANGED <<pc, judged>>
      BY <2>1 DEF Abandon
    <3> QED
      BY <2>1, <3>1 DEF IInv, Types, DroppedBlocks, Blocking, Inside
  <2>2. CASE pc[t] \notin {"create", "remove", "again", "write"}
    BY <2>2, FinishDoes DEF Abandon
  <2> QED
    BY <2>1, <2>2
<1>3. CASE lockfile' = lockfile
  <2>1. \A s \in Tasks : Inside(s)' => Inside(s)
    BY <1>2
  <2> QED
    BY <1>1, <1>2, <1>3, <2>1, Keeps
<1>4. CASE lockfile' = NoLock /\ Inside(t)
  <2>1. ~robbed' => \A s \in Tasks : ~Inside(s)'
    BY <1>1, <1>2, <1>4, OthersOut
  <2>2. robbed' \in BOOLEAN
    BY <1>1 DEF IInv, Types
  <2> QED
    BY <1>1, <1>2, <1>4, <2>1, <2>2, Frees
<1> QED
  BY <1>1, <1>3, <1>4

\* An error gives back what is held, also where the load goes on.
LEMMA IoErrorKeeps == ASSUME IInv, NEW t \in Tasks, IoError(t) PROVE IInv'
<1>1. /\ UNCHANGED <<life, robbed>>
      /\ lockfile' \in {NoLock, lockfile} /\ (~Inside(t) => lockfile' = lockfile)
  BY DEF IoError, GiveBack, procs, Release
<1>2. /\ judged' \in [Tasks -> Lock] /\ pc' \in [Tasks -> Labels]
      /\ dropped' \in [Tasks -> BOOLEAN]
      /\ \A s \in Tasks : judged'[s] \in {judged[s], NoLock}
      /\ \A s \in Tasks : dropped'[s] => pc'[s] \in Blocking
      /\ ~Inside(t)' /\ \A s \in Tasks : s # t => (Inside(s)' <=> Inside(s))
  <2>1. CASE Finish(t)
    BY <2>1, FinishDoes
  <2>2. CASE At(t, "read") /\ Enter(t, "load")
    <3>1. pc' = [pc EXCEPT ![t] = "guard"] /\ UNCHANGED <<judged, dropped>>
      BY <2>2 DEF Enter
    <3>2. ~dropped[t]
      BY <2>2, NotDropped DEF At, Blocking
    <3> QED
      BY <3>1, <3>2, GotoDoes DEF Labels
  <2> QED
    BY <2>1, <2>2 DEF IoError
<1>3. CASE lockfile' = lockfile
  <2>1. \A s \in Tasks : Inside(s)' => Inside(s)
    BY <1>2
  <2> QED
    BY <1>1, <1>2, <1>3, <2>1, Keeps
<1>4. CASE lockfile' = NoLock /\ Inside(t)
  <2>1. ~robbed' => \A s \in Tasks : ~Inside(s)'
    BY <1>1, <1>2, <1>4, OthersOut
  <2>2. robbed' \in BOOLEAN
    BY <1>1 DEF IInv, Types
  <2> QED
    BY <1>1, <1>2, <1>4, <2>1, <2>2, Frees
<1> QED
  BY <1>1, <1>3, <1>4

\* A process dies: its tasks are gone, its lock file is of a life that is over.
LEMMA CrashKeeps == ASSUME IInv, NEW p \in Processes, Crash(p) PROVE IInv'
<1> DEFINE Gone(t) == Home[t] = p
<1>1. /\ UNCHANGED <<lockfile, robbed>>
      /\ life' = [life EXCEPT ![p] = life[p] + 1]
      /\ pc' = [t \in Tasks |-> IF Gone(t) THEN "idle" ELSE pc[t]]
      /\ judged' = [t \in Tasks |-> IF Gone(t) THEN NoLock ELSE judged[t]]
      /\ dropped' = [t \in Tasks |-> IF Gone(t) THEN FALSE ELSE dropped[t]]
  BY DEF Crash, disk, ghosts
<1>2. \A q \in Processes : life[q] \in Nat /\ life'[q] = IF q = p THEN life[q] + 1 ELSE life[q]
  BY <1>1 DEF IInv, Types
<1>3. NoLock \in Lock
  BY DEF NoLock, Lock
<1>4. Types'
  <2>1. life' \in [Processes -> Nat]
    BY <1>1 DEF IInv, Types
  <2>2. judged' \in [Tasks -> Lock]
    BY <1>1, <1>3 DEF IInv, Types
  <2>3. pc' \in [Tasks -> Labels] /\ dropped' \in [Tasks -> BOOLEAN]
    <3>1. "idle" \in Labels
      BY DEF Labels
    <3> QED
      BY <1>1, <3>1 DEF IInv, Types
  <2> QED
    BY <1>1, <2>1, <2>2, <2>3 DEF IInv, Types
<1>5. DroppedBlocks'
  BY <1>1 DEF IInv, DroppedBlocks
<1>6. JudgedIsDead'
  <2>1. SUFFICES ASSUME NEW t \in Tasks, judged'[t] # NoLock
                 PROVE  judged'[t].by \in Tasks /\ Dead(judged[t])'
    BY DEF JudgedIsDead, Dead
  <2>2. judged'[t] = judged[t]
    BY <1>1, <2>1
  <2>3. judged[t].by \in Tasks /\ judged[t].life < life[Home[judged[t].by]] /\ judged[t].life \in Nat
    BY <2>1, <2>2 DEF IInv, JudgedIsDead, Dead, Types, Lock
  <2>4. Home[judged[t].by] \in Processes
    BY <2>3, ConfigAssumption
  <2> QED
    BY <1>2, <2>2, <2>3, <2>4 DEF Dead
<1>7. InsideOwns'
  <2>1. ASSUME NEW t \in Tasks, Inside(t)' PROVE Inside(t) /\ ~Gone(t)
    BY <1>1, <2>1 DEF Inside
  <2>2. ASSUME NEW t \in Tasks, ~Gone(t) PROVE Mine(t)' = Mine(t)
    BY <1>2, <2>2, ConfigAssumption DEF Mine
  <2> QED
    BY <1>1, <2>1, <2>2 DEF IInv, InsideOwns
<1> QED
  BY <1>4, <1>5, <1>6, <1>7 DEF IInv

LEMMA NextKeeps == IInv /\ [Next]_vars => IInv'
<1> SUFFICES ASSUME IInv, [Next]_vars PROVE IInv'
  OBVIOUS
<1>1. ASSUME NEW t \in Tasks, Step(t) PROVE IInv'
  BY <1>1, GuardKeeps, CreateKeeps, ExistsKeeps, RemoveKeeps, LockedKeepsIt, ReadKeeps,
     WriteKeeps, UnlockKeeps, OutsideKeeps, IoErrorKeeps,
     TakeForAbsentKeeps DEF Step
<1>2. ASSUME NEW t \in Tasks, BeginUpdate(t) \/ BeginLoad(t) \/ Abandon(t) PROVE IInv'
  BY <1>2, OutsideKeeps, AbandonKeeps
<1>3. ASSUME NEW p \in Processes, Crash(p) PROVE IInv'
  BY <1>3, CrashKeeps
<1>4. CASE UNCHANGED vars
  BY <1>4 DEF vars, disk, procs, task, ghosts, IInv, Types, DroppedBlocks, JudgedIsDead,
     InsideOwns, Inside, Mine, Dead
<1> QED
  BY <1>1, <1>2, <1>3, <1>4 DEF Next

\* Two tasks are never under the lock of the settings file at once (lock.rs,
\* config.rs), for any number of tasks, processes and deaths, unless a lock
\* file was removed that was not the stale one.
THEOREM ExclusionHolds == Spec => []InsideAlone
<1>1. Init => IInv
  BY InitHolds
<1>2. IInv /\ [Next]_vars => IInv'
  BY NextKeeps
<1>3. IInv => InsideAlone
  BY Excludes
<1> QED
  BY <1>1, <1>2, <1>3, PTL DEF Spec

-----------------------------------------------------------------------------
(* The file is a cell.                                                      *)


Content == [kind : Kinds, fields : SUBSET Fields]

\* The types of what the tasks know, and what the ghosts mean.
Shape ==
    /\ file \in Content /\ goal \in [Tasks -> Goals] /\ seen \in [Tasks -> Content]
    /\ spoiled \in BOOLEAN /\ (robbed => spoiled)

\* A file that is missing or corrupt holds no update; nor does the old format.
FileFits ==
    /\ file.kind \in {"missing", "corrupt"} => file.fields = {}
    /\ file.kind = "legacy" => file.fields = {Preference}

\* What task t has seen is still so where it matters.
TaskFits(t) ==
    /\ pc[t] = "write" /\ ~dropped[t] => seen[t] = Result(t) /\ Result(t) # file
    /\ pc[t] = "aside" => seen[t].kind = "corrupt"
    /\ pc[t] = "unlock" => seen[t].fields \subseteq file.fields
    /\ seen[t].kind = "corrupt" => file.kind # "legacy"

Fits == ~spoiled => FileFits /\ \A t \in Tasks : TaskFits(t)

KInv == IInv /\ Shape /\ Fits

-----------------------------------------------------------------------------
(* What the operators of ConfigLocks return.                                *)

LEMMA MissingIs == Missing \in Content /\ Missing.kind = "missing" /\ Missing.fields = {}
  BY DEF Missing, File, Content, Kinds

LEMMA SameContent ==
    ASSUME NEW f \in Content, NEW g \in Content, f.kind = g.kind, f.fields = g.fields
    PROVE  f = g
  BY DEF Content

\* Something new is to be written in four cases only.
LEMMA ResultCases ==
    ASSUME NEW t \in Tasks, file \in Content, Result(t) # file
    PROVE  \/ /\ file.kind \in {"missing", "sound"}
              /\ Result(t) = File("sound", file.fields \cup {t})
           \/ file.kind = "legacy" /\ goal[t] = "update" /\ Result(t) = File("sound", {t})
           \/ file.kind = "legacy" /\ Result(t) = File("sound", file.fields)
           \/ file.kind = "missing" /\ Result(t) = File("sound", {})
  BY DEF Result, Parsed, Content, Kinds

LEMMA ResultIsContent ==
    ASSUME NEW t \in Tasks, file \in Content
    PROVE  Result(t) \in Content /\ (Result(t) # file => Result(t).kind = "sound")
<1>1. CASE Result(t) = file
  BY <1>1
<1>2. CASE Result(t) # file
  <2>1. ASSUME NEW f \in SUBSET Fields
        PROVE  File("sound", f) \in Content /\ File("sound", f).kind = "sound"
    BY DEF File, Content, Kinds
  <2>2. /\ file.fields \in SUBSET Fields /\ file.fields \cup {t} \in SUBSET Fields
        /\ {t} \in SUBSET Fields /\ {} \in SUBSET Fields
    BY DEF Content, Fields
  <2> QED
    BY <1>2, <2>1, <2>2, ResultCases
<1> QED
  BY <1>1, <1>2

LEMMA OutcomeIs ==
    ASSUME NEW f \in Content, NEW t \in Tasks
    PROVE  /\ Outcome(f, t) \in Content /\ Outcome(f, t).kind = f.kind
           /\ Outcome(f, t).fields \subseteq f.fields
  BY DEF Outcome, File, Content

-----------------------------------------------------------------------------
(* Every step keeps the invariant.                                          *)

LEMMA KInitHolds == Init => KInv
<1> SUFFICES ASSUME Init PROVE KInv
  OBVIOUS
<1>1. /\ file \in {Missing, File("corrupt", {}), File("legacy", {Preference}), File("sound", {})}
      /\ pc = [t \in Tasks |-> "idle"] /\ goal = [t \in Tasks |-> "load"]
      /\ seen = [t \in Tasks |-> Missing] /\ robbed = FALSE /\ spoiled = FALSE
  BY DEF Init
<1>2. file \in Content /\ FileFits
  BY <1>1 DEF Missing, File, Content, Kinds, Fields, FileFits
<1>3. Shape
  BY <1>1, <1>2, MissingIs DEF Shape, Goals
<1>4. \A t \in Tasks : TaskFits(t)
  BY <1>1, MissingIs DEF TaskFits
<1> QED
  BY <1>2, <1>3, <1>4, InitHolds DEF KInv, Fits

\* The other tasks are not under the lock, so that they are not about to write
\* and have nothing to unlock.
LEMMA OthersOutside ==
    ASSUME KInv, ~spoiled, NEW t \in Tasks, Inside(t), NEW s \in Tasks, s # t
    PROVE  pc[s] # "unlock" /\ (pc[s] = "write" => dropped[s])
<1>1. ~Inside(s)
  BY OthersOut DEF KInv, Shape
<1>2. pc[s] = "unlock" => ~dropped[s]
  BY NotDropped DEF KInv, Blocking
<1> QED
  BY <1>1, <1>2 DEF Inside

\* A step that leaves the file alone, and of every task what it knows, or
\* takes it to where nothing is asked of that.
Calm(s) ==
    \/ /\ pc'[s] = pc[s] /\ goal'[s] = goal[s] /\ seen'[s] = seen[s]
       /\ dropped[s] => dropped'[s]
    \/ pc'[s] \notin {"write", "aside", "unlock"} /\ seen'[s] \in {seen[s], Missing}

LEMMA CalmFits ==
    ASSUME KInv, file' = file, NEW s \in Tasks, ~spoiled, Calm(s)
    PROVE  TaskFits(s)'
<1>1. TaskFits(s)
  BY DEF KInv, Fits
<1>2. CASE pc'[s] = pc[s] /\ goal'[s] = goal[s] /\ seen'[s] = seen[s] /\ (dropped[s] => dropped'[s])
  <2>1. Result(s)' = Result(s)
    BY <1>2 DEF Result, Parsed
  <2> QED
    BY <1>1, <1>2, <2>1 DEF TaskFits
<1>3. CASE pc'[s] \notin {"write", "aside", "unlock"} /\ seen'[s] \in {seen[s], Missing}
  BY <1>1, <1>3, MissingIs DEF TaskFits
<1> QED
  BY <1>2, <1>3 DEF Calm

LEMMA CalmKeeps ==
    ASSUME KInv, IInv', file' = file, robbed' => spoiled', spoiled' \in BOOLEAN, spoiled => spoiled',
           goal' \in [Tasks -> Goals], seen' \in [Tasks -> Content],
           \A s \in Tasks : Calm(s)
    PROVE  KInv'
<1>1. Shape'
  BY DEF KInv, Shape
<1>2. Fits'
  <2>1. SUFFICES ASSUME ~spoiled' PROVE FileFits' /\ \A s \in Tasks : TaskFits(s)'
    BY DEF Fits
  <2>2. ~spoiled
    BY <2>1
  <2>3. FileFits'
    BY <2>2 DEF KInv, Fits, FileFits
  <2> QED
    BY <2>2, <2>3, CalmFits
<1> QED
  BY <1>1, <1>2 DEF KInv

\* The end of an operation, and its begin, are calm.
LEMMA FinishIsCalm ==
    ASSUME KInv, NEW t \in Tasks, Finish(t)
    PROVE  /\ goal' \in [Tasks -> Goals] /\ seen' \in [Tasks -> Content]
           /\ \A s \in Tasks : Calm(s)
<1>1. /\ pc' = [pc EXCEPT ![t] = "idle"] /\ goal' = [goal EXCEPT ![t] = "load"]
      /\ seen' = [seen EXCEPT ![t] = Missing] /\ dropped' = [dropped EXCEPT ![t] = FALSE]
  BY DEF Finish
<1>2. pc \in [Tasks -> Labels] /\ goal \in [Tasks -> Goals] /\ seen \in [Tasks -> Content]
      /\ dropped \in [Tasks -> BOOLEAN] /\ "load" \in Goals
  BY DEF KInv, Shape, IInv, Types, Goals
<1>3. goal' \in [Tasks -> Goals] /\ seen' \in [Tasks -> Content]
  BY <1>1, <1>2, MissingIs
<1>4. ASSUME NEW s \in Tasks PROVE Calm(s)
  BY <1>1, <1>2 DEF Calm
<1> QED
  BY <1>3, <1>4

LEMMA MoveIsCalm ==
    ASSUME KInv, NEW t \in Tasks, NEW label \in Labels \ {"write", "aside", "unlock"},
           NEW g \in Goals, pc' = [pc EXCEPT ![t] = label], goal' = [goal EXCEPT ![t] = g],
           seen' \in {seen, [seen EXCEPT ![t] = Missing]}, UNCHANGED dropped
    PROVE  /\ goal' \in [Tasks -> Goals] /\ seen' \in [Tasks -> Content]
           /\ \A s \in Tasks : Calm(s)
<1>1. pc \in [Tasks -> Labels] /\ goal \in [Tasks -> Goals] /\ seen \in [Tasks -> Content]
  BY DEF KInv, Shape, IInv, Types
<1>2. goal' \in [Tasks -> Goals] /\ seen' \in [Tasks -> Content]
  BY <1>1, MissingIs
<1>3. ASSUME NEW s \in Tasks PROVE Calm(s)
  BY <1>1 DEF Calm
<1> QED
  BY <1>2, <1>3

\* The same, when what is to be done stays.
LEMMA GotoIsCalm ==
    ASSUME KInv, NEW t \in Tasks, NEW label \in Labels \ {"write", "aside", "unlock"},
           pc' = [pc EXCEPT ![t] = label], UNCHANGED <<goal, seen, dropped>>
    PROVE  /\ goal' \in [Tasks -> Goals] /\ seen' \in [Tasks -> Content]
           /\ \A s \in Tasks : Calm(s)
<1>1. goal' = [goal EXCEPT ![t] = goal[t]] /\ goal[t] \in Goals
  BY DEF KInv, Shape
<1> QED
  BY <1>1, MoveIsCalm

\* The steps on the way to the lock, and off it by an error.
LEMMA ApproachKeeps ==
    ASSUME KInv, IInv', NEW t \in Tasks,
           \/ Guard(t) \/ Exists(t) \/ Locked(t) \/ BeginUpdate(t) \/ BeginLoad(t)
           \/ Create(t, "create") \/ Create(t, "again") \/ Remove(t) \/ IoError(t)
    PROVE  KInv'
<1>1. file' = file /\ (robbed' => spoiled') /\ (spoiled => spoiled') /\ spoiled' \in BOOLEAN
  <2>1. CASE Remove(t)
    BY <2>1 DEF Remove, Accident, KInv, Shape, IInv, Types
  <2>2. CASE ~Remove(t)
    BY <2>2 DEF Guard, Exists, Locked, BeginUpdate, BeginLoad, Create, IoError, disk, ghosts, KInv,
       Shape
  <2> QED
    BY <2>1, <2>2
<1>2. \/ Finish(t)
      \/ /\ \E label \in {"create", "remove", "again", "read"} : pc' = [pc EXCEPT ![t] = label]
         /\ UNCHANGED <<goal, seen, dropped>>
      \/ /\ \E g \in Goals : pc' = [pc EXCEPT ![t] = "guard"] /\ goal' = [goal EXCEPT ![t] = g]
         /\ seen' = [seen EXCEPT ![t] = Missing] /\ UNCHANGED dropped
  BY DEF Guard, Exists, Locked, BeginUpdate, BeginLoad, Create, Remove, IoError, Goto, Enter, Goals
<1>3. CASE Finish(t)
  BY <1>1, <1>3, FinishIsCalm, CalmKeeps
<1>4. ASSUME NEW label \in {"create", "remove", "again", "read"}, pc' = [pc EXCEPT ![t] = label],
             UNCHANGED <<goal, seen, dropped>>
      PROVE  KInv'
  <2>1. label \in Labels \ {"write", "aside", "unlock"}
    BY DEF Labels
  <2> QED
    BY <1>1, <1>4, <2>1, GotoIsCalm, CalmKeeps
<1>5. ASSUME NEW g \in Goals, pc' = [pc EXCEPT ![t] = "guard"], goal' = [goal EXCEPT ![t] = g],
             seen' = [seen EXCEPT ![t] = Missing], UNCHANGED dropped
      PROVE  KInv'
  <2>1. "guard" \in Labels \ {"write", "aside", "unlock"}
    BY DEF Labels
  <2> QED
    BY <1>1, <1>5, <2>1, MoveIsCalm, CalmKeeps
<1> QED
  BY <1>2, <1>3, <1>4, <1>5

\* What is read under the lock decides what is written: nobody changes it in
\* between without an accident.
LEMMA ReadFits == ASSUME KInv, IInv', NEW t \in Tasks, Read(t) PROVE KInv'
<1>1. /\ UNCHANGED <<file, goal, dropped, robbed, spoiled>>
      /\ \/ pc' = [pc EXCEPT ![t] = "unlock"] /\ seen' = [seen EXCEPT ![t] = Outcome(file, t)]
         \/ /\ pc' = [pc EXCEPT ![t] = "write"] /\ seen' = [seen EXCEPT ![t] = Result(t)]
            /\ Result(t) # file
  BY DEF Read, disk, ghosts
<1>2. pc \in [Tasks -> Labels] /\ file \in Content /\ seen \in [Tasks -> Content]
  BY DEF KInv, Shape, IInv, Types
<1>3. Outcome(file, t) \in Content /\ Result(t) \in Content
  BY <1>2, OutcomeIs, ResultIsContent
<1>4. Shape'
  BY <1>1, <1>2, <1>3 DEF KInv, Shape
<1>5. ASSUME ~spoiled PROVE FileFits' /\ \A s \in Tasks : TaskFits(s)'
  <2>1. FileFits'
    BY <1>1, <1>5 DEF KInv, Fits, FileFits
  <2>2. ASSUME NEW s \in Tasks, s # t PROVE TaskFits(s)'
    <3>1. pc'[s] = pc[s] /\ goal'[s] = goal[s] /\ seen'[s] = seen[s] /\ dropped'[s] = dropped[s]
      BY <1>1, <1>2, <2>2
    <3> QED
      BY <1>1, <1>5, <3>1, CalmFits DEF Calm
  <2>3. TaskFits(t)'
    <3>1. CASE pc' = [pc EXCEPT ![t] = "unlock"] /\ seen' = [seen EXCEPT ![t] = Outcome(file, t)]
      <4>1. pc'[t] = "unlock" /\ seen'[t] = Outcome(file, t) /\ file' = file
        BY <1>1, <1>2, <3>1
      <4> QED
        BY <1>2, <4>1, OutcomeIs DEF TaskFits
    <3>2. CASE /\ pc' = [pc EXCEPT ![t] = "write"] /\ seen' = [seen EXCEPT ![t] = Result(t)]
               /\ Result(t) # file
      <4>1. pc'[t] = "write" /\ seen'[t] = Result(t) /\ file' = file
        BY <1>1, <1>2, <3>2
      <4>2. Result(t)' = Result(t)
        BY <1>1 DEF Result, Parsed
      <4>3. seen'[t].kind = "sound"
        BY <1>2, <3>2, <4>1, ResultIsContent
      <4> QED
        BY <3>2, <4>1, <4>2, <4>3 DEF TaskFits
    <3> QED
      BY <1>1, <3>1, <3>2
  <2> QED
    BY <2>1, <2>2, <2>3
<1> QED
  BY <1>1, <1>4, <1>5 DEF KInv, Fits

\* Taking a file for absent is an accident, after which nothing is asked.
LEMMA TakeForAbsentFits == ASSUME KInv, IInv', NEW t \in Tasks, TakeForAbsent(t) PROVE KInv'
<1>1. spoiled' = TRUE /\ UNCHANGED <<file, goal, robbed>>
  BY DEF TakeForAbsent, Accident, disk, KInv, Shape
<1>2. \E f \in SUBSET Fields : seen' = [seen EXCEPT ![t] = File("sound", f)]
  <2>1. {t} \in SUBSET Fields /\ {} \in SUBSET Fields
    BY DEF Fields
  <2> QED
    BY <2>1 DEF TakeForAbsent
<1>3. \A f \in SUBSET Fields : File("sound", f) \in Content
  BY DEF File, Content, Kinds
<1> QED
  BY <1>1, <1>2, <1>3 DEF KInv, Shape, Fits

\* A write whose future is still there: the lock is held, so it puts in place
\* what follows from the file as it is.
LEMMA WriteFits == ASSUME KInv, IInv', NEW t \in Tasks, Write(t) PROVE KInv'
<1>1. /\ pc[t] = "write" /\ file' = seen[t] /\ robbed' = robbed
      /\ spoiled' = (spoiled \/ dropped[t])
  BY DEF Write, At, Accident
<1>2. /\ pc \in [Tasks -> Labels] /\ file \in Content /\ seen \in [Tasks -> Content]
      /\ dropped \in [Tasks -> BOOLEAN] /\ spoiled \in BOOLEAN
  BY DEF KInv, Shape, IInv, Types
<1>3. CASE dropped[t]
  <2>1. goal' \in [Tasks -> Goals] /\ seen' \in [Tasks -> Content]
    BY <1>3, FinishIsCalm DEF Write
  <2>2. spoiled' = TRUE
    BY <1>1, <1>3
  <2> QED
    BY <1>1, <1>2, <2>1, <2>2 DEF KInv, Shape, Fits
<1>4. CASE ~dropped[t]
  <2>1. /\ pc' = [pc EXCEPT ![t] = "unlock"] /\ seen' = [seen EXCEPT ![t] = Outcome(seen[t], t)]
        /\ UNCHANGED <<goal, dropped>> /\ spoiled' = spoiled
    BY <1>1, <1>2, <1>4 DEF Write
  <2>2. Outcome(seen[t], t) \in Content /\ Outcome(seen[t], t).kind = seen[t].kind
        /\ Outcome(seen[t], t).fields \subseteq seen[t].fields
    BY <1>2, OutcomeIs
  <2>3. Shape'
    BY <1>1, <1>2, <2>1, <2>2 DEF KInv, Shape
  <2>4. ASSUME ~spoiled PROVE FileFits' /\ \A s \in Tasks : TaskFits(s)'
    <3>1. file'.kind = "sound"
      BY <1>1, <1>2, <1>4, <2>4, ResultIsContent DEF KInv, Fits, TaskFits
    <3>2. FileFits'
      BY <3>1 DEF FileFits
    <3>3. ASSUME NEW s \in Tasks, s # t PROVE TaskFits(s)'
      <4>1. pc'[s] = pc[s] /\ seen'[s] = seen[s] /\ dropped'[s] = dropped[s]
        BY <1>2, <2>1, <3>3
      <4>2. pc[s] # "unlock" /\ (pc[s] = "write" => dropped[s])
        <5>1. Inside(t)
          BY <1>1, <1>4 DEF Inside
        <5> QED
          BY <2>4, <3>3, <5>1, OthersOutside
      <4>3. TaskFits(s)
        BY <2>4 DEF KInv, Fits
      <4> QED
        BY <3>1, <4>1, <4>2, <4>3 DEF TaskFits
    <3>4. TaskFits(t)'
      <4>1. pc'[t] = "unlock" /\ seen'[t] = Outcome(seen[t], t)
        BY <1>2, <2>1
      <4> QED
        BY <1>1, <2>2, <3>1, <4>1 DEF TaskFits
    <3> QED
      BY <3>2, <3>3, <3>4
  <2> QED
    BY <2>1, <2>3, <2>4 DEF KInv, Fits
<1> QED
  BY <1>3, <1>4

\* After the lock a corrupt file is put aside only by who saw it corrupt.
LEMMA UnlockFits == ASSUME KInv, IInv', NEW t \in Tasks, Unlock(t) PROVE KInv'
<1>1. UNCHANGED <<file, robbed, spoiled>>
  BY DEF Unlock
<1>2. (robbed' => spoiled') /\ spoiled' \in BOOLEAN
  BY <1>1 DEF KInv, Shape
<1>3. \/ Finish(t)
      \/ /\ \E g \in {"load", "create"} : pc' = [pc EXCEPT ![t] = "guard"] /\ goal' = [goal EXCEPT ![t] = g]
         /\ seen' = [seen EXCEPT ![t] = Missing] /\ UNCHANGED dropped
      \/ /\ seen[t].kind = "corrupt" /\ pc' = [pc EXCEPT ![t] = "aside"]
         /\ UNCHANGED <<goal, seen, dropped>>
  BY DEF Unlock, Enter, Goto
<1>4. CASE Finish(t)
  BY <1>1, <1>2, <1>4, FinishIsCalm, CalmKeeps
<1>5. ASSUME NEW g \in {"load", "create"}, pc' = [pc EXCEPT ![t] = "guard"],
             goal' = [goal EXCEPT ![t] = g], seen' = [seen EXCEPT ![t] = Missing], UNCHANGED dropped
      PROVE  KInv'
  <2>1. "guard" \in Labels \ {"write", "aside", "unlock"} /\ g \in Goals
    BY DEF Labels, Goals
  <2> QED
    BY <1>1, <1>2, <1>5, <2>1, MoveIsCalm, CalmKeeps
<1>6. CASE /\ seen[t].kind = "corrupt" /\ pc' = [pc EXCEPT ![t] = "aside"]
           /\ UNCHANGED <<goal, seen, dropped>>
  <2>1. Shape'
    BY <1>1, <1>6 DEF KInv, Shape
  <2>2. ASSUME ~spoiled PROVE FileFits' /\ \A s \in Tasks : TaskFits(s)'
    <3>1. FileFits'
      BY <1>1, <2>2 DEF KInv, Fits, FileFits
    <3>2. ASSUME NEW s \in Tasks, s # t PROVE TaskFits(s)'
      <4>1. pc'[s] = pc[s]
        BY <1>6, <3>2 DEF KInv, IInv, Types
      <4> QED
        BY <1>1, <1>6, <2>2, <4>1, CalmFits DEF Calm
    <3>3. TaskFits(t)'
      <4>1. pc'[t] = "aside" /\ seen'[t] = seen[t] /\ file' = file
        BY <1>1, <1>6 DEF KInv, IInv, Types
      <4>2. TaskFits(t)
        BY <2>2 DEF KInv, Fits
      <4> QED
        BY <1>6, <4>1, <4>2 DEF TaskFits
    <3> QED
      BY <3>1, <3>2, <3>3
  <2> QED
    BY <1>1, <2>1, <2>2 DEF KInv, Fits
<1> QED
  BY <1>3, <1>4, <1>5, <1>6

\* What quarantine_corrupt_file finds at the path, before an accident.
LEMMA AsideFinds ==
    ASSUME KInv, NEW t \in Tasks, PutAside(t), ~spoiled'
    PROVE  file.kind \in {"missing", "corrupt"} /\ file.fields = {} /\ file' = Missing /\ ~spoiled
<1>1. pc[t] = "aside" /\ file' = Missing /\ ~spoiled /\ file.kind # "sound"
  BY DEF PutAside, At, Accident, KInv, Shape
<1>2. file.kind # "legacy"
  BY <1>1 DEF KInv, Fits, TaskFits
<1>3. file.kind \in Kinds
  BY DEF KInv, Shape, Content
<1> QED
  BY <1>1, <1>2, <1>3 DEF Kinds, KInv, Fits, FileFits

LEMMA PutAsideFits == ASSUME KInv, IInv', NEW t \in Tasks, PutAside(t) PROVE KInv'
<1>1. /\ pc[t] = "aside" /\ file' = Missing /\ robbed' = robbed
      /\ spoiled' = (spoiled \/ file.kind = "sound")
  BY DEF PutAside, At, Accident
<1>2. \/ Finish(t)
      \/ /\ pc' = [pc EXCEPT ![t] = "guard"] /\ goal' = [goal EXCEPT ![t] = "create"]
         /\ seen' = [seen EXCEPT ![t] = Missing] /\ UNCHANGED dropped
  BY DEF PutAside, Enter
<1>3. goal' \in [Tasks -> Goals] /\ seen' \in [Tasks -> Content] /\ \A s \in Tasks : Calm(s)
  <2>1. CASE Finish(t)
    BY <2>1, FinishIsCalm
  <2>2. CASE /\ pc' = [pc EXCEPT ![t] = "guard"] /\ goal' = [goal EXCEPT ![t] = "create"]
             /\ seen' = [seen EXCEPT ![t] = Missing] /\ UNCHANGED dropped
    <3>1. "guard" \in Labels \ {"write", "aside", "unlock"} /\ "create" \in Goals
      BY DEF Labels, Goals
    <3> QED
      BY <2>2, <3>1, MoveIsCalm
  <2> QED
    BY <1>2, <2>1, <2>2
<1>4. Shape'
  BY <1>1, <1>3, MissingIs DEF KInv, Shape
<1>5. ASSUME ~spoiled' PROVE FileFits' /\ \A s \in Tasks : TaskFits(s)'
  <2>1. file.kind \in {"missing", "corrupt"} /\ file.fields = {} /\ file' = Missing /\ ~spoiled
    BY <1>5, AsideFinds
  <2>2. FileFits'
    BY <2>1, MissingIs DEF FileFits
  <2>3. ASSUME NEW s \in Tasks PROVE TaskFits(s)'
    <3>1. TaskFits(s)
      BY <2>1 DEF KInv, Fits
    <3>2. CASE pc'[s] \notin {"write", "aside", "unlock"} /\ seen'[s] \in {seen[s], Missing}
      BY <2>1, <3>2, MissingIs DEF TaskFits
    <3>3. CASE /\ pc'[s] = pc[s] /\ goal'[s] = goal[s] /\ seen'[s] = seen[s]
               /\ dropped[s] => dropped'[s]
      <4>1. ASSUME pc[s] = "write", ~dropped[s] PROVE Result(s)' = Result(s) /\ file' = file
        <5>1. file.kind = "missing"
          BY <2>1, <3>1, <4>1, ResultCases DEF TaskFits, KInv, Shape
        <5>2. file' = file
          BY <2>1, <5>1, MissingIs, SameContent DEF KInv, Shape
        <5> QED
          BY <3>3, <5>2 DEF Result, Parsed
      <4> QED
        BY <2>1, <3>1, <3>3, <4>1, MissingIs DEF TaskFits
    <3> QED
      BY <1>3, <3>2, <3>3 DEF Calm
  <2> QED
    BY <2>2, <2>3
<1> QED
  BY <1>4, <1>5 DEF KInv, Fits

LEMMA AbandonFits == ASSUME KInv, IInv', NEW t \in Tasks, Abandon(t) PROVE KInv'
<1>1. UNCHANGED <<file, robbed, spoiled>>
  BY DEF Abandon, ghosts
<1>2. (robbed' => spoiled') /\ spoiled' \in BOOLEAN
  BY <1>1 DEF KInv, Shape
<1>3. CASE pc[t] \in {"create", "remove", "again", "write"}
  <2>1. dropped' = [dropped EXCEPT ![t] = TRUE] /\ UNCHANGED <<pc, goal, seen>>
    BY <1>3 DEF Abandon
  <2>2. \A s \in Tasks : Calm(s)
    BY <2>1 DEF Calm, KInv, IInv, Types
  <2>3. goal' \in [Tasks -> Goals] /\ seen' \in [Tasks -> Content]
    BY <2>1 DEF KInv, Shape
  <2> QED
    BY <1>1, <1>2, <2>2, <2>3, CalmKeeps
<1>4. CASE pc[t] \notin {"create", "remove", "again", "write"}
  BY <1>1, <1>2, <1>4, FinishIsCalm, CalmKeeps DEF Abandon
<1> QED
  BY <1>3, <1>4

LEMMA CrashFits == ASSUME KInv, IInv', NEW p \in Processes, Crash(p) PROVE KInv'
<1>1. /\ UNCHANGED <<file, robbed, spoiled>>
      /\ pc' = [s \in Tasks |-> IF Home[s] = p THEN "idle" ELSE pc[s]]
      /\ goal' = [s \in Tasks |-> IF Home[s] = p THEN "load" ELSE goal[s]]
      /\ seen' = [s \in Tasks |-> IF Home[s] = p THEN Missing ELSE seen[s]]
      /\ dropped' = [s \in Tasks |-> IF Home[s] = p THEN FALSE ELSE dropped[s]]
  BY DEF Crash, disk, ghosts
<1>2. (robbed' => spoiled') /\ spoiled' \in BOOLEAN
  BY <1>1 DEF KInv, Shape
<1>3. \A s \in Tasks : Calm(s)
  BY <1>1 DEF Calm
<1>4. "load" \in Goals
  BY DEF Goals
<1>5. goal' \in [Tasks -> Goals] /\ seen' \in [Tasks -> Content]
  BY <1>1, <1>4, MissingIs DEF KInv, Shape
<1> QED
  BY <1>1, <1>2, <1>3, <1>5, CalmKeeps

LEMMA KNextKeeps == KInv /\ [Next]_vars => KInv'
<1> SUFFICES ASSUME KInv, [Next]_vars PROVE KInv'
  OBVIOUS
<1>1. IInv'
  BY NextKeeps DEF KInv
<1>2. ASSUME NEW t \in Tasks, Step(t) \/ BeginUpdate(t) \/ BeginLoad(t) \/ Abandon(t) PROVE KInv'
  BY <1>1, <1>2, ApproachKeeps, ReadFits, TakeForAbsentFits, WriteFits, UnlockFits, PutAsideFits,
     AbandonFits DEF Step
<1>3. ASSUME NEW p \in Processes, Crash(p) PROVE KInv'
  BY <1>1, <1>3, CrashFits
<1>4. CASE UNCHANGED vars
  BY <1>1, <1>4 DEF vars, disk, procs, task, ghosts, KInv, Shape, Fits, FileFits, TaskFits, Result,
     Parsed
<1> QED
  BY <1>2, <1>3, <1>4 DEF Next

-----------------------------------------------------------------------------
(* The old format.                                                          *)

\* As long as no load overlooked the old format, nobody has loaded the file and
\* nobody does anything but migrate it.
Formats ==
    /\ overlooked \in BOOLEAN /\ (overlooked => file.kind = "legacy")
    /\ ~spoiled /\ file.kind = "legacy" /\ ~overlooked =>
        /\ \A p \in Processes : ~loaded[p]
        /\ \A t \in Tasks :
             pc[t] = "idle" \/ (goal[t] = "migrate" /\ pc[t] \notin {"unlock", "aside"})

LEMMA FormatsStart == Init => Formats
  BY DEF Init, Formats

\* It is not written anew: what is written under the lock is of the new format.
LEMMA WritesNewFormat ==
    ASSUME KInv, NEW t \in Tasks, Write(t), ~spoiled'
    PROVE  file'.kind = "sound" /\ ~spoiled
<1>1. pc[t] = "write" /\ ~dropped[t] /\ ~spoiled /\ file' = seen[t]
  BY DEF Write, At, Accident, KInv, Shape, IInv, Types
<1> QED
  BY <1>1, ResultIsContent DEF KInv, Shape, Fits, TaskFits

LEMMA FormatsStep == KInv /\ Formats /\ [Next]_vars => Formats'
<1> SUFFICES ASSUME KInv, Formats, [Next]_vars PROVE Formats'
  OBVIOUS
<1> USE ConfigAssumption
<1>1. ASSUME NEW t \in Tasks,
             \/ Guard(t) \/ Create(t, "create") \/ Create(t, "again") \/ Exists(t) \/ Locked(t)
             \/ Remove(t) \/ BeginUpdate(t) \/ BeginLoad(t) \/ Abandon(t) \/ IoError(t)
      PROVE  Formats'
  <2>1. /\ file' = file /\ loaded' = loaded /\ (spoiled => spoiled')
        /\ overlooked' \in {overlooked, overlooked \/ file.kind = "legacy"}
    <3>1. CASE Remove(t)
      BY <3>1 DEF Remove, Accident, procs, KInv, Shape
    <3>2. CASE ~Remove(t)
      BY <1>1, <3>2 DEF Guard, Create, Exists, Locked, BeginUpdate, BeginLoad, Abandon, IoError,
         Unmigrated, disk, procs, ghosts
    <3> QED BY <3>1, <3>2
  <2>2. overlooked' \in BOOLEAN /\ (overlooked' => file'.kind = "legacy")
    BY <2>1 DEF Formats
  <2>3. ASSUME ~spoiled', file.kind = "legacy", ~overlooked', NEW s \in Tasks
        PROVE  pc'[s] = "idle" \/ (goal'[s] = "migrate" /\ pc'[s] \notin {"unlock", "aside"})
    <3>1. ~spoiled /\ ~overlooked
      BY <2>1, <2>3 DEF Formats
    <3>2. pc[s] = "idle" \/ (goal[s] = "migrate" /\ pc[s] \notin {"unlock", "aside"})
      BY <2>3, <3>1 DEF Formats
    <3>3. ~BeginUpdate(t)
      BY <2>3, <3>1 DEF Formats, BeginUpdate
    <3>4. \/ Finish(t)
          \/ /\ \E label \in {"create", "remove", "again", "read", "write"} :
                  pc' = [pc EXCEPT ![t] = label]
             /\ goal' = goal /\ pc[t] # "idle"
          \/ UNCHANGED <<pc, goal>>
          \/ pc' = [pc EXCEPT ![t] = "guard"] /\ goal' = [goal EXCEPT ![t] = "migrate"]
      BY <1>1, <2>3, <3>3 DEF Guard, Create, Exists, Locked, Remove, BeginLoad, Abandon, IoError,
         Unmigrated, Enter, Goto, At
    <3>5. CASE Finish(t)
      BY <3>2, <3>5 DEF Finish, KInv, Shape, IInv, Types
    <3>6. CASE ~Finish(t)
      BY <3>1, <3>2, <3>4, <3>6 DEF Formats, KInv, Shape, IInv, Types
    <3> QED BY <3>5, <3>6
  <2>4. ASSUME ~spoiled', file.kind = "legacy", ~overlooked' PROVE \A p \in Processes : ~loaded[p]
    BY <2>1, <2>4 DEF Formats
  <2> QED BY <2>1, <2>2, <2>3, <2>4 DEF Formats
<1>2. ASSUME NEW t \in Tasks, Read(t) PROVE Formats'
  <2>1. UNCHANGED <<file, loaded, goal, spoiled, overlooked>> /\ pc[t] = "read"
    BY <1>2 DEF Read, At, disk, procs, ghosts
  <2>2. \/ pc' = [pc EXCEPT ![t] = "write"]
        \/ pc' = [pc EXCEPT ![t] = "unlock"] /\ Result(t) = file
    BY <1>2 DEF Read
  <2>3. ASSUME goal[t] = "migrate", file.kind = "legacy" PROVE Result(t) # file
    BY <2>3 DEF Result, File
  <2> QED BY <2>1, <2>2, <2>3 DEF Formats, KInv, IInv, Types
<1>3. ASSUME NEW t \in Tasks, Write(t) PROVE Formats'
  <2>1. overlooked' = FALSE
    BY <1>3 DEF Write
  <2> QED BY <1>3, <2>1, WritesNewFormat DEF Formats
<1>4. ASSUME NEW t \in Tasks, Unlock(t) PROVE Formats'
  <2>1. UNCHANGED <<file, overlooked, spoiled>> /\ pc[t] = "unlock"
    BY <1>4 DEF Unlock, At
  <2> QED BY <2>1 DEF Formats
<1>5. ASSUME NEW t \in Tasks, PutAside(t) PROVE Formats'
  <2>1. overlooked' = FALSE /\ file' = Missing
    BY <1>5 DEF PutAside
  <2> QED BY <2>1, MissingIs DEF Formats
<1>6. ASSUME NEW p \in Processes, Crash(p) PROVE Formats'
  BY <1>6 DEF Crash, Formats, disk, ghosts, KInv, IInv, Types
<1>7. ASSUME NEW t \in Tasks, TakeForAbsent(t) PROVE Formats'
  BY <1>7 DEF TakeForAbsent, Accident, disk, Formats
<1>8. CASE UNCHANGED vars
  BY <1>8 DEF vars, disk, procs, task, ghosts, Formats
<1> QED BY <1>1, <1>2, <1>3, <1>4, <1>5, <1>6, <1>7, <1>8 DEF Next, Step

-----------------------------------------------------------------------------
(* Every step is a step of the cell.                                        *)

LEMMA CellInit == Init => Cell!Init
<1> SUFFICES ASSUME Init PROVE Cell!Init
  OBVIOUS
<1>1. file \in {Missing, File("corrupt", {}), File("legacy", {Preference}), File("sound", {})}
      /\ answered = {} /\ overlooked = FALSE /\ spoiled = FALSE
  BY DEF Init
<1> QED
  BY <1>1 DEF Cell!Init, Missing, File

\* After an accident the cell promises nothing more.
LEMMA AnAccident == spoiled' = TRUE => Cell!Next
  BY DEF Cell!Next, Cell!Spoil

LEMMA WriteIsAnOperation ==
    ASSUME KInv, Formats, NEW t \in Tasks, Write(t), ~spoiled'
    PROVE  Cell!Next
<1>1. /\ pc[t] = "write" /\ ~dropped[t] /\ ~spoiled /\ file' = seen[t]
      /\ spoiled' = spoiled /\ answered' = answered /\ overlooked' = FALSE
  BY DEF Write, At, Accident, KInv, Shape, IInv, Types
<1>2. file' = Result(t) /\ Result(t) # file
  BY <1>1 DEF KInv, Fits, TaskFits
<1>3. file.kind = "legacy" /\ goal[t] = "update" => overlooked
  BY <1>1 DEF Formats
<1>4. \/ /\ file.kind \in {"missing", "sound"}
         /\ file'.kind = "sound" /\ file'.fields = file.fields \cup {t}
      \/ file.kind = "legacy" /\ overlooked /\ file'.kind = "sound" /\ file'.fields = {t}
      \/ file.kind = "legacy" /\ file'.kind = "sound" /\ file'.fields = file.fields
      \/ file.kind = "missing" /\ file'.kind = "sound" /\ file'.fields = {}
  <2>1. \/ /\ file.kind \in {"missing", "sound"}
           /\ file' = File("sound", file.fields \cup {t})
        \/ file.kind = "legacy" /\ overlooked /\ file' = File("sound", {t})
        \/ file.kind = "legacy" /\ file' = File("sound", file.fields)
        \/ file.kind = "missing" /\ file' = File("sound", {})
    BY <1>2, <1>3, ResultCases DEF KInv, Shape
  <2>2. \A f : File("sound", f).kind = "sound" /\ File("sound", f).fields = f
    BY DEF File
  <2> QED
    BY <2>1, <2>2
<1> QED
  BY <1>1, <1>4 DEF Cell!Next, Cell!Update, Cell!Overwrite, Cell!Migrate, Cell!Create, Cell!Become

LEMMA UnlockAnswers ==
    ASSUME KInv, NEW t \in Tasks, Unlock(t), ~spoiled'
    PROVE  [Cell!Next]_Cell!cell
<1>1. UNCHANGED <<file, overlooked, spoiled>> /\ ~spoiled /\ pc[t] = "unlock"
  BY DEF Unlock, At
<1>2. CASE answered' = answered
  BY <1>1, <1>2 DEF Cell!cell
<1>3. CASE answered' # answered
  <2>1. answered' = answered \cup {t} /\ t \in seen[t].fields
    BY <1>3 DEF Unlock
  <2>2. t \in file.fields
    BY <1>1, <2>1 DEF KInv, Fits, TaskFits
  <2> QED
    BY <1>1, <2>1, <2>2 DEF Cell!Next, Cell!Answer
<1> QED
  BY <1>2, <1>3

LEMMA PutAsideIsSetAside ==
    ASSUME KInv, Formats, NEW t \in Tasks, PutAside(t), ~spoiled'
    PROVE  [Cell!Next]_Cell!cell
<1>1. /\ file.kind \in {"missing", "corrupt"} /\ file.fields = {} /\ ~spoiled
      /\ file'.kind = "missing" /\ file'.fields = {}
  BY AsideFinds, MissingIs
<1>2. spoiled' = spoiled /\ answered' = answered /\ overlooked' = FALSE /\ overlooked = FALSE
  BY <1>1 DEF PutAside, Accident, KInv, Shape, Formats
<1> QED
  BY <1>1, <1>2 DEF Cell!Next, Cell!SetAside, Cell!Become, Cell!cell

\* A load or an error that leaves the file and the answers alone overlooked the
\* old format at most.
LEMMA OverlooksAtMost ==
    ASSUME Formats, ~spoiled, UNCHANGED <<file, answered, spoiled>>, UNCHANGED overlooked \/ Unmigrated
    PROVE  [Cell!Next]_Cell!cell
<1>1. CASE overlooked' = overlooked
  BY <1>1 DEF Cell!cell
<1>2. CASE overlooked' # overlooked
  <2>1. overlooked' = TRUE /\ file.kind = "legacy"
    BY <1>2 DEF Formats, Unmigrated
  <2> QED
    BY <2>1 DEF Cell!Next, Cell!Overlook
<1> QED
  BY <1>1, <1>2

LEMMA CellStep == KInv /\ Formats /\ [Next]_vars => [Cell!Next]_Cell!cell
<1> SUFFICES ASSUME KInv, Formats, [Next]_vars PROVE [Cell!Next]_Cell!cell
  OBVIOUS
<1>1. CASE spoiled' = TRUE
  BY <1>1, AnAccident
<1>2. CASE spoiled' # TRUE
  <2>1. ASSUME UNCHANGED <<file, answered, overlooked, spoiled>> PROVE [Cell!Next]_Cell!cell
    BY <2>1 DEF Cell!cell
  <2>2. ASSUME NEW t \in Tasks, Remove(t) PROVE UNCHANGED <<file, answered, overlooked, spoiled>>
    BY <1>2, <2>2 DEF Remove, Accident, KInv, Shape
  <2>3. ASSUME NEW t \in Tasks,
               \/ Guard(t) \/ Create(t, "create") \/ Create(t, "again") \/ Exists(t) \/ Locked(t)
               \/ Read(t) \/ BeginUpdate(t) \/ Abandon(t)
        PROVE  UNCHANGED <<file, answered, overlooked, spoiled>>
    BY <2>3 DEF Guard, Create, Exists, Locked, Read, BeginUpdate, Abandon, disk, ghosts
  <2>4. ASSUME NEW p \in Processes, Crash(p) PROVE UNCHANGED <<file, answered, overlooked, spoiled>>
    BY <2>4 DEF Crash, disk, ghosts
  <2>5. CASE UNCHANGED vars
    BY <2>1, <2>5 DEF vars, disk, ghosts
  <2>6. ASSUME NEW t \in Tasks, Write(t) \/ Unlock(t) \/ PutAside(t)
        PROVE  [Cell!Next]_Cell!cell
    BY <1>2, <2>6, WriteIsAnOperation, UnlockAnswers, PutAsideIsSetAside
  <2>7. ASSUME NEW t \in Tasks, BeginLoad(t) \/ IoError(t) PROVE [Cell!Next]_Cell!cell
    <3>1. UNCHANGED <<file, answered, spoiled>> /\ (UNCHANGED overlooked \/ Unmigrated)
      BY <2>7 DEF BeginLoad, IoError, disk
    <3>2. ~spoiled
      BY <1>2, <3>1 DEF KInv, Shape
    <3> QED
      BY <3>1, <3>2, OverlooksAtMost
  <2>8. ASSUME NEW t \in Tasks, TakeForAbsent(t) PROVE FALSE
    BY <1>2, <2>8 DEF TakeForAbsent, Accident, KInv, Shape
  <2> QED
    BY <2>1, <2>2, <2>3, <2>4, <2>5, <2>6, <2>7, <2>8 DEF Next, Step
<1> QED
  BY <1>1, <1>2, Zenon

\* The settings file under its two locks (config.rs, lock.rs, manager.rs)
\* implements the cell, for any number of processes, tasks, deaths and errors of
\* the disk: every change is one whole operation, an answered update stays in the
\* file, up to the first accident, and a file of the old format keeps its setting
\* unless a load could not read it when it looked for that format.
THEOREM CellIsKept == Spec => KeepsCell
<1>1. Init => KInv /\ Formats
  BY KInitHolds, FormatsStart
<1>2. KInv /\ Formats /\ [Next]_vars => KInv' /\ Formats'
  BY KNextKeeps, FormatsStep
<1>3. Init => Cell!Init
  BY CellInit
<1>4. KInv /\ Formats /\ [Next]_vars => [Cell!Next]_Cell!cell
  BY CellStep
<1> QED
  BY <1>1, <1>2, <1>3, <1>4, PTL DEF Spec, KeepsCell, Cell!Spec

-----------------------------------------------------------------------------
(* Types and the locks of the processes.                                    *)

Unguarded == {"idle", "guard", "aside"}

\* Lives do not outrun the deaths, and a lock of a process is its holder's.
GuardInv ==
    /\ crashes \in 0..MaxCrashes /\ life \in [Processes -> 0..crashes] /\ lockfile.life <= crashes
    /\ loaded \in [Processes -> BOOLEAN] /\ guard \in [Processes -> Tasks \cup {None}]
    /\ \A p \in Processes : guard[p] # None => Home[guard[p]] = p
    /\ \A t \in Tasks : guard[Home[t]] = t <=> pc[t] \notin Unguarded /\ ~dropped[t]
    /\ answered \subseteq Tasks

LEMMA GuardStart == Init => GuardInv
BY ConfigAssumption DEF Init, GuardInv, Unguarded, NoLock

LEMMA GuardStep == KInv /\ GuardInv /\ [Next]_vars => GuardInv'
<1> SUFFICES ASSUME KInv, GuardInv, [Next]_vars PROVE GuardInv'
  OBVIOUS
<1> USE ConfigAssumption
<1>1. ASSUME NEW t \in Tasks, Guard(t) PROVE GuardInv'
  <2>1. /\ pc[t] = "guard" /\ guard[Home[t]] = None /\ Home[t] \in Processes
        /\ guard' = [guard EXCEPT ![Home[t]] = t] /\ pc' = [pc EXCEPT ![t] = "create"] /\ dropped' = dropped
        /\ UNCHANGED <<crashes, life, lockfile, loaded, answered>>
    BY <1>1 DEF Guard, At, Goto, disk, procs, ghosts
  <2>2. dropped[t] = FALSE
    BY <2>1 DEF KInv, IInv, DroppedBlocks, Blocking, Types
  <2>3. \A p \in Processes : guard'[p] = IF p = Home[t] THEN t ELSE guard[p]
    BY <2>1 DEF GuardInv
  <2>4. \A s \in Tasks : pc'[s] = IF s = t THEN "create" ELSE pc[s]
    BY <2>1 DEF KInv, IInv, Types
  <2>5. \A s \in Tasks : guard'[Home[s]] = s <=> pc'[s] \notin Unguarded /\ ~dropped'[s]
    BY <2>1, <2>2, <2>3, <2>4 DEF GuardInv, Unguarded
  <2>6. guard' \in [Processes -> Tasks \cup {None}]
    BY <2>1 DEF GuardInv
  <2> QED BY <2>1, <2>3, <2>5, <2>6 DEF GuardInv
<1>2. ASSUME NEW t \in Tasks, Create(t, "create") \/ Create(t, "again") PROVE GuardInv'
  BY <1>2 DEF Create, At, Goto, Finish, Mine, NoLock, KInv, IInv, Types, Lock, Labels, GuardInv,
     Unguarded, disk, procs, ghosts
<1>3. ASSUME NEW t \in Tasks, Exists(t) PROVE GuardInv'
  BY <1>3 DEF Exists, At, KInv, IInv, Types, Lock, Labels, GuardInv, Unguarded, disk, procs, ghosts
<1>4. ASSUME NEW t \in Tasks, Remove(t) PROVE GuardInv'
  BY <1>4 DEF Remove, At, Accident, NoLock, KInv, IInv, Types, Lock, Labels, GuardInv, Unguarded,
     disk, procs, ghosts
<1>5. ASSUME NEW t \in Tasks, Locked(t) PROVE GuardInv'
  BY <1>5 DEF Locked, At, Free, Finish, KInv, IInv, Types, Lock, Labels, GuardInv, Unguarded,
     disk, procs, ghosts
<1>6. ASSUME NEW t \in Tasks, Read(t) PROVE GuardInv'
  BY <1>6 DEF Read, At, KInv, IInv, Types, Lock, Labels, GuardInv, Unguarded, disk, procs, ghosts
<1>7. ASSUME NEW t \in Tasks, Write(t) PROVE GuardInv'
  BY <1>7 DEF Write, At, Accident, Finish, KInv, IInv, Types, Lock, Labels, GuardInv, Unguarded,
     disk, procs, ghosts
<1>8. ASSUME NEW t \in Tasks, Unlock(t) PROVE GuardInv'
  BY <1>8 DEF Unlock, Release, At, Free, Finish, Enter, Goto, NoLock, KInv, IInv, Types, Lock,
     Labels,
     GuardInv, Unguarded, disk, procs, ghosts
<1>9. ASSUME NEW t \in Tasks, PutAside(t) PROVE GuardInv'
  BY <1>9 DEF PutAside, At, Finish, Enter, Accident, KInv, IInv, Types, Lock, Labels, GuardInv,
     Unguarded, disk, procs, ghosts
<1>10. ASSUME NEW t \in Tasks, BeginUpdate(t) PROVE GuardInv'
  BY <1>10 DEF BeginUpdate, At, Enter, KInv, IInv, Types, Lock, Labels, GuardInv, Unguarded,
     disk, procs, ghosts
<1>11. ASSUME NEW t \in Tasks, BeginLoad(t) PROVE GuardInv'
  BY <1>11 DEF BeginLoad, At, Enter, KInv, IInv, Types, Lock, Labels, GuardInv, Unguarded, disk,
     procs, ghosts
<1>12. ASSUME NEW t \in Tasks, Abandon(t) PROVE GuardInv'
  BY <1>12 DEF Abandon, GiveBack, Release, Inside, Finish, NoLock, KInv, IInv, Types, Lock, Labels,
     GuardInv, Unguarded,
     disk, procs, ghosts
<1>13. ASSUME NEW p \in Processes, Crash(p) PROVE GuardInv'
  BY <1>13 DEF Crash, KInv, IInv, Types, Lock, Labels, GuardInv, Unguarded, disk, procs, ghosts
<1>14. CASE UNCHANGED vars
  BY <1>14 DEF vars, task, KInv, IInv, Types, Lock, Labels, GuardInv, Unguarded, disk, procs, ghosts
<1>15. ASSUME NEW t \in Tasks, IoError(t) PROVE GuardInv'
  BY <1>15 DEF IoError, GiveBack, Release, Inside, At, Enter, Finish, NoLock, KInv, IInv, Types,
     Lock,
     Labels, GuardInv, Unguarded, disk, procs, ghosts
<1>16. ASSUME NEW t \in Tasks, TakeForAbsent(t) PROVE GuardInv'
  BY <1>16 DEF TakeForAbsent, At, Accident, KInv, IInv, Types, Lock, Labels, GuardInv, Unguarded,
     disk, procs
<1> QED BY <1>1, <1>2, <1>3, <1>4, <1>5, <1>6, <1>7, <1>8, <1>9, <1>10, <1>11, <1>12, <1>13,
           <1>14, <1>15, <1>16 DEF Next, Step

\* Types, and the lock of a process is held by exactly the task that is between
\* taking and leaving it (process_lock_registry, lock_config).
THEOREM Typing == Spec => []TypeOK
<1>1. KInv /\ Formats /\ GuardInv => TypeOK
  BY ConfigAssumption DEF KInv, IInv, Types, Lock, Labels, JudgedIsDead, Shape, Content,
     Formats, GuardInv, Unguarded, TypeOK
<1> QED BY <1>1, KInitHolds, KNextKeeps, FormatsStart, FormatsStep, GuardStart, GuardStep,
           PTL DEF Spec

=============================================================================
