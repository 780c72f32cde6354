------------------------- MODULE CronSchedulerProofs -------------------------
(***************************************************************************)
(* Proofs about CronScheduler: types and who holds the mutex, that the     *)
(* file follows the list in memory, and that every run of the scheduler is *)
(* one the schedule asks for.                                              *)
(***************************************************************************)
EXTENDS CronScheduler, TLAPS, WellFoundedInduction

Labels  == {"idle", "sleep", "wait", "execute", "record", "save", "off"}
Working == {"execute", "record", "save"}

LEMMA Bounds ==
    /\ MaxTasks \in Nat /\ MaxTime \in Nat /\ MaxCalls \in Nat /\ MaxCrashes \in Nat
    /\ Scheduler \notin Callers /\ None \notin Actors
    /\ \A p \in Periods : p \in Nat /\ p > 0
BY CronAssumption DEF Actors

\* The next occurrence lies in the future.
LEMMA NextRunLater ==
    ASSUME NEW p \in Periods, NEW t \in Nat
    PROVE  NextRun(p, t) \in Nat /\ NextRun(p, t) > t
<1>1. p \in Nat /\ p > 0
  BY Bounds
<1>2. t \div p \in Nat /\ t = p * (t \div p) + (t % p) /\ t % p \in 0..(p - 1)
  BY <1>1
<1> DEFINE q == t \div p
<1>3. q \in Nat /\ t < p * q + p
  BY <1>1, <1>2
<1> HIDE DEF q
<1>4. (q + 1) * p = p * q + p /\ p * q \in Nat
  BY <1>1, <1>3
<1>5. NextRun(p, t) = (q + 1) * p
  BY DEF NextRun, q
<1> QED BY <1>1, <1>3, <1>4, <1>5

\* Moving a task's next occurrence moves nothing else.
LEMMA Moved ==
    ASSUME NEW list \in Lists, NEW t \in Ids, list[t] # None, NEW n \in Nat
    PROVE  /\ [list EXCEPT ![t].next = n] \in Lists
           /\ [list EXCEPT ![t].next = n][t] = [on |-> list[t].on, period |-> list[t].period, next |-> n]
           /\ \A u \in Ids \ {t} : [list EXCEPT ![t].next = n][u] = list[u]
BY DEF Lists, Task

\* What a change does to each task: nothing, its removal, a new schedule, or the
\* end of its old one.
LEMMA ChangedIs ==
    ASSUME TypeOK, NEW r \in Request, r.kind # "run",
           IF r.kind = "create" THEN made < MaxTasks ELSE memory[r.task] # None
    PROVE  /\ Changed(r) \in Lists
           /\ \A t \in Ids :
                \/ Changed(r)[t] = memory[t]
                \/ Changed(r)[t] = None
                \/ Changed(r)[t] \in Task /\ Changed(r)[t].next > now
                \/ Changed(r)[t] \in Task /\ ~Changed(r)[t].on
                     /\ memory[t] # None /\ Changed(r)[t].next = memory[t].next
<1>1. now \in Nat /\ memory \in Lists /\ made \in Nat
  BY Bounds DEF TypeOK
<1>2. r.task \in Ids /\ r.on \in BOOLEAN /\ r.period \in Periods
  BY DEF Request
<1>3. Drafted(r) \in Task /\ Drafted(r).next > now
  BY <1>1, <1>2, NextRunLater DEF Drafted, Task
<1>4. CASE r.kind = "create"
  <2>1. made + 1 \in Ids
    BY <1>1, <1>4, Bounds DEF Ids
  <2>2. Changed(r) = [memory EXCEPT ![made + 1] = Drafted(r)]
    BY <1>4 DEF Changed
  <2> QED BY <1>1, <1>3, <2>1, <2>2 DEF Lists
<1>5. CASE r.kind = "update"
  <2>1. Changed(r) = [memory EXCEPT ![r.task] = Drafted(r)]
    BY <1>5 DEF Changed
  <2> QED BY <1>1, <1>2, <1>3, <2>1 DEF Lists
<1>6. CASE r.kind = "delete"
  <2>1. Changed(r) = [memory EXCEPT ![r.task] = None]
    BY <1>6 DEF Changed
  <2> QED BY <1>1, <1>2, <2>1 DEF Lists
<1>7. CASE r.kind = "toggle"
  <2> DEFINE n == IF r.on THEN NextRun(memory[r.task].period, now) ELSE memory[r.task].next
             u == [on |-> r.on, period |-> memory[r.task].period, next |-> n]
  <2>1. memory[r.task] \in Task
    BY <1>1, <1>2, <1>7 DEF Lists
  <2>2. n \in Nat /\ (r.on => n > now)
    BY <1>1, <1>2, <2>1, NextRunLater DEF Task
  <2>3. Changed(r) = [memory EXCEPT ![r.task] = u]
    BY <1>7 DEF Changed
  <2>4. u \in Task
    BY <1>2, <2>1, <2>2 DEF Task
  <2> QED BY <1>1, <1>2, <1>7, <2>1, <2>2, <2>3, <2>4 DEF Lists
<1> QED BY <1>4, <1>5, <1>6, <1>7 DEF Request

\* The smallest of a set of numbers.
Below == OpToRel(<, Nat)

LEMMA BelowWellFounded == IsWellFoundedOn(Below, Nat)
BY NatLessThanWellFounded, Zenon DEF Below

LEMMA BelowIs == \A x, y \in Nat : x < y => <<x, y>> \in Below
BY DEF Below, OpToRel

LEMMA MinOf ==
    ASSUME NEW S, S \subseteq Nat, S # {}
    PROVE  Min(S) \in S
<1>1. PICK x \in S : \A y \in S : ~ (<<y, x>> \in Below)
  BY BelowWellFounded, WFMin
<1>2. \A y \in S : ~ (y < x)
  BY <1>1, BelowIs, Zenon
<1>3. \A y \in S : x <= y
  BY <1>2
<1> QED BY <1>3 DEF Min

\* The scheduler runs one of the due tasks.
LEMMA CurrentIsDue ==
    ASSUME TypeOK, due # {}
    PROVE  Min(due) \in due /\ Min(due) \in Ids /\ Current(Scheduler) = Min(due)
<1>1. due \subseteq Nat
  BY Bounds DEF TypeOK, Ids
<1> QED BY <1>1, MinOf DEF TypeOK, Current

-----------------------------------------------------------------------------
(* Types, with what the actor that has the mutex works on.                   *)

\* A caller that is not idle has a request, and the task it runs is in the list;
\* nobody works while the host is down.
RequestInv ==
    /\ \A c \in Callers :
        /\ pc[c] \in {"idle", "wait"} \union Working
        /\ pc[c] # "idle" => request[c] \in Request
        /\ pc[c] \in {"execute", "record"} => memory[request[c].task] # None
    /\ pc[Scheduler] \in {"sleep", "off"} \union Working
    /\ ~up => \A a \in Actors : pc[a] \in {"idle", "off"}

\* Every task the scheduler has yet to run is due in a list.
DueIn(list) == \A t \in due : list[t] # None /\ list[t].on /\ list[t].next <= at

\* The tasks that were collected stay due while the scheduler has the mutex.
DueInv ==
    /\ due # {} <=> holder = Scheduler
    /\ pc[Scheduler] \in {"execute", "record"} => DueIn(memory)
    /\ pc[Scheduler] = "save" =>
        /\ DueIn(previous)
        /\ memory = [previous EXCEPT ![Min(due)].next = NextRun(previous[Min(due)].period, at)]

\* What has been recorded lies before the run that is under way.
PastInv ==
    /\ at <= now
    /\ \A t \in Ids : recorded[t] <= now /\ slept[t] <= now
    /\ holder # None /\ (holder = Scheduler \/ pc[holder] # "save")
         => \A t \in Ids : recorded[t] <= at /\ slept[t] <= at

WorkInv == RequestInv /\ DueInv /\ PastInv

LEMMA GotoIs ==
    ASSUME TypeOK, NEW a \in Actors, NEW label \in Labels, Goto(a, label)
    PROVE  /\ pc' \in [Actors -> Labels] /\ pc'[a] = label
           /\ \A b \in Actors \ {a} : pc'[b] = pc[b]
BY DEF TypeOK, Goto, Labels

\* What an operation that ends leaves behind.
LEMMA ReleaseIs ==
    ASSUME TypeOK, RequestInv, NEW a \in Actors, Release(a)
    PROVE  /\ pc' \in [Actors -> Labels]
           /\ pc'[a] = IF a = Scheduler THEN "sleep" ELSE "idle"
           /\ \A b \in Actors \ {a} : pc'[b] = pc[b]
           /\ holder' \in Actors \union {None} /\ holder' \in {None, holder} /\ holder' # a
           /\ holder # a => holder' = holder
           /\ \A b \in Actors : pc'[b] \in Working <=> holder' = b
           /\ request' \in [Callers -> Request \union {None}]
           /\ \A c \in Callers : c # a => request'[c] = request[c]
           /\ previous' \in Lists /\ at' \in 0..MaxTime /\ at' <= at
           /\ holder # a => previous' = previous /\ at' = at
<1>1. pc' \in [Actors -> Labels] /\ pc'[a] = (IF a = Scheduler THEN "sleep" ELSE "idle")
      /\ \A b \in Actors \ {a} : pc'[b] = pc[b]
  BY GotoIs DEF Release, Labels
<1>2. holder' = (IF holder = a THEN None ELSE holder)
  BY DEF Release
<1>3. None \notin Actors
  BY Bounds
<1>4. \A b \in Actors : pc'[b] \in Working <=> holder' = b
  BY <1>1, <1>2, <1>3 DEF TypeOK, Working
<1>5. request' \in [Callers -> Request \union {None}] /\ \A c \in Callers : c # a => request'[c] = request[c]
  BY DEF Release, TypeOK, Actors
<1>6. Empty \in Lists
  BY DEF Empty, Lists
<1>7. at \in Nat /\ at \in 0..MaxTime /\ MaxTime \in Nat
  BY Bounds DEF TypeOK
<1>8. previous' \in Lists /\ at' \in 0..MaxTime /\ at' <= at
  BY <1>6, <1>7 DEF Release, TypeOK
<1> QED BY <1>1, <1>2, <1>3, <1>4, <1>5, <1>8 DEF Release, TypeOK

\* The task that an actor runs is in the list, the scheduler's is due.
LEMMA TaskIs ==
    ASSUME TypeOK, WorkInv, NEW a \in Actors, pc[a] \in {"execute", "record"}
    PROVE  /\ Current(a) \in Ids /\ memory[Current(a)] \in Task /\ memory[Current(a)] # None
           /\ a = Scheduler => Current(a) = Min(due) /\ Min(due) \in due
<1>1. CASE a = Scheduler
  <2>1. due # {}
    BY <1>1 DEF WorkInv, DueInv, TypeOK
  <2> QED BY <1>1, <2>1, CurrentIsDue DEF WorkInv, DueInv, DueIn, TypeOK, Lists
<1>2. CASE a # Scheduler
  <2>1. a \in Callers /\ Current(a) = request[a].task /\ request[a] \in Request
    BY <1>2 DEF Current, WorkInv, RequestInv, Actors
  <2>2. memory[request[a].task] # None /\ request[a].task \in Ids
    BY <2>1 DEF WorkInv, RequestInv, Request
  <2> QED BY <1>2, <2>1, <2>2 DEF TypeOK, Lists
<1> QED BY <1>1, <1>2

LEMMA WorkStarts == Init => TypeOK /\ WorkInv
<1> SUFFICES ASSUME Init PROVE TypeOK /\ WorkInv
  OBVIOUS
<1>1. memory \in Lists /\ disk \in Lists /\ previous \in Lists /\ late \subseteq Lists
  BY DEF Init, Lists, Empty
<1>3. pc \in [Actors -> {"idle", "sleep"}] /\ holder = None /\ request \in [Callers -> {None}]
  BY DEF Init
<1>4. \A a \in Actors : pc[a] \notin {"execute", "record", "save"} /\ holder # a
  BY <1>3, Bounds
<1>5. now = 0 /\ at = 0 /\ made = 0 /\ calls = 0 /\ crashes = 0 /\ due = {}
      /\ recorded \in [Ids -> {0}] /\ slept \in [Ids -> {0}]
  BY DEF Init
<1>6. up = TRUE /\ stopping = FALSE /\ dropped = FALSE /\ reverted = FALSE
  BY DEF Init
<1>7. 0 \in 0..MaxTime /\ 0 \in 0..MaxTasks /\ 0 \in 0..MaxCalls /\ 0 \in 0..MaxCrashes
  BY Bounds
<1>8. TypeOK
  BY <1>1, <1>3, <1>4, <1>5, <1>6, <1>7 DEF TypeOK
<1>2. RequestInv /\ DueInv /\ PastInv
  BY Bounds DEF Init, RequestInv, DueInv, PastInv, Working, Actors
<1> QED BY <1>8, <1>2 DEF WorkInv

LEMMA WorkStep == TypeOK /\ WorkInv /\ [Next]_vars => TypeOK' /\ WorkInv'
<1> SUFFICES ASSUME TypeOK, WorkInv, [Next]_vars PROVE TypeOK' /\ WorkInv'
  OBVIOUS
<1> USE Bounds
<1>1. ASSUME Tick PROVE TypeOK' /\ WorkInv'
  <2>1. TypeOK'
    BY <1>1 DEF Tick, TypeOK, WorkInv, RequestInv, DueInv, DueIn, Working, Labels, Actors, vars,
       clock, host, files, work, api
  <2>2. RequestInv'
    BY <1>1 DEF Tick, TypeOK, WorkInv, RequestInv, DueInv, DueIn, Working, Labels, Actors, vars,
       clock, host, files, work, api
  <2>3. DueInv'
    BY <1>1 DEF Tick, TypeOK, WorkInv, RequestInv, DueInv, DueIn, Working, Labels, Actors, vars,
       clock, host, files, work, api
  <2>4. PastInv'
    BY <1>1 DEF Tick, TypeOK, WorkInv, RequestInv, PastInv, DueInv, DueIn, Working, Labels,
       Actors, vars, clock, host, files, work, api
  <2> QED BY <2>1, <2>2, <2>3, <2>4 DEF WorkInv
<1>2. ASSUME NEW c \in Callers, Call(c) PROVE TypeOK' /\ WorkInv'
  <2>1. TypeOK'
    BY <1>2, GotoIs DEF Call, TypeOK, WorkInv, RequestInv, DueInv, DueIn, Working, Labels,
       Actors, vars, clock, host, files, work, api
  <2>2. RequestInv'
    BY <1>2, GotoIs DEF Call, TypeOK, WorkInv, RequestInv, DueInv, DueIn, Working, Labels,
       Actors, vars, clock, host, files, work, api
  <2>3. DueInv'
    BY <1>2, GotoIs DEF Call, TypeOK, WorkInv, RequestInv, DueInv, DueIn, Working, Labels,
       Actors, vars, clock, host, files, work, api
  <2>4. PastInv'
    BY <1>2, GotoIs DEF Call, TypeOK, WorkInv, RequestInv, PastInv, DueInv, DueIn, Working,
       Labels, Actors, vars, clock, host, files, work, api
  <2> QED BY <2>1, <2>2, <2>3, <2>4 DEF WorkInv
<1>3. ASSUME NEW c \in Callers, NotFound(c) PROVE TypeOK' /\ WorkInv'
  <2>1. TypeOK'
    BY <1>3, ReleaseIs DEF NotFound, TypeOK, WorkInv, RequestInv, DueInv, DueIn, Working, Labels,
       Actors, vars, clock, host, files, work, api
  <2>2. RequestInv'
    BY <1>3, ReleaseIs DEF NotFound, TypeOK, WorkInv, RequestInv, DueInv, DueIn, Working, Labels,
       Actors, vars, clock, host, files, work, api
  <2>3. DueInv'
    BY <1>3, ReleaseIs DEF NotFound, TypeOK, WorkInv, RequestInv, DueInv, DueIn, Working, Labels,
       Actors, vars, clock, host, files, work, api
  <2>4. PastInv'
    BY <1>3, ReleaseIs DEF NotFound, TypeOK, WorkInv, RequestInv, PastInv, DueInv, DueIn,
       Working, Labels, Actors, vars, clock, host, files, work, api
  <2> QED BY <2>1, <2>2, <2>3, <2>4 DEF WorkInv
<1>4. ASSUME NEW c \in Callers, Change(c) PROVE TypeOK' /\ WorkInv'
  <2>5. request[c] \in Request
    BY <1>4 DEF Change, WorkInv, RequestInv
  <2>6. memory' \in Lists /\ made' \in 0..MaxTasks
    BY <1>4, <2>5, ChangedIs DEF Change, TypeOK
  <2>7. pc' \in [Actors -> Labels] /\ \A b \in Actors : pc'[b] \in Working <=> holder' = b
    BY <1>4, GotoIs DEF Change, TypeOK, Working, Labels, Actors
  <2>1. TypeOK'
    BY <1>4, <2>6, <2>7 DEF Change, TypeOK, Working, Labels, Actors, clock, host, files
  <2>2. RequestInv'
    BY <1>4, GotoIs DEF Change, TypeOK, WorkInv, RequestInv, DueInv, DueIn, Working, Labels,
       Actors, vars, clock, host, files, work, api
  <2>3. DueInv'
    BY <1>4, GotoIs DEF Change, TypeOK, WorkInv, RequestInv, DueInv, DueIn, Working, Labels,
       Actors, vars, clock, host, files, work, api
  <2>4. PastInv'
    BY <1>4, GotoIs DEF Change, TypeOK, WorkInv, RequestInv, PastInv, DueInv, DueIn, Working,
       Labels, Actors, vars, clock, host, files, work, api
  <2> QED BY <2>1, <2>2, <2>3, <2>4 DEF WorkInv
<1>5. ASSUME NEW c \in Callers, RunNow(c) PROVE TypeOK' /\ WorkInv'
  <2>1. TypeOK'
    BY <1>5, GotoIs DEF RunNow, TypeOK, WorkInv, RequestInv, DueInv, DueIn, Working, Labels,
       Actors, vars, clock, host, files, work, api
  <2>2. RequestInv'
    BY <1>5, GotoIs DEF RunNow, TypeOK, WorkInv, RequestInv, DueInv, DueIn, Working, Labels,
       Actors, vars, clock, host, files, work, api
  <2>3. DueInv'
    BY <1>5, GotoIs DEF RunNow, TypeOK, WorkInv, RequestInv, DueInv, DueIn, Working, Labels,
       Actors, vars, clock, host, files, work, api
  <2>4. PastInv'
    BY <1>5, GotoIs DEF RunNow, TypeOK, WorkInv, RequestInv, PastInv, DueInv, DueIn, Working,
       Labels, Actors, vars, clock, host, files, work, api
  <2> QED BY <2>1, <2>2, <2>3, <2>4 DEF WorkInv
<1>6. ASSUME NEW c \in Callers, Cancel(c) PROVE TypeOK' /\ WorkInv'
  <2>1. TypeOK'
    BY <1>6, ReleaseIs DEF Cancel, TypeOK, WorkInv, RequestInv, DueInv, DueIn, Working, Labels,
       Actors, vars, clock, host, files, work, api
  <2>2. RequestInv'
    BY <1>6, ReleaseIs DEF Cancel, TypeOK, WorkInv, RequestInv, DueInv, DueIn, Working, Labels,
       Actors, vars, clock, host, files, work, api
  <2>3. DueInv'
    BY <1>6, ReleaseIs DEF Cancel, TypeOK, WorkInv, RequestInv, DueInv, DueIn, Working, Labels,
       Actors, vars, clock, host, files, work, api
  <2>4. PastInv'
    BY <1>6, ReleaseIs DEF Cancel, TypeOK, WorkInv, RequestInv, PastInv, DueInv, DueIn, Working,
       Labels, Actors, vars, clock, host, files, work, api
  <2> QED BY <2>1, <2>2, <2>3, <2>4 DEF WorkInv
<1>7. ASSUME Collect PROVE TypeOK' /\ WorkInv'
  <2>1. TypeOK'
    BY <1>7, GotoIs, ReleaseIs DEF Collect, TypeOK, WorkInv, RequestInv, DueInv, DueIn, Working,
       Labels, Actors, vars, clock, host, files, work, api
  <2>2. RequestInv'
    BY <1>7, GotoIs, ReleaseIs DEF Collect, TypeOK, WorkInv, RequestInv, DueInv, DueIn, Working,
       Labels, Actors, vars, clock, host, files, work, api
  <2>5. ASSUME due' = {} PROVE DueInv'
    BY <1>7, <2>5, ReleaseIs DEF Collect, TypeOK, WorkInv, RequestInv, DueInv, DueIn, Working,
       Labels, Actors, clock, host, files, work, api
  <2>6. ASSUME due' # {} PROVE DueInv'
    <3>1. \A t \in due' : memory'[t] # None /\ memory'[t].on /\ memory'[t].next <= at'
      BY <1>7, <2>6 DEF Collect, IsDue
    <3>2. pc'[Scheduler] = "execute" /\ holder' = Scheduler
      BY <1>7, <2>6, GotoIs DEF Collect, Labels, Actors
    <3> QED BY <2>6, <3>1, <3>2 DEF DueInv, DueIn
  <2>3. DueInv'
    BY <2>5, <2>6
  <2>4. PastInv'
    BY <1>7, GotoIs, ReleaseIs DEF Collect, TypeOK, WorkInv, RequestInv, PastInv, DueInv, DueIn,
       Working, Labels, Actors, vars, clock, host, files, work, api
  <2> QED BY <2>1, <2>2, <2>3, <2>4 DEF WorkInv
<1>8. ASSUME StopScheduler PROVE TypeOK' /\ WorkInv'
  <2>1. TypeOK'
    BY <1>8, GotoIs DEF StopScheduler, TypeOK, WorkInv, RequestInv, DueInv, DueIn, Working,
       Labels, Actors, vars, clock, host, files, work, api
  <2>2. RequestInv'
    BY <1>8, GotoIs DEF StopScheduler, TypeOK, WorkInv, RequestInv, DueInv, DueIn, Working,
       Labels, Actors, vars, clock, host, files, work, api
  <2>3. DueInv'
    BY <1>8, GotoIs DEF StopScheduler, TypeOK, WorkInv, RequestInv, DueInv, DueIn, Working,
       Labels, Actors, vars, clock, host, files, work, api
  <2>4. PastInv'
    BY <1>8, GotoIs DEF StopScheduler, TypeOK, WorkInv, RequestInv, PastInv, DueInv, DueIn,
       Working, Labels, Actors, vars, clock, host, files, work, api
  <2> QED BY <2>1, <2>2, <2>3, <2>4 DEF WorkInv
<1>9. ASSUME NEW a \in Actors, Execute(a) PROVE TypeOK' /\ WorkInv'
  <2>1. TypeOK'
    BY <1>9, GotoIs DEF Execute, TypeOK, WorkInv, RequestInv, DueInv, DueIn, Working, Labels,
       Actors, vars, clock, host, files, work, api
  <2>2. RequestInv'
    BY <1>9, GotoIs DEF Execute, TypeOK, WorkInv, RequestInv, DueInv, DueIn, Working, Labels,
       Actors, vars, clock, host, files, work, api
  <2>3. DueInv'
    BY <1>9, GotoIs DEF Execute, TypeOK, WorkInv, RequestInv, DueInv, DueIn, Working, Labels,
       Actors, vars, clock, host, files, work, api
  <2>4. PastInv'
    BY <1>9, GotoIs, SMTT(30) DEF Execute, TypeOK, WorkInv, RequestInv, PastInv, DueInv, DueIn, Working,
       Labels, Actors, vars, clock, host, files, work, api
  <2> QED BY <2>1, <2>2, <2>3, <2>4 DEF WorkInv
<1>10. ASSUME NEW a \in Actors, Record(a) PROVE TypeOK' /\ WorkInv'
  <2>5. Current(a) \in Ids /\ memory[Current(a)] \in Task /\ memory[Current(a)] # None
    BY <1>10, TaskIs DEF Record
  <2>6. NextRun(memory[Current(a)].period, at) \in Nat
    BY <2>5, NextRunLater DEF Task, TypeOK
  <2>7. memory' \in Lists /\ previous' \in Lists
    BY <1>10, <2>5, <2>6, Moved DEF Record, TypeOK
  <2>8. pc' \in [Actors -> Labels] /\ \A b \in Actors : pc'[b] \in Working <=> holder' = b
    BY <1>10, GotoIs DEF Record, TypeOK, Working, Labels, Actors
  <2>1. TypeOK'
    BY <1>10, <2>7, <2>8 DEF Record, TypeOK, Working, Labels, clock, host, files, api
  <2>2. RequestInv'
    BY <1>10, GotoIs DEF Record, TypeOK, WorkInv, RequestInv, DueInv, DueIn, Working, Labels,
       Actors, vars, clock, host, files, work, api
  <2>9. ASSUME a = Scheduler PROVE DueInv'
    <3>1. pc'[Scheduler] = "save" /\ DueIn(memory) /\ due' = due /\ at' = at /\ holder' = holder
      BY <1>10, <2>9, GotoIs DEF Record, Labels, WorkInv, DueInv
    <3>2. Current(a) = Min(due)
      BY <1>10, <2>9, TaskIs DEF Record
    <3>3. memory' = [previous' EXCEPT ![Min(due)].next = NextRun(previous'[Min(due)].period, at)]
      BY <1>10, <3>2 DEF Record
    <3>4. previous' = memory
      BY <1>10 DEF Record
    <3>5. \A t \in due' : previous'[t] # None /\ previous'[t].on /\ previous'[t].next <= at'
      BY <3>1, <3>4 DEF DueIn
    <3> QED BY <3>1, <3>3, <3>5 DEF DueInv, DueIn, WorkInv
  <2>10. ASSUME a # Scheduler PROVE DueInv'
    <3>1. pc[Scheduler] \notin Working /\ pc'[Scheduler] = pc[Scheduler]
      BY <1>10, <2>10, GotoIs DEF Record, Labels, Working, TypeOK, Actors
    <3> QED BY <1>10, <3>1 DEF Record, DueInv, WorkInv, Working
  <2>3. DueInv'
    BY <2>9, <2>10
  <2>4. PastInv'
    BY <1>10, GotoIs DEF Record, TypeOK, WorkInv, RequestInv, PastInv, DueInv, DueIn, Working,
       Labels, Actors, vars, clock, host, files, work, api
  <2> QED BY <2>1, <2>2, <2>3, <2>4 DEF WorkInv
<1>11. ASSUME NEW a \in Actors, Saved(a) PROVE TypeOK' /\ WorkInv'
  <2>1. CASE a = Scheduler
    <3>1. due # {} /\ Min(due) \in due /\ Min(due) \in Ids /\ Current(a) = Min(due)
      BY <1>11, <2>1, CurrentIsDue DEF Saved, TypeOK, WorkInv, DueInv
    <3>2. DueIn(previous) /\ holder = Scheduler /\ \A t \in Ids : recorded[t] <= at /\ slept[t] <= at
      BY <1>11, <2>1 DEF Saved, WorkInv, DueInv, PastInv, TypeOK
    <3>3. previous[Min(due)] \in Task /\ previous[Min(due)] # None /\ previous[Min(due)].next <= at
      BY <3>1, <3>2 DEF TypeOK, Lists, DueIn
    <3>4. previous[Min(due)].next \in 0..at /\ previous[Min(due)].next \in 0..MaxTime /\ at \in Nat /\ now \in Nat
      BY <3>3 DEF Task, TypeOK
    <3>5. recorded' = [recorded EXCEPT ![Min(due)] = previous[Min(due)].next] /\ due' = due \ {Min(due)}
      BY <1>11, <2>1, <3>1 DEF Saved
    <3>6. recorded' \in [Ids -> 0..MaxTime] /\ \A t \in Ids : recorded'[t] <= at /\ recorded'[t] <= now
      BY <3>1, <3>2, <3>4, <3>5 DEF WorkInv, PastInv, TypeOK
    <3>7. \A t \in due' : memory[t] # None /\ memory[t].on /\ memory[t].next <= at
      <4>1. NextRun(previous[Min(due)].period, at) \in Nat
        BY <3>3, <3>4, NextRunLater DEF Task
      <4>3. memory = [previous EXCEPT ![Min(due)].next = NextRun(previous[Min(due)].period, at)]
        BY <1>11, <2>1 DEF Saved, WorkInv, DueInv
      <4>2. \A t \in Ids \ {Min(due)} : memory[t] = previous[t]
        <5>1. previous \in Lists
          BY DEF TypeOK
        <5> QED BY <3>1, <3>3, <4>1, <4>3, <5>1, Moved
      <4> QED BY <3>2, <3>5, <4>2 DEF DueIn, TypeOK
    <3>8. CASE due' # {}
      <4>1. pc' \in [Actors -> Labels] /\ pc'[Scheduler] = "execute" /\ (\A b \in Actors \ {Scheduler} : pc'[b] = pc[b])
            /\ UNCHANGED <<holder, previous, at, request>>
        BY <1>11, <2>1, <3>8, GotoIs DEF Saved, Labels, Actors
      <4>2. TypeOK'
        BY <1>11, <2>1, <3>5, <3>6, <4>1 DEF Saved, TypeOK, clock, host, Labels, Working
      <4>3. RequestInv'
        BY <1>11, <4>1 DEF Saved, WorkInv, RequestInv, Working, Actors, host
      <4>4. DueInv'
        BY <1>11, <3>2, <3>7, <3>8, <4>1 DEF Saved, DueInv, DueIn
      <4>5. PastInv'
        BY <1>11, <3>2, <3>6, <4>1 DEF Saved, WorkInv, PastInv, clock
      <4> QED BY <4>2, <4>3, <4>4, <4>5 DEF WorkInv
    <3>9. CASE due' = {}
      <4>1. Release(Scheduler)
        BY <1>11, <2>1, <3>9 DEF Saved
      <4>2. TypeOK'
        BY <1>11, <3>5, <3>6, <4>1, ReleaseIs DEF Saved, TypeOK, clock, host, Labels, Working,
           Actors, WorkInv
      <4>3. RequestInv'
        BY <1>11, <3>2, <4>1, ReleaseIs DEF Saved, WorkInv, RequestInv, Working, Actors, host
      <4>4. DueInv'
        BY <3>2, <3>9, <4>1, ReleaseIs DEF WorkInv, DueInv, Actors
      <4>5. PastInv'
        BY <1>11, <3>2, <3>4, <3>6, <4>1, ReleaseIs DEF Saved, WorkInv, PastInv, clock, Actors,
           TypeOK
      <4> QED BY <4>2, <4>3, <4>4, <4>5 DEF WorkInv
    <3> QED BY <3>8, <3>9
  <2>2. CASE a # Scheduler
    <3>1. Release(a) /\ recorded' = recorded /\ due' = due /\ memory' = memory
      BY <1>11, <2>2 DEF Saved
    <3>2. holder = a /\ due = {}
      BY <1>11, <2>2 DEF Saved, TypeOK, WorkInv, DueInv, Working
    <3>3. TypeOK'
      BY <1>11, <3>1, ReleaseIs DEF Saved, TypeOK, clock, host, Labels, Working, WorkInv
    <3>4. RequestInv'
      BY <1>11, <2>2, <3>1, <3>2, ReleaseIs DEF Saved, WorkInv, RequestInv, Working, Actors, host
    <3>5. holder' = None /\ pc'[Scheduler] \notin Working
      BY <2>2, <3>1, <3>2, ReleaseIs DEF WorkInv, Actors
    <3>6. DueInv'
      BY <3>1, <3>2, <3>5 DEF DueInv, Working, Actors
    <3>7. PastInv'
      BY <1>11, <3>1, <3>5, ReleaseIs DEF Saved, WorkInv, PastInv, clock, TypeOK
    <3> QED BY <3>3, <3>4, <3>6, <3>7 DEF WorkInv
  <2> QED BY <2>1, <2>2
<1>12. ASSUME NEW a \in Actors, SaveFails(a) PROVE TypeOK' /\ WorkInv'
  <2>1. TypeOK'
    BY <1>12, ReleaseIs DEF SaveFails, TypeOK, WorkInv, RequestInv, DueInv, DueIn, Working,
       Labels, Actors, vars, clock, host, files, work, api
  <2>2. RequestInv'
    BY <1>12, ReleaseIs DEF SaveFails, TypeOK, WorkInv, RequestInv, DueInv, DueIn, Working,
       Labels, Actors, vars, clock, host, files, work, api
  <2>3. DueInv'
    BY <1>12, ReleaseIs DEF SaveFails, TypeOK, WorkInv, RequestInv, DueInv, DueIn, Working,
       Labels, Actors, vars, clock, host, files, work, api
  <2>4. PastInv'
    BY <1>12, ReleaseIs DEF SaveFails, TypeOK, WorkInv, RequestInv, PastInv, DueInv, DueIn,
       Working, Labels, Actors, vars, clock, host, files, work, api
  <2> QED BY <2>1, <2>2, <2>3, <2>4 DEF WorkInv
<1>13. ASSUME LateWrite PROVE TypeOK' /\ WorkInv'
  <2>1. TypeOK'
    BY <1>13 DEF LateWrite, TypeOK, WorkInv, RequestInv, DueInv, DueIn, Working, Labels, Actors,
       vars, clock, host, files, work, api
  <2>2. RequestInv'
    BY <1>13 DEF LateWrite, TypeOK, WorkInv, RequestInv, DueInv, DueIn, Working, Labels, Actors,
       vars, clock, host, files, work, api
  <2>3. DueInv'
    BY <1>13 DEF LateWrite, TypeOK, WorkInv, RequestInv, DueInv, DueIn, Working, Labels, Actors,
       vars, clock, host, files, work, api
  <2>4. PastInv'
    BY <1>13 DEF LateWrite, TypeOK, WorkInv, RequestInv, PastInv, DueInv, DueIn, Working, Labels,
       Actors, vars, clock, host, files, work, api
  <2> QED BY <2>1, <2>2, <2>3, <2>4 DEF WorkInv
<1>14. ASSUME Shutdown PROVE TypeOK' /\ WorkInv'
  <2>1. TypeOK'
    BY <1>14 DEF Shutdown, TypeOK, WorkInv, RequestInv, DueInv, DueIn, Working, Labels, Actors,
       vars, clock, host, files, work, api
  <2>2. RequestInv'
    BY <1>14 DEF Shutdown, TypeOK, WorkInv, RequestInv, DueInv, DueIn, Working, Labels, Actors,
       vars, clock, host, files, work, api
  <2>3. DueInv'
    BY <1>14 DEF Shutdown, TypeOK, WorkInv, RequestInv, DueInv, DueIn, Working, Labels, Actors,
       vars, clock, host, files, work, api
  <2>4. PastInv'
    BY <1>14 DEF Shutdown, TypeOK, WorkInv, RequestInv, PastInv, DueInv, DueIn, Working, Labels,
       Actors, vars, clock, host, files, work, api
  <2> QED BY <2>1, <2>2, <2>3, <2>4 DEF WorkInv
<1>15. ASSUME Die PROVE TypeOK' /\ WorkInv'
  <2>5. disk' \in Lists /\ memory' \in Lists /\ previous' \in Lists
    BY <1>15 DEF Die, TypeOK, Lists, Empty
  <2>6. pc' \in [Actors -> Labels] /\ (\A b \in Actors : pc'[b] \notin Working) /\ holder' = None
    BY <1>15 DEF Die, Labels, Working
  <2>7. crashes' \in 0..MaxCrashes /\ request' \in [Callers -> Request \union {None}] /\ at' \in 0..MaxTime
    BY <1>15 DEF Die, TypeOK
  <2>1. TypeOK'
    <3>1. \A b \in Actors : pc'[b] \in Working <=> holder' = b
      BY <2>6
    <3>2. late' = {} /\ due' = {} /\ up' = FALSE /\ stopping' = FALSE /\ dropped' = FALSE
      BY <1>15 DEF Die
    <3> QED BY <1>15, <2>5, <2>6, <2>7, <3>1, <3>2 DEF Die, TypeOK, Labels, Working, clock
  <2>2. RequestInv'
    BY <1>15 DEF Die, TypeOK, WorkInv, RequestInv, DueInv, DueIn, Working, Labels, Actors, vars,
       clock, host, files, work, api
  <2>3. DueInv'
    BY <1>15 DEF Die, TypeOK, WorkInv, RequestInv, DueInv, DueIn, Working, Labels, Actors, vars,
       clock, host, files, work, api
  <2>4. PastInv'
    BY <1>15 DEF Die, TypeOK, WorkInv, RequestInv, PastInv, DueInv, DueIn, Working, Labels,
       Actors, vars, clock, host, files, work, api
  <2> QED BY <2>1, <2>2, <2>3, <2>4 DEF WorkInv
<1>16. ASSUME Restart PROVE TypeOK' /\ WorkInv'
  <2>5. pc[Scheduler] \notin Working
    BY <1>16 DEF Restart, WorkInv, RequestInv, Working, Actors
  <2>1. TypeOK'
    BY <1>16, <2>5, GotoIs DEF Restart, TypeOK, Labels, Working, Actors, clock, files, work, api
  <2>2. RequestInv'
    BY <1>16, GotoIs DEF Restart, TypeOK, WorkInv, RequestInv, DueInv, DueIn, Working, Labels,
       Actors, vars, clock, host, files, work, api
  <2>3. DueInv'
    BY <1>16, GotoIs DEF Restart, TypeOK, WorkInv, RequestInv, DueInv, DueIn, Working, Labels,
       Actors, vars, clock, host, files, work, api
  <2>4. PastInv'
    BY <1>16, GotoIs DEF Restart, TypeOK, WorkInv, RequestInv, PastInv, DueInv, DueIn, Working,
       Labels, Actors, vars, clock, host, files, work, api
  <2> QED BY <2>1, <2>2, <2>3, <2>4 DEF WorkInv
<1>17. CASE UNCHANGED vars
  BY <1>17 DEF TypeOK, WorkInv, RequestInv, DueInv, DueIn, PastInv, Working, vars, clock, host,
     files, work, api
<1> QED BY <1>1, <1>2, <1>3, <1>4, <1>5, <1>6, <1>7, <1>8, <1>9, <1>10, <1>11, <1>12, <1>13,
           <1>14, <1>15, <1>16, <1>17 DEF Next

\* Types and the mutex, whatever the calls, the clock, failed and dropped saves
\* and deaths of the host do; the runs' bounds do not matter.
THEOREM Typing == Spec => []TypeOK
<1>1. TypeOK /\ WorkInv => TypeOK
  OBVIOUS
<1> QED BY <1>1, WorkStarts, WorkStep, PTL DEF Spec

LEMMA Works == Spec => [](TypeOK /\ WorkInv)
BY WorkStarts, WorkStep, PTL DEF Spec

-----------------------------------------------------------------------------
(* The file.                                                                 *)

Saving == holder # None /\ pc[holder] = "save"

\* The file has the list as it was before the change that is being saved.
FileInv ==
    /\ late # {} => dropped
    /\ ~dropped => disk = IF Saving THEN previous ELSE memory

LEMMA FileStep == TypeOK /\ WorkInv /\ FileInv /\ [Next]_vars => FileInv'
<1> SUFFICES ASSUME TypeOK, WorkInv, FileInv, [Next]_vars PROVE FileInv'
  OBVIOUS
<1> USE Bounds
<1>1. ASSUME Tick PROVE FileInv'
  BY <1>1 DEF Tick, FileInv, Saving, TypeOK, WorkInv, RequestInv, Working, Labels, Actors, clock,
     host, files, work, api
<1>2. ASSUME NEW c \in Callers, Call(c) PROVE FileInv'
  BY <1>2, GotoIs DEF Call, FileInv, Saving, TypeOK, WorkInv, RequestInv, Working, Labels,
     Actors, clock, host, files, work, api
<1>3. ASSUME NEW c \in Callers, NotFound(c) PROVE FileInv'
  BY <1>3, ReleaseIs DEF NotFound, FileInv, Saving, TypeOK, WorkInv, RequestInv, Working, Labels,
     Actors, clock, host, files, work, api
<1>4. ASSUME NEW c \in Callers, Change(c) PROVE FileInv'
  BY <1>4, GotoIs DEF Change, FileInv, Saving, TypeOK, WorkInv, RequestInv, Working, Labels,
     Actors, clock, host, files, work, api
<1>5. ASSUME NEW c \in Callers, RunNow(c) PROVE FileInv'
  BY <1>5, GotoIs DEF RunNow, FileInv, Saving, TypeOK, WorkInv, RequestInv, Working, Labels,
     Actors, clock, host, files, work, api
<1>6. ASSUME NEW c \in Callers, Cancel(c) PROVE FileInv'
  BY <1>6, ReleaseIs DEF Cancel, FileInv, Saving, TypeOK, WorkInv, RequestInv, Working, Labels,
     Actors, clock, host, files, work, api
<1>7. ASSUME Collect PROVE FileInv'
  BY <1>7, GotoIs, ReleaseIs DEF Collect, FileInv, Saving, TypeOK, WorkInv, RequestInv, Working,
     Labels, Actors, clock, host, files, work, api
<1>8. ASSUME StopScheduler PROVE FileInv'
  BY <1>8, GotoIs DEF StopScheduler, FileInv, Saving, TypeOK, WorkInv, RequestInv, Working,
     Labels, Actors, clock, host, files, work, api
<1>9. ASSUME NEW a \in Actors, Execute(a) PROVE FileInv'
  BY <1>9, GotoIs DEF Execute, FileInv, Saving, TypeOK, WorkInv, RequestInv, Working, Labels,
     Actors, clock, host, files, work, api
<1>10. ASSUME NEW a \in Actors, Record(a) PROVE FileInv'
  BY <1>10, GotoIs DEF Record, FileInv, Saving, TypeOK, WorkInv, RequestInv, Working, Labels,
     Actors, clock, host, files, work, api
<1>11. ASSUME NEW a \in Actors, Saved(a) PROVE FileInv'
  BY <1>11, GotoIs, ReleaseIs DEF Saved, FileInv, Saving, TypeOK, WorkInv, RequestInv, Working,
     Labels, Actors, clock, host, files, work, api
<1>12. ASSUME NEW a \in Actors, SaveFails(a) PROVE FileInv'
  BY <1>12, ReleaseIs DEF SaveFails, FileInv, Saving, TypeOK, WorkInv, RequestInv, Working,
     Labels, Actors, clock, host, files, work, api
<1>13. ASSUME LateWrite PROVE FileInv'
  BY <1>13 DEF LateWrite, FileInv, Saving, TypeOK, WorkInv, RequestInv, Working, Labels, Actors,
     clock, host, files, work, api
<1>14. ASSUME Shutdown PROVE FileInv'
  BY <1>14 DEF Shutdown, FileInv, Saving, TypeOK, WorkInv, RequestInv, Working, Labels, Actors,
     clock, host, files, work, api
<1>15. ASSUME Die PROVE FileInv'
  BY <1>15 DEF Die, FileInv, Saving, TypeOK, WorkInv, RequestInv, Working, Labels, Actors, clock,
     host, files, work, api
<1>16. ASSUME Restart PROVE FileInv'
  BY <1>16, GotoIs DEF Restart, FileInv, Saving, TypeOK, WorkInv, RequestInv, Working, Labels,
     Actors, clock, host, files, work, api
<1>17. CASE UNCHANGED vars
  BY <1>17 DEF FileInv, Saving, vars, files, work
<1> QED BY <1>1, <1>2, <1>3, <1>4, <1>5, <1>6, <1>7, <1>8, <1>9, <1>10, <1>11, <1>12, <1>13,
           <1>14, <1>15, <1>16, <1>17 DEF Next

\* Whenever nobody is at work the list in memory is the one in the file: a save
\* that fails puts the old list back (persist_or_restore), and a host that dies
\* in the middle of a save loads whatever the file has.
THEOREM FileFollows == Spec => []DiskIsMemory
<1>1. Init => FileInv
  BY DEF Init, FileInv, Saving
<1>2. FileInv => DiskIsMemory
  BY DEF FileInv, Saving, DiskIsMemory
<1> QED BY <1>1, <1>2, Works, FileStep, PTL DEF Spec

-----------------------------------------------------------------------------
(* The occurrences.                                                          *)

\* In a list every task's next occurrence is later than those it has run and
\* saved, and, if it is enabled, than any moment it was disabled.
Ahead(list) ==
    \A t \in Ids : list[t] # None =>
        list[t].next > recorded[t] /\ (list[t].on => list[t].next > slept[t])

AheadInv ==
    ~reverted => Ahead(memory) /\ Ahead(disk) /\ (Saving => Ahead(previous))

LEMMA AheadStep == TypeOK /\ WorkInv /\ AheadInv /\ [Next]_vars => AheadInv'
<1> SUFFICES ASSUME TypeOK, WorkInv, AheadInv, [Next]_vars PROVE AheadInv'
  OBVIOUS
<1> USE Bounds
<1>1. ASSUME Tick PROVE AheadInv'
  BY <1>1 DEF Tick, AheadInv, Ahead, Saving, TypeOK, WorkInv, RequestInv, Working, Labels,
     Actors, clock, host, files, work, api
<1>2. ASSUME NEW c \in Callers, Call(c) PROVE AheadInv'
  BY <1>2, GotoIs DEF Call, AheadInv, Ahead, Saving, TypeOK, WorkInv, RequestInv, Working,
     Labels, Actors, clock, host, files, work, api
<1>3. ASSUME NEW c \in Callers, NotFound(c) PROVE AheadInv'
  BY <1>3, ReleaseIs DEF NotFound, AheadInv, Ahead, Saving, TypeOK, WorkInv, RequestInv, Working,
     Labels, Actors, clock, host, files, work, api
<1>4. ASSUME NEW c \in Callers, Change(c) PROVE AheadInv'
  <2>1. request[c] \in Request /\ holder = None /\ ~Saving
    BY <1>4 DEF Change, WorkInv, RequestInv, Saving
  <2>2. memory' = Changed(request[c]) /\ previous' = memory
        /\ UNCHANGED <<disk, reverted, recorded, slept>>
    BY <1>4 DEF Change, files, clock
  <2>3. \A t \in Ids :
          \/ memory'[t] = memory[t]
          \/ memory'[t] = None
          \/ memory'[t] \in Task /\ memory'[t].next > now
          \/ memory'[t] \in Task /\ ~memory'[t].on /\ memory[t] # None /\ memory'[t].next = memory[t].next
    BY <1>4, <2>1, <2>2, ChangedIs DEF Change
  <2>4. \A t \in Ids : recorded[t] \in Nat /\ slept[t] \in Nat /\ recorded[t] <= now /\ slept[t] <= now
    BY DEF WorkInv, PastInv, TypeOK
  <2>5. now \in Nat /\ \A t \in Ids : memory'[t] \in Task => memory'[t].next \in Nat
    BY DEF Task, TypeOK
  <2>6. ASSUME Ahead(memory) PROVE Ahead(memory)'
    BY <2>2, <2>3, <2>4, <2>5, <2>6 DEF Ahead
  <2> QED BY <2>2, <2>6 DEF AheadInv, Ahead
<1>5. ASSUME NEW c \in Callers, RunNow(c) PROVE AheadInv'
  BY <1>5, GotoIs DEF RunNow, AheadInv, Ahead, Saving, TypeOK, WorkInv, RequestInv, Working,
     Labels, Actors, clock, host, files, work, api
<1>6. ASSUME NEW c \in Callers, Cancel(c) PROVE AheadInv'
  BY <1>6, ReleaseIs DEF Cancel, AheadInv, Ahead, Saving, TypeOK, WorkInv, RequestInv, Working,
     Labels, Actors, clock, host, files, work, api
<1>7. ASSUME Collect PROVE AheadInv'
  BY <1>7, GotoIs, ReleaseIs DEF Collect, AheadInv, Ahead, Saving, TypeOK, WorkInv, RequestInv,
     Working, Labels, Actors, clock, host, files, work, api
<1>8. ASSUME StopScheduler PROVE AheadInv'
  BY <1>8, GotoIs DEF StopScheduler, AheadInv, Ahead, Saving, TypeOK, WorkInv, RequestInv,
     Working, Labels, Actors, clock, host, files, work, api
<1>9. ASSUME NEW a \in Actors, Execute(a) PROVE AheadInv'
  BY <1>9, GotoIs DEF Execute, AheadInv, Ahead, Saving, TypeOK, WorkInv, RequestInv, Working,
     Labels, Actors, clock, host, files, work, api
<1>10. ASSUME NEW a \in Actors, Record(a) PROVE AheadInv'
  <2>1. Current(a) \in Ids /\ memory[Current(a)] \in Task /\ memory[Current(a)] # None
    BY <1>10, TaskIs DEF Record
  <2>2. NextRun(memory[Current(a)].period, at) \in Nat /\ NextRun(memory[Current(a)].period, at) > at
    BY <2>1, NextRunLater DEF Task, TypeOK
  <2>3. memory' = [memory EXCEPT ![Current(a)].next = NextRun(memory[Current(a)].period, at)]
        /\ previous' = memory /\ UNCHANGED <<disk, reverted, recorded, slept>>
    BY <1>10 DEF Record, files, clock
  <2>4. memory'[Current(a)].next = NextRun(memory[Current(a)].period, at)
        /\ \A t \in Ids \ {Current(a)} : memory'[t] = memory[t]
    <3>1. memory \in Lists
      BY DEF TypeOK
    <3> DEFINE t == Current(a)
               n == NextRun(memory[t].period, at)
    <3>2. t \in Ids /\ memory[t] \in Task /\ memory' = [memory EXCEPT ![t].next = n]
      BY <2>1, <2>3
    <3> HIDE DEF t, n
    <3>3. memory'[t].next = n /\ \A u \in Ids \ {t} : memory'[u] = memory[u]
      BY <3>1, <3>2 DEF Lists, Task
    <3> QED BY <3>3 DEF t, n
  <2>5. \A t \in Ids : recorded[t] \in Nat /\ slept[t] \in Nat /\ recorded[t] <= at /\ slept[t] <= at
    BY <1>10 DEF Record, WorkInv, PastInv, TypeOK
  <2>6. at \in Nat
    BY DEF TypeOK
  <2>7. ASSUME Ahead(memory) PROVE Ahead(memory)'
    BY <2>2, <2>3, <2>4, <2>5, <2>6, <2>7 DEF Ahead
  <2> QED BY <2>3, <2>7 DEF AheadInv, Ahead
<1>11. ASSUME NEW a \in Actors, Saved(a) PROVE AheadInv'
  <2>1. memory' = memory /\ disk' = memory /\ UNCHANGED <<reverted, slept>> /\ ~Saving'
    BY <1>11, GotoIs, ReleaseIs DEF Saved, Saving, clock, WorkInv, TypeOK, Labels, Actors
  <2>2. CASE a # Scheduler
    <3>1. recorded' = recorded
      BY <1>11, <2>2 DEF Saved
    <3> QED BY <2>1, <3>1 DEF AheadInv, Ahead
  <2>3. CASE a = Scheduler
    <3>1. due # {} /\ Min(due) \in due /\ Min(due) \in Ids /\ Current(a) = Min(due) /\ DueIn(previous)
      BY <1>11, <2>3, CurrentIsDue DEF Saved, TypeOK, WorkInv, DueInv
    <3>2. previous[Min(due)] \in Task /\ previous[Min(due)] # None /\ previous[Min(due)].next <= at
      BY <3>1 DEF TypeOK, Lists, DueIn
    <3>3. recorded' = [recorded EXCEPT ![Min(due)] = previous[Min(due)].next]
      BY <1>11, <2>3, <3>1 DEF Saved
    <3>4. memory = [previous EXCEPT ![Min(due)].next = NextRun(previous[Min(due)].period, at)]
      BY <1>11, <2>3 DEF Saved, WorkInv, DueInv
    <3>5. at \in Nat /\ NextRun(previous[Min(due)].period, at) \in Nat
          /\ NextRun(previous[Min(due)].period, at) > at
      BY <3>2, NextRunLater DEF Task, TypeOK
    <3>6. memory[Min(due)].next = NextRun(previous[Min(due)].period, at)
      <4>1. previous \in Lists
        BY DEF TypeOK
      <4> DEFINE n == NextRun(previous[Min(due)].period, at)
      <4>2. memory = [previous EXCEPT ![Min(due)].next = n]
        BY <3>4
      <4> HIDE DEF n
      <4>3. memory[Min(due)].next = n
        BY <3>1, <3>2, <4>1, <4>2 DEF Lists, Task
      <4> QED BY <4>3 DEF n
    <3>7. memory[Min(due)].next > recorded'[Min(due)]
      BY <3>1, <3>2, <3>3, <3>5, <3>6 DEF Task, TypeOK
    <3>8. \A t \in Ids \ {Min(due)} : recorded'[t] = recorded[t]
      BY <3>3 DEF TypeOK
    <3>9. ASSUME Ahead(memory) PROVE Ahead(memory)' /\ Ahead(disk)'
      BY <2>1, <3>7, <3>8, <3>9 DEF Ahead
    <3> QED BY <2>1, <3>9 DEF AheadInv
  <2> QED BY <2>2, <2>3
<1>12. ASSUME NEW a \in Actors, SaveFails(a) PROVE AheadInv'
  BY <1>12, ReleaseIs DEF SaveFails, AheadInv, Ahead, Saving, TypeOK, WorkInv, RequestInv,
     Working, Labels, Actors, clock, host, files, work, api
<1>13. ASSUME LateWrite PROVE AheadInv'
  BY <1>13 DEF LateWrite, AheadInv, Ahead, Saving, TypeOK, WorkInv, RequestInv, Working, Labels,
     Actors, clock, host, files, work, api
<1>14. ASSUME Shutdown PROVE AheadInv'
  BY <1>14 DEF Shutdown, AheadInv, Ahead, Saving, TypeOK, WorkInv, RequestInv, Working, Labels,
     Actors, clock, host, files, work, api
<1>15. ASSUME Die PROVE AheadInv'
  BY <1>15 DEF Die, AheadInv, Ahead, Saving, TypeOK, WorkInv, RequestInv, Working, Labels,
     Actors, clock, host, files, work, api
<1>16. ASSUME Restart PROVE AheadInv'
  BY <1>16, GotoIs DEF Restart, AheadInv, Ahead, Saving, TypeOK, WorkInv, RequestInv, Working,
     Labels, Actors, clock, host, files, work, api
<1>17. CASE UNCHANGED vars
  BY <1>17 DEF AheadInv, Ahead, Saving, vars, clock, files, work
<1> QED BY <1>1, <1>2, <1>3, <1>4, <1>5, <1>6, <1>7, <1>8, <1>9, <1>10, <1>11, <1>12, <1>13,
           <1>14, <1>15, <1>16, <1>17 DEF Next

\* The scheduler runs a task only while it is enabled and due, never an
\* occurrence that was run and saved before, and never one that passed while the
\* task was disabled (run_due, record_attempt, set_enabled).
THEOREM OnlyWhatIsDue == Spec => RunsAreRight
<1>1. ASSUME TypeOK, WorkInv, AheadInv, pc[Scheduler] = "execute"
      PROVE  /\ IsDue(Min(due))
             /\ ~reverted => memory[Min(due)].next > recorded[Min(due)]
                             /\ memory[Min(due)].next > slept[Min(due)]
  <2>1. due # {} /\ DueIn(memory) /\ at <= now
    BY <1>1 DEF WorkInv, DueInv, PastInv, TypeOK, Actors
  <2>2. Min(due) \in due /\ Min(due) \in Ids
    BY <1>1, <2>1, CurrentIsDue
  <2>3. memory[Min(due)].on /\ memory[Min(due)].next <= at /\ memory[Min(due)] # None
    BY <2>1, <2>2 DEF DueIn
  <2>4. memory[Min(due)].next \in Nat /\ at \in Nat /\ now \in Nat
    <3>1. memory[Min(due)] \in Task
      BY <1>1, <2>2, <2>3 DEF TypeOK, Lists
    <3> QED BY <1>1, <3>1 DEF Task, TypeOK
  <2>5. IsDue(Min(due))
    BY <2>1, <2>3, <2>4 DEF IsDue
  <2> QED BY <1>1, <2>2, <2>3, <2>5 DEF AheadInv, Ahead
<1>2. TypeOK /\ WorkInv /\ AheadInv
      => /\ [pc[Scheduler] = "execute" /\ pc'[Scheduler] = "record" => IsDue(Min(due))]_vars
         /\ [pc[Scheduler] = "execute" /\ pc'[Scheduler] = "record" /\ ~reverted
              => memory[Min(due)].next > recorded[Min(due)]]_vars
         /\ [pc[Scheduler] = "execute" /\ pc'[Scheduler] = "record" /\ ~reverted
              => memory[Min(due)].next > slept[Min(due)]]_vars
  BY <1>1
<1>3. Init => AheadInv
  BY DEF Init, AheadInv, Ahead, Saving, Empty
<1> QED
  BY <1>2, <1>3, Works, AheadStep, PTL
  DEF Spec, RunsAreRight, RunsOnlyWhatIsDue, OncePerOccurrence, NotWhileDisabled
=============================================================================
