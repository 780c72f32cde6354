--------------------------- MODULE ServerPromise ---------------------------
(***************************************************************************)
(* What the ServerService port (application/src/port) promises of one      *)
(* instance, without locks, tables or flags: at most one process, and what *)
(* an answer says of it at the moment the answer is given.                 *)
(***************************************************************************)
EXTENDS Naturals

CONSTANTS Callers, MaxSpawn,
          FailingKills  \* callers whose attempt to kill a process may fail

VARIABLES up,    \* the pid of the running process, 0 if there is none
          last,  \* the last pid handed out
          call,  \* call[c]: the pending operation, or the last answer
          own    \* own[c]: the pid the pending call spawned, 0 if none

vars == <<up, last, call, own>>

Answers == {"idle", "ok", "err", "cancelled"}
Mutators == {"start", "restart", "stop", "force"}
Operations == Mutators \union {"status", "command"}

Init == /\ up = 0 /\ last = 0
        /\ call = [c \in Callers |-> "idle"]
        /\ own = [c \in Callers |-> 0]

Begin(c) == /\ call[c] \in Answers
            /\ \E o \in Operations : call' = [call EXCEPT ![c] = o]
            /\ UNCHANGED <<up, last, own>>

\* A start or restart spawns at most one process, when none is running.
Spawn(c) == /\ call[c] \in {"start", "restart"}
            /\ up = 0 /\ own[c] = 0 /\ last < MaxSpawn
            /\ up' = last + 1 /\ last' = last + 1
            /\ own' = [own EXCEPT ![c] = last + 1]
            /\ UNCHANGED call

\* The process exits by itself or is killed.
Down == up # 0 /\ up' = 0 /\ UNCHANGED <<last, call, own>>

Answer(c, outcome) ==
    /\ call[c] \in Operations
    /\ up' = up \/ (call[c] \in Mutators /\ up' = 0)
    /\ outcome = "ok" /\ call[c] \in {"stop", "force"} => up' = 0
    /\ outcome = "ok" /\ call[c] \in {"start", "restart"} => own[c] # 0 /\ up' \in {0, own[c]}
    /\ outcome = "err" /\ own[c] # 0 /\ c \notin FailingKills => up' # own[c]
    /\ call' = [call EXCEPT ![c] = outcome]
    /\ own' = [own EXCEPT ![c] = 0]
    /\ UNCHANGED last

Next == \/ \E c \in Callers : Begin(c) \/ Spawn(c)
        \/ \E c \in Callers, outcome \in Answers \ {"idle"} : Answer(c, outcome)
        \/ Down

Spec == Init /\ [][Next]_vars
=============================================================================
