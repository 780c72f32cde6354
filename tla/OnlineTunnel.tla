---------------------------- MODULE OnlineTunnel ----------------------------
(***************************************************************************)
(* OnlineTunnelService (crates/feature/src/online/service.rs): a tunnel to *)
(* one's own Minecraft world (host) or to somebody else's (join).  A host  *)
(* starts without the lock of the session slot, so that a stop need not    *)
(* wait for it; it looks at a cancel flag instead.  sculk, which runs the  *)
(* tunnels, is a library and modelled from how this code uses it.          *)
(***************************************************************************)
EXTENDS Naturals, FiniteSets

CONSTANTS Callers,    \* concurrent commands of the desktop host
          MaxHosts,   \* bound: host starts that get past the start lock
          MaxJoins,   \* bound: join starts that sculk accepts
          None        \* nobody, nothing

Starts == {"host", "join"}
Phases == {"Idle", "Starting", "Active", "Stopping"}

ASSUME TunnelAssumption ==
    /\ None \notin Callers \union Starts \union Phases
    /\ MaxHosts \in Nat /\ MaxJoins \in Nat

Sessions  == 1..MaxHosts    \* host sessions, numbered in the order of their starts
NoSession == 0
TheJoin   == MaxHosts + 1   \* the join service, where a session may stand

VARIABLES
    slot,      \* host: the published session
    holder,    \* who holds the lock of the slot
    starter,   \* who holds host_start
    cancel,    \* host_cancel
    open,      \* sessions whose sculk node is not closed
    join,      \* phase of sculk's join service
    fan,       \* what events.task forwards: a session, the join, or nothing
    news,      \* a phase the join published that the fan-out has not received
    applying,  \* a phase it received and has not applied: abort does not stop this
    stray,     \* does a fan-out of the join run whose handle was overwritten?
    lan,       \* is the joined world announced on the local network?
    pc, op,    \* where each caller is, its operation
    mine,      \* the session a caller starts or closes
    busy,      \* did ensure_idle find a session in the slot?
    hosts, joins,  \* starts so far
    before,    \* history: the sessions started when a caller's stop began
    stopped,   \* history: the sessions some answered stop found started
    dropped,   \* history: sessions lost by a host whose status query failed
    overlap,   \* history: did two starts ever run at once?
    stale      \* history: did an abort overtake an update of the announcement?

lock   == <<slot, holder>>
sculk  == <<open, join, joins>>
fanout == <<fan, stray, news, applying, lan, stale>>
ghosts == <<before, stopped, dropped>>
local  == <<pc, op, mine, busy>>
vars   == <<lock, starter, cancel, sculk, hosts, fanout, local, ghosts, overlap>>

Init ==
    /\ slot = NoSession /\ holder = None /\ starter = None
    /\ cancel = FALSE
    /\ open = {} /\ join = "Idle" /\ hosts = 0 /\ joins = 0
    /\ fan = NoSession /\ news = None /\ applying = None /\ stray = FALSE /\ lan = FALSE
    /\ pc = [c \in Callers |-> "idle"] /\ op = [c \in Callers |-> None]
    /\ mine = [c \in Callers |-> NoSession] /\ busy = [c \in Callers |-> FALSE]
    /\ before = [c \in Callers |-> {}] /\ stopped = {} /\ dropped = {}
    /\ overlap = FALSE /\ stale = FALSE

-----------------------------------------------------------------------------

Goto(c, label) == pc' = [pc EXCEPT ![c] = label] /\ UNCHANGED <<op, mine, busy>>

Return(c) ==
    /\ pc' = [pc EXCEPT ![c] = "idle"] /\ op' = [op EXCEPT ![c] = None]
    /\ mine' = [mine EXCEPT ![c] = NoSession] /\ busy' = [busy EXCEPT ![c] = FALSE]

\* A host returns: the guard of host_start is dropped.
ReturnHost(c) == Return(c) /\ starter' = None

\* stop_fanout: the task ends at its next await, what it applies is applied.
StopFanout == fan' = NoSession /\ UNCHANGED <<news, applying>>

StopLan == lan' = FALSE /\ stale' = (applying = "Active")

-----------------------------------------------------------------------------
(* Starting.                                                                *)

\* ensure_idle: the slot is read under its lock,
Begin(c) ==
    /\ pc[c] = "idle" /\ holder = None
    /\ \E o \in Starts : op' = [op EXCEPT ![c] = o]
    /\ busy' = [busy EXCEPT ![c] = slot # NoSession]
    /\ pc' = [pc EXCEPT ![c] = "ensure"]
    /\ overlap' = (overlap \/ \E d \in Callers : op[d] \in Starts)
    /\ UNCHANGED <<lock, starter, cancel, sculk, hosts, fanout, mine, ghosts>>

\* Mutant: the join service is not asked.
IdleButJoin(c) == ~busy[c] /\ starter = None

\* and then the start lock is tried and the join service asked.
Idle(c) == ~busy[c] /\ starter = None /\ join = "Idle"

\* Two callers that try the start lock at once may find one another.
Collides(c) == \E d \in Callers \ {c} : pc[d] = "ensure"

Pass(c) ==
    /\ pc[c] = "ensure" /\ Idle(c)
    /\ Goto(c, IF op[c] = "host" THEN "claim" ELSE "join")
    /\ UNCHANGED <<lock, starter, cancel, sculk, hosts, fanout, ghosts, overlap>>

\* Busy, or a port, ticket or relay that is not accepted.
Refuse(c) ==
    /\ \/ pc[c] = "ensure" /\ (~Idle(c) \/ Collides(c))
       \/ pc[c] \in {"claim", "join"}
    /\ Return(c)
    /\ UNCHANGED <<lock, starter, cancel, sculk, hosts, fanout, ghosts, overlap>>

StartJoin(c) ==
    /\ pc[c] = "join"
    /\ IF join = "Idle"
       THEN /\ joins < MaxJoins
            /\ join' = "Starting" /\ joins' = joins + 1
            /\ Goto(c, "follow")
       ELSE Return(c) /\ UNCHANGED <<join, joins>>
    /\ UNCHANGED <<lock, starter, cancel, open, hosts, fanout, ghosts, overlap>>

\* restart_join_fanout.  Whether sculk repeats the present phase to a new
\* subscriber is left open.
Follow(c) ==
    /\ pc[c] = "follow"
    /\ fan' = TheJoin
    /\ news' \in {None, join}
    /\ stale' = (stale \/ (news' = None /\ (lan \/ applying = "Active")))
    /\ Return(c)
    /\ UNCHANGED <<lock, starter, cancel, sculk, hosts, stray, applying, lan, ghosts, overlap>>

-----------------------------------------------------------------------------
(* A host start, once the caller has passed ensure_idle.                    *)

Claim(c) ==
    /\ pc[c] = "claim" /\ starter = None /\ hosts < MaxHosts
    /\ \A d \in Callers \ {c} : pc[d] # "ensure"
    /\ starter' = c /\ cancel' = FALSE
    /\ hosts' = hosts + 1 /\ mine' = [mine EXCEPT ![c] = hosts + 1]
    /\ pc' = [pc EXCEPT ![c] = "bind"]
    /\ UNCHANGED <<lock, sculk, fanout, op, busy, ghosts, overlap>>

BindFails(c) ==
    /\ pc[c] = "bind"
    /\ ReturnHost(c)
    /\ UNCHANGED <<lock, cancel, sculk, hosts, fanout, ghosts, overlap>>

Bind(c) ==
    /\ pc[c] = "bind"
    /\ open' = open \union {mine[c]}
    /\ Goto(c, "serve")
    /\ UNCHANGED <<lock, starter, cancel, join, joins, hosts, fanout, ghosts, overlap>>

\* The flag after bind and after start_service.
Continue(c) ==
    /\ pc[c] \in {"serve", "save"} /\ ~cancel
    /\ Goto(c, IF pc[c] = "serve" THEN "save" ELSE "fan")
    /\ UNCHANGED <<lock, starter, cancel, sculk, hosts, fanout, ghosts, overlap>>

\* Cancelled, or loading the state, start_service, saving the state or
\* subscribing fails.
GiveUp(c) ==
    /\ pc[c] \in {"serve", "save", "subscribe"}
    /\ Goto(c, "abandon")
    /\ UNCHANGED <<lock, starter, cancel, sculk, hosts, fanout, ghosts, overlap>>

\* restart_host_fanout: stop the old one, subscribe, keep the handle.
FanOut(c) ==
    /\ pc[c] = "fan"
    /\ StopFanout
    /\ stale' = (stale \/ (fan = TheJoin /\ (lan \/ applying = "Active")))
    /\ Goto(c, "subscribe")
    /\ UNCHANGED <<lock, starter, cancel, sculk, hosts, stray, lan, ghosts, overlap>>

Retain(c) ==
    /\ pc[c] = "subscribe"
    /\ fan' = mine[c]
    /\ stray' = (stray \/ fan = TheJoin)
    /\ Goto(c, "query")
    /\ UNCHANGED <<lock, starter, cancel, sculk, hosts, news, applying, lan, stale, ghosts, overlap>>

\* host_status fails: `?` drops the session without stopping it.
QueryFails(c) ==
    /\ pc[c] = "query"
    /\ dropped' = dropped \union {mine[c]}
    /\ ReturnHost(c)
    /\ UNCHANGED <<lock, cancel, sculk, hosts, fanout, before, stopped, overlap>>

\* Mutant: the flag is not looked at again under the lock.
LockOnly(c) ==
    /\ pc[c] = "query" /\ holder = None
    /\ holder' = c /\ Goto(c, "publish")
    /\ UNCHANGED <<slot, starter, cancel, sculk, hosts, fanout, ghosts, overlap>>

\* The status is known; the flag is looked at once more, under the lock.
LockSlot(c) ==
    /\ pc[c] = "query" /\ holder = None
    /\ IF cancel
       THEN Goto(c, "abandon") /\ UNCHANGED holder
       ELSE holder' = c /\ Goto(c, "publish")
    /\ UNCHANGED <<slot, starter, cancel, sculk, hosts, fanout, ghosts, overlap>>

\* A session that is there is overwritten.
Publish(c) ==
    /\ pc[c] = "publish"
    /\ slot' = mine[c] /\ holder' = None
    /\ ReturnHost(c)
    /\ UNCHANGED <<cancel, sculk, hosts, fanout, ghosts, overlap>>

\* Mutant: the guard of the start lock is kept.
AbandonLocked(c) ==
    /\ pc[c] = "abandon"
    /\ open' = open \ {mine[c]}
    /\ Return(c)
    /\ UNCHANGED <<lock, starter, cancel, join, joins, hosts, fanout, ghosts, overlap>>

\* handle.stop, node.close
Abandon(c) ==
    /\ pc[c] = "abandon"
    /\ open' = open \ {mine[c]}
    /\ ReturnHost(c)
    /\ UNCHANGED <<lock, cancel, join, joins, hosts, fanout, ghosts, overlap>>

-----------------------------------------------------------------------------
(* Stopping, for shutdown too.                                              *)

BeginStop(c) ==
    /\ pc[c] = "idle"
    /\ cancel' = TRUE
    /\ before' = [before EXCEPT ![c] = 1..hosts]
    /\ pc' = [pc EXCEPT ![c] = "take"]
    /\ \/ op' = [op EXCEPT ![c] = "stop"] /\ UNCHANGED fanout
       \/ /\ op' = [op EXCEPT ![c] = "shutdown"]
          /\ StopFanout /\ StopLan /\ UNCHANGED stray
    /\ UNCHANGED <<lock, starter, sculk, hosts, mine, busy, stopped, dropped, overlap>>

Take(c) ==
    /\ pc[c] = "take" /\ holder = None
    /\ slot' = NoSession
    /\ mine' = [mine EXCEPT ![c] = slot]
    /\ pc' = [pc EXCEPT ![c] =
                  IF slot = NoSession THEN "leave"
                  ELSE IF op[c] = "stop" THEN "quiet" ELSE "close"]
    /\ UNCHANGED <<holder, starter, cancel, sculk, hosts, fanout, op, busy, ghosts, overlap>>

Quiet(c) ==
    /\ pc[c] = "quiet"
    /\ StopFanout /\ StopLan
    /\ Goto(c, "close")
    /\ UNCHANGED <<lock, starter, cancel, sculk, hosts, stray, ghosts, overlap>>

\* The stop answers; with an error it promises nothing.
Answer(c, ok) ==
    /\ stopped' = IF ok THEN stopped \union before[c] ELSE stopped
    /\ before' = [before EXCEPT ![c] = {}]
    /\ UNCHANGED dropped

\* handle.stop, which may fail, and node.close
Close(c) ==
    /\ pc[c] = "close"
    /\ open' = open \ {mine[c]}
    /\ \/ op[c] = "stop" /\ Return(c) /\ \E ok \in BOOLEAN : Answer(c, ok)
       \/ op[c] = "shutdown" /\ Return(c) /\ Answer(c, FALSE)
       \/ op[c] = "shutdown" /\ Goto(c, "leave") /\ UNCHANGED ghosts
    /\ UNCHANGED <<lock, starter, cancel, join, joins, hosts, fanout, overlap>>

\* sculk's stop of an idle join: stop does not ask for it, shutdown does.
JoinIsIdle(c) ==
    /\ pc[c] = "leave" /\ join = "Idle"
    /\ Return(c) /\ Answer(c, TRUE)
    /\ UNCHANGED <<lock, starter, cancel, sculk, hosts, fanout, overlap>>

StopJoin(c) ==
    /\ pc[c] = "leave" /\ join # "Idle"
    /\ IF join = "Stopping"
       THEN Return(c) /\ Answer(c, FALSE) /\ UNCHANGED <<join, news>>
       ELSE /\ join' = "Stopping" /\ news' = "Stopping"
            /\ Goto(c, "leaving") /\ UNCHANGED ghosts
    /\ UNCHANGED <<lock, starter, cancel, open, joins, hosts, fan, stray, applying, lan, stale, overlap>>

JoinStopped(c) ==
    /\ pc[c] = "leaving"
    /\ join' = "Idle" /\ news' = "Idle"
    /\ \/ op[c] = "stop" /\ Goto(c, "hush") /\ UNCHANGED ghosts
       \/ op[c] = "shutdown" /\ Return(c) /\ Answer(c, TRUE)
       \/ Return(c) /\ Answer(c, FALSE)
    /\ UNCHANGED <<lock, starter, cancel, open, joins, hosts, fan, stray, applying, lan, stale, overlap>>

\* Mutant: the announcement is left to the fan-out task.
HushTask(c) ==
    /\ pc[c] = "hush"
    /\ StopFanout /\ UNCHANGED <<lan, stale>>
    /\ Return(c) /\ Answer(c, TRUE)
    /\ UNCHANGED <<lock, starter, cancel, sculk, hosts, stray, overlap>>

Hush(c) ==
    /\ pc[c] = "hush"
    /\ StopFanout /\ StopLan
    /\ Return(c) /\ Answer(c, TRUE)
    /\ UNCHANGED <<lock, starter, cancel, sculk, hosts, stray, overlap>>

-----------------------------------------------------------------------------
(* Queries, the join's own progress and the fan-out task.                   *)

\* status and subscribe keep the slot locked while they ask the session.
BeginQuery(c) ==
    /\ pc[c] = "idle" /\ holder = None /\ slot # NoSession
    /\ holder' = c
    /\ op' = [op EXCEPT ![c] = "status"]
    /\ pc' = [pc EXCEPT ![c] = "ask"]
    /\ UNCHANGED <<slot, starter, cancel, sculk, hosts, fanout, mine, busy, ghosts, overlap>>

EndQuery(c) ==
    /\ pc[c] = "ask"
    /\ holder' = None
    /\ Return(c)
    /\ UNCHANGED <<slot, starter, cancel, sculk, hosts, fanout, ghosts, overlap>>

\* sculk's task: it connects, or gives up; connected it reconnects for ever.
JoinMoves ==
    /\ join = "Starting"
    /\ join' \in {"Active", "Idle"} /\ news' = join'
    /\ UNCHANGED <<lock, starter, cancel, open, joins, hosts, fan, stray, applying, lan, stale,
                   local, ghosts, overlap>>

Hear ==
    /\ fan = TheJoin \/ stray
    /\ news # None /\ applying = None
    /\ applying' = news /\ news' = None
    /\ UNCHANGED <<lock, starter, cancel, sculk, hosts, fan, stray, lan, stale, local, ghosts, overlap>>

\* sync_lan_broadcast
Apply ==
    /\ applying # None
    /\ lan' = (applying = "Active") /\ applying' = None
    /\ UNCHANGED <<lock, starter, cancel, sculk, hosts, fan, stray, news, stale, local, ghosts, overlap>>

Start(c) ==
    \/ Begin(c) \/ Pass(c) \/ Refuse(c)
    \/ StartJoin(c) \/ Follow(c)
    \/ Claim(c) \/ BindFails(c) \/ Bind(c) \/ Continue(c) \/ GiveUp(c)
    \/ FanOut(c) \/ Retain(c) \/ QueryFails(c)
    \/ LockSlot(c) \/ Publish(c) \/ Abandon(c)

Stop(c) ==
    \/ BeginStop(c) \/ Take(c) \/ Quiet(c) \/ Close(c)
    \/ JoinIsIdle(c) \/ StopJoin(c) \/ JoinStopped(c) \/ Hush(c)

Next ==
    \/ \E c \in Callers : Start(c) \/ Stop(c) \/ BeginQuery(c) \/ EndQuery(c)
    \/ JoinMoves \/ Hear \/ Apply

Spec == Init /\ [][Next]_vars

-----------------------------------------------------------------------------
Labels ==
    {"idle", "ensure", "claim", "join", "follow", "bind", "serve",
     "save", "fan", "subscribe", "query", "publish", "abandon", "take",
     "quiet", "close", "leave", "leaving", "hush", "ask"}

\* The types, and the two locks are held exactly where the code holds them.
TypeOK ==
    /\ slot \in Sessions \union {NoSession} /\ open \subseteq Sessions
    /\ holder \in Callers \union {None} /\ starter \in Callers \union {None}
    /\ cancel \in BOOLEAN /\ lan \in BOOLEAN /\ stray \in BOOLEAN
    /\ join \in Phases
    /\ fan \in Sessions \union {NoSession, TheJoin}
    /\ news \in Phases \union {None} /\ applying \in Phases \union {None}
    /\ pc \in [Callers -> Labels]
    /\ op \in [Callers -> Starts \union {"stop", "shutdown", "status", None}]
    /\ mine \in [Callers -> Sessions \union {NoSession}] /\ busy \in [Callers -> BOOLEAN]
    /\ \A c \in Callers :
          /\ holder = c <=> pc[c] \in {"publish", "ask"}
          /\ starter = c <=> op[c] = "host" /\ mine[c] # NoSession

InHand == {mine[c] : c \in Callers}

\* What the first lines of the module promise, "一个服务实例同一时刻至多持有一条
\* 活动隧道" (one active tunnel at most), as far as it is true: starts that do
\* not overlap never make a second tunnel, whatever stops, shutdowns and
\* failures they meet, and every open node is the published one, in the hands
\* of a call, or one whose status query failed.
OneTunnel ==
    \/ overlap
    \/ /\ slot = NoSession \/ join = "Idle"
       /\ open \subseteq {slot} \union InHand \union dropped

\* "stop 置位后，正在 bind 的 host 会在检查点放弃启动": a host start that a stop
\* found under way, or its session, is not published once that stop has
\* answered, and its node is closed when its call ends.
StopIsFinal ==
    /\ slot \notin stopped
    /\ overlap \/ open \intersect stopped \subseteq InHand \union dropped

\* A joined world is announced only while the join is up or an update that ends
\* the announcement is on its way to a task that listens.  "扇出任务可能没来得及处理
\* 最后一条 Idle 状态就被中止，这里兜底": stop makes up for the updates its abort
\* throws away.  Three things escape it: an update the task was applying when it
\* was aborted, a task of the join that a host's start aborted, and one that the
\* next join replaced after a stop that failed.
LanFollowsJoin ==
    \/ ~lan \/ stale
    \/ join = "Active"
    \/ applying # None \/ (news # None /\ (fan = TheJoin \/ stray))

=============================================================================
