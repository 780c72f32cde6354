------------------------- MODULE OnlineTunnelProofs -------------------------
(***************************************************************************)
(* Proofs about OnlineTunnel, for any number of callers, host starts and   *)
(* join starts: types and locks, one tunnel at most, a stop that is final, *)
(* and an announcement that follows the join.                              *)
(***************************************************************************)
EXTENDS OnlineTunnel, TLAPS

Stops    == {"stop", "shutdown"}
Ops      == Starts \union Stops \union {"status", None}
HostLive == {"bind", "serve", "save", "fan", "subscribe", "query", "publish", "abandon"}
Ending   == {"quiet", "close", "leave", "leaving", "hush"}  \* the slot was taken
Empty    == {"idle", "ensure", "claim", "join", "follow", "ask", "take"}  \* no session in hand

LEMMA Constants ==
    /\ None \notin Callers /\ None \notin Starts /\ None \notin Phases
    /\ MaxHosts \in Nat /\ MaxJoins \in Nat
BY TunnelAssumption

-----------------------------------------------------------------------------
(* Types, the locks, and what each label says of a caller.                   *)

ShapeOf(c) ==
    /\ pc[c] = "idle" => op[c] = None
    /\ pc[c] = "ensure" => op[c] \in Starts
    /\ pc[c] = "claim" => op[c] = "host"
    /\ pc[c] \in {"join", "follow"} => op[c] = "join"
    /\ pc[c] \in HostLive <=> op[c] = "host" /\ mine[c] # NoSession
    /\ pc[c] = "ask" => op[c] = "status"
    /\ pc[c] \in Empty => mine[c] = NoSession
    /\ pc[c] \in Ending \union {"take"} => op[c] \in Stops

\* Sessions are numbered as they start: none that is seen is yet to come.
Counted ==
    /\ hosts \in 0..MaxHosts /\ slot <= hosts
    /\ open \subseteq 1..hosts /\ stopped \subseteq 1..hosts
    /\ \A c \in Callers : mine[c] <= hosts
    /\ before \in [Callers -> SUBSET (1..hosts)]

ShapeInv == Counted /\ \A c \in Callers : ShapeOf(c)

Placed ==
    /\ pc \in [Callers -> Labels] /\ op \in [Callers -> Ops]
    /\ mine \in [Callers -> Sessions \union {NoSession}] /\ busy \in [Callers -> BOOLEAN]

Locks ==
    \A c \in Callers :
        /\ holder = c <=> pc[c] \in {"publish", "ask"}
        /\ starter = c <=> op[c] = "host" /\ mine[c] # NoSession

Values ==
    /\ slot \in Sessions \union {NoSession} /\ open \subseteq Sessions
    /\ holder \in Callers \union {None} /\ starter \in Callers \union {None}
    /\ cancel \in BOOLEAN /\ lan \in BOOLEAN /\ stray \in BOOLEAN
    /\ join \in Phases
    /\ fan \in Sessions \union {NoSession, TheJoin}
    /\ news \in Phases \union {None} /\ applying \in Phases \union {None}

LEMMA TypeParts == (TypeOK <=> Values /\ Placed /\ Locks) /\ (TypeOK' <=> Values' /\ Placed' /\ Locks')
BY DEF TypeOK, Values, Placed, Locks, Ops, Stops, Starts

\* The others are where they were, with what they had.
Others(c) ==
    \A d \in Callers \ {c} :
        pc'[d] = pc[d] /\ op'[d] = op[d] /\ mine'[d] = mine[d] /\ busy'[d] = busy[d]

\* One caller moves.
Moves(c, p, o, m) ==
    /\ Others(c) /\ Placed' /\ pc'[c] = p /\ op'[c] = o /\ mine'[c] = m

Goes(c, p) == Moves(c, p, op[c], mine[c])

Ends(c) == Moves(c, "idle", None, NoSession)

LEMMA MovesIs ==
    ASSUME Placed, NEW c \in Callers, NEW p \in Labels, NEW o \in Ops, NEW m \in Sessions \union {NoSession},
           pc' = [pc EXCEPT ![c] = p],
           op' = [op EXCEPT ![c] = o] \/ (op' = op /\ op[c] = o),
           mine' = [mine EXCEPT ![c] = m] \/ (mine' = mine /\ mine[c] = m),
           busy' \in [Callers -> BOOLEAN], \A d \in Callers \ {c} : busy'[d] = busy[d]
    PROVE  Moves(c, p, o, m)
<1>1. Placed'
  BY DEF Placed
<1>2. pc'[c] = p /\ op'[c] = o /\ mine'[c] = m
  BY DEF Placed
<1>3. Others(c)
  BY DEF Placed, Others
<1> QED BY <1>1, <1>2, <1>3 DEF Moves

LEMMA GotoIs ==
    ASSUME Placed, NEW c \in Callers, NEW label \in Labels, Goto(c, label)
    PROVE  Goes(c, label)
BY DEF Goto, Others, Placed, Moves, Goes

LEMMA ReturnIs ==
    ASSUME Placed, NEW c \in Callers, Return(c)
    PROVE  Ends(c)
<1>1. "idle" \in Labels /\ None \in Ops /\ NoSession \in Sessions \union {NoSession}
  BY DEF Labels, Ops
<1>2. busy' \in [Callers -> BOOLEAN] /\ \A d \in Callers \ {c} : busy'[d] = busy[d]
  BY DEF Return, Placed
<1> QED BY <1>1, <1>2, MovesIs DEF Return, Ends

LEMMA AnswerIs ==
    ASSUME ShapeInv, NEW c \in Callers, NEW ok, Answer(c, ok)
    PROVE  /\ stopped' \subseteq stopped \union before[c] /\ stopped \subseteq stopped'
           /\ before' \in [Callers -> SUBSET (1..hosts)] /\ before'[c] = {}
           /\ \A d \in Callers \ {c} : before'[d] = before[d]
           /\ dropped' = dropped
BY DEF Answer, ShapeInv, Counted

-----------------------------------------------------------------------------
(* Where each action takes its caller. *)

LEMMA BeginMoves ==
    ASSUME TypeOK, ShapeInv, NEW c \in Callers, Begin(c)
    PROVE  /\ pc[c] = "idle" /\ mine[c] = NoSession
           /\ \E o \in Starts : Moves(c, "ensure", o, NoSession)
<1>1. pc[c] = "idle" /\ mine[c] = NoSession
  BY TypeParts DEF Begin, Placed, ShapeInv, ShapeOf, HostLive, Ending, Empty, Starts
<1>2. PICK o \in Starts : op' = [op EXCEPT ![c] = o]
  BY TypeParts DEF Begin, Placed
<1>3. "ensure" \in Labels /\ o \in Ops /\ NoSession \in Sessions \union {NoSession}
  BY DEF Labels, Ops
<1>4. pc' = [pc EXCEPT ![c] = "ensure"] /\ mine' = mine 
      /\ busy' \in [Callers -> BOOLEAN] /\ \A d \in Callers \ {c} : busy'[d] = busy[d]
  BY TypeParts DEF Begin, Placed
<1>5. Moves(c, "ensure", o, NoSession)
  BY <1>1, <1>2, <1>3, <1>4, MovesIs, TypeParts
<1> QED BY <1>1, <1>5

LEMMA PassMoves ==
    ASSUME TypeOK, ShapeInv, NEW c \in Callers, Pass(c)
    PROVE  /\ pc[c] = "ensure" /\ op[c] \in Starts /\ mine[c] = NoSession
           /\ \/ op[c] = "host" /\ Goes(c, "claim")
              \/ op[c] = "join" /\ Goes(c, "join")
<1>1. pc[c] = "ensure" /\ op[c] \in Starts /\ mine[c] = NoSession
  BY TypeParts DEF Pass, Idle, Placed, ShapeInv, ShapeOf, HostLive, Ending, Empty, Starts
<1>2. "claim" \in Labels /\ "join" \in Labels
  BY DEF Labels
<1>3. CASE op[c] = "host"
  BY <1>1, <1>2, <1>3, GotoIs, TypeParts DEF Pass
<1>4. CASE op[c] # "host"
  BY <1>1, <1>2, <1>4, GotoIs, TypeParts DEF Pass, Starts
<1> QED BY <1>3, <1>4

LEMMA RefuseMoves ==
    ASSUME TypeOK, ShapeInv, NEW c \in Callers, Refuse(c)
    PROVE  /\ mine[c] = NoSession
           /\ Ends(c)
<1>1. mine[c] = NoSession
  BY TypeParts DEF Refuse, Placed, ShapeInv, ShapeOf, HostLive, Ending, Empty, Starts
<1> QED BY <1>1, ReturnIs, TypeParts DEF Refuse, Labels

LEMMA StartJoinMoves ==
    ASSUME TypeOK, ShapeInv, NEW c \in Callers, StartJoin(c)
    PROVE  /\ pc[c] = "join" /\ op[c] = "join" /\ mine[c] = NoSession
           /\ \/ join = "Idle" /\ Goes(c, "follow")
              \/ join # "Idle" /\ Ends(c)
<1>1. pc[c] = "join" /\ op[c] = "join" /\ mine[c] = NoSession
  BY TypeParts DEF StartJoin, Placed, ShapeInv, ShapeOf, HostLive, Ending, Empty, Starts
<1> QED BY <1>1, GotoIs, ReturnIs, TypeParts DEF StartJoin, Labels

LEMMA FollowMoves ==
    ASSUME TypeOK, ShapeInv, NEW c \in Callers, Follow(c)
    PROVE  /\ pc[c] = "follow" /\ mine[c] = NoSession
           /\ Ends(c)
<1>1. pc[c] = "follow" /\ mine[c] = NoSession
  BY TypeParts DEF Follow, Placed, ShapeInv, ShapeOf, HostLive, Ending, Empty, Starts
<1> QED BY <1>1, ReturnIs, TypeParts DEF Follow, Labels

LEMMA ClaimMoves ==
    ASSUME TypeOK, ShapeInv, NEW c \in Callers, Claim(c)
    PROVE  /\ pc[c] = "claim" /\ op[c] = "host" /\ mine[c] = NoSession /\ hosts + 1 # NoSession
           /\ Moves(c, "bind", op[c], hosts + 1)
<1>1. pc[c] = "claim" /\ op[c] = "host" /\ mine[c] = NoSession 
  BY TypeParts DEF Claim, Placed, ShapeInv, ShapeOf, HostLive, Ending, Empty, Starts
<1>2. "bind" \in Labels /\ op[c] \in Ops /\ hosts + 1 \in Sessions
  BY <1>1, Constants DEF Claim, Labels, Ops, Starts, Sessions, ShapeInv, Counted
<1>3. /\ pc' = [pc EXCEPT ![c] = "bind"] /\ mine' = [mine EXCEPT ![c] = hosts + 1] /\ op' = op
      /\ busy' \in [Callers -> BOOLEAN] /\ \A d \in Callers \ {c} : busy'[d] = busy[d]
  BY TypeParts DEF Claim, Placed
<1>4. hosts + 1 # NoSession
  BY Constants DEF ShapeInv, Counted, NoSession
<1> QED BY <1>1, <1>2, <1>3, <1>4, MovesIs, TypeParts

LEMMA BindFailsMoves ==
    ASSUME TypeOK, ShapeInv, NEW c \in Callers, BindFails(c)
    PROVE  /\ pc[c] = "bind" /\ op[c] = "host" /\ mine[c] # NoSession
           /\ Ends(c)
<1>1. pc[c] = "bind" /\ op[c] = "host" /\ mine[c] # NoSession
  BY TypeParts DEF BindFails, Placed, ShapeInv, ShapeOf, HostLive, Ending, Empty, Starts
<1> QED BY <1>1, ReturnIs, TypeParts DEF BindFails, Labels, ReturnHost

LEMMA BindMoves ==
    ASSUME TypeOK, ShapeInv, NEW c \in Callers, Bind(c)
    PROVE  /\ pc[c] = "bind" /\ op[c] = "host" /\ mine[c] # NoSession
           /\ Goes(c, "serve")
<1>1. pc[c] = "bind" /\ op[c] = "host" /\ mine[c] # NoSession
  BY TypeParts DEF Bind, Placed, ShapeInv, ShapeOf, HostLive, Ending, Empty, Starts
<1> QED BY <1>1, GotoIs, TypeParts DEF Bind, Labels

LEMMA ContinueMoves ==
    ASSUME TypeOK, ShapeInv, NEW c \in Callers, Continue(c)
    PROVE  /\ pc[c] \in {"serve", "save"} /\ op[c] = "host" /\ mine[c] # NoSession
           /\ Goes(c, "save") \/ Goes(c, "fan")
<1>1. pc[c] \in {"serve", "save"} /\ op[c] = "host" /\ mine[c] # NoSession
  BY TypeParts DEF Continue, Placed, ShapeInv, ShapeOf, HostLive, Ending, Empty, Starts
<1> QED BY <1>1, GotoIs, TypeParts DEF Continue, Labels

LEMMA GiveUpMoves ==
    ASSUME TypeOK, ShapeInv, NEW c \in Callers, GiveUp(c)
    PROVE  /\ pc[c] \in {"serve", "save", "subscribe"} /\ op[c] = "host" /\ mine[c] # NoSession
           /\ Goes(c, "abandon")
<1>1. pc[c] \in {"serve", "save", "subscribe"} /\ op[c] = "host" /\ mine[c] # NoSession
  BY TypeParts DEF GiveUp, Placed, ShapeInv, ShapeOf, HostLive, Ending, Empty, Starts
<1> QED BY <1>1, GotoIs, TypeParts DEF GiveUp, Labels

LEMMA FanOutMoves ==
    ASSUME TypeOK, ShapeInv, NEW c \in Callers, FanOut(c)
    PROVE  /\ pc[c] = "fan" /\ op[c] = "host" /\ mine[c] # NoSession
           /\ Goes(c, "subscribe")
<1>1. pc[c] = "fan" /\ op[c] = "host" /\ mine[c] # NoSession
  BY TypeParts DEF FanOut, Placed, ShapeInv, ShapeOf, HostLive, Ending, Empty, Starts
<1> QED BY <1>1, GotoIs, TypeParts DEF FanOut, Labels

LEMMA RetainMoves ==
    ASSUME TypeOK, ShapeInv, NEW c \in Callers, Retain(c)
    PROVE  /\ pc[c] = "subscribe" /\ op[c] = "host" /\ mine[c] # NoSession
           /\ Goes(c, "query")
<1>1. pc[c] = "subscribe" /\ op[c] = "host" /\ mine[c] # NoSession
  BY TypeParts DEF Retain, Placed, ShapeInv, ShapeOf, HostLive, Ending, Empty, Starts
<1> QED BY <1>1, GotoIs, TypeParts DEF Retain, Labels

LEMMA QueryFailsMoves ==
    ASSUME TypeOK, ShapeInv, NEW c \in Callers, QueryFails(c)
    PROVE  /\ pc[c] = "query" /\ op[c] = "host" /\ mine[c] # NoSession
           /\ Ends(c)
<1>1. pc[c] = "query" /\ op[c] = "host" /\ mine[c] # NoSession
  BY TypeParts DEF QueryFails, Placed, ShapeInv, ShapeOf, HostLive, Ending, Empty, Starts
<1> QED BY <1>1, ReturnIs, TypeParts DEF QueryFails, Labels, ReturnHost

LEMMA LockSlotMoves ==
    ASSUME TypeOK, ShapeInv, NEW c \in Callers, LockSlot(c)
    PROVE  /\ pc[c] = "query" /\ op[c] = "host" /\ mine[c] # NoSession
           /\ \/ cancel /\ Goes(c, "abandon")
              \/ ~cancel /\ Goes(c, "publish")
<1>1. pc[c] = "query" /\ op[c] = "host" /\ mine[c] # NoSession
  BY TypeParts DEF LockSlot, Placed, ShapeInv, ShapeOf, HostLive, Ending, Empty, Starts
<1> QED BY <1>1, GotoIs, TypeParts DEF LockSlot, Labels

LEMMA PublishMoves ==
    ASSUME TypeOK, ShapeInv, NEW c \in Callers, Publish(c)
    PROVE  /\ pc[c] = "publish" /\ op[c] = "host" /\ mine[c] # NoSession
           /\ Ends(c)
<1>1. pc[c] = "publish" /\ op[c] = "host" /\ mine[c] # NoSession
  BY TypeParts DEF Publish, Placed, ShapeInv, ShapeOf, HostLive, Ending, Empty, Starts
<1> QED BY <1>1, ReturnIs, TypeParts DEF Publish, Labels, ReturnHost

LEMMA AbandonMoves ==
    ASSUME TypeOK, ShapeInv, NEW c \in Callers, Abandon(c)
    PROVE  /\ pc[c] = "abandon" /\ op[c] = "host" /\ mine[c] # NoSession
           /\ Ends(c)
<1>1. pc[c] = "abandon" /\ op[c] = "host" /\ mine[c] # NoSession
  BY TypeParts DEF Abandon, Placed, ShapeInv, ShapeOf, HostLive, Ending, Empty, Starts
<1> QED BY <1>1, ReturnIs, TypeParts DEF Abandon, Labels, ReturnHost

LEMMA BeginStopMoves ==
    ASSUME TypeOK, ShapeInv, NEW c \in Callers, BeginStop(c)
    PROVE  /\ pc[c] = "idle" /\ mine[c] = NoSession
           /\ \E o \in Stops : Moves(c, "take", o, NoSession)
<1>1. pc[c] = "idle" /\ mine[c] = NoSession
  BY TypeParts DEF BeginStop, Placed, ShapeInv, ShapeOf, HostLive, Ending, Empty, Starts
<1>2. PICK o \in Stops : op' = [op EXCEPT ![c] = o]
  BY DEF BeginStop, Stops
<1>3. "take" \in Labels /\ o \in Ops /\ NoSession \in Sessions \union {NoSession}
  BY DEF Labels, Ops
<1>4. pc' = [pc EXCEPT ![c] = "take"] /\ mine' = mine 
      /\ busy' \in [Callers -> BOOLEAN] /\ \A d \in Callers \ {c} : busy'[d] = busy[d]
  BY TypeParts DEF BeginStop, Placed
<1>5. Moves(c, "take", o, NoSession)
  BY <1>1, <1>2, <1>3, <1>4, MovesIs, TypeParts
<1> QED BY <1>1, <1>5

LEMMA TakeMoves ==
    ASSUME TypeOK, ShapeInv, NEW c \in Callers, Take(c)
    PROVE  /\ pc[c] = "take" /\ op[c] \in Stops /\ mine[c] = NoSession
           /\ \/ slot = NoSession /\ Moves(c, "leave", op[c], slot)
              \/ slot # NoSession /\ Moves(c, "quiet", op[c], slot)
              \/ slot # NoSession /\ Moves(c, "close", op[c], slot)
<1>1. pc[c] = "take" /\ op[c] \in Stops /\ mine[c] = NoSession
  BY TypeParts DEF Take, Placed, ShapeInv, ShapeOf, HostLive, Ending, Empty, Starts
<1>2. {"leave", "quiet", "close"} \subseteq Labels /\ op[c] \in Ops /\ slot \in Sessions \union {NoSession}
  BY <1>1, TypeParts DEF Labels, Ops, Values
<1>3. mine' = [mine EXCEPT ![c] = slot] /\ op' = op 
      /\ busy' \in [Callers -> BOOLEAN] /\ \A d \in Callers \ {c} : busy'[d] = busy[d]
  BY TypeParts DEF Take, Placed
<1>4. \/ slot = NoSession /\ pc' = [pc EXCEPT ![c] = "leave"]
      \/ slot # NoSession /\ pc' = [pc EXCEPT ![c] = "quiet"]
      \/ slot # NoSession /\ pc' = [pc EXCEPT ![c] = "close"]
  BY TypeParts DEF Take, Placed
<1> QED BY <1>1, <1>2, <1>3, <1>4, MovesIs, TypeParts

LEMMA QuietMoves ==
    ASSUME TypeOK, ShapeInv, NEW c \in Callers, Quiet(c)
    PROVE  /\ pc[c] = "quiet" /\ op[c] \in Stops
           /\ Goes(c, "close")
<1>1. pc[c] = "quiet" /\ op[c] \in Stops
  BY TypeParts DEF Quiet, Placed, ShapeInv, ShapeOf, HostLive, Ending, Empty, Starts
<1> QED BY <1>1, GotoIs, TypeParts DEF Quiet, Labels

LEMMA CloseMoves ==
    ASSUME TypeOK, ShapeInv, NEW c \in Callers, Close(c)
    PROVE  /\ pc[c] = "close" /\ op[c] \in Stops
           /\ Ends(c) \/ Goes(c, "leave")
<1>1. pc[c] = "close" /\ op[c] \in Stops
  BY TypeParts DEF Close, Placed, ShapeInv, ShapeOf, HostLive, Ending, Empty, Starts
<1> QED BY <1>1, GotoIs, ReturnIs, TypeParts DEF Close, Labels

LEMMA JoinIsIdleMoves ==
    ASSUME TypeOK, ShapeInv, NEW c \in Callers, JoinIsIdle(c)
    PROVE  /\ pc[c] = "leave" /\ op[c] \in Stops
           /\ Ends(c)
<1>1. pc[c] = "leave" /\ op[c] \in Stops
  BY TypeParts DEF JoinIsIdle, Placed, ShapeInv, ShapeOf, HostLive, Ending, Empty, Starts
<1> QED BY <1>1, ReturnIs, TypeParts DEF JoinIsIdle, Labels

LEMMA StopJoinMoves ==
    ASSUME TypeOK, ShapeInv, NEW c \in Callers, StopJoin(c)
    PROVE  /\ pc[c] = "leave" /\ op[c] \in Stops
           /\ \/ join = "Stopping" /\ Ends(c)
              \/ join # "Stopping" /\ Goes(c, "leaving")
<1>1. pc[c] = "leave" /\ op[c] \in Stops
  BY TypeParts DEF StopJoin, Placed, ShapeInv, ShapeOf, HostLive, Ending, Empty, Starts
<1> QED BY <1>1, GotoIs, ReturnIs, TypeParts DEF StopJoin, Labels

LEMMA JoinStoppedMoves ==
    ASSUME TypeOK, ShapeInv, NEW c \in Callers, JoinStopped(c)
    PROVE  /\ pc[c] = "leaving" /\ op[c] \in Stops
           /\ Ends(c) \/ Goes(c, "hush")
<1>1. pc[c] = "leaving" /\ op[c] \in Stops
  BY TypeParts DEF JoinStopped, Placed, ShapeInv, ShapeOf, HostLive, Ending, Empty, Starts
<1> QED BY <1>1, GotoIs, ReturnIs, TypeParts DEF JoinStopped, Labels

LEMMA HushMoves ==
    ASSUME TypeOK, ShapeInv, NEW c \in Callers, Hush(c)
    PROVE  /\ pc[c] = "hush" /\ op[c] \in Stops
           /\ Ends(c)
<1>1. pc[c] = "hush" /\ op[c] \in Stops
  BY TypeParts DEF Hush, Placed, ShapeInv, ShapeOf, HostLive, Ending, Empty, Starts
<1> QED BY <1>1, ReturnIs, TypeParts DEF Hush, Labels

LEMMA BeginQueryMoves ==
    ASSUME TypeOK, ShapeInv, NEW c \in Callers, BeginQuery(c)
    PROVE  /\ pc[c] = "idle" /\ mine[c] = NoSession
           /\ Moves(c, "ask", "status", NoSession)
<1>1. pc[c] = "idle" /\ mine[c] = NoSession
  BY TypeParts DEF BeginQuery, Placed, ShapeInv, ShapeOf, HostLive, Ending, Empty, Starts
<1>2. "ask" \in Labels /\ "status" \in Ops /\ NoSession \in Sessions \union {NoSession}
  BY DEF Labels, Ops
<1>3. /\ pc' = [pc EXCEPT ![c] = "ask"] /\ op' = [op EXCEPT ![c] = "status"] /\ mine' = mine
      /\ busy' \in [Callers -> BOOLEAN] /\ \A d \in Callers \ {c} : busy'[d] = busy[d]
  BY TypeParts DEF BeginQuery, Placed
<1> QED BY <1>1, <1>2, <1>3, MovesIs, TypeParts

LEMMA EndQueryMoves ==
    ASSUME TypeOK, ShapeInv, NEW c \in Callers, EndQuery(c)
    PROVE  /\ pc[c] = "ask" /\ mine[c] = NoSession
           /\ Ends(c)
<1>1. pc[c] = "ask" /\ mine[c] = NoSession
  BY TypeParts DEF EndQuery, Placed, ShapeInv, ShapeOf, HostLive, Ending, Empty, Starts
<1> QED BY <1>1, ReturnIs, TypeParts DEF EndQuery, Labels

-----------------------------------------------------------------------------

LEMMA LocksAfter ==
    ASSUME Locks, NEW c \in Callers, Others(c),
           holder' = c <=> pc'[c] \in {"publish", "ask"},
           starter' = c <=> op'[c] = "host" /\ mine'[c] # NoSession,
           \A d \in Callers \ {c} : (holder' = d <=> holder = d) /\ (starter' = d <=> starter = d)
    PROVE  Locks'
BY DEF Locks, Others

LEMMA CountedAfter ==
    ASSUME Values, Placed, Counted, NEW c \in Callers, Others(c), Placed', hosts' = hosts,
           mine'[c] \in {mine[c], NoSession, slot}, slot' \in {slot, NoSession, mine[c]},
           open' \subseteq open \/ (mine[c] # NoSession /\ open' = open \union {mine[c]}),
           stopped' \subseteq stopped \union before[c],
           before' \in [Callers -> SUBSET (1..hosts)]
    PROVE  Counted'
<1>1. hosts \in Nat /\ slot <= hosts /\ mine[c] <= hosts /\ 0 <= hosts
  BY Constants DEF Counted
<1>2. slot' <= hosts /\ mine'[c] <= hosts
  BY <1>1 DEF NoSession
<1>3. \A d \in Callers : mine'[d] <= hosts
  BY <1>2 DEF Counted, Others
<1>4. mine[c] # NoSession => mine[c] \in 1..hosts
  BY <1>1, Constants DEF Placed, Sessions
<1>5. open' \subseteq 1..hosts /\ stopped' \subseteq 1..hosts
  BY <1>4 DEF Counted
<1> QED BY <1>2, <1>3, <1>5 DEF Counted

LEMMA ShapesAfter ==
    ASSUME \A d \in Callers : ShapeOf(d), NEW c \in Callers, Others(c), ShapeOf(c)'
    PROVE  (\A d \in Callers : ShapeOf(d))'
<1> SUFFICES ASSUME NEW d \in Callers \ {c} PROVE ShapeOf(d)'
  OBVIOUS
<1>1. pc'[d] = pc[d] /\ op'[d] = op[d] /\ mine'[d] = mine[d]
  BY DEF Others
<1> QED BY <1>1 DEF ShapeOf

LEMMA HandIs == ASSUME Placed, NEW c \in Callers PROVE mine[c] # NoSession => mine[c] \in Sessions
BY DEF Placed

LEMMA ShapesStep ==
    ASSUME TypeOK, ShapeInv, [Next]_vars
    PROVE  TypeOK' /\ ShapeInv'
<1>0. Values /\ Placed /\ Locks /\ Counted /\ \A c \in Callers : ShapeOf(c)
  BY TypeParts DEF ShapeInv
<1>1. ASSUME NEW c \in Callers, Begin(c) PROVE TypeOK' /\ ShapeInv'
  <2>1. Values'
    BY <1>0, <1>1 DEF Begin, Values, Phases, lock, sculk, fanout
  <2>2. Placed' /\ Others(c)
    BY <1>1, BeginMoves DEF Moves, Goes, Ends
  <2>3. Locks'
    <3>1. /\ holder' = c <=> pc'[c] \in {"publish", "ask"}
          /\ starter' = c <=> op'[c] = "host" /\ mine'[c] # NoSession
      BY <1>0, <1>1, BeginMoves, Constants DEF Begin, Locks, Starts, Stops, lock, Moves, Goes, Ends
    <3>2. \A d \in Callers \ {c} : (holder' = d <=> holder = d) /\ (starter' = d <=> starter = d)
      BY <1>0, <1>1, BeginMoves, Constants DEF Begin, Locks, lock
    <3> QED BY <1>0, <2>2, <3>1, <3>2, LocksAfter
  <2>4. Counted'
    <3>1. hosts' = hosts /\ slot' \in {slot, NoSession, mine[c]}
      BY <1>1 DEF Begin, lock
    <3>2. mine'[c] \in {mine[c], NoSession, slot}
      BY <1>1, BeginMoves DEF Moves, Goes, Ends
    <3>3. open' \subseteq open
      BY <1>1 DEF Begin, sculk
    <3>4. stopped' \subseteq stopped \union before[c] /\ before' \in [Callers -> SUBSET (1..hosts)]
      BY <1>0, <1>1 DEF Begin, Counted, ghosts
    <3> QED BY <1>0, <2>2, <3>1, <3>2, <3>3, <3>4, CountedAfter
  <2>5. ShapeOf(c)'
    BY <1>1, BeginMoves DEF ShapeOf, HostLive, Ending, Empty, Starts, Stops, Moves, Goes, Ends
  <2> QED BY <1>0, <2>1, <2>2, <2>3, <2>4, <2>5, ShapesAfter, TypeParts DEF ShapeInv
<1>2. ASSUME NEW c \in Callers, Pass(c) PROVE TypeOK' /\ ShapeInv'
  <2>1. Values'
    BY <1>0, <1>2 DEF Pass, Idle, Values, Phases, lock, sculk, fanout
  <2>2. Placed' /\ Others(c)
    BY <1>2, PassMoves DEF Moves, Goes, Ends
  <2>3. Locks'
    <3>1. /\ holder' = c <=> pc'[c] \in {"publish", "ask"}
          /\ starter' = c <=> op'[c] = "host" /\ mine'[c] # NoSession
      BY <1>0, <1>2, PassMoves, Constants DEF Pass, Locks, Starts, Stops, lock, Moves, Goes, Ends
    <3>2. \A d \in Callers \ {c} : (holder' = d <=> holder = d) /\ (starter' = d <=> starter = d)
      BY <1>0, <1>2, PassMoves, Constants DEF Pass, Locks, lock
    <3> QED BY <1>0, <2>2, <3>1, <3>2, LocksAfter
  <2>4. Counted'
    <3>1. hosts' = hosts /\ slot' \in {slot, NoSession, mine[c]}
      BY <1>2 DEF Pass, lock
    <3>2. mine'[c] \in {mine[c], NoSession, slot}
      BY <1>2, PassMoves DEF Moves, Goes, Ends
    <3>3. open' \subseteq open
      BY <1>2 DEF Pass, sculk
    <3>4. stopped' \subseteq stopped \union before[c] /\ before' \in [Callers -> SUBSET (1..hosts)]
      BY <1>0, <1>2 DEF Pass, Counted, ghosts
    <3> QED BY <1>0, <2>2, <3>1, <3>2, <3>3, <3>4, CountedAfter
  <2>5. ShapeOf(c)'
    BY <1>2, PassMoves DEF ShapeOf, HostLive, Ending, Empty, Starts, Stops, Moves, Goes, Ends
  <2> QED BY <1>0, <2>1, <2>2, <2>3, <2>4, <2>5, ShapesAfter, TypeParts DEF ShapeInv
<1>3. ASSUME NEW c \in Callers, Refuse(c) PROVE TypeOK' /\ ShapeInv'
  <2>1. Values'
    <3>1. UNCHANGED <<slot, holder, starter, cancel, open, join, fan, news, applying, stray, lan>>
      BY <1>3 DEF Refuse, lock, sculk, fanout
    <3> QED BY <1>0, <3>1 DEF Values, Phases
  <2>2. Placed' /\ Others(c)
    BY <1>3, RefuseMoves DEF Moves, Goes, Ends
  <2>3. Locks'
    <3>1. /\ holder' = c <=> pc'[c] \in {"publish", "ask"}
          /\ starter' = c <=> op'[c] = "host" /\ mine'[c] # NoSession
      BY <1>0, <1>3, RefuseMoves, Constants DEF Refuse, Locks, Starts, Stops, lock, Moves, Goes,
         Ends
    <3>2. \A d \in Callers \ {c} : (holder' = d <=> holder = d) /\ (starter' = d <=> starter = d)
      BY <1>0, <1>3, RefuseMoves, Constants DEF Refuse, Locks, lock
    <3> QED BY <1>0, <2>2, <3>1, <3>2, LocksAfter
  <2>4. Counted'
    <3>1. hosts' = hosts /\ slot' \in {slot, NoSession, mine[c]}
      BY <1>3 DEF Refuse, lock
    <3>2. mine'[c] \in {mine[c], NoSession, slot}
      BY <1>3, RefuseMoves DEF Moves, Goes, Ends
    <3>3. open' \subseteq open
      BY <1>3 DEF Refuse, sculk
    <3>4. stopped' \subseteq stopped \union before[c] /\ before' \in [Callers -> SUBSET (1..hosts)]
      BY <1>0, <1>3 DEF Refuse, Counted, ghosts
    <3> QED BY <1>0, <2>2, <3>1, <3>2, <3>3, <3>4, CountedAfter
  <2>5. ShapeOf(c)'
    BY <1>3, RefuseMoves DEF ShapeOf, HostLive, Ending, Empty, Starts, Stops, Moves, Goes, Ends
  <2> QED BY <1>0, <2>1, <2>2, <2>3, <2>4, <2>5, ShapesAfter, TypeParts DEF ShapeInv
<1>4. ASSUME NEW c \in Callers, StartJoin(c) PROVE TypeOK' /\ ShapeInv'
  <2>1. Values'
    <3>1. UNCHANGED <<slot, holder, starter, cancel, open, fan, news, applying, stray, lan>> /\ join' \in {join, "Starting"}
      BY <1>4 DEF StartJoin, lock, sculk, fanout
    <3> QED BY <1>0, <3>1 DEF Values, Phases
  <2>2. Placed' /\ Others(c)
    BY <1>4, StartJoinMoves DEF Moves, Goes, Ends
  <2>3. Locks'
    <3>1. /\ holder' = c <=> pc'[c] \in {"publish", "ask"}
          /\ starter' = c <=> op'[c] = "host" /\ mine'[c] # NoSession
      BY <1>0, <1>4, StartJoinMoves, Constants DEF StartJoin, Locks, Starts, Stops, lock, Moves,
         Goes, Ends
    <3>2. \A d \in Callers \ {c} : (holder' = d <=> holder = d) /\ (starter' = d <=> starter = d)
      BY <1>0, <1>4, StartJoinMoves, Constants DEF StartJoin, Locks, lock
    <3> QED BY <1>0, <2>2, <3>1, <3>2, LocksAfter
  <2>4. Counted'
    <3>1. hosts' = hosts /\ slot' \in {slot, NoSession, mine[c]}
      BY <1>4 DEF StartJoin, lock
    <3>2. mine'[c] \in {mine[c], NoSession, slot}
      BY <1>4, StartJoinMoves DEF Moves, Goes, Ends
    <3>3. open' \subseteq open
      BY <1>4 DEF StartJoin, sculk
    <3>4. stopped' \subseteq stopped \union before[c] /\ before' \in [Callers -> SUBSET (1..hosts)]
      BY <1>0, <1>4 DEF StartJoin, Counted, ghosts
    <3> QED BY <1>0, <2>2, <3>1, <3>2, <3>3, <3>4, CountedAfter
  <2>5. ShapeOf(c)'
    BY <1>4, StartJoinMoves DEF ShapeOf, HostLive, Ending, Empty, Starts, Stops, Moves, Goes, Ends
  <2> QED BY <1>0, <2>1, <2>2, <2>3, <2>4, <2>5, ShapesAfter, TypeParts DEF ShapeInv
<1>5. ASSUME NEW c \in Callers, Follow(c) PROVE TypeOK' /\ ShapeInv'
  <2>1. Values'
    BY <1>0, <1>5 DEF Follow, Values, Phases, lock, sculk, fanout
  <2>2. Placed' /\ Others(c)
    BY <1>5, FollowMoves DEF Moves, Goes, Ends
  <2>3. Locks'
    <3>1. /\ holder' = c <=> pc'[c] \in {"publish", "ask"}
          /\ starter' = c <=> op'[c] = "host" /\ mine'[c] # NoSession
      BY <1>0, <1>5, FollowMoves, Constants DEF Follow, Locks, Starts, Stops, lock, Moves, Goes,
         Ends
    <3>2. \A d \in Callers \ {c} : (holder' = d <=> holder = d) /\ (starter' = d <=> starter = d)
      BY <1>0, <1>5, FollowMoves, Constants DEF Follow, Locks, lock
    <3> QED BY <1>0, <2>2, <3>1, <3>2, LocksAfter
  <2>4. Counted'
    <3>1. hosts' = hosts /\ slot' \in {slot, NoSession, mine[c]}
      BY <1>5 DEF Follow, lock
    <3>2. mine'[c] \in {mine[c], NoSession, slot}
      BY <1>5, FollowMoves DEF Moves, Goes, Ends
    <3>3. open' \subseteq open
      BY <1>5 DEF Follow, sculk
    <3>4. stopped' \subseteq stopped \union before[c] /\ before' \in [Callers -> SUBSET (1..hosts)]
      BY <1>0, <1>5 DEF Follow, Counted, ghosts
    <3> QED BY <1>0, <2>2, <3>1, <3>2, <3>3, <3>4, CountedAfter
  <2>5. ShapeOf(c)'
    BY <1>5, FollowMoves DEF ShapeOf, HostLive, Ending, Empty, Starts, Stops, Moves, Goes, Ends
  <2> QED BY <1>0, <2>1, <2>2, <2>3, <2>4, <2>5, ShapesAfter, TypeParts DEF ShapeInv
<1>6. ASSUME NEW c \in Callers, Claim(c) PROVE TypeOK' /\ ShapeInv'
  <2>1. Values'
    BY <1>0, <1>6 DEF Claim, Values, Phases, lock, sculk, fanout
  <2>2. Placed' /\ Others(c)
    BY <1>6, ClaimMoves DEF Moves, Goes, Ends
  <2>3. Locks'
    <3>1. /\ holder' = c <=> pc'[c] \in {"publish", "ask"}
          /\ starter' = c <=> op'[c] = "host" /\ mine'[c] # NoSession
      BY <1>0, <1>6, ClaimMoves, Constants DEF Claim, Locks, Starts, Stops, lock, Moves, Goes, Ends
    <3>2. \A d \in Callers \ {c} : (holder' = d <=> holder = d) /\ (starter' = d <=> starter = d)
      BY <1>0, <1>6, ClaimMoves, Constants DEF Claim, Locks, lock
    <3> QED BY <1>0, <2>2, <3>1, <3>2, LocksAfter
  <2>4. Counted'
    <3>1. hosts' = hosts + 1 /\ hosts' \in 0..MaxHosts /\ UNCHANGED <<slot, open, stopped, before>>
      BY <1>0, <1>6, Constants DEF Claim, Counted, lock, sculk, ghosts
    <3>2. 1..hosts \subseteq 1..hosts' /\ hosts' \in Nat
      BY <1>0, <3>1, Constants DEF Counted
    <3>3. slot <= hosts'
      BY <1>0, <3>1, Constants DEF Counted, Values, Sessions, NoSession
    <3>4. before \in [Callers -> SUBSET (1..hosts')]
      BY <1>0, <3>2 DEF Counted
    <3>5. mine'[c] = hosts'
      BY <1>6, <3>1, ClaimMoves DEF Moves
    <3>6. ASSUME NEW d \in Callers PROVE mine'[d] <= hosts'
      BY <1>0, <2>2, <3>1, <3>2, <3>5, Constants DEF Counted, Others, Placed, Sessions, NoSession
    <3> QED BY <1>0, <3>1, <3>2, <3>3, <3>4, <3>6 DEF Counted
  <2>5. ShapeOf(c)'
    BY <1>6, ClaimMoves, Constants DEF ShapeOf, HostLive, Ending, Empty, Starts, Stops, Moves,
       Goes, Ends
  <2> QED BY <1>0, <2>1, <2>2, <2>3, <2>4, <2>5, ShapesAfter, TypeParts DEF ShapeInv
<1>7. ASSUME NEW c \in Callers, BindFails(c) PROVE TypeOK' /\ ShapeInv'
  <2>1. Values'
    BY <1>0, <1>7 DEF BindFails, ReturnHost, Values, Phases, lock, sculk, fanout
  <2>2. Placed' /\ Others(c)
    BY <1>7, BindFailsMoves DEF Moves, Goes, Ends
  <2>3. Locks'
    <3>1. /\ holder' = c <=> pc'[c] \in {"publish", "ask"}
          /\ starter' = c <=> op'[c] = "host" /\ mine'[c] # NoSession
      BY <1>0, <1>7, BindFailsMoves, Constants DEF BindFails, ReturnHost, Locks, Starts, Stops,
         lock, Moves, Goes, Ends
    <3>2. \A d \in Callers \ {c} : (holder' = d <=> holder = d) /\ (starter' = d <=> starter = d)
      BY <1>0, <1>7, BindFailsMoves, Constants DEF BindFails, ReturnHost, Locks, lock
    <3> QED BY <1>0, <2>2, <3>1, <3>2, LocksAfter
  <2>4. Counted'
    <3>1. hosts' = hosts /\ slot' \in {slot, NoSession, mine[c]}
      BY <1>7 DEF BindFails, lock
    <3>2. mine'[c] \in {mine[c], NoSession, slot}
      BY <1>7, BindFailsMoves DEF Moves, Goes, Ends
    <3>3. open' \subseteq open
      BY <1>7 DEF BindFails, sculk
    <3>4. stopped' \subseteq stopped \union before[c] /\ before' \in [Callers -> SUBSET (1..hosts)]
      BY <1>0, <1>7 DEF BindFails, Counted, ghosts
    <3> QED BY <1>0, <2>2, <3>1, <3>2, <3>3, <3>4, CountedAfter
  <2>5. ShapeOf(c)'
    BY <1>7, BindFailsMoves DEF ShapeOf, HostLive, Ending, Empty, Starts, Stops, Moves, Goes, Ends
  <2> QED BY <1>0, <2>1, <2>2, <2>3, <2>4, <2>5, ShapesAfter, TypeParts DEF ShapeInv
<1>8. ASSUME NEW c \in Callers, Bind(c) PROVE TypeOK' /\ ShapeInv'
  <2>1. Values'
    BY <1>0, <1>8, HandIs, BindMoves DEF Bind, Values, Phases, lock, sculk, fanout
  <2>2. Placed' /\ Others(c)
    BY <1>8, BindMoves DEF Moves, Goes, Ends
  <2>3. Locks'
    <3>1. /\ holder' = c <=> pc'[c] \in {"publish", "ask"}
          /\ starter' = c <=> op'[c] = "host" /\ mine'[c] # NoSession
      BY <1>0, <1>8, BindMoves, Constants DEF Bind, Locks, Starts, Stops, lock, Moves, Goes, Ends
    <3>2. \A d \in Callers \ {c} : (holder' = d <=> holder = d) /\ (starter' = d <=> starter = d)
      BY <1>0, <1>8, BindMoves, Constants DEF Bind, Locks, lock
    <3> QED BY <1>0, <2>2, <3>1, <3>2, LocksAfter
  <2>4. Counted'
    <3>1. hosts' = hosts /\ slot' \in {slot, NoSession, mine[c]}
      BY <1>8 DEF Bind, lock
    <3>2. mine'[c] \in {mine[c], NoSession, slot}
      BY <1>8, BindMoves DEF Moves, Goes, Ends
    <3>3. mine[c] # NoSession /\ open' = open \union {mine[c]}
      BY <1>8, BindMoves DEF Bind, sculk
    <3>4. stopped' \subseteq stopped \union before[c] /\ before' \in [Callers -> SUBSET (1..hosts)]
      BY <1>0, <1>8 DEF Bind, Counted, ghosts
    <3> QED BY <1>0, <2>2, <3>1, <3>2, <3>3, <3>4, CountedAfter
  <2>5. ShapeOf(c)'
    BY <1>8, BindMoves DEF ShapeOf, HostLive, Ending, Empty, Starts, Stops, Moves, Goes, Ends
  <2> QED BY <1>0, <2>1, <2>2, <2>3, <2>4, <2>5, ShapesAfter, TypeParts DEF ShapeInv
<1>9. ASSUME NEW c \in Callers, Continue(c) PROVE TypeOK' /\ ShapeInv'
  <2>1. Values'
    BY <1>0, <1>9 DEF Continue, Values, Phases, lock, sculk, fanout
  <2>2. Placed' /\ Others(c)
    BY <1>9, ContinueMoves DEF Moves, Goes, Ends
  <2>3. Locks'
    <3>1. /\ holder' = c <=> pc'[c] \in {"publish", "ask"}
          /\ starter' = c <=> op'[c] = "host" /\ mine'[c] # NoSession
      BY <1>0, <1>9, ContinueMoves, Constants DEF Continue, Locks, Starts, Stops, lock, Moves,
         Goes, Ends
    <3>2. \A d \in Callers \ {c} : (holder' = d <=> holder = d) /\ (starter' = d <=> starter = d)
      BY <1>0, <1>9, ContinueMoves, Constants DEF Continue, Locks, lock
    <3> QED BY <1>0, <2>2, <3>1, <3>2, LocksAfter
  <2>4. Counted'
    <3>1. hosts' = hosts /\ slot' \in {slot, NoSession, mine[c]}
      BY <1>9 DEF Continue, lock
    <3>2. mine'[c] \in {mine[c], NoSession, slot}
      BY <1>9, ContinueMoves DEF Moves, Goes, Ends
    <3>3. open' \subseteq open
      BY <1>9 DEF Continue, sculk
    <3>4. stopped' \subseteq stopped \union before[c] /\ before' \in [Callers -> SUBSET (1..hosts)]
      BY <1>0, <1>9 DEF Continue, Counted, ghosts
    <3> QED BY <1>0, <2>2, <3>1, <3>2, <3>3, <3>4, CountedAfter
  <2>5. ShapeOf(c)'
    BY <1>9, ContinueMoves DEF ShapeOf, HostLive, Ending, Empty, Starts, Stops, Moves, Goes, Ends
  <2> QED BY <1>0, <2>1, <2>2, <2>3, <2>4, <2>5, ShapesAfter, TypeParts DEF ShapeInv
<1>10. ASSUME NEW c \in Callers, GiveUp(c) PROVE TypeOK' /\ ShapeInv'
  <2>1. Values'
    BY <1>0, <1>10 DEF GiveUp, Values, Phases, lock, sculk, fanout
  <2>2. Placed' /\ Others(c)
    BY <1>10, GiveUpMoves DEF Moves, Goes, Ends
  <2>3. Locks'
    <3>1. /\ holder' = c <=> pc'[c] \in {"publish", "ask"}
          /\ starter' = c <=> op'[c] = "host" /\ mine'[c] # NoSession
      BY <1>0, <1>10, GiveUpMoves, Constants DEF GiveUp, Locks, Starts, Stops, lock, Moves, Goes,
         Ends
    <3>2. \A d \in Callers \ {c} : (holder' = d <=> holder = d) /\ (starter' = d <=> starter = d)
      BY <1>0, <1>10, GiveUpMoves, Constants DEF GiveUp, Locks, lock
    <3> QED BY <1>0, <2>2, <3>1, <3>2, LocksAfter
  <2>4. Counted'
    <3>1. hosts' = hosts /\ slot' \in {slot, NoSession, mine[c]}
      BY <1>10 DEF GiveUp, lock
    <3>2. mine'[c] \in {mine[c], NoSession, slot}
      BY <1>10, GiveUpMoves DEF Moves, Goes, Ends
    <3>3. open' \subseteq open
      BY <1>10 DEF GiveUp, sculk
    <3>4. stopped' \subseteq stopped \union before[c] /\ before' \in [Callers -> SUBSET (1..hosts)]
      BY <1>0, <1>10 DEF GiveUp, Counted, ghosts
    <3> QED BY <1>0, <2>2, <3>1, <3>2, <3>3, <3>4, CountedAfter
  <2>5. ShapeOf(c)'
    BY <1>10, GiveUpMoves DEF ShapeOf, HostLive, Ending, Empty, Starts, Stops, Moves, Goes, Ends
  <2> QED BY <1>0, <2>1, <2>2, <2>3, <2>4, <2>5, ShapesAfter, TypeParts DEF ShapeInv
<1>11. ASSUME NEW c \in Callers, FanOut(c) PROVE TypeOK' /\ ShapeInv'
  <2>1. Values'
    BY <1>0, <1>11 DEF FanOut, StopFanout, Values, Phases, lock, sculk, fanout
  <2>2. Placed' /\ Others(c)
    BY <1>11, FanOutMoves DEF Moves, Goes, Ends
  <2>3. Locks'
    <3>1. /\ holder' = c <=> pc'[c] \in {"publish", "ask"}
          /\ starter' = c <=> op'[c] = "host" /\ mine'[c] # NoSession
      BY <1>0, <1>11, FanOutMoves, Constants DEF FanOut, Locks, Starts, Stops, lock, Moves, Goes,
         Ends
    <3>2. \A d \in Callers \ {c} : (holder' = d <=> holder = d) /\ (starter' = d <=> starter = d)
      BY <1>0, <1>11, FanOutMoves, Constants DEF FanOut, Locks, lock
    <3> QED BY <1>0, <2>2, <3>1, <3>2, LocksAfter
  <2>4. Counted'
    <3>1. hosts' = hosts /\ slot' \in {slot, NoSession, mine[c]}
      BY <1>11 DEF FanOut, lock
    <3>2. mine'[c] \in {mine[c], NoSession, slot}
      BY <1>11, FanOutMoves DEF Moves, Goes, Ends
    <3>3. open' \subseteq open
      BY <1>11 DEF FanOut, sculk
    <3>4. stopped' \subseteq stopped \union before[c] /\ before' \in [Callers -> SUBSET (1..hosts)]
      BY <1>0, <1>11 DEF FanOut, Counted, ghosts
    <3> QED BY <1>0, <2>2, <3>1, <3>2, <3>3, <3>4, CountedAfter
  <2>5. ShapeOf(c)'
    BY <1>11, FanOutMoves DEF ShapeOf, HostLive, Ending, Empty, Starts, Stops, Moves, Goes, Ends
  <2> QED BY <1>0, <2>1, <2>2, <2>3, <2>4, <2>5, ShapesAfter, TypeParts DEF ShapeInv
<1>12. ASSUME NEW c \in Callers, Retain(c) PROVE TypeOK' /\ ShapeInv'
  <2>1. Values'
    BY <1>0, <1>12, HandIs, RetainMoves DEF Retain, Values, Phases, lock, sculk, fanout
  <2>2. Placed' /\ Others(c)
    BY <1>12, RetainMoves DEF Moves, Goes, Ends
  <2>3. Locks'
    <3>1. /\ holder' = c <=> pc'[c] \in {"publish", "ask"}
          /\ starter' = c <=> op'[c] = "host" /\ mine'[c] # NoSession
      BY <1>0, <1>12, RetainMoves, Constants DEF Retain, Locks, Starts, Stops, lock, Moves, Goes,
         Ends
    <3>2. \A d \in Callers \ {c} : (holder' = d <=> holder = d) /\ (starter' = d <=> starter = d)
      BY <1>0, <1>12, RetainMoves, Constants DEF Retain, Locks, lock
    <3> QED BY <1>0, <2>2, <3>1, <3>2, LocksAfter
  <2>4. Counted'
    <3>1. hosts' = hosts /\ slot' \in {slot, NoSession, mine[c]}
      BY <1>12 DEF Retain, lock
    <3>2. mine'[c] \in {mine[c], NoSession, slot}
      BY <1>12, RetainMoves DEF Moves, Goes, Ends
    <3>3. open' \subseteq open
      BY <1>12 DEF Retain, sculk
    <3>4. stopped' \subseteq stopped \union before[c] /\ before' \in [Callers -> SUBSET (1..hosts)]
      BY <1>0, <1>12 DEF Retain, Counted, ghosts
    <3> QED BY <1>0, <2>2, <3>1, <3>2, <3>3, <3>4, CountedAfter
  <2>5. ShapeOf(c)'
    BY <1>12, RetainMoves DEF ShapeOf, HostLive, Ending, Empty, Starts, Stops, Moves, Goes, Ends
  <2> QED BY <1>0, <2>1, <2>2, <2>3, <2>4, <2>5, ShapesAfter, TypeParts DEF ShapeInv
<1>13. ASSUME NEW c \in Callers, QueryFails(c) PROVE TypeOK' /\ ShapeInv'
  <2>1. Values'
    BY <1>0, <1>13 DEF QueryFails, ReturnHost, Values, Phases, lock, sculk, fanout
  <2>2. Placed' /\ Others(c)
    BY <1>13, QueryFailsMoves DEF Moves, Goes, Ends
  <2>3. Locks'
    <3>1. /\ holder' = c <=> pc'[c] \in {"publish", "ask"}
          /\ starter' = c <=> op'[c] = "host" /\ mine'[c] # NoSession
      BY <1>0, <1>13, QueryFailsMoves, Constants DEF QueryFails, ReturnHost, Locks, Starts,
         Stops, lock, Moves, Goes, Ends
    <3>2. \A d \in Callers \ {c} : (holder' = d <=> holder = d) /\ (starter' = d <=> starter = d)
      BY <1>0, <1>13, QueryFailsMoves, Constants DEF QueryFails, ReturnHost, Locks, lock
    <3> QED BY <1>0, <2>2, <3>1, <3>2, LocksAfter
  <2>4. Counted'
    <3>1. hosts' = hosts /\ slot' \in {slot, NoSession, mine[c]}
      BY <1>13 DEF QueryFails, lock
    <3>2. mine'[c] \in {mine[c], NoSession, slot}
      BY <1>13, QueryFailsMoves DEF Moves, Goes, Ends
    <3>3. open' \subseteq open
      BY <1>13 DEF QueryFails, sculk
    <3>4. stopped' \subseteq stopped \union before[c] /\ before' \in [Callers -> SUBSET (1..hosts)]
      BY <1>0, <1>13 DEF QueryFails, Counted, ghosts
    <3> QED BY <1>0, <2>2, <3>1, <3>2, <3>3, <3>4, CountedAfter
  <2>5. ShapeOf(c)'
    BY <1>13, QueryFailsMoves DEF ShapeOf, HostLive, Ending, Empty, Starts, Stops, Moves, Goes, Ends
  <2> QED BY <1>0, <2>1, <2>2, <2>3, <2>4, <2>5, ShapesAfter, TypeParts DEF ShapeInv
<1>14. ASSUME NEW c \in Callers, LockSlot(c) PROVE TypeOK' /\ ShapeInv'
  <2>1. Values'
    BY <1>0, <1>14 DEF LockSlot, Values, Phases, lock, sculk, fanout
  <2>2. Placed' /\ Others(c)
    BY <1>14, LockSlotMoves DEF Moves, Goes, Ends
  <2>3. Locks'
    <3>1. /\ holder' = c <=> pc'[c] \in {"publish", "ask"}
          /\ starter' = c <=> op'[c] = "host" /\ mine'[c] # NoSession
      BY <1>0, <1>14, LockSlotMoves, Constants DEF LockSlot, Locks, Starts, Stops, lock, Moves,
         Goes, Ends
    <3>2. \A d \in Callers \ {c} : (holder' = d <=> holder = d) /\ (starter' = d <=> starter = d)
      BY <1>0, <1>14, LockSlotMoves, Constants DEF LockSlot, Locks, lock
    <3> QED BY <1>0, <2>2, <3>1, <3>2, LocksAfter
  <2>4. Counted'
    <3>1. hosts' = hosts /\ slot' \in {slot, NoSession, mine[c]}
      BY <1>14 DEF LockSlot, lock
    <3>2. mine'[c] \in {mine[c], NoSession, slot}
      BY <1>14, LockSlotMoves DEF Moves, Goes, Ends
    <3>3. open' \subseteq open
      BY <1>14 DEF LockSlot, sculk
    <3>4. stopped' \subseteq stopped \union before[c] /\ before' \in [Callers -> SUBSET (1..hosts)]
      BY <1>0, <1>14 DEF LockSlot, Counted, ghosts
    <3> QED BY <1>0, <2>2, <3>1, <3>2, <3>3, <3>4, CountedAfter
  <2>5. ShapeOf(c)'
    BY <1>14, LockSlotMoves DEF ShapeOf, HostLive, Ending, Empty, Starts, Stops, Moves, Goes, Ends
  <2> QED BY <1>0, <2>1, <2>2, <2>3, <2>4, <2>5, ShapesAfter, TypeParts DEF ShapeInv
<1>15. ASSUME NEW c \in Callers, Publish(c) PROVE TypeOK' /\ ShapeInv'
  <2>1. Values'
    BY <1>0, <1>15, HandIs, PublishMoves DEF Publish, ReturnHost, Values, Phases, lock, sculk,
       fanout
  <2>2. Placed' /\ Others(c)
    BY <1>15, PublishMoves DEF Moves, Goes, Ends
  <2>3. Locks'
    <3>1. /\ holder' = c <=> pc'[c] \in {"publish", "ask"}
          /\ starter' = c <=> op'[c] = "host" /\ mine'[c] # NoSession
      BY <1>0, <1>15, PublishMoves, Constants DEF Publish, ReturnHost, Locks, Starts, Stops,
         lock, Moves, Goes, Ends
    <3>2. \A d \in Callers \ {c} : (holder' = d <=> holder = d) /\ (starter' = d <=> starter = d)
      BY <1>0, <1>15, PublishMoves, Constants DEF Publish, ReturnHost, Locks, lock
    <3> QED BY <1>0, <2>2, <3>1, <3>2, LocksAfter
  <2>4. Counted'
    <3>1. hosts' = hosts /\ slot' \in {slot, NoSession, mine[c]}
      BY <1>15 DEF Publish, lock
    <3>2. mine'[c] \in {mine[c], NoSession, slot}
      BY <1>15, PublishMoves DEF Moves, Goes, Ends
    <3>3. open' \subseteq open
      BY <1>15 DEF Publish, sculk
    <3>4. stopped' \subseteq stopped \union before[c] /\ before' \in [Callers -> SUBSET (1..hosts)]
      BY <1>0, <1>15 DEF Publish, Counted, ghosts
    <3> QED BY <1>0, <2>2, <3>1, <3>2, <3>3, <3>4, CountedAfter
  <2>5. ShapeOf(c)'
    BY <1>15, PublishMoves DEF ShapeOf, HostLive, Ending, Empty, Starts, Stops, Moves, Goes, Ends
  <2> QED BY <1>0, <2>1, <2>2, <2>3, <2>4, <2>5, ShapesAfter, TypeParts DEF ShapeInv
<1>16. ASSUME NEW c \in Callers, Abandon(c) PROVE TypeOK' /\ ShapeInv'
  <2>1. Values'
    BY <1>0, <1>16 DEF Abandon, ReturnHost, Values, Phases, lock, sculk, fanout
  <2>2. Placed' /\ Others(c)
    BY <1>16, AbandonMoves DEF Moves, Goes, Ends
  <2>3. Locks'
    <3>1. /\ holder' = c <=> pc'[c] \in {"publish", "ask"}
          /\ starter' = c <=> op'[c] = "host" /\ mine'[c] # NoSession
      BY <1>0, <1>16, AbandonMoves, Constants DEF Abandon, ReturnHost, Locks, Starts, Stops,
         lock, Moves, Goes, Ends
    <3>2. \A d \in Callers \ {c} : (holder' = d <=> holder = d) /\ (starter' = d <=> starter = d)
      BY <1>0, <1>16, AbandonMoves, Constants DEF Abandon, ReturnHost, Locks, lock
    <3> QED BY <1>0, <2>2, <3>1, <3>2, LocksAfter
  <2>4. Counted'
    <3>1. hosts' = hosts /\ slot' \in {slot, NoSession, mine[c]}
      BY <1>16 DEF Abandon, lock
    <3>2. mine'[c] \in {mine[c], NoSession, slot}
      BY <1>16, AbandonMoves DEF Moves, Goes, Ends
    <3>3. open' \subseteq open
      BY <1>16 DEF Abandon, sculk
    <3>4. stopped' \subseteq stopped \union before[c] /\ before' \in [Callers -> SUBSET (1..hosts)]
      BY <1>0, <1>16 DEF Abandon, Counted, ghosts
    <3> QED BY <1>0, <2>2, <3>1, <3>2, <3>3, <3>4, CountedAfter
  <2>5. ShapeOf(c)'
    BY <1>16, AbandonMoves DEF ShapeOf, HostLive, Ending, Empty, Starts, Stops, Moves, Goes, Ends
  <2> QED BY <1>0, <2>1, <2>2, <2>3, <2>4, <2>5, ShapesAfter, TypeParts DEF ShapeInv
<1>17. ASSUME NEW c \in Callers, BeginStop(c) PROVE TypeOK' /\ ShapeInv'
  <2>1. Values'
    <3>1. /\ UNCHANGED <<slot, holder, starter, open, join, applying, stray, news>> /\ cancel' = TRUE
          /\ fan' \in {fan, NoSession} /\ lan' \in {lan, FALSE}
      BY <1>17 DEF BeginStop, StopFanout, StopLan, lock, sculk, fanout
    <3> QED BY <1>0, <3>1 DEF Values
  <2>2. Placed' /\ Others(c)
    BY <1>17, BeginStopMoves DEF Moves, Goes, Ends
  <2>3. Locks'
    <3>1. /\ holder' = c <=> pc'[c] \in {"publish", "ask"}
          /\ starter' = c <=> op'[c] = "host" /\ mine'[c] # NoSession
      BY <1>0, <1>17, BeginStopMoves, Constants DEF BeginStop, Locks, Starts, Stops, lock, Moves,
         Goes, Ends
    <3>2. \A d \in Callers \ {c} : (holder' = d <=> holder = d) /\ (starter' = d <=> starter = d)
      BY <1>0, <1>17, BeginStopMoves, Constants DEF BeginStop, Locks, lock
    <3> QED BY <1>0, <2>2, <3>1, <3>2, LocksAfter
  <2>4. Counted'
    <3>1. hosts' = hosts /\ slot' \in {slot, NoSession, mine[c]}
      BY <1>17 DEF BeginStop, lock
    <3>2. mine'[c] \in {mine[c], NoSession, slot}
      BY <1>17, BeginStopMoves DEF Moves, Goes, Ends
    <3>3. open' \subseteq open
      BY <1>17 DEF BeginStop, sculk
    <3>4. stopped' \subseteq stopped \union before[c] /\ before' \in [Callers -> SUBSET (1..hosts)]
      BY <1>0, <1>17 DEF BeginStop, Counted, ghosts
    <3> QED BY <1>0, <2>2, <3>1, <3>2, <3>3, <3>4, CountedAfter
  <2>5. ShapeOf(c)'
    BY <1>17, BeginStopMoves DEF ShapeOf, HostLive, Ending, Empty, Starts, Stops, Moves, Goes, Ends
  <2> QED BY <1>0, <2>1, <2>2, <2>3, <2>4, <2>5, ShapesAfter, TypeParts DEF ShapeInv
<1>18. ASSUME NEW c \in Callers, Take(c) PROVE TypeOK' /\ ShapeInv'
  <2>1. Values'
    BY <1>0, <1>18 DEF Take, Values, Phases, lock, sculk, fanout
  <2>2. Placed' /\ Others(c)
    BY <1>18, TakeMoves DEF Moves, Goes, Ends
  <2>3. Locks'
    <3>1. /\ holder' = c <=> pc'[c] \in {"publish", "ask"}
          /\ starter' = c <=> op'[c] = "host" /\ mine'[c] # NoSession
      BY <1>0, <1>18, TakeMoves, Constants DEF Take, Locks, Starts, Stops, lock, Moves, Goes, Ends
    <3>2. \A d \in Callers \ {c} : (holder' = d <=> holder = d) /\ (starter' = d <=> starter = d)
      BY <1>0, <1>18, TakeMoves, Constants DEF Take, Locks, lock
    <3> QED BY <1>0, <2>2, <3>1, <3>2, LocksAfter
  <2>4. Counted'
    <3>1. hosts' = hosts /\ slot' \in {slot, NoSession, mine[c]}
      BY <1>18 DEF Take, lock
    <3>2. mine'[c] \in {mine[c], NoSession, slot}
      BY <1>18, TakeMoves DEF Moves, Goes, Ends
    <3>3. open' \subseteq open
      BY <1>18 DEF Take, sculk
    <3>4. stopped' \subseteq stopped \union before[c] /\ before' \in [Callers -> SUBSET (1..hosts)]
      BY <1>0, <1>18 DEF Take, Counted, ghosts
    <3> QED BY <1>0, <2>2, <3>1, <3>2, <3>3, <3>4, CountedAfter
  <2>5. ShapeOf(c)'
    BY <1>18, TakeMoves DEF ShapeOf, HostLive, Ending, Empty, Starts, Stops, Moves, Goes, Ends
  <2> QED BY <1>0, <2>1, <2>2, <2>3, <2>4, <2>5, ShapesAfter, TypeParts DEF ShapeInv
<1>19. ASSUME NEW c \in Callers, Quiet(c) PROVE TypeOK' /\ ShapeInv'
  <2>1. Values'
    BY <1>0, <1>19 DEF Quiet, StopFanout, StopLan, Values, Phases, lock, sculk, fanout
  <2>2. Placed' /\ Others(c)
    BY <1>19, QuietMoves DEF Moves, Goes, Ends
  <2>3. Locks'
    <3>1. /\ holder' = c <=> pc'[c] \in {"publish", "ask"}
          /\ starter' = c <=> op'[c] = "host" /\ mine'[c] # NoSession
      BY <1>0, <1>19, QuietMoves, Constants DEF Quiet, Locks, Starts, Stops, lock, Moves, Goes, Ends
    <3>2. \A d \in Callers \ {c} : (holder' = d <=> holder = d) /\ (starter' = d <=> starter = d)
      BY <1>0, <1>19, QuietMoves, Constants DEF Quiet, Locks, lock
    <3> QED BY <1>0, <2>2, <3>1, <3>2, LocksAfter
  <2>4. Counted'
    <3>1. hosts' = hosts /\ slot' \in {slot, NoSession, mine[c]}
      BY <1>19 DEF Quiet, lock
    <3>2. mine'[c] \in {mine[c], NoSession, slot}
      BY <1>19, QuietMoves DEF Moves, Goes, Ends
    <3>3. open' \subseteq open
      BY <1>19 DEF Quiet, sculk
    <3>4. stopped' \subseteq stopped \union before[c] /\ before' \in [Callers -> SUBSET (1..hosts)]
      BY <1>0, <1>19 DEF Quiet, Counted, ghosts
    <3> QED BY <1>0, <2>2, <3>1, <3>2, <3>3, <3>4, CountedAfter
  <2>5. ShapeOf(c)'
    BY <1>19, QuietMoves DEF ShapeOf, HostLive, Ending, Empty, Starts, Stops, Moves, Goes, Ends
  <2> QED BY <1>0, <2>1, <2>2, <2>3, <2>4, <2>5, ShapesAfter, TypeParts DEF ShapeInv
<1>20. ASSUME NEW c \in Callers, Close(c) PROVE TypeOK' /\ ShapeInv'
  <2>1. Values'
    <3>1. UNCHANGED <<slot, holder, starter, cancel, join, fan, news, applying, stray, lan>> /\ open' \subseteq open
      BY <1>20 DEF Close, lock, sculk, fanout
    <3> QED BY <1>0, <3>1 DEF Values, Phases
  <2>2. Placed' /\ Others(c)
    BY <1>20, CloseMoves DEF Moves, Goes, Ends
  <2>3. Locks'
    <3>1. /\ holder' = c <=> pc'[c] \in {"publish", "ask"}
          /\ starter' = c <=> op'[c] = "host" /\ mine'[c] # NoSession
      BY <1>0, <1>20, CloseMoves, Constants DEF Close, Locks, Starts, Stops, lock, Moves, Goes, Ends
    <3>2. \A d \in Callers \ {c} : (holder' = d <=> holder = d) /\ (starter' = d <=> starter = d)
      BY <1>0, <1>20, CloseMoves, Constants DEF Close, Locks, lock
    <3> QED BY <1>0, <2>2, <3>1, <3>2, LocksAfter
  <2>4. Counted'
    <3>1. hosts' = hosts /\ slot' \in {slot, NoSession, mine[c]}
      BY <1>20 DEF Close, lock
    <3>2. mine'[c] \in {mine[c], NoSession, slot}
      BY <1>20, CloseMoves DEF Moves, Goes, Ends
    <3>3. open' \subseteq open
      BY <1>20 DEF Close, sculk
    <3>4. stopped' \subseteq stopped \union before[c] /\ before' \in [Callers -> SUBSET (1..hosts)]
      BY <1>0, <1>20, AnswerIs DEF Close, Counted, ghosts
    <3> QED BY <1>0, <2>2, <3>1, <3>2, <3>3, <3>4, CountedAfter
  <2>5. ShapeOf(c)'
    BY <1>20, CloseMoves DEF ShapeOf, HostLive, Ending, Empty, Starts, Stops, Moves, Goes, Ends
  <2> QED BY <1>0, <2>1, <2>2, <2>3, <2>4, <2>5, ShapesAfter, TypeParts DEF ShapeInv
<1>21. ASSUME NEW c \in Callers, JoinIsIdle(c) PROVE TypeOK' /\ ShapeInv'
  <2>1. Values'
    BY <1>0, <1>21 DEF JoinIsIdle, Values, Phases, lock, sculk, fanout
  <2>2. Placed' /\ Others(c)
    BY <1>21, JoinIsIdleMoves DEF Moves, Goes, Ends
  <2>3. Locks'
    <3>1. /\ holder' = c <=> pc'[c] \in {"publish", "ask"}
          /\ starter' = c <=> op'[c] = "host" /\ mine'[c] # NoSession
      BY <1>0, <1>21, JoinIsIdleMoves, Constants DEF JoinIsIdle, Locks, Starts, Stops, lock,
         Moves, Goes, Ends
    <3>2. \A d \in Callers \ {c} : (holder' = d <=> holder = d) /\ (starter' = d <=> starter = d)
      BY <1>0, <1>21, JoinIsIdleMoves, Constants DEF JoinIsIdle, Locks, lock
    <3> QED BY <1>0, <2>2, <3>1, <3>2, LocksAfter
  <2>4. Counted'
    <3>1. hosts' = hosts /\ slot' \in {slot, NoSession, mine[c]}
      BY <1>21 DEF JoinIsIdle, lock
    <3>2. mine'[c] \in {mine[c], NoSession, slot}
      BY <1>21, JoinIsIdleMoves DEF Moves, Goes, Ends
    <3>3. open' \subseteq open
      BY <1>21 DEF JoinIsIdle, sculk
    <3>4. stopped' \subseteq stopped \union before[c] /\ before' \in [Callers -> SUBSET (1..hosts)]
      BY <1>0, <1>21, AnswerIs DEF JoinIsIdle, Counted, ghosts
    <3> QED BY <1>0, <2>2, <3>1, <3>2, <3>3, <3>4, CountedAfter
  <2>5. ShapeOf(c)'
    BY <1>21, JoinIsIdleMoves DEF ShapeOf, HostLive, Ending, Empty, Starts, Stops, Moves, Goes, Ends
  <2> QED BY <1>0, <2>1, <2>2, <2>3, <2>4, <2>5, ShapesAfter, TypeParts DEF ShapeInv
<1>22. ASSUME NEW c \in Callers, StopJoin(c) PROVE TypeOK' /\ ShapeInv'
  <2>1. Values'
    <3>1. /\ UNCHANGED <<slot, holder, starter, cancel, open, fan, applying, stray, lan>>
          /\ join' \in {join, "Stopping"} /\ news' \in {news, "Stopping"}
      BY <1>22 DEF StopJoin, lock
    <3> QED BY <1>0, <3>1 DEF Values, Phases
  <2>2. Placed' /\ Others(c)
    BY <1>22, StopJoinMoves DEF Moves, Goes, Ends
  <2>3. Locks'
    <3>1. /\ holder' = c <=> pc'[c] \in {"publish", "ask"}
          /\ starter' = c <=> op'[c] = "host" /\ mine'[c] # NoSession
      BY <1>0, <1>22, StopJoinMoves, Constants DEF StopJoin, Locks, Starts, Stops, lock, Moves,
         Goes, Ends
    <3>2. \A d \in Callers \ {c} : (holder' = d <=> holder = d) /\ (starter' = d <=> starter = d)
      BY <1>0, <1>22, StopJoinMoves, Constants DEF StopJoin, Locks, lock
    <3> QED BY <1>0, <2>2, <3>1, <3>2, LocksAfter
  <2>4. Counted'
    <3>1. hosts' = hosts /\ slot' \in {slot, NoSession, mine[c]}
      BY <1>22 DEF StopJoin, lock
    <3>2. mine'[c] \in {mine[c], NoSession, slot}
      BY <1>22, StopJoinMoves DEF Moves, Goes, Ends
    <3>3. open' \subseteq open
      BY <1>22 DEF StopJoin, sculk
    <3>4. stopped' \subseteq stopped \union before[c] /\ before' \in [Callers -> SUBSET (1..hosts)]
      BY <1>0, <1>22, AnswerIs DEF StopJoin, Counted, ghosts
    <3> QED BY <1>0, <2>2, <3>1, <3>2, <3>3, <3>4, CountedAfter
  <2>5. ShapeOf(c)'
    BY <1>22, StopJoinMoves DEF ShapeOf, HostLive, Ending, Empty, Starts, Stops, Moves, Goes, Ends
  <2> QED BY <1>0, <2>1, <2>2, <2>3, <2>4, <2>5, ShapesAfter, TypeParts DEF ShapeInv
<1>23. ASSUME NEW c \in Callers, JoinStopped(c) PROVE TypeOK' /\ ShapeInv'
  <2>1. Values'
    BY <1>0, <1>23 DEF JoinStopped, Values, Phases, lock, sculk, fanout
  <2>2. Placed' /\ Others(c)
    BY <1>23, JoinStoppedMoves DEF Moves, Goes, Ends
  <2>3. Locks'
    <3>1. /\ holder' = c <=> pc'[c] \in {"publish", "ask"}
          /\ starter' = c <=> op'[c] = "host" /\ mine'[c] # NoSession
      BY <1>0, <1>23, JoinStoppedMoves, Constants DEF JoinStopped, Locks, Starts, Stops, lock,
         Moves, Goes, Ends
    <3>2. \A d \in Callers \ {c} : (holder' = d <=> holder = d) /\ (starter' = d <=> starter = d)
      BY <1>0, <1>23, JoinStoppedMoves, Constants DEF JoinStopped, Locks, lock
    <3> QED BY <1>0, <2>2, <3>1, <3>2, LocksAfter
  <2>4. Counted'
    <3>1. hosts' = hosts /\ slot' \in {slot, NoSession, mine[c]}
      BY <1>23 DEF JoinStopped, lock
    <3>2. mine'[c] \in {mine[c], NoSession, slot}
      BY <1>23, JoinStoppedMoves DEF Moves, Goes, Ends
    <3>3. open' \subseteq open
      BY <1>23 DEF JoinStopped, sculk
    <3>4. stopped' \subseteq stopped \union before[c] /\ before' \in [Callers -> SUBSET (1..hosts)]
      BY <1>0, <1>23, AnswerIs DEF JoinStopped, Counted, ghosts
    <3> QED BY <1>0, <2>2, <3>1, <3>2, <3>3, <3>4, CountedAfter
  <2>5. ShapeOf(c)'
    BY <1>23, JoinStoppedMoves DEF ShapeOf, HostLive, Ending, Empty, Starts, Stops, Moves, Goes,
       Ends
  <2> QED BY <1>0, <2>1, <2>2, <2>3, <2>4, <2>5, ShapesAfter, TypeParts DEF ShapeInv
<1>24. ASSUME NEW c \in Callers, Hush(c) PROVE TypeOK' /\ ShapeInv'
  <2>1. Values'
    BY <1>0, <1>24 DEF Hush, StopFanout, StopLan, Values, Phases, lock, sculk, fanout
  <2>2. Placed' /\ Others(c)
    BY <1>24, HushMoves DEF Moves, Goes, Ends
  <2>3. Locks'
    <3>1. /\ holder' = c <=> pc'[c] \in {"publish", "ask"}
          /\ starter' = c <=> op'[c] = "host" /\ mine'[c] # NoSession
      BY <1>0, <1>24, HushMoves, Constants DEF Hush, Locks, Starts, Stops, lock, Moves, Goes, Ends
    <3>2. \A d \in Callers \ {c} : (holder' = d <=> holder = d) /\ (starter' = d <=> starter = d)
      BY <1>0, <1>24, HushMoves, Constants DEF Hush, Locks, lock
    <3> QED BY <1>0, <2>2, <3>1, <3>2, LocksAfter
  <2>4. Counted'
    <3>1. hosts' = hosts /\ slot' \in {slot, NoSession, mine[c]}
      BY <1>24 DEF Hush, lock
    <3>2. mine'[c] \in {mine[c], NoSession, slot}
      BY <1>24, HushMoves DEF Moves, Goes, Ends
    <3>3. open' \subseteq open
      BY <1>24 DEF Hush, sculk
    <3>4. stopped' \subseteq stopped \union before[c] /\ before' \in [Callers -> SUBSET (1..hosts)]
      BY <1>0, <1>24, AnswerIs DEF Hush, Counted, ghosts
    <3> QED BY <1>0, <2>2, <3>1, <3>2, <3>3, <3>4, CountedAfter
  <2>5. ShapeOf(c)'
    BY <1>24, HushMoves DEF ShapeOf, HostLive, Ending, Empty, Starts, Stops, Moves, Goes, Ends
  <2> QED BY <1>0, <2>1, <2>2, <2>3, <2>4, <2>5, ShapesAfter, TypeParts DEF ShapeInv
<1>25. ASSUME NEW c \in Callers, BeginQuery(c) PROVE TypeOK' /\ ShapeInv'
  <2>1. Values'
    BY <1>0, <1>25 DEF BeginQuery, Values, Phases, lock, sculk, fanout
  <2>2. Placed' /\ Others(c)
    BY <1>25, BeginQueryMoves DEF Moves, Goes, Ends
  <2>3. Locks'
    <3>1. /\ holder' = c <=> pc'[c] \in {"publish", "ask"}
          /\ starter' = c <=> op'[c] = "host" /\ mine'[c] # NoSession
      BY <1>0, <1>25, BeginQueryMoves, Constants DEF BeginQuery, Locks, Starts, Stops, lock,
         Moves, Goes, Ends
    <3>2. \A d \in Callers \ {c} : (holder' = d <=> holder = d) /\ (starter' = d <=> starter = d)
      BY <1>0, <1>25, BeginQueryMoves, Constants DEF BeginQuery, Locks, lock
    <3> QED BY <1>0, <2>2, <3>1, <3>2, LocksAfter
  <2>4. Counted'
    <3>1. hosts' = hosts /\ slot' \in {slot, NoSession, mine[c]}
      BY <1>25 DEF BeginQuery, lock
    <3>2. mine'[c] \in {mine[c], NoSession, slot}
      BY <1>25, BeginQueryMoves DEF Moves, Goes, Ends
    <3>3. open' \subseteq open
      BY <1>25 DEF BeginQuery, sculk
    <3>4. stopped' \subseteq stopped \union before[c] /\ before' \in [Callers -> SUBSET (1..hosts)]
      BY <1>0, <1>25 DEF BeginQuery, Counted, ghosts
    <3> QED BY <1>0, <2>2, <3>1, <3>2, <3>3, <3>4, CountedAfter
  <2>5. ShapeOf(c)'
    BY <1>25, BeginQueryMoves DEF ShapeOf, HostLive, Ending, Empty, Starts, Stops, Moves, Goes, Ends
  <2> QED BY <1>0, <2>1, <2>2, <2>3, <2>4, <2>5, ShapesAfter, TypeParts DEF ShapeInv
<1>26. ASSUME NEW c \in Callers, EndQuery(c) PROVE TypeOK' /\ ShapeInv'
  <2>1. Values'
    BY <1>0, <1>26 DEF EndQuery, Values, Phases, lock, sculk, fanout
  <2>2. Placed' /\ Others(c)
    BY <1>26, EndQueryMoves DEF Moves, Goes, Ends
  <2>3. Locks'
    <3>1. /\ holder' = c <=> pc'[c] \in {"publish", "ask"}
          /\ starter' = c <=> op'[c] = "host" /\ mine'[c] # NoSession
      BY <1>0, <1>26, EndQueryMoves, Constants DEF EndQuery, Locks, Starts, Stops, lock, Moves,
         Goes, Ends
    <3>2. \A d \in Callers \ {c} : (holder' = d <=> holder = d) /\ (starter' = d <=> starter = d)
      BY <1>0, <1>26, EndQueryMoves, Constants DEF EndQuery, Locks, lock
    <3> QED BY <1>0, <2>2, <3>1, <3>2, LocksAfter
  <2>4. Counted'
    <3>1. hosts' = hosts /\ slot' \in {slot, NoSession, mine[c]}
      BY <1>26 DEF EndQuery, lock
    <3>2. mine'[c] \in {mine[c], NoSession, slot}
      BY <1>26, EndQueryMoves DEF Moves, Goes, Ends
    <3>3. open' \subseteq open
      BY <1>26 DEF EndQuery, sculk
    <3>4. stopped' \subseteq stopped \union before[c] /\ before' \in [Callers -> SUBSET (1..hosts)]
      BY <1>0, <1>26 DEF EndQuery, Counted, ghosts
    <3> QED BY <1>0, <2>2, <3>1, <3>2, <3>3, <3>4, CountedAfter
  <2>5. ShapeOf(c)'
    BY <1>26, EndQueryMoves DEF ShapeOf, HostLive, Ending, Empty, Starts, Stops, Moves, Goes, Ends
  <2> QED BY <1>0, <2>1, <2>2, <2>3, <2>4, <2>5, ShapesAfter, TypeParts DEF ShapeInv
<1>27. ASSUME JoinMoves PROVE TypeOK' /\ ShapeInv'
  <2>1. Values'
    BY <1>0, <1>27 DEF JoinMoves, Values, Phases, lock, sculk, fanout
  <2>2. Placed' /\ Locks' /\ Counted' /\ (\A d \in Callers : ShapeOf(d))'
    BY <1>0, <1>27 DEF JoinMoves, Placed, Locks, Counted, ShapeOf, lock, sculk, local, ghosts
  <2> QED BY <2>1, <2>2, TypeParts DEF ShapeInv
<1>28. ASSUME Hear PROVE TypeOK' /\ ShapeInv'
  <2>1. Values'
    BY <1>0, <1>28 DEF Hear, Values, Phases, lock, sculk, fanout
  <2>2. Placed' /\ Locks' /\ Counted' /\ (\A d \in Callers : ShapeOf(d))'
    BY <1>0, <1>28 DEF Hear, Placed, Locks, Counted, ShapeOf, lock, sculk, local, ghosts
  <2> QED BY <2>1, <2>2, TypeParts DEF ShapeInv
<1>29. ASSUME Apply PROVE TypeOK' /\ ShapeInv'
  <2>1. Values'
    BY <1>0, <1>29 DEF Apply, Values, Phases, lock, sculk, fanout
  <2>2. Placed' /\ Locks' /\ Counted' /\ (\A d \in Callers : ShapeOf(d))'
    BY <1>0, <1>29 DEF Apply, Placed, Locks, Counted, ShapeOf, lock, sculk, local, ghosts
  <2> QED BY <2>1, <2>2, TypeParts DEF ShapeInv
<1>30. CASE UNCHANGED vars
  <2>1. Values'
    BY <1>0, <1>30 DEF vars, Values, lock, sculk, fanout
  <2>2. Placed' /\ Locks' /\ Counted' /\ (\A d \in Callers : ShapeOf(d))'
    BY <1>0, <1>30 DEF vars, Placed, Locks, Counted, ShapeOf, lock, sculk, local, ghosts
  <2> QED BY <2>1, <2>2, TypeParts DEF ShapeInv
<1> QED BY <1>1, <1>2, <1>3, <1>4, <1>5, <1>6, <1>7, <1>8, <1>9, <1>10, <1>11, <1>12, <1>13,
           <1>14, <1>15, <1>16, <1>17, <1>18, <1>19, <1>20, <1>21, <1>22, <1>23, <1>24, <1>25,
           <1>26, <1>27, <1>28, <1>29, <1>30 DEF Next, Start, Stop

LEMMA ShapesStart == Init => TypeOK /\ ShapeInv
<1> SUFFICES ASSUME Init PROVE TypeOK /\ ShapeInv
  OBVIOUS
<1>1. Values
  BY DEF Init, Values, Phases
<1>2. Placed
  BY DEF Init, Placed, Labels, Ops
<1>3. Locks
  BY Constants DEF Init, Locks
<1>4. Counted
  BY Constants DEF Init, Counted, NoSession
<1>5. \A c \in Callers : ShapeOf(c)
  BY DEF Init, ShapeOf, HostLive, Ending, Empty
<1> QED BY <1>1, <1>2, <1>3, <1>4, <1>5, TypeParts DEF ShapeInv

LEMMA Shapes == Spec => [](TypeOK /\ ShapeInv)
BY ShapesStart, ShapesStep, PTL DEF Spec

\* The types, and who holds the mutex of the slot and host_start is exactly who is
\* between taking and leaving it (OnlineTunnelService::host, status, subscribe).
THEOREM Typing == Spec => []TypeOK
BY Shapes, PTL

-----------------------------------------------------------------------------
(* The announcement.                                                         *)

\* What the world's announcement will be once the task has applied what it received.
Announcing == IF applying # None THEN applying = "Active" ELSE lan

\* Whoever announces listens, to a join that is up or has something to say.
LanInv ==
    /\ news = "Active" => join = "Active"
    /\ ~stale /\ Announcing => (fan = TheJoin \/ stray) /\ (join = "Active" \/ news # None)

LEMMA LanStep ==
    ASSUME TypeOK, LanInv, [Next]_vars
    PROVE  LanInv'
<1>1. ASSUME NEW c \in Callers, Begin(c) PROVE LanInv'
  BY <1>1, Constants DEF Begin, Phases, LanInv, Announcing, sculk, fanout
<1>2. ASSUME NEW c \in Callers, Pass(c) PROVE LanInv'
  BY <1>2, Constants DEF Pass, Phases, LanInv, Announcing, sculk, fanout
<1>3. ASSUME NEW c \in Callers, Refuse(c) PROVE LanInv'
  BY <1>3, Constants DEF Refuse, Phases, LanInv, Announcing, sculk, fanout
<1>4. ASSUME NEW c \in Callers, StartJoin(c) PROVE LanInv'
  BY <1>4, Constants DEF StartJoin, Phases, LanInv, Announcing, sculk, fanout
<1>5. ASSUME NEW c \in Callers, Follow(c) PROVE LanInv'
  BY <1>5, Constants DEF Follow, Phases, LanInv, Announcing, sculk, fanout
<1>6. ASSUME NEW c \in Callers, Claim(c) PROVE LanInv'
  BY <1>6, Constants DEF Claim, Phases, LanInv, Announcing, sculk, fanout
<1>7. ASSUME NEW c \in Callers, BindFails(c) PROVE LanInv'
  BY <1>7, Constants DEF BindFails, Phases, LanInv, Announcing, sculk, fanout
<1>8. ASSUME NEW c \in Callers, Bind(c) PROVE LanInv'
  BY <1>8, Constants DEF Bind, Phases, LanInv, Announcing, sculk, fanout
<1>9. ASSUME NEW c \in Callers, Continue(c) PROVE LanInv'
  BY <1>9, Constants DEF Continue, Phases, LanInv, Announcing, sculk, fanout
<1>10. ASSUME NEW c \in Callers, GiveUp(c) PROVE LanInv'
  BY <1>10, Constants DEF GiveUp, Phases, LanInv, Announcing, sculk, fanout
<1>11. ASSUME NEW c \in Callers, FanOut(c) PROVE LanInv'
  BY <1>11, Constants DEF FanOut, StopFanout, Phases, LanInv, Announcing, sculk, fanout
<1>12. ASSUME NEW c \in Callers, Retain(c) PROVE LanInv'
  BY <1>12, Constants DEF Retain, Phases, LanInv, Announcing, sculk, fanout
<1>13. ASSUME NEW c \in Callers, QueryFails(c) PROVE LanInv'
  BY <1>13, Constants DEF QueryFails, Phases, LanInv, Announcing, sculk, fanout
<1>14. ASSUME NEW c \in Callers, LockSlot(c) PROVE LanInv'
  BY <1>14, Constants DEF LockSlot, Phases, LanInv, Announcing, sculk, fanout
<1>15. ASSUME NEW c \in Callers, Publish(c) PROVE LanInv'
  BY <1>15, Constants DEF Publish, Phases, LanInv, Announcing, sculk, fanout
<1>16. ASSUME NEW c \in Callers, Abandon(c) PROVE LanInv'
  BY <1>16, Constants DEF Abandon, Phases, LanInv, Announcing, sculk, fanout
<1>17. ASSUME NEW c \in Callers, BeginStop(c) PROVE LanInv'
  <2>1. CASE UNCHANGED fanout
    BY <1>17, <2>1 DEF BeginStop, LanInv, Announcing, sculk, fanout
  <2>2. CASE StopFanout /\ StopLan /\ UNCHANGED stray
    BY <1>17, <2>2, Constants DEF BeginStop, StopFanout, StopLan, Phases, LanInv, Announcing, sculk
  <2> QED BY <1>17, <2>1, <2>2 DEF BeginStop
<1>18. ASSUME NEW c \in Callers, Take(c) PROVE LanInv'
  BY <1>18, Constants DEF Take, Phases, LanInv, Announcing, sculk, fanout
<1>19. ASSUME NEW c \in Callers, Quiet(c) PROVE LanInv'
  BY <1>19, Constants DEF Quiet, StopFanout, StopLan, Phases, LanInv, Announcing, sculk, fanout
<1>20. ASSUME NEW c \in Callers, Close(c) PROVE LanInv'
  BY <1>20, Constants DEF Close, Phases, LanInv, Announcing, sculk, fanout
<1>21. ASSUME NEW c \in Callers, JoinIsIdle(c) PROVE LanInv'
  BY <1>21, Constants DEF JoinIsIdle, Phases, LanInv, Announcing, sculk, fanout
<1>22. ASSUME NEW c \in Callers, StopJoin(c) PROVE LanInv'
  BY <1>22, Constants DEF StopJoin, Phases, LanInv, Announcing, sculk, fanout
<1>23. ASSUME NEW c \in Callers, JoinStopped(c) PROVE LanInv'
  BY <1>23, Constants DEF JoinStopped, Phases, LanInv, Announcing, sculk, fanout
<1>24. ASSUME NEW c \in Callers, Hush(c) PROVE LanInv'
  BY <1>24, Constants DEF Hush, StopFanout, StopLan, Phases, LanInv, Announcing, sculk, fanout
<1>25. ASSUME NEW c \in Callers, BeginQuery(c) PROVE LanInv'
  BY <1>25, Constants DEF BeginQuery, Phases, LanInv, Announcing, sculk, fanout
<1>26. ASSUME NEW c \in Callers, EndQuery(c) PROVE LanInv'
  BY <1>26, Constants DEF EndQuery, Phases, LanInv, Announcing, sculk, fanout
<1>27. ASSUME JoinMoves PROVE LanInv'
  BY <1>27, Constants DEF JoinMoves, Phases, LanInv, Announcing, sculk, fanout
<1>28. ASSUME Hear PROVE LanInv'
  BY <1>28, Constants DEF Hear, Phases, LanInv, Announcing, sculk, fanout
<1>29. ASSUME Apply PROVE LanInv'
  BY <1>29, Constants DEF Apply, Phases, LanInv, Announcing, sculk, fanout
<1>30. CASE UNCHANGED vars
  BY <1>30 DEF vars, LanInv, Announcing, sculk, fanout
<1> QED BY <1>1, <1>2, <1>3, <1>4, <1>5, <1>6, <1>7, <1>8, <1>9, <1>10, <1>11, <1>12, <1>13,
           <1>14, <1>15, <1>16, <1>17, <1>18, <1>19, <1>20, <1>21, <1>22, <1>23, <1>24, <1>25,
           <1>26, <1>27, <1>28, <1>29, <1>30 DEF Next, Start, Stop

\* An announcement of a joined world ends with the join, unless its end was thrown
\* away (OnlineTunnelService::stop, restart_join_fanout, stop_fanout).
THEOREM AnnouncementFollows == Spec => []LanFollowsJoin
<1>1. Init => LanInv
  BY Constants DEF Init, LanInv, Announcing, Phases
<1>2. LanInv => LanFollowsJoin
  BY DEF LanInv, Announcing, LanFollowsJoin
<1> QED BY <1>1, <1>2, LanStep, Shapes, PTL DEF Spec

-----------------------------------------------------------------------------
(* Sessions.                                                                 *)

\* A session that is being started is in one caller's hands; what a caller is about
\* to bind, or has closed, is not open.
FreshInv ==
    /\ \A d \in Callers : pc[d] \in HostLive =>
          mine[d] # slot /\ \A c \in Callers \ {d} : mine[c] # mine[d]
    /\ \A d \in Callers : pc[d] \in {"bind", "leave", "leaving", "hush"} => mine[d] \notin open

\* What most actions do to it: no session is started, bound or published.
LEMMA FreshAfter ==
    ASSUME TypeOK, ShapeInv, FreshInv, NEW c \in Callers, Others(c),
           pc'[c] \in HostLive => pc[c] \in HostLive /\ mine'[c] = mine[c],
           mine'[c] \in {mine[c], slot, NoSession},
           slot' \in {slot, NoSession}, open' \subseteq open,
           pc'[c] \in {"bind", "leave", "leaving", "hush"} => mine'[c] \notin open'
    PROVE  FreshInv'
<1>1. ASSUME NEW d \in Callers, pc'[d] \in HostLive
      PROVE  mine'[d] # slot' /\ \A e \in Callers \ {d} : mine'[e] # mine'[d]
  <2>1. pc[d] \in HostLive /\ mine'[d] = mine[d]
    BY <1>1 DEF Others
  <2>2. mine[d] # slot /\ mine[d] # NoSession /\ \A e \in Callers \ {d} : mine[e] # mine[d]
    BY <2>1 DEF FreshInv, ShapeInv, ShapeOf
  <2> QED BY <2>1, <2>2 DEF Others
<1>2. ASSUME NEW d \in Callers, pc'[d] \in {"bind", "leave", "leaving", "hush"}
      PROVE  mine'[d] \notin open'
  BY <1>2 DEF Others, FreshInv
<1> QED BY <1>1, <1>2 DEF FreshInv

LEMMA FreshStep ==
    ASSUME TypeOK, ShapeInv, FreshInv, [Next]_vars
    PROVE  FreshInv'
<1>1. ASSUME NEW c \in Callers, Begin(c) PROVE FreshInv'
  <2>2. Others(c) /\ mine'[c] \in {mine[c], slot, NoSession} /\ slot' \in {slot, NoSession} /\ open' \subseteq open
    BY <1>1, BeginMoves DEF Begin, Moves, Goes, Ends, lock, sculk
  <2>3. /\ pc'[c] \in HostLive => pc[c] \in HostLive /\ mine'[c] = mine[c]
        /\ pc'[c] \in {"bind", "leave", "leaving", "hush"} => mine'[c] \notin open'
    BY <1>1, BeginMoves DEF Begin, Moves, Goes, Ends, HostLive, FreshInv, lock, sculk
  <2> QED BY <2>2, <2>3, FreshAfter
<1>2. ASSUME NEW c \in Callers, Pass(c) PROVE FreshInv'
  <2>2. Others(c) /\ mine'[c] \in {mine[c], slot, NoSession} /\ slot' \in {slot, NoSession} /\ open' \subseteq open
    BY <1>2, PassMoves DEF Pass, Moves, Goes, Ends, lock, sculk
  <2>3. /\ pc'[c] \in HostLive => pc[c] \in HostLive /\ mine'[c] = mine[c]
        /\ pc'[c] \in {"bind", "leave", "leaving", "hush"} => mine'[c] \notin open'
    BY <1>2, PassMoves DEF Pass, Moves, Goes, Ends, HostLive, FreshInv, lock, sculk
  <2> QED BY <2>2, <2>3, FreshAfter
<1>3. ASSUME NEW c \in Callers, Refuse(c) PROVE FreshInv'
  <2>2. Others(c) /\ mine'[c] \in {mine[c], slot, NoSession} /\ slot' \in {slot, NoSession} /\ open' \subseteq open
    BY <1>3, RefuseMoves DEF Refuse, Moves, Goes, Ends, lock, sculk
  <2>3. /\ pc'[c] \in HostLive => pc[c] \in HostLive /\ mine'[c] = mine[c]
        /\ pc'[c] \in {"bind", "leave", "leaving", "hush"} => mine'[c] \notin open'
    BY <1>3, RefuseMoves DEF Refuse, Moves, Goes, Ends, HostLive, FreshInv, lock, sculk
  <2> QED BY <2>2, <2>3, FreshAfter
<1>4. ASSUME NEW c \in Callers, StartJoin(c) PROVE FreshInv'
  <2>2. Others(c) /\ mine'[c] \in {mine[c], slot, NoSession} /\ slot' \in {slot, NoSession} /\ open' \subseteq open
    BY <1>4, StartJoinMoves DEF StartJoin, Moves, Goes, Ends, lock, sculk
  <2>3. /\ pc'[c] \in HostLive => pc[c] \in HostLive /\ mine'[c] = mine[c]
        /\ pc'[c] \in {"bind", "leave", "leaving", "hush"} => mine'[c] \notin open'
    BY <1>4, StartJoinMoves DEF StartJoin, Moves, Goes, Ends, HostLive, FreshInv, lock, sculk
  <2> QED BY <2>2, <2>3, FreshAfter
<1>5. ASSUME NEW c \in Callers, Follow(c) PROVE FreshInv'
  <2>2. Others(c) /\ mine'[c] \in {mine[c], slot, NoSession} /\ slot' \in {slot, NoSession} /\ open' \subseteq open
    BY <1>5, FollowMoves DEF Follow, Moves, Goes, Ends, lock, sculk
  <2>3. /\ pc'[c] \in HostLive => pc[c] \in HostLive /\ mine'[c] = mine[c]
        /\ pc'[c] \in {"bind", "leave", "leaving", "hush"} => mine'[c] \notin open'
    BY <1>5, FollowMoves DEF Follow, Moves, Goes, Ends, HostLive, FreshInv, lock, sculk
  <2> QED BY <2>2, <2>3, FreshAfter
<1>6. ASSUME NEW c \in Callers, Claim(c) PROVE FreshInv'
  <2>1. hosts + 1 # slot /\ \A d \in Callers : mine[d] # hosts + 1
    BY Constants, TypeParts DEF ShapeInv, Counted, Values, Placed, Sessions, NoSession
  <2>2. hosts + 1 \notin open
    BY Constants DEF ShapeInv, Counted
  <2>3. Others(c) /\ pc'[c] = "bind" /\ mine'[c] = hosts + 1 /\ slot' = slot /\ open' = open
    BY <1>6, ClaimMoves DEF Claim, Moves, lock, sculk
  <2>4. ASSUME NEW d \in Callers, pc'[d] \in HostLive
        PROVE  mine'[d] # slot' /\ \A e \in Callers \ {d} : mine'[e] # mine'[d]
    BY <2>1, <2>3, <2>4 DEF Others, FreshInv
  <2>5. ASSUME NEW d \in Callers, pc'[d] \in {"bind", "leave", "leaving", "hush"}
        PROVE  mine'[d] \notin open'
    BY <2>2, <2>3, <2>5 DEF Others, FreshInv
  <2> QED BY <2>4, <2>5 DEF FreshInv
<1>7. ASSUME NEW c \in Callers, BindFails(c) PROVE FreshInv'
  <2>2. Others(c) /\ mine'[c] \in {mine[c], slot, NoSession} /\ slot' \in {slot, NoSession} /\ open' \subseteq open
    BY <1>7, BindFailsMoves DEF BindFails, Moves, Goes, Ends, lock, sculk
  <2>3. /\ pc'[c] \in HostLive => pc[c] \in HostLive /\ mine'[c] = mine[c]
        /\ pc'[c] \in {"bind", "leave", "leaving", "hush"} => mine'[c] \notin open'
    BY <1>7, BindFailsMoves DEF BindFails, Moves, Goes, Ends, HostLive, FreshInv, lock, sculk
  <2> QED BY <2>2, <2>3, FreshAfter
<1>8. ASSUME NEW c \in Callers, Bind(c) PROVE FreshInv'
  <2>1. pc[c] = "bind" /\ pc[c] \in HostLive /\ \A e \in Callers \ {c} : mine[e] # mine[c]
    BY <1>8, BindMoves DEF FreshInv, HostLive
  <2>2. Others(c) /\ pc'[c] = "serve" /\ mine' = mine /\ slot' = slot /\ open' = open \union {mine[c]}
    BY <1>8, BindMoves DEF Bind, Goto, Moves, Goes, lock
  <2>3. ASSUME NEW d \in Callers, pc'[d] \in HostLive
        PROVE  mine'[d] # slot' /\ \A e \in Callers \ {d} : mine'[e] # mine'[d]
    BY <2>1, <2>2, <2>3 DEF Others, FreshInv
  <2>4. ASSUME NEW d \in Callers, pc'[d] \in {"bind", "leave", "leaving", "hush"}
        PROVE  mine'[d] \notin open'
    BY <2>1, <2>2, <2>4 DEF Others, FreshInv
  <2> QED BY <2>3, <2>4 DEF FreshInv
<1>9. ASSUME NEW c \in Callers, Continue(c) PROVE FreshInv'
  <2>2. Others(c) /\ mine'[c] \in {mine[c], slot, NoSession} /\ slot' \in {slot, NoSession} /\ open' \subseteq open
    BY <1>9, ContinueMoves DEF Continue, Moves, Goes, Ends, lock, sculk
  <2>3. /\ pc'[c] \in HostLive => pc[c] \in HostLive /\ mine'[c] = mine[c]
        /\ pc'[c] \in {"bind", "leave", "leaving", "hush"} => mine'[c] \notin open'
    BY <1>9, ContinueMoves DEF Continue, Moves, Goes, Ends, HostLive, FreshInv, lock, sculk
  <2> QED BY <2>2, <2>3, FreshAfter
<1>10. ASSUME NEW c \in Callers, GiveUp(c) PROVE FreshInv'
  <2>2. Others(c) /\ mine'[c] \in {mine[c], slot, NoSession} /\ slot' \in {slot, NoSession} /\ open' \subseteq open
    BY <1>10, GiveUpMoves DEF GiveUp, Moves, Goes, Ends, lock, sculk
  <2>3. /\ pc'[c] \in HostLive => pc[c] \in HostLive /\ mine'[c] = mine[c]
        /\ pc'[c] \in {"bind", "leave", "leaving", "hush"} => mine'[c] \notin open'
    BY <1>10, GiveUpMoves DEF GiveUp, Moves, Goes, Ends, HostLive, FreshInv, lock, sculk
  <2> QED BY <2>2, <2>3, FreshAfter
<1>11. ASSUME NEW c \in Callers, FanOut(c) PROVE FreshInv'
  <2>2. Others(c) /\ mine'[c] \in {mine[c], slot, NoSession} /\ slot' \in {slot, NoSession} /\ open' \subseteq open
    BY <1>11, FanOutMoves DEF FanOut, Moves, Goes, Ends, lock, sculk
  <2>3. /\ pc'[c] \in HostLive => pc[c] \in HostLive /\ mine'[c] = mine[c]
        /\ pc'[c] \in {"bind", "leave", "leaving", "hush"} => mine'[c] \notin open'
    BY <1>11, FanOutMoves DEF FanOut, Moves, Goes, Ends, HostLive, FreshInv, lock, sculk
  <2> QED BY <2>2, <2>3, FreshAfter
<1>12. ASSUME NEW c \in Callers, Retain(c) PROVE FreshInv'
  <2>2. Others(c) /\ mine'[c] \in {mine[c], slot, NoSession} /\ slot' \in {slot, NoSession} /\ open' \subseteq open
    BY <1>12, RetainMoves DEF Retain, Moves, Goes, Ends, lock, sculk
  <2>3. /\ pc'[c] \in HostLive => pc[c] \in HostLive /\ mine'[c] = mine[c]
        /\ pc'[c] \in {"bind", "leave", "leaving", "hush"} => mine'[c] \notin open'
    BY <1>12, RetainMoves DEF Retain, Moves, Goes, Ends, HostLive, FreshInv, lock, sculk
  <2> QED BY <2>2, <2>3, FreshAfter
<1>13. ASSUME NEW c \in Callers, QueryFails(c) PROVE FreshInv'
  <2>2. Others(c) /\ mine'[c] \in {mine[c], slot, NoSession} /\ slot' \in {slot, NoSession} /\ open' \subseteq open
    BY <1>13, QueryFailsMoves DEF QueryFails, Moves, Goes, Ends, lock, sculk
  <2>3. /\ pc'[c] \in HostLive => pc[c] \in HostLive /\ mine'[c] = mine[c]
        /\ pc'[c] \in {"bind", "leave", "leaving", "hush"} => mine'[c] \notin open'
    BY <1>13, QueryFailsMoves DEF QueryFails, Moves, Goes, Ends, HostLive, FreshInv, lock, sculk
  <2> QED BY <2>2, <2>3, FreshAfter
<1>14. ASSUME NEW c \in Callers, LockSlot(c) PROVE FreshInv'
  <2>2. Others(c) /\ mine'[c] \in {mine[c], slot, NoSession} /\ slot' \in {slot, NoSession} /\ open' \subseteq open
    BY <1>14, LockSlotMoves DEF LockSlot, Moves, Goes, Ends, lock, sculk
  <2>3. /\ pc'[c] \in HostLive => pc[c] \in HostLive /\ mine'[c] = mine[c]
        /\ pc'[c] \in {"bind", "leave", "leaving", "hush"} => mine'[c] \notin open'
    BY <1>14, LockSlotMoves DEF LockSlot, Moves, Goes, Ends, HostLive, FreshInv, lock, sculk
  <2> QED BY <2>2, <2>3, FreshAfter
<1>15. ASSUME NEW c \in Callers, Publish(c) PROVE FreshInv'
  <2>1. pc[c] \in HostLive /\ \A e \in Callers \ {c} : mine[e] # mine[c]
    BY <1>15, PublishMoves DEF FreshInv, HostLive
  <2>2. Others(c) /\ pc'[c] = "idle" /\ mine'[c] = NoSession /\ slot' = mine[c] /\ open' = open
    BY <1>15, PublishMoves DEF Publish, Moves, Ends, sculk
  <2>3. ASSUME NEW d \in Callers, pc'[d] \in HostLive
        PROVE  mine'[d] # slot' /\ \A e \in Callers \ {d} : mine'[e] # mine'[d]
    <3>1. d # c /\ pc[d] \in HostLive /\ mine'[d] = mine[d]
      BY <2>2, <2>3 DEF Others, HostLive
    <3>2. mine[d] # NoSession /\ \A e \in Callers \ {d} : mine[e] # mine[d]
      BY <3>1 DEF FreshInv, ShapeInv, ShapeOf
    <3> QED BY <2>1, <2>2, <3>1, <3>2 DEF Others
  <2>4. ASSUME NEW d \in Callers, pc'[d] \in {"bind", "leave", "leaving", "hush"}
        PROVE  mine'[d] \notin open'
    BY <2>2, <2>4 DEF Others, FreshInv
  <2> QED BY <2>3, <2>4 DEF FreshInv
<1>16. ASSUME NEW c \in Callers, Abandon(c) PROVE FreshInv'
  <2>2. Others(c) /\ mine'[c] \in {mine[c], slot, NoSession} /\ slot' \in {slot, NoSession} /\ open' \subseteq open
    BY <1>16, AbandonMoves DEF Abandon, Moves, Goes, Ends, lock, sculk
  <2>3. /\ pc'[c] \in HostLive => pc[c] \in HostLive /\ mine'[c] = mine[c]
        /\ pc'[c] \in {"bind", "leave", "leaving", "hush"} => mine'[c] \notin open'
    BY <1>16, AbandonMoves DEF Abandon, Moves, Goes, Ends, HostLive, FreshInv, lock, sculk
  <2> QED BY <2>2, <2>3, FreshAfter
<1>17. ASSUME NEW c \in Callers, BeginStop(c) PROVE FreshInv'
  <2>2. Others(c) /\ mine'[c] \in {mine[c], slot, NoSession} /\ slot' \in {slot, NoSession} /\ open' \subseteq open
    BY <1>17, BeginStopMoves DEF BeginStop, Moves, Goes, Ends, lock, sculk
  <2>3. /\ pc'[c] \in HostLive => pc[c] \in HostLive /\ mine'[c] = mine[c]
        /\ pc'[c] \in {"bind", "leave", "leaving", "hush"} => mine'[c] \notin open'
    BY <1>17, BeginStopMoves DEF BeginStop, Moves, Goes, Ends, HostLive, FreshInv, lock, sculk
  <2> QED BY <2>2, <2>3, FreshAfter
<1>18. ASSUME NEW c \in Callers, Take(c) PROVE FreshInv'
  <2>1. NoSession \notin open
    BY Constants DEF ShapeInv, Counted, NoSession
  <2>2. slot' \in {slot, NoSession} /\ open' = open
    BY <1>18 DEF Take, sculk
  <2>3. /\ Others(c) /\ mine'[c] = slot /\ pc'[c] \in {"leave", "quiet", "close"}
        /\ pc'[c] = "leave" => slot = NoSession
    BY <1>18, TakeMoves DEF Moves
  <2> QED BY <2>1, <2>2, <2>3, FreshAfter DEF HostLive
<1>19. ASSUME NEW c \in Callers, Quiet(c) PROVE FreshInv'
  <2>2. Others(c) /\ mine'[c] \in {mine[c], slot, NoSession} /\ slot' \in {slot, NoSession} /\ open' \subseteq open
    BY <1>19, QuietMoves DEF Quiet, Moves, Goes, Ends, lock, sculk
  <2>3. /\ pc'[c] \in HostLive => pc[c] \in HostLive /\ mine'[c] = mine[c]
        /\ pc'[c] \in {"bind", "leave", "leaving", "hush"} => mine'[c] \notin open'
    BY <1>19, QuietMoves DEF Quiet, Moves, Goes, Ends, HostLive, FreshInv, lock, sculk
  <2> QED BY <2>2, <2>3, FreshAfter
<1>20. ASSUME NEW c \in Callers, Close(c) PROVE FreshInv'
  <2>2. Others(c) /\ mine'[c] \in {mine[c], slot, NoSession} /\ slot' \in {slot, NoSession} /\ open' \subseteq open
    BY <1>20, CloseMoves DEF Close, Moves, Goes, Ends, lock, sculk
  <2>3. /\ pc'[c] \in HostLive => pc[c] \in HostLive /\ mine'[c] = mine[c]
        /\ pc'[c] \in {"bind", "leave", "leaving", "hush"} => mine'[c] \notin open'
    BY <1>20, CloseMoves DEF Close, Moves, Goes, Ends, HostLive, FreshInv, lock, sculk
  <2> QED BY <2>2, <2>3, FreshAfter
<1>21. ASSUME NEW c \in Callers, JoinIsIdle(c) PROVE FreshInv'
  <2>2. Others(c) /\ mine'[c] \in {mine[c], slot, NoSession} /\ slot' \in {slot, NoSession} /\ open' \subseteq open
    BY <1>21, JoinIsIdleMoves DEF JoinIsIdle, Moves, Goes, Ends, lock, sculk
  <2>3. /\ pc'[c] \in HostLive => pc[c] \in HostLive /\ mine'[c] = mine[c]
        /\ pc'[c] \in {"bind", "leave", "leaving", "hush"} => mine'[c] \notin open'
    BY <1>21, JoinIsIdleMoves DEF JoinIsIdle, Moves, Goes, Ends, HostLive, FreshInv, lock, sculk
  <2> QED BY <2>2, <2>3, FreshAfter
<1>22. ASSUME NEW c \in Callers, StopJoin(c) PROVE FreshInv'
  <2>2. Others(c) /\ mine'[c] \in {mine[c], slot, NoSession} /\ slot' \in {slot, NoSession} /\ open' \subseteq open
    BY <1>22, StopJoinMoves DEF StopJoin, Moves, Goes, Ends, lock, sculk
  <2>3. /\ pc'[c] \in HostLive => pc[c] \in HostLive /\ mine'[c] = mine[c]
        /\ pc'[c] \in {"bind", "leave", "leaving", "hush"} => mine'[c] \notin open'
    BY <1>22, StopJoinMoves DEF StopJoin, Moves, Goes, Ends, HostLive, FreshInv, lock, sculk
  <2> QED BY <2>2, <2>3, FreshAfter
<1>23. ASSUME NEW c \in Callers, JoinStopped(c) PROVE FreshInv'
  <2>2. Others(c) /\ mine'[c] \in {mine[c], slot, NoSession} /\ slot' \in {slot, NoSession} /\ open' \subseteq open
    BY <1>23, JoinStoppedMoves DEF JoinStopped, Moves, Goes, Ends, lock, sculk
  <2>3. /\ pc'[c] \in HostLive => pc[c] \in HostLive /\ mine'[c] = mine[c]
        /\ pc'[c] \in {"bind", "leave", "leaving", "hush"} => mine'[c] \notin open'
    BY <1>23, JoinStoppedMoves DEF JoinStopped, Moves, Goes, Ends, HostLive, FreshInv, lock, sculk
  <2> QED BY <2>2, <2>3, FreshAfter
<1>24. ASSUME NEW c \in Callers, Hush(c) PROVE FreshInv'
  <2>2. Others(c) /\ mine'[c] \in {mine[c], slot, NoSession} /\ slot' \in {slot, NoSession} /\ open' \subseteq open
    BY <1>24, HushMoves DEF Hush, Moves, Goes, Ends, lock, sculk
  <2>3. /\ pc'[c] \in HostLive => pc[c] \in HostLive /\ mine'[c] = mine[c]
        /\ pc'[c] \in {"bind", "leave", "leaving", "hush"} => mine'[c] \notin open'
    BY <1>24, HushMoves DEF Hush, Moves, Goes, Ends, HostLive, FreshInv, lock, sculk
  <2> QED BY <2>2, <2>3, FreshAfter
<1>25. ASSUME NEW c \in Callers, BeginQuery(c) PROVE FreshInv'
  <2>2. Others(c) /\ mine'[c] \in {mine[c], slot, NoSession} /\ slot' \in {slot, NoSession} /\ open' \subseteq open
    BY <1>25, BeginQueryMoves DEF BeginQuery, Moves, Goes, Ends, lock, sculk
  <2>3. /\ pc'[c] \in HostLive => pc[c] \in HostLive /\ mine'[c] = mine[c]
        /\ pc'[c] \in {"bind", "leave", "leaving", "hush"} => mine'[c] \notin open'
    BY <1>25, BeginQueryMoves DEF BeginQuery, Moves, Goes, Ends, HostLive, FreshInv, lock, sculk
  <2> QED BY <2>2, <2>3, FreshAfter
<1>26. ASSUME NEW c \in Callers, EndQuery(c) PROVE FreshInv'
  <2>2. Others(c) /\ mine'[c] \in {mine[c], slot, NoSession} /\ slot' \in {slot, NoSession} /\ open' \subseteq open
    BY <1>26, EndQueryMoves DEF EndQuery, Moves, Goes, Ends, lock, sculk
  <2>3. /\ pc'[c] \in HostLive => pc[c] \in HostLive /\ mine'[c] = mine[c]
        /\ pc'[c] \in {"bind", "leave", "leaving", "hush"} => mine'[c] \notin open'
    BY <1>26, EndQueryMoves DEF EndQuery, Moves, Goes, Ends, HostLive, FreshInv, lock, sculk
  <2> QED BY <2>2, <2>3, FreshAfter
<1>27. ASSUME JoinMoves PROVE FreshInv'
  BY <1>27 DEF JoinMoves, FreshInv, lock, sculk, local
<1>28. ASSUME Hear PROVE FreshInv'
  BY <1>28 DEF Hear, FreshInv, lock, sculk, local
<1>29. ASSUME Apply PROVE FreshInv'
  BY <1>29 DEF Apply, FreshInv, lock, sculk, local
<1>30. CASE UNCHANGED vars
  BY <1>30 DEF vars, FreshInv, lock, sculk, local
<1> QED BY <1>1, <1>2, <1>3, <1>4, <1>5, <1>6, <1>7, <1>8, <1>9, <1>10, <1>11, <1>12, <1>13,
           <1>14, <1>15, <1>16, <1>17, <1>18, <1>19, <1>20, <1>21, <1>22, <1>23, <1>24, <1>25,
           <1>26, <1>27, <1>28, <1>29, <1>30 DEF Next, Start, Stop

-----------------------------------------------------------------------------
(* Stops.                                                                    *)

\* No stop that has answered, or has taken the slot, found session s started.
Spared(s) ==
    s \notin stopped /\ \A c \in Callers : pc[c] \in Ending => s \notin before[c]

\* What is published, or will be, no such stop found.  While the flag is clear no
\* stop at all has found the sessions that are being started.
EndInv ==
    /\ Spared(slot)
    /\ \A d \in Callers : pc[d] = "publish" => Spared(mine[d])
    /\ ~cancel => \A d \in Callers : pc[d] \in HostLive =>
          mine[d] \notin stopped /\ \A c \in Callers : mine[d] \notin before[c]

\* What most actions do to it.  The caller may end a stop.
LEMMA EndAfter ==
    ASSUME EndInv, NEW c \in Callers, Others(c),
           pc'[c] \in HostLive => pc[c] \in HostLive /\ mine'[c] = mine[c],
           pc'[c] = "publish" => pc[c] = "publish",
           pc'[c] \in Ending => pc[c] \in Ending,
           slot' = slot, cancel' = cancel,
           before'[c] \subseteq before[c], \A d \in Callers \ {c} : before'[d] = before[d],
           stopped' \subseteq stopped \/ (pc[c] \in Ending /\ stopped' \subseteq stopped \union before[c])
    PROVE  EndInv'
<1>1. ASSUME NEW s, Spared(s) PROVE Spared(s)'
  BY <1>1 DEF Spared, Others
<1>2. Spared(slot)'
  BY <1>1 DEF EndInv
<1>3. ASSUME NEW d \in Callers, pc'[d] = "publish" PROVE Spared(mine[d])'
  <2>1. pc[d] = "publish" /\ mine'[d] = mine[d]
    BY <1>3 DEF Others, HostLive
  <2>2. Spared(mine[d])
    BY <2>1 DEF EndInv
  <2> QED BY <2>1, <2>2 DEF Spared, Others
<1>4. ASSUME ~cancel', NEW d \in Callers, pc'[d] \in HostLive
      PROVE  mine'[d] \notin stopped' /\ \A e \in Callers : mine'[d] \notin before'[e]
  <2>1. pc[d] \in HostLive /\ mine'[d] = mine[d] /\ ~cancel
    BY <1>4 DEF Others
  <2>2. mine[d] \notin stopped /\ \A e \in Callers : mine[d] \notin before[e]
    BY <2>1 DEF EndInv
  <2> QED BY <2>1, <2>2
<1> QED BY <1>2, <1>3, <1>4 DEF EndInv

LEMMA EndStep ==
    ASSUME TypeOK, ShapeInv, EndInv, [Next]_vars
    PROVE  EndInv'
<1>1. ASSUME NEW c \in Callers, Begin(c) PROVE EndInv'
  <2>1. /\ Others(c) /\ slot' = slot /\ cancel' = cancel
        /\ pc'[c] \in HostLive => pc[c] \in HostLive /\ mine'[c] = mine[c]
        /\ pc'[c] = "publish" => pc[c] = "publish"
        /\ pc'[c] \in Ending => pc[c] \in Ending
    BY <1>1, BeginMoves DEF Begin, Moves, Goes, Ends, HostLive, Ending, lock
  <2>2. /\ before'[c] \subseteq before[c] /\ \A d \in Callers \ {c} : before'[d] = before[d]
        /\ stopped' \subseteq stopped \/ (pc[c] \in Ending /\ stopped' \subseteq stopped \union before[c])
    BY <1>1 DEF Begin, ghosts
  <2> QED BY <2>1, <2>2, EndAfter
<1>2. ASSUME NEW c \in Callers, Pass(c) PROVE EndInv'
  <2>1. /\ Others(c) /\ slot' = slot /\ cancel' = cancel
        /\ pc'[c] \in HostLive => pc[c] \in HostLive /\ mine'[c] = mine[c]
        /\ pc'[c] = "publish" => pc[c] = "publish"
        /\ pc'[c] \in Ending => pc[c] \in Ending
    BY <1>2, PassMoves DEF Pass, Moves, Goes, Ends, HostLive, Ending, lock
  <2>2. /\ before'[c] \subseteq before[c] /\ \A d \in Callers \ {c} : before'[d] = before[d]
        /\ stopped' \subseteq stopped \/ (pc[c] \in Ending /\ stopped' \subseteq stopped \union before[c])
    BY <1>2 DEF Pass, ghosts
  <2> QED BY <2>1, <2>2, EndAfter
<1>3. ASSUME NEW c \in Callers, Refuse(c) PROVE EndInv'
  <2>1. /\ Others(c) /\ slot' = slot /\ cancel' = cancel
        /\ pc'[c] \in HostLive => pc[c] \in HostLive /\ mine'[c] = mine[c]
        /\ pc'[c] = "publish" => pc[c] = "publish"
        /\ pc'[c] \in Ending => pc[c] \in Ending
    BY <1>3, RefuseMoves DEF Refuse, Moves, Goes, Ends, HostLive, Ending, lock
  <2>2. /\ before'[c] \subseteq before[c] /\ \A d \in Callers \ {c} : before'[d] = before[d]
        /\ stopped' \subseteq stopped \/ (pc[c] \in Ending /\ stopped' \subseteq stopped \union before[c])
    BY <1>3 DEF Refuse, ghosts
  <2> QED BY <2>1, <2>2, EndAfter
<1>4. ASSUME NEW c \in Callers, StartJoin(c) PROVE EndInv'
  <2>1. /\ Others(c) /\ slot' = slot /\ cancel' = cancel
        /\ pc'[c] \in HostLive => pc[c] \in HostLive /\ mine'[c] = mine[c]
        /\ pc'[c] = "publish" => pc[c] = "publish"
        /\ pc'[c] \in Ending => pc[c] \in Ending
    BY <1>4, StartJoinMoves DEF StartJoin, Moves, Goes, Ends, HostLive, Ending, lock
  <2>2. /\ before'[c] \subseteq before[c] /\ \A d \in Callers \ {c} : before'[d] = before[d]
        /\ stopped' \subseteq stopped \/ (pc[c] \in Ending /\ stopped' \subseteq stopped \union before[c])
    BY <1>4 DEF StartJoin, ghosts
  <2> QED BY <2>1, <2>2, EndAfter
<1>5. ASSUME NEW c \in Callers, Follow(c) PROVE EndInv'
  <2>1. /\ Others(c) /\ slot' = slot /\ cancel' = cancel
        /\ pc'[c] \in HostLive => pc[c] \in HostLive /\ mine'[c] = mine[c]
        /\ pc'[c] = "publish" => pc[c] = "publish"
        /\ pc'[c] \in Ending => pc[c] \in Ending
    BY <1>5, FollowMoves DEF Follow, Moves, Goes, Ends, HostLive, Ending, lock
  <2>2. /\ before'[c] \subseteq before[c] /\ \A d \in Callers \ {c} : before'[d] = before[d]
        /\ stopped' \subseteq stopped \/ (pc[c] \in Ending /\ stopped' \subseteq stopped \union before[c])
    BY <1>5 DEF Follow, ghosts
  <2> QED BY <2>1, <2>2, EndAfter
<1>6. ASSUME NEW c \in Callers, Claim(c) PROVE EndInv'
  <2>1. hosts + 1 \notin stopped /\ \A e \in Callers : hosts + 1 \notin before[e]
    BY Constants DEF ShapeInv, Counted
  <2>2. \A d \in Callers : pc[d] \notin HostLive
    BY <1>6, TypeParts, Constants DEF Claim, Locks, ShapeInv, ShapeOf
  <2>3. /\ Others(c) /\ pc'[c] = "bind" /\ mine'[c] = hosts + 1
        /\ slot' = slot /\ stopped' = stopped /\ before' = before
    BY <1>6, ClaimMoves DEF Claim, Moves, lock, ghosts
  <2>4. Spared(slot)'
    BY <2>3 DEF EndInv, Spared, Others, Ending
  <2>5. ASSUME NEW d \in Callers, pc'[d] \in HostLive
        PROVE  d = c /\ mine'[d] \notin stopped' /\ \A e \in Callers : mine'[d] \notin before'[e]
    BY <2>1, <2>2, <2>3, <2>5 DEF Others
  <2> QED BY <2>3, <2>4, <2>5 DEF EndInv, HostLive
<1>7. ASSUME NEW c \in Callers, BindFails(c) PROVE EndInv'
  <2>1. /\ Others(c) /\ slot' = slot /\ cancel' = cancel
        /\ pc'[c] \in HostLive => pc[c] \in HostLive /\ mine'[c] = mine[c]
        /\ pc'[c] = "publish" => pc[c] = "publish"
        /\ pc'[c] \in Ending => pc[c] \in Ending
    BY <1>7, BindFailsMoves DEF BindFails, ReturnHost, Moves, Goes, Ends, HostLive, Ending, lock
  <2>2. /\ before'[c] \subseteq before[c] /\ \A d \in Callers \ {c} : before'[d] = before[d]
        /\ stopped' \subseteq stopped \/ (pc[c] \in Ending /\ stopped' \subseteq stopped \union before[c])
    BY <1>7 DEF BindFails, ghosts
  <2> QED BY <2>1, <2>2, EndAfter
<1>8. ASSUME NEW c \in Callers, Bind(c) PROVE EndInv'
  <2>1. /\ Others(c) /\ slot' = slot /\ cancel' = cancel
        /\ pc'[c] \in HostLive => pc[c] \in HostLive /\ mine'[c] = mine[c]
        /\ pc'[c] = "publish" => pc[c] = "publish"
        /\ pc'[c] \in Ending => pc[c] \in Ending
    BY <1>8, BindMoves DEF Bind, Moves, Goes, Ends, HostLive, Ending, lock
  <2>2. /\ before'[c] \subseteq before[c] /\ \A d \in Callers \ {c} : before'[d] = before[d]
        /\ stopped' \subseteq stopped \/ (pc[c] \in Ending /\ stopped' \subseteq stopped \union before[c])
    BY <1>8 DEF Bind, ghosts
  <2> QED BY <2>1, <2>2, EndAfter
<1>9. ASSUME NEW c \in Callers, Continue(c) PROVE EndInv'
  <2>1. /\ Others(c) /\ slot' = slot /\ cancel' = cancel
        /\ pc'[c] \in HostLive => pc[c] \in HostLive /\ mine'[c] = mine[c]
        /\ pc'[c] = "publish" => pc[c] = "publish"
        /\ pc'[c] \in Ending => pc[c] \in Ending
    BY <1>9, ContinueMoves DEF Continue, Moves, Goes, Ends, HostLive, Ending, lock
  <2>2. /\ before'[c] \subseteq before[c] /\ \A d \in Callers \ {c} : before'[d] = before[d]
        /\ stopped' \subseteq stopped \/ (pc[c] \in Ending /\ stopped' \subseteq stopped \union before[c])
    BY <1>9 DEF Continue, ghosts
  <2> QED BY <2>1, <2>2, EndAfter
<1>10. ASSUME NEW c \in Callers, GiveUp(c) PROVE EndInv'
  <2>1. /\ Others(c) /\ slot' = slot /\ cancel' = cancel
        /\ pc'[c] \in HostLive => pc[c] \in HostLive /\ mine'[c] = mine[c]
        /\ pc'[c] = "publish" => pc[c] = "publish"
        /\ pc'[c] \in Ending => pc[c] \in Ending
    BY <1>10, GiveUpMoves DEF GiveUp, Moves, Goes, Ends, HostLive, Ending, lock
  <2>2. /\ before'[c] \subseteq before[c] /\ \A d \in Callers \ {c} : before'[d] = before[d]
        /\ stopped' \subseteq stopped \/ (pc[c] \in Ending /\ stopped' \subseteq stopped \union before[c])
    BY <1>10 DEF GiveUp, ghosts
  <2> QED BY <2>1, <2>2, EndAfter
<1>11. ASSUME NEW c \in Callers, FanOut(c) PROVE EndInv'
  <2>1. /\ Others(c) /\ slot' = slot /\ cancel' = cancel
        /\ pc'[c] \in HostLive => pc[c] \in HostLive /\ mine'[c] = mine[c]
        /\ pc'[c] = "publish" => pc[c] = "publish"
        /\ pc'[c] \in Ending => pc[c] \in Ending
    BY <1>11, FanOutMoves DEF FanOut, Moves, Goes, Ends, HostLive, Ending, lock
  <2>2. /\ before'[c] \subseteq before[c] /\ \A d \in Callers \ {c} : before'[d] = before[d]
        /\ stopped' \subseteq stopped \/ (pc[c] \in Ending /\ stopped' \subseteq stopped \union before[c])
    BY <1>11 DEF FanOut, ghosts
  <2> QED BY <2>1, <2>2, EndAfter
<1>12. ASSUME NEW c \in Callers, Retain(c) PROVE EndInv'
  <2>1. /\ Others(c) /\ slot' = slot /\ cancel' = cancel
        /\ pc'[c] \in HostLive => pc[c] \in HostLive /\ mine'[c] = mine[c]
        /\ pc'[c] = "publish" => pc[c] = "publish"
        /\ pc'[c] \in Ending => pc[c] \in Ending
    BY <1>12, RetainMoves DEF Retain, Moves, Goes, Ends, HostLive, Ending, lock
  <2>2. /\ before'[c] \subseteq before[c] /\ \A d \in Callers \ {c} : before'[d] = before[d]
        /\ stopped' \subseteq stopped \/ (pc[c] \in Ending /\ stopped' \subseteq stopped \union before[c])
    BY <1>12 DEF Retain, ghosts
  <2> QED BY <2>1, <2>2, EndAfter
<1>13. ASSUME NEW c \in Callers, QueryFails(c) PROVE EndInv'
  <2>1. /\ Others(c) /\ slot' = slot /\ cancel' = cancel
        /\ pc'[c] \in HostLive => pc[c] \in HostLive /\ mine'[c] = mine[c]
        /\ pc'[c] = "publish" => pc[c] = "publish"
        /\ pc'[c] \in Ending => pc[c] \in Ending
    BY <1>13, QueryFailsMoves DEF QueryFails, ReturnHost, Moves, Goes, Ends, HostLive, Ending, lock
  <2>2. /\ before'[c] \subseteq before[c] /\ \A d \in Callers \ {c} : before'[d] = before[d]
        /\ stopped' \subseteq stopped \/ (pc[c] \in Ending /\ stopped' \subseteq stopped \union before[c])
    BY <1>13 DEF QueryFails, ghosts
  <2> QED BY <2>1, <2>2, EndAfter
<1>14. ASSUME NEW c \in Callers, LockSlot(c) PROVE EndInv'
  <2>1. /\ Others(c) /\ mine'[c] = mine[c] /\ pc'[c] \in {"abandon", "publish"} /\ pc[c] = "query"
        /\ pc'[c] = "publish" => ~cancel
        /\ slot' = slot /\ stopped' = stopped /\ before' = before /\ cancel' = cancel
    BY <1>14, LockSlotMoves DEF LockSlot, Moves, Goes, ghosts
  <2>2. Spared(slot)'
    BY <2>1 DEF EndInv, Spared, Others, Ending
  <2>3. ~cancel => Spared(mine[c])
    BY <2>1 DEF EndInv, Spared, HostLive
  <2>4. ASSUME NEW d \in Callers, pc'[d] = "publish" PROVE Spared(mine[d])'
    <3>1. Spared(mine[d]) /\ mine'[d] = mine[d]
      BY <2>1, <2>3, <2>4 DEF EndInv, Others
    <3> QED BY <2>1, <3>1 DEF Spared, Others, Ending
  <2>5. ASSUME ~cancel', NEW d \in Callers, pc'[d] \in HostLive
        PROVE  mine'[d] \notin stopped' /\ \A e \in Callers : mine'[d] \notin before'[e]
    BY <2>1, <2>5 DEF EndInv, Others, HostLive
  <2> QED BY <2>2, <2>4, <2>5 DEF EndInv
<1>15. ASSUME NEW c \in Callers, Publish(c) PROVE EndInv'
  <2>1. /\ Others(c) /\ pc'[c] = "idle" /\ pc[c] = "publish" /\ slot' = mine[c]
        /\ stopped' = stopped /\ before' = before /\ cancel' = cancel
    BY <1>15, PublishMoves DEF Publish, Moves, Ends, ghosts
  <2>2. Spared(slot)'
    BY <2>1 DEF EndInv, Spared, Others, Ending
  <2>3. ASSUME NEW d \in Callers, pc'[d] = "publish" PROVE Spared(mine[d])'
    BY <2>1, <2>3, TypeParts DEF Locks, Others
  <2>4. ASSUME ~cancel', NEW d \in Callers, pc'[d] \in HostLive
        PROVE  mine'[d] \notin stopped' /\ \A e \in Callers : mine'[d] \notin before'[e]
    BY <2>1, <2>4 DEF EndInv, Others, HostLive
  <2> QED BY <2>2, <2>3, <2>4 DEF EndInv
<1>16. ASSUME NEW c \in Callers, Abandon(c) PROVE EndInv'
  <2>1. /\ Others(c) /\ slot' = slot /\ cancel' = cancel
        /\ pc'[c] \in HostLive => pc[c] \in HostLive /\ mine'[c] = mine[c]
        /\ pc'[c] = "publish" => pc[c] = "publish"
        /\ pc'[c] \in Ending => pc[c] \in Ending
    BY <1>16, AbandonMoves DEF Abandon, ReturnHost, Moves, Goes, Ends, HostLive, Ending, lock
  <2>2. /\ before'[c] \subseteq before[c] /\ \A d \in Callers \ {c} : before'[d] = before[d]
        /\ stopped' \subseteq stopped \/ (pc[c] \in Ending /\ stopped' \subseteq stopped \union before[c])
    BY <1>16 DEF Abandon, ghosts
  <2> QED BY <2>1, <2>2, EndAfter
<1>17. ASSUME NEW c \in Callers, BeginStop(c) PROVE EndInv'
  <2>1. /\ Others(c) /\ pc'[c] = "take" /\ slot' = slot /\ stopped' = stopped /\ cancel' = TRUE
        /\ \A d \in Callers \ {c} : before'[d] = before[d]
    BY <1>17, BeginStopMoves DEF BeginStop, Moves, lock, ShapeInv, Counted
  <2>2. Spared(slot)'
    BY <2>1 DEF EndInv, Spared, Others, Ending
  <2>3. ASSUME NEW d \in Callers, pc'[d] = "publish" PROVE Spared(mine[d])'
    <3>1. Spared(mine[d]) /\ mine'[d] = mine[d]
      BY <2>1, <2>3 DEF EndInv, Others
    <3> QED BY <2>1, <3>1 DEF Spared, Others, Ending
  <2> QED BY <2>1, <2>2, <2>3 DEF EndInv
<1>18. ASSUME NEW c \in Callers, Take(c) PROVE EndInv'
  <2>1. NoSession \notin stopped /\ \A e \in Callers : NoSession \notin before[e]
    BY Constants DEF ShapeInv, Counted, NoSession
  <2>2. /\ Others(c) /\ pc'[c] \in Ending /\ slot' = NoSession
        /\ stopped' = stopped /\ before' = before /\ cancel' = cancel
    BY <1>18, TakeMoves DEF Take, Moves, Ending, ghosts
  <2>3. Spared(slot)'
    BY <2>1, <2>2 DEF Spared
  <2>4. ASSUME NEW d \in Callers, pc'[d] = "publish" PROVE Spared(mine[d])'
    BY <1>18, <2>2, <2>4, TypeParts, Constants DEF Take, Locks, Others, Ending
  <2>5. ASSUME ~cancel', NEW d \in Callers, pc'[d] \in HostLive
        PROVE  mine'[d] \notin stopped' /\ \A e \in Callers : mine'[d] \notin before'[e]
    BY <2>2, <2>5 DEF EndInv, Others, HostLive, Ending
  <2> QED BY <2>3, <2>4, <2>5 DEF EndInv
<1>19. ASSUME NEW c \in Callers, Quiet(c) PROVE EndInv'
  <2>1. /\ Others(c) /\ slot' = slot /\ cancel' = cancel
        /\ pc'[c] \in HostLive => pc[c] \in HostLive /\ mine'[c] = mine[c]
        /\ pc'[c] = "publish" => pc[c] = "publish"
        /\ pc'[c] \in Ending => pc[c] \in Ending
    BY <1>19, QuietMoves DEF Quiet, Moves, Goes, Ends, HostLive, Ending, lock
  <2>2. /\ before'[c] \subseteq before[c] /\ \A d \in Callers \ {c} : before'[d] = before[d]
        /\ stopped' \subseteq stopped \/ (pc[c] \in Ending /\ stopped' \subseteq stopped \union before[c])
    BY <1>19 DEF Quiet, ghosts
  <2> QED BY <2>1, <2>2, EndAfter
<1>20. ASSUME NEW c \in Callers, Close(c) PROVE EndInv'
  <2>1. /\ Others(c) /\ slot' = slot /\ cancel' = cancel
        /\ pc'[c] \in HostLive => pc[c] \in HostLive /\ mine'[c] = mine[c]
        /\ pc'[c] = "publish" => pc[c] = "publish"
        /\ pc'[c] \in Ending => pc[c] \in Ending
    BY <1>20, CloseMoves DEF Close, Moves, Goes, Ends, HostLive, Ending, lock
  <2>2. /\ before'[c] \subseteq before[c] /\ \A d \in Callers \ {c} : before'[d] = before[d]
        /\ stopped' \subseteq stopped \/ (pc[c] \in Ending /\ stopped' \subseteq stopped \union before[c])
    BY <1>20, AnswerIs DEF Close, Ending, ghosts
  <2> QED BY <2>1, <2>2, EndAfter
<1>21. ASSUME NEW c \in Callers, JoinIsIdle(c) PROVE EndInv'
  <2>1. /\ Others(c) /\ slot' = slot /\ cancel' = cancel
        /\ pc'[c] \in HostLive => pc[c] \in HostLive /\ mine'[c] = mine[c]
        /\ pc'[c] = "publish" => pc[c] = "publish"
        /\ pc'[c] \in Ending => pc[c] \in Ending
    BY <1>21, JoinIsIdleMoves DEF JoinIsIdle, Moves, Goes, Ends, HostLive, Ending, lock
  <2>2. /\ before'[c] \subseteq before[c] /\ \A d \in Callers \ {c} : before'[d] = before[d]
        /\ stopped' \subseteq stopped \/ (pc[c] \in Ending /\ stopped' \subseteq stopped \union before[c])
    BY <1>21, AnswerIs DEF JoinIsIdle, Ending, ghosts
  <2> QED BY <2>1, <2>2, EndAfter
<1>22. ASSUME NEW c \in Callers, StopJoin(c) PROVE EndInv'
  <2>1. /\ Others(c) /\ slot' = slot /\ cancel' = cancel
        /\ pc'[c] \in HostLive => pc[c] \in HostLive /\ mine'[c] = mine[c]
        /\ pc'[c] = "publish" => pc[c] = "publish"
        /\ pc'[c] \in Ending => pc[c] \in Ending
    BY <1>22, StopJoinMoves DEF StopJoin, Moves, Goes, Ends, HostLive, Ending, lock
  <2>2. /\ before'[c] \subseteq before[c] /\ \A d \in Callers \ {c} : before'[d] = before[d]
        /\ stopped' \subseteq stopped \/ (pc[c] \in Ending /\ stopped' \subseteq stopped \union before[c])
    BY <1>22, AnswerIs DEF StopJoin, Ending, ghosts
  <2> QED BY <2>1, <2>2, EndAfter
<1>23. ASSUME NEW c \in Callers, JoinStopped(c) PROVE EndInv'
  <2>1. /\ Others(c) /\ slot' = slot /\ cancel' = cancel
        /\ pc'[c] \in HostLive => pc[c] \in HostLive /\ mine'[c] = mine[c]
        /\ pc'[c] = "publish" => pc[c] = "publish"
        /\ pc'[c] \in Ending => pc[c] \in Ending
    BY <1>23, JoinStoppedMoves DEF JoinStopped, Moves, Goes, Ends, HostLive, Ending, lock
  <2>2. /\ before'[c] \subseteq before[c] /\ \A d \in Callers \ {c} : before'[d] = before[d]
        /\ stopped' \subseteq stopped \/ (pc[c] \in Ending /\ stopped' \subseteq stopped \union before[c])
    BY <1>23, AnswerIs DEF JoinStopped, Ending, ghosts
  <2> QED BY <2>1, <2>2, EndAfter
<1>24. ASSUME NEW c \in Callers, Hush(c) PROVE EndInv'
  <2>1. /\ Others(c) /\ slot' = slot /\ cancel' = cancel
        /\ pc'[c] \in HostLive => pc[c] \in HostLive /\ mine'[c] = mine[c]
        /\ pc'[c] = "publish" => pc[c] = "publish"
        /\ pc'[c] \in Ending => pc[c] \in Ending
    BY <1>24, HushMoves DEF Hush, Moves, Goes, Ends, HostLive, Ending, lock
  <2>2. /\ before'[c] \subseteq before[c] /\ \A d \in Callers \ {c} : before'[d] = before[d]
        /\ stopped' \subseteq stopped \/ (pc[c] \in Ending /\ stopped' \subseteq stopped \union before[c])
    BY <1>24, AnswerIs DEF Hush, Ending, ghosts
  <2> QED BY <2>1, <2>2, EndAfter
<1>25. ASSUME NEW c \in Callers, BeginQuery(c) PROVE EndInv'
  <2>1. /\ Others(c) /\ slot' = slot /\ cancel' = cancel
        /\ pc'[c] \in HostLive => pc[c] \in HostLive /\ mine'[c] = mine[c]
        /\ pc'[c] = "publish" => pc[c] = "publish"
        /\ pc'[c] \in Ending => pc[c] \in Ending
    BY <1>25, BeginQueryMoves DEF BeginQuery, Moves, Goes, Ends, HostLive, Ending, lock
  <2>2. /\ before'[c] \subseteq before[c] /\ \A d \in Callers \ {c} : before'[d] = before[d]
        /\ stopped' \subseteq stopped \/ (pc[c] \in Ending /\ stopped' \subseteq stopped \union before[c])
    BY <1>25 DEF BeginQuery, ghosts
  <2> QED BY <2>1, <2>2, EndAfter
<1>26. ASSUME NEW c \in Callers, EndQuery(c) PROVE EndInv'
  <2>1. /\ Others(c) /\ slot' = slot /\ cancel' = cancel
        /\ pc'[c] \in HostLive => pc[c] \in HostLive /\ mine'[c] = mine[c]
        /\ pc'[c] = "publish" => pc[c] = "publish"
        /\ pc'[c] \in Ending => pc[c] \in Ending
    BY <1>26, EndQueryMoves DEF EndQuery, Moves, Goes, Ends, HostLive, Ending, lock
  <2>2. /\ before'[c] \subseteq before[c] /\ \A d \in Callers \ {c} : before'[d] = before[d]
        /\ stopped' \subseteq stopped \/ (pc[c] \in Ending /\ stopped' \subseteq stopped \union before[c])
    BY <1>26 DEF EndQuery, ghosts
  <2> QED BY <2>1, <2>2, EndAfter
<1>27. ASSUME JoinMoves PROVE EndInv'
  BY <1>27 DEF JoinMoves, EndInv, Spared, lock, local, ghosts
<1>28. ASSUME Hear PROVE EndInv'
  BY <1>28 DEF Hear, EndInv, Spared, lock, local, ghosts
<1>29. ASSUME Apply PROVE EndInv'
  BY <1>29 DEF Apply, EndInv, Spared, lock, local, ghosts
<1>30. CASE UNCHANGED vars
  BY <1>30 DEF vars, EndInv, Spared, lock, local, ghosts
<1> QED BY <1>1, <1>2, <1>3, <1>4, <1>5, <1>6, <1>7, <1>8, <1>9, <1>10, <1>11, <1>12, <1>13,
           <1>14, <1>15, <1>16, <1>17, <1>18, <1>19, <1>20, <1>21, <1>22, <1>23, <1>24, <1>25,
           <1>26, <1>27, <1>28, <1>29, <1>30 DEF Next, Start, Stop

-----------------------------------------------------------------------------
(* One tunnel.                                                               *)

\* While starts do not overlap: there is one at most, it began with an empty slot
\* and keeps it so until it publishes; a host's found the join idle and keeps that
\* so; and every open node is accounted for.
Alone ==
    /\ \A c, d \in Callers : op[c] \in Starts /\ op[d] \in Starts => c = d
    /\ slot = NoSession \/ join = "Idle"
    /\ open \subseteq {slot} \union InHand \union dropped
    /\ \A c \in Callers :
          /\ pc[c] = "ensure" /\ ~busy[c] => slot = NoSession
          /\ pc[c] \in HostLive \union {"claim"} => slot = NoSession /\ join = "Idle"
          /\ pc[c] \in {"join", "follow"} => slot = NoSession

AloneInv == ~overlap => Alone

\* What most actions do to it.
LEMMA AloneAfter ==
    ASSUME Alone, NEW c \in Callers, Others(c),
           op'[c] \in Starts => op[c] \in Starts,
           slot' \in {slot, NoSession}, slot' = slot \/ mine'[c] = slot,
           join' \in {join, "Idle"} \/ join # "Idle",
           open' \subseteq open, dropped \subseteq dropped',
           mine'[c] = mine[c] \/ mine[c] \notin open' \/ mine[c] \in dropped',
           pc'[c] = "ensure" /\ ~busy'[c] => pc[c] = "ensure" /\ ~busy[c],
           pc'[c] \in HostLive \union {"claim"} => pc[c] \in HostLive \union {"claim"},
           pc'[c] \in {"join", "follow"} => pc[c] \in {"join", "follow"}
    PROVE  Alone'
<1>1. \A d, e \in Callers : op'[d] \in Starts /\ op'[e] \in Starts => d = e
  BY DEF Alone, Others
<1>2. slot' = NoSession \/ join' = "Idle"
  BY DEF Alone
<1>3. ASSUME NEW s \in open' PROVE s \in {slot'} \union {mine'[d] : d \in Callers} \union dropped'
  <2>1. CASE s = slot
    BY <2>1
  <2>2. CASE s \in dropped
    BY <2>2
  <2>3. ASSUME NEW d \in Callers, s = mine[d] PROVE s \in {mine'[e] : e \in Callers} \union dropped'
    BY <1>3, <2>3 DEF Others
  <2> QED BY <1>3, <2>1, <2>2, <2>3 DEF Alone, InHand
<1>4. ASSUME NEW d \in Callers
      PROVE  /\ pc'[d] = "ensure" /\ ~busy'[d] => slot' = NoSession
             /\ pc'[d] \in HostLive \union {"claim"} => slot' = NoSession /\ join' = "Idle"
             /\ pc'[d] \in {"join", "follow"} => slot' = NoSession
  <2>1. pc'[d] = "ensure" /\ ~busy'[d] => pc[d] = "ensure" /\ ~busy[d]
    BY DEF Others
  <2>2. pc'[d] \in HostLive \union {"claim"} => pc[d] \in HostLive \union {"claim"}
    BY DEF Others
  <2>3. pc'[d] \in {"join", "follow"} => pc[d] \in {"join", "follow"}
    BY DEF Others
  <2> QED BY <2>1, <2>2, <2>3 DEF Alone
<1> QED BY <1>1, <1>2, <1>3, <1>4 DEF Alone, InHand

LEMMA AloneStep ==
    ASSUME TypeOK, ShapeInv, FreshInv, AloneInv, [Next]_vars
    PROVE  AloneInv'
<1>1. ASSUME NEW c \in Callers, Begin(c) PROVE AloneInv'
  <2> SUFFICES ASSUME ~overlap' PROVE Alone'
    BY DEF AloneInv
  <2>1. Alone
    BY <1>1 DEF Begin, AloneInv
  <2>2. \A d \in Callers : op[d] \notin Starts
    BY <1>1 DEF Begin
  <2>3. /\ Others(c) /\ pc'[c] = "ensure" /\ mine' = mine /\ UNCHANGED <<slot, open, join, dropped>>
        /\ busy'[c] = (slot # NoSession)
    <3>1. busy'[c] = (slot # NoSession)
      BY <1>1, TypeParts DEF Begin, Placed
    <3> QED BY <1>1, <3>1, BeginMoves DEF Begin, Moves, lock, sculk, ghosts
  <2>4. \A d, e \in Callers : op'[d] \in Starts /\ op'[e] \in Starts => d = e
    BY <2>2, <2>3 DEF Others
  <2>5. ASSUME NEW d \in Callers
        PROVE  /\ pc'[d] = "ensure" /\ ~busy'[d] => slot' = NoSession
               /\ pc'[d] \in HostLive \union {"claim"} => slot' = NoSession /\ join' = "Idle"
               /\ pc'[d] \in {"join", "follow"} => slot' = NoSession
    BY <2>1, <2>3 DEF Alone, Others, HostLive
  <2> QED BY <2>1, <2>3, <2>4, <2>5 DEF Alone, InHand
<1>2. ASSUME NEW c \in Callers, Pass(c) PROVE AloneInv'
  <2> SUFFICES ASSUME ~overlap' PROVE Alone'
    BY DEF AloneInv
  <2>1. Alone
    BY <1>2 DEF Pass, AloneInv
  <2>2. slot = NoSession /\ join = "Idle"
    BY <1>2, <2>1 DEF Pass, Idle, Alone
  <2>3. Others(c) /\ UNCHANGED <<slot, open, join, op, mine, dropped>> /\ pc'[c] # "ensure"
    BY <1>2, PassMoves DEF Pass, Goto, Moves, Goes, lock, sculk, ghosts
  <2>4. ASSUME NEW d \in Callers
        PROVE  pc'[d] = "ensure" /\ ~busy'[d] => slot' = NoSession
    BY <2>2, <2>3
  <2> QED BY <2>1, <2>2, <2>3, <2>4 DEF Alone, InHand
<1>3. ASSUME NEW c \in Callers, Refuse(c) PROVE AloneInv'
  <2> SUFFICES ASSUME ~overlap' PROVE Alone'
    BY DEF AloneInv
  <2>1. Alone
    BY <1>3 DEF Refuse, AloneInv
  <2>2. /\ Others(c)
        /\ op'[c] \in Starts => op[c] \in Starts
        /\ pc'[c] \notin {"ensure", "join", "follow"}
        /\ pc'[c] \in HostLive \union {"claim"} => pc[c] \in HostLive \union {"claim"}
    BY <1>3, RefuseMoves, Constants DEF Moves, Goes, Ends, HostLive, Starts, Stops
  <2>3. /\ slot' \in {slot, NoSession} /\ (slot' = slot \/ mine'[c] = slot)
        /\ join' \in {join, "Idle"} \/ join # "Idle"
        /\ open' \subseteq open /\ dropped \subseteq dropped'
    BY <1>3, RefuseMoves DEF Refuse, lock, sculk, ghosts
  <2>4. mine'[c] = mine[c] \/ mine[c] \notin open' \/ mine[c] \in dropped'
    BY <1>3, RefuseMoves, Constants DEF Refuse, FreshInv, ShapeInv, Counted, NoSession, Moves,
       Goes, Ends, lock, sculk, ghosts
  <2> QED BY <2>1, <2>2, <2>3, <2>4, AloneAfter
<1>4. ASSUME NEW c \in Callers, StartJoin(c) PROVE AloneInv'
  <2> SUFFICES ASSUME ~overlap' PROVE Alone'
    BY DEF AloneInv
  <2>1. Alone
    BY <1>4 DEF StartJoin, AloneInv
  <2>2. /\ Others(c) /\ UNCHANGED <<slot, open, dropped>> /\ mine[c] = NoSession /\ op[c] = "join"
        /\ mine'[c] = NoSession /\ op'[c] \in {op[c], None} /\ pc'[c] \in {"follow", "idle"} /\ pc[c] = "join"
    BY <1>4, StartJoinMoves DEF StartJoin, Moves, Goes, Ends, lock, ghosts
  <2>3. slot = NoSession
    BY <2>1, <2>2 DEF Alone
  <2>4. ASSUME NEW d \in Callers PROVE pc'[d] \notin HostLive \union {"claim"}
    <3>1. CASE d = c
      BY <2>2, <3>1 DEF HostLive
    <3>2. CASE d # c
      BY <2>1, <2>2, <3>2 DEF Alone, Others, ShapeInv, ShapeOf, Starts
    <3> QED BY <3>1, <3>2
  <2>5. \A d, e \in Callers : op'[d] \in Starts /\ op'[e] \in Starts => d = e
    BY <2>1, <2>2, Constants DEF Alone, Others, Starts
  <2>6. open' \subseteq {slot'} \union {mine'[d] : d \in Callers} \union dropped'
    BY <2>1, <2>2 DEF Alone, InHand, Others
  <2> QED BY <2>2, <2>3, <2>4, <2>5, <2>6 DEF Alone, InHand
<1>5. ASSUME NEW c \in Callers, Follow(c) PROVE AloneInv'
  <2> SUFFICES ASSUME ~overlap' PROVE Alone'
    BY DEF AloneInv
  <2>1. Alone
    BY <1>5 DEF Follow, AloneInv
  <2>2. /\ Others(c)
        /\ op'[c] \in Starts => op[c] \in Starts
        /\ pc'[c] \notin {"ensure", "join", "follow"}
        /\ pc'[c] \in HostLive \union {"claim"} => pc[c] \in HostLive \union {"claim"}
    BY <1>5, FollowMoves, Constants DEF Moves, Goes, Ends, HostLive, Starts, Stops
  <2>3. /\ slot' \in {slot, NoSession} /\ (slot' = slot \/ mine'[c] = slot)
        /\ join' \in {join, "Idle"} \/ join # "Idle"
        /\ open' \subseteq open /\ dropped \subseteq dropped'
    BY <1>5, FollowMoves DEF Follow, lock, sculk, ghosts
  <2>4. mine'[c] = mine[c] \/ mine[c] \notin open' \/ mine[c] \in dropped'
    BY <1>5, FollowMoves, Constants DEF Follow, FreshInv, ShapeInv, Counted, NoSession, Moves,
       Goes, Ends, lock, sculk, ghosts
  <2> QED BY <2>1, <2>2, <2>3, <2>4, AloneAfter
<1>6. ASSUME NEW c \in Callers, Claim(c) PROVE AloneInv'
  <2> SUFFICES ASSUME ~overlap' PROVE Alone'
    BY DEF AloneInv
  <2>1. Alone
    BY <1>6 DEF Claim, AloneInv
  <2>2. /\ Others(c) /\ UNCHANGED <<slot, open, join, dropped>> /\ op' = op /\ busy' = busy
        /\ mine[c] = NoSession /\ pc[c] = "claim" /\ pc'[c] = "bind"
    BY <1>6, ClaimMoves DEF Claim, Moves, lock, sculk, ghosts
  <2>3. NoSession \notin open
    BY Constants DEF ShapeInv, Counted, NoSession
  <2> QED BY <2>1, <2>2, <2>3, AloneAfter
<1>7. ASSUME NEW c \in Callers, BindFails(c) PROVE AloneInv'
  <2> SUFFICES ASSUME ~overlap' PROVE Alone'
    BY DEF AloneInv
  <2>1. Alone
    BY <1>7 DEF BindFails, AloneInv
  <2>2. /\ Others(c)
        /\ op'[c] \in Starts => op[c] \in Starts
        /\ pc'[c] \notin {"ensure", "join", "follow"}
        /\ pc'[c] \in HostLive \union {"claim"} => pc[c] \in HostLive \union {"claim"}
    BY <1>7, BindFailsMoves, Constants DEF Moves, Goes, Ends, HostLive, Starts, Stops
  <2>3. /\ slot' \in {slot, NoSession} /\ (slot' = slot \/ mine'[c] = slot)
        /\ join' \in {join, "Idle"} \/ join # "Idle"
        /\ open' \subseteq open /\ dropped \subseteq dropped'
    BY <1>7, BindFailsMoves DEF BindFails, ReturnHost, lock, sculk, ghosts
  <2>4. mine'[c] = mine[c] \/ mine[c] \notin open' \/ mine[c] \in dropped'
    BY <1>7, BindFailsMoves, Constants DEF BindFails, ReturnHost, FreshInv, ShapeInv, Counted,
       NoSession, Moves, Goes, Ends, lock, sculk, ghosts
  <2> QED BY <2>1, <2>2, <2>3, <2>4, AloneAfter
<1>8. ASSUME NEW c \in Callers, Bind(c) PROVE AloneInv'
  <2> SUFFICES ASSUME ~overlap' PROVE Alone'
    BY DEF AloneInv
  <2>1. Alone
    BY <1>8 DEF Bind, AloneInv
  <2>2. /\ Others(c) /\ UNCHANGED <<slot, join, dropped, op, mine, busy>> /\ open' = open \union {mine[c]}
        /\ pc[c] = "bind" /\ pc'[c] = "serve"
    BY <1>8, BindMoves DEF Bind, Goto, Moves, Goes, lock, ghosts
  <2>3. open' \subseteq {slot} \union InHand \union dropped
    BY <2>1, <2>2 DEF Alone, InHand
  <2>4. ASSUME NEW d \in Callers
        PROVE  /\ pc'[d] = "ensure" /\ ~busy[d] => slot = NoSession
               /\ pc'[d] \in HostLive \union {"claim"} => slot = NoSession /\ join = "Idle"
               /\ pc'[d] \in {"join", "follow"} => slot = NoSession
    BY <2>1, <2>2, <2>4 DEF Alone, Others, HostLive
  <2> QED BY <2>1, <2>2, <2>3, <2>4 DEF Alone, InHand
<1>9. ASSUME NEW c \in Callers, Continue(c) PROVE AloneInv'
  <2> SUFFICES ASSUME ~overlap' PROVE Alone'
    BY DEF AloneInv
  <2>1. Alone
    BY <1>9 DEF Continue, AloneInv
  <2>2. /\ Others(c)
        /\ op'[c] \in Starts => op[c] \in Starts
        /\ pc'[c] \notin {"ensure", "join", "follow"}
        /\ pc'[c] \in HostLive \union {"claim"} => pc[c] \in HostLive \union {"claim"}
    BY <1>9, ContinueMoves, Constants DEF Moves, Goes, Ends, HostLive, Starts, Stops
  <2>3. /\ slot' \in {slot, NoSession} /\ (slot' = slot \/ mine'[c] = slot)
        /\ join' \in {join, "Idle"} \/ join # "Idle"
        /\ open' \subseteq open /\ dropped \subseteq dropped'
    BY <1>9, ContinueMoves DEF Continue, lock, sculk, ghosts
  <2>4. mine'[c] = mine[c] \/ mine[c] \notin open' \/ mine[c] \in dropped'
    BY <1>9, ContinueMoves, Constants DEF Continue, FreshInv, ShapeInv, Counted, NoSession,
       Moves, Goes, Ends, lock, sculk, ghosts
  <2> QED BY <2>1, <2>2, <2>3, <2>4, AloneAfter
<1>10. ASSUME NEW c \in Callers, GiveUp(c) PROVE AloneInv'
  <2> SUFFICES ASSUME ~overlap' PROVE Alone'
    BY DEF AloneInv
  <2>1. Alone
    BY <1>10 DEF GiveUp, AloneInv
  <2>2. /\ Others(c)
        /\ op'[c] \in Starts => op[c] \in Starts
        /\ pc'[c] \notin {"ensure", "join", "follow"}
        /\ pc'[c] \in HostLive \union {"claim"} => pc[c] \in HostLive \union {"claim"}
    BY <1>10, GiveUpMoves, Constants DEF Moves, Goes, Ends, HostLive, Starts, Stops
  <2>3. /\ slot' \in {slot, NoSession} /\ (slot' = slot \/ mine'[c] = slot)
        /\ join' \in {join, "Idle"} \/ join # "Idle"
        /\ open' \subseteq open /\ dropped \subseteq dropped'
    BY <1>10, GiveUpMoves DEF GiveUp, lock, sculk, ghosts
  <2>4. mine'[c] = mine[c] \/ mine[c] \notin open' \/ mine[c] \in dropped'
    BY <1>10, GiveUpMoves, Constants DEF GiveUp, FreshInv, ShapeInv, Counted, NoSession, Moves,
       Goes, Ends, lock, sculk, ghosts
  <2> QED BY <2>1, <2>2, <2>3, <2>4, AloneAfter
<1>11. ASSUME NEW c \in Callers, FanOut(c) PROVE AloneInv'
  <2> SUFFICES ASSUME ~overlap' PROVE Alone'
    BY DEF AloneInv
  <2>1. Alone
    BY <1>11 DEF FanOut, AloneInv
  <2>2. /\ Others(c)
        /\ op'[c] \in Starts => op[c] \in Starts
        /\ pc'[c] \notin {"ensure", "join", "follow"}
        /\ pc'[c] \in HostLive \union {"claim"} => pc[c] \in HostLive \union {"claim"}
    BY <1>11, FanOutMoves, Constants DEF Moves, Goes, Ends, HostLive, Starts, Stops
  <2>3. /\ slot' \in {slot, NoSession} /\ (slot' = slot \/ mine'[c] = slot)
        /\ join' \in {join, "Idle"} \/ join # "Idle"
        /\ open' \subseteq open /\ dropped \subseteq dropped'
    BY <1>11, FanOutMoves DEF FanOut, lock, sculk, ghosts
  <2>4. mine'[c] = mine[c] \/ mine[c] \notin open' \/ mine[c] \in dropped'
    BY <1>11, FanOutMoves, Constants DEF FanOut, FreshInv, ShapeInv, Counted, NoSession, Moves,
       Goes, Ends, lock, sculk, ghosts
  <2> QED BY <2>1, <2>2, <2>3, <2>4, AloneAfter
<1>12. ASSUME NEW c \in Callers, Retain(c) PROVE AloneInv'
  <2> SUFFICES ASSUME ~overlap' PROVE Alone'
    BY DEF AloneInv
  <2>1. Alone
    BY <1>12 DEF Retain, AloneInv
  <2>2. /\ Others(c)
        /\ op'[c] \in Starts => op[c] \in Starts
        /\ pc'[c] \notin {"ensure", "join", "follow"}
        /\ pc'[c] \in HostLive \union {"claim"} => pc[c] \in HostLive \union {"claim"}
    BY <1>12, RetainMoves, Constants DEF Moves, Goes, Ends, HostLive, Starts, Stops
  <2>3. /\ slot' \in {slot, NoSession} /\ (slot' = slot \/ mine'[c] = slot)
        /\ join' \in {join, "Idle"} \/ join # "Idle"
        /\ open' \subseteq open /\ dropped \subseteq dropped'
    BY <1>12, RetainMoves DEF Retain, lock, sculk, ghosts
  <2>4. mine'[c] = mine[c] \/ mine[c] \notin open' \/ mine[c] \in dropped'
    BY <1>12, RetainMoves, Constants DEF Retain, FreshInv, ShapeInv, Counted, NoSession, Moves,
       Goes, Ends, lock, sculk, ghosts
  <2> QED BY <2>1, <2>2, <2>3, <2>4, AloneAfter
<1>13. ASSUME NEW c \in Callers, QueryFails(c) PROVE AloneInv'
  <2> SUFFICES ASSUME ~overlap' PROVE Alone'
    BY DEF AloneInv
  <2>1. Alone
    BY <1>13 DEF QueryFails, AloneInv
  <2>2. /\ Others(c)
        /\ op'[c] \in Starts => op[c] \in Starts
        /\ pc'[c] \notin {"ensure", "join", "follow"}
        /\ pc'[c] \in HostLive \union {"claim"} => pc[c] \in HostLive \union {"claim"}
    BY <1>13, QueryFailsMoves, Constants DEF Moves, Goes, Ends, HostLive, Starts, Stops
  <2>3. /\ slot' \in {slot, NoSession} /\ (slot' = slot \/ mine'[c] = slot)
        /\ join' \in {join, "Idle"} \/ join # "Idle"
        /\ open' \subseteq open /\ dropped \subseteq dropped'
    BY <1>13, QueryFailsMoves DEF QueryFails, ReturnHost, lock, sculk, ghosts
  <2>4. mine'[c] = mine[c] \/ mine[c] \notin open' \/ mine[c] \in dropped'
    BY <1>13, QueryFailsMoves, Constants DEF QueryFails, ReturnHost, FreshInv, ShapeInv, Counted,
       NoSession, Moves, Goes, Ends, lock, sculk, ghosts
  <2> QED BY <2>1, <2>2, <2>3, <2>4, AloneAfter
<1>14. ASSUME NEW c \in Callers, LockSlot(c) PROVE AloneInv'
  <2> SUFFICES ASSUME ~overlap' PROVE Alone'
    BY DEF AloneInv
  <2>1. Alone
    BY <1>14 DEF LockSlot, AloneInv
  <2>2. /\ Others(c)
        /\ op'[c] \in Starts => op[c] \in Starts
        /\ pc'[c] \notin {"ensure", "join", "follow"}
        /\ pc'[c] \in HostLive \union {"claim"} => pc[c] \in HostLive \union {"claim"}
    BY <1>14, LockSlotMoves, Constants DEF Moves, Goes, Ends, HostLive, Starts, Stops
  <2>3. /\ slot' \in {slot, NoSession} /\ (slot' = slot \/ mine'[c] = slot)
        /\ join' \in {join, "Idle"} \/ join # "Idle"
        /\ open' \subseteq open /\ dropped \subseteq dropped'
    BY <1>14, LockSlotMoves DEF LockSlot, lock, sculk, ghosts
  <2>4. mine'[c] = mine[c] \/ mine[c] \notin open' \/ mine[c] \in dropped'
    BY <1>14, LockSlotMoves, Constants DEF LockSlot, FreshInv, ShapeInv, Counted, NoSession,
       Moves, Goes, Ends, lock, sculk, ghosts
  <2> QED BY <2>1, <2>2, <2>3, <2>4, AloneAfter
<1>15. ASSUME NEW c \in Callers, Publish(c) PROVE AloneInv'
  <2> SUFFICES ASSUME ~overlap' PROVE Alone'
    BY DEF AloneInv
  <2>1. Alone
    BY <1>15 DEF Publish, AloneInv
  <2>2. /\ Others(c) /\ UNCHANGED <<open, join, dropped>> /\ slot' = mine[c] /\ op[c] = "host"
        /\ pc[c] = "publish" /\ pc'[c] = "idle" /\ op'[c] = None
    BY <1>15, PublishMoves DEF Publish, Moves, Ends, sculk, ghosts
  <2>3. slot = NoSession /\ join = "Idle" /\ NoSession \notin open
    <3>1. slot = NoSession /\ join = "Idle"
      BY <2>1, <2>2 DEF Alone, HostLive
    <3>2. NoSession \notin open
      BY Constants DEF ShapeInv, Counted, NoSession
    <3> QED BY <3>1, <3>2
  <2>4. \A d \in Callers : op'[d] \notin Starts
    BY <2>1, <2>2, Constants DEF Alone, Others, Starts
  <2>5. \A d \in Callers : pc'[d] \notin HostLive \union {"claim", "ensure", "join", "follow"}
    <3>1. \A d \in Callers \ {c} : op[d] \notin Starts
      BY <2>1, <2>2 DEF Alone, Starts
    <3>2. \A d \in Callers \ {c} : pc[d] \notin HostLive \union {"claim", "ensure", "join", "follow"}
      BY <3>1 DEF ShapeInv, ShapeOf, Starts
    <3> QED BY <2>2, <3>2 DEF Others, HostLive
  <2>6. open' \subseteq {slot'} \union {mine'[d] : d \in Callers} \union dropped'
    BY <2>1, <2>2, <2>3 DEF Alone, InHand, Others
  <2> QED BY <2>2, <2>3, <2>4, <2>5, <2>6 DEF Alone, InHand
<1>16. ASSUME NEW c \in Callers, Abandon(c) PROVE AloneInv'
  <2> SUFFICES ASSUME ~overlap' PROVE Alone'
    BY DEF AloneInv
  <2>1. Alone
    BY <1>16 DEF Abandon, AloneInv
  <2>2. /\ Others(c)
        /\ op'[c] \in Starts => op[c] \in Starts
        /\ pc'[c] \notin {"ensure", "join", "follow"}
        /\ pc'[c] \in HostLive \union {"claim"} => pc[c] \in HostLive \union {"claim"}
    BY <1>16, AbandonMoves, Constants DEF Moves, Goes, Ends, HostLive, Starts, Stops
  <2>3. /\ slot' \in {slot, NoSession} /\ (slot' = slot \/ mine'[c] = slot)
        /\ join' \in {join, "Idle"} \/ join # "Idle"
        /\ open' \subseteq open /\ dropped \subseteq dropped'
    BY <1>16, AbandonMoves DEF Abandon, ReturnHost, lock, sculk, ghosts
  <2>4. mine'[c] = mine[c] \/ mine[c] \notin open' \/ mine[c] \in dropped'
    BY <1>16, AbandonMoves, Constants DEF Abandon, ReturnHost, FreshInv, ShapeInv, Counted,
       NoSession, Moves, Goes, Ends, lock, sculk, ghosts
  <2> QED BY <2>1, <2>2, <2>3, <2>4, AloneAfter
<1>17. ASSUME NEW c \in Callers, BeginStop(c) PROVE AloneInv'
  <2> SUFFICES ASSUME ~overlap' PROVE Alone'
    BY DEF AloneInv
  <2>1. Alone
    BY <1>17 DEF BeginStop, AloneInv
  <2>2. /\ Others(c)
        /\ op'[c] \in Starts => op[c] \in Starts
        /\ pc'[c] \notin {"ensure", "join", "follow"}
        /\ pc'[c] \in HostLive \union {"claim"} => pc[c] \in HostLive \union {"claim"}
    BY <1>17, BeginStopMoves, Constants DEF Moves, Goes, Ends, HostLive, Starts, Stops
  <2>3. /\ slot' \in {slot, NoSession} /\ (slot' = slot \/ mine'[c] = slot)
        /\ join' \in {join, "Idle"} \/ join # "Idle"
        /\ open' \subseteq open /\ dropped \subseteq dropped'
    BY <1>17, BeginStopMoves DEF BeginStop, lock, sculk, ghosts
  <2>4. mine'[c] = mine[c] \/ mine[c] \notin open' \/ mine[c] \in dropped'
    BY <1>17, BeginStopMoves, Constants DEF BeginStop, FreshInv, ShapeInv, Counted, NoSession,
       Moves, Goes, Ends, lock, sculk, ghosts
  <2> QED BY <2>1, <2>2, <2>3, <2>4, AloneAfter
<1>18. ASSUME NEW c \in Callers, Take(c) PROVE AloneInv'
  <2> SUFFICES ASSUME ~overlap' PROVE Alone'
    BY DEF AloneInv
  <2>1. Alone
    BY <1>18 DEF Take, AloneInv
  <2>2. /\ Others(c)
        /\ op'[c] \in Starts => op[c] \in Starts
        /\ pc'[c] \notin {"ensure", "join", "follow"}
        /\ pc'[c] \in HostLive \union {"claim"} => pc[c] \in HostLive \union {"claim"}
    BY <1>18, TakeMoves, Constants DEF Moves, Goes, Ends, HostLive, Starts, Stops
  <2>3. /\ slot' \in {slot, NoSession} /\ (slot' = slot \/ mine'[c] = slot)
        /\ join' \in {join, "Idle"} \/ join # "Idle"
        /\ open' \subseteq open /\ dropped \subseteq dropped'
    BY <1>18, TakeMoves DEF Take, Moves, lock, sculk, ghosts
  <2>4. mine'[c] = mine[c] \/ mine[c] \notin open' \/ mine[c] \in dropped'
    <3>1. NoSession \notin open
      BY Constants DEF ShapeInv, Counted, NoSession
    <3>2. mine[c] = NoSession /\ open' = open
      BY <1>18, TakeMoves DEF Take, sculk
    <3> QED BY <3>1, <3>2
  <2> QED BY <2>1, <2>2, <2>3, <2>4, AloneAfter
<1>19. ASSUME NEW c \in Callers, Quiet(c) PROVE AloneInv'
  <2> SUFFICES ASSUME ~overlap' PROVE Alone'
    BY DEF AloneInv
  <2>1. Alone
    BY <1>19 DEF Quiet, AloneInv
  <2>2. /\ Others(c)
        /\ op'[c] \in Starts => op[c] \in Starts
        /\ pc'[c] \notin {"ensure", "join", "follow"}
        /\ pc'[c] \in HostLive \union {"claim"} => pc[c] \in HostLive \union {"claim"}
    BY <1>19, QuietMoves, Constants DEF Moves, Goes, Ends, HostLive, Starts, Stops
  <2>3. /\ slot' \in {slot, NoSession} /\ (slot' = slot \/ mine'[c] = slot)
        /\ join' \in {join, "Idle"} \/ join # "Idle"
        /\ open' \subseteq open /\ dropped \subseteq dropped'
    BY <1>19, QuietMoves DEF Quiet, lock, sculk, ghosts
  <2>4. mine'[c] = mine[c] \/ mine[c] \notin open' \/ mine[c] \in dropped'
    BY <1>19, QuietMoves, Constants DEF Quiet, FreshInv, ShapeInv, Counted, NoSession, Moves,
       Goes, Ends, lock, sculk, ghosts
  <2> QED BY <2>1, <2>2, <2>3, <2>4, AloneAfter
<1>20. ASSUME NEW c \in Callers, Close(c) PROVE AloneInv'
  <2> SUFFICES ASSUME ~overlap' PROVE Alone'
    BY DEF AloneInv
  <2>1. Alone
    BY <1>20 DEF Close, AloneInv
  <2>2. /\ Others(c)
        /\ op'[c] \in Starts => op[c] \in Starts
        /\ pc'[c] \notin {"ensure", "join", "follow"}
        /\ pc'[c] \in HostLive \union {"claim"} => pc[c] \in HostLive \union {"claim"}
    BY <1>20, CloseMoves, Constants DEF Moves, Goes, Ends, HostLive, Starts, Stops
  <2>3. /\ slot' \in {slot, NoSession} /\ (slot' = slot \/ mine'[c] = slot)
        /\ join' \in {join, "Idle"} \/ join # "Idle"
        /\ open' \subseteq open /\ dropped \subseteq dropped'
    BY <1>20, CloseMoves, AnswerIs DEF Close, lock, sculk, ghosts
  <2>4. mine'[c] = mine[c] \/ mine[c] \notin open' \/ mine[c] \in dropped'
    BY <1>20, CloseMoves, Constants DEF Close, FreshInv, ShapeInv, Counted, NoSession, Moves,
       Goes, Ends, lock, sculk, ghosts
  <2> QED BY <2>1, <2>2, <2>3, <2>4, AloneAfter
<1>21. ASSUME NEW c \in Callers, JoinIsIdle(c) PROVE AloneInv'
  <2> SUFFICES ASSUME ~overlap' PROVE Alone'
    BY DEF AloneInv
  <2>1. Alone
    BY <1>21 DEF JoinIsIdle, AloneInv
  <2>2. /\ Others(c)
        /\ op'[c] \in Starts => op[c] \in Starts
        /\ pc'[c] \notin {"ensure", "join", "follow"}
        /\ pc'[c] \in HostLive \union {"claim"} => pc[c] \in HostLive \union {"claim"}
    BY <1>21, JoinIsIdleMoves, Constants DEF Moves, Goes, Ends, HostLive, Starts, Stops
  <2>3. /\ slot' \in {slot, NoSession} /\ (slot' = slot \/ mine'[c] = slot)
        /\ join' \in {join, "Idle"} \/ join # "Idle"
        /\ open' \subseteq open /\ dropped \subseteq dropped'
    BY <1>21, JoinIsIdleMoves, AnswerIs DEF JoinIsIdle, lock, sculk, ghosts
  <2>4. mine'[c] = mine[c] \/ mine[c] \notin open' \/ mine[c] \in dropped'
    BY <1>21, JoinIsIdleMoves, Constants DEF JoinIsIdle, FreshInv, ShapeInv, Counted, NoSession,
       Moves, Goes, Ends, lock, sculk, ghosts
  <2> QED BY <2>1, <2>2, <2>3, <2>4, AloneAfter
<1>22. ASSUME NEW c \in Callers, StopJoin(c) PROVE AloneInv'
  <2> SUFFICES ASSUME ~overlap' PROVE Alone'
    BY DEF AloneInv
  <2>1. Alone
    BY <1>22 DEF StopJoin, AloneInv
  <2>2. /\ Others(c)
        /\ op'[c] \in Starts => op[c] \in Starts
        /\ pc'[c] \notin {"ensure", "join", "follow"}
        /\ pc'[c] \in HostLive \union {"claim"} => pc[c] \in HostLive \union {"claim"}
    BY <1>22, StopJoinMoves, Constants DEF Moves, Goes, Ends, HostLive, Starts, Stops
  <2>3. /\ slot' \in {slot, NoSession} /\ (slot' = slot \/ mine'[c] = slot)
        /\ join' \in {join, "Idle"} \/ join # "Idle"
        /\ open' \subseteq open /\ dropped \subseteq dropped'
    BY <1>22, StopJoinMoves, AnswerIs DEF StopJoin, lock, sculk, ghosts
  <2>4. mine'[c] = mine[c] \/ mine[c] \notin open' \/ mine[c] \in dropped'
    BY <1>22, StopJoinMoves, Constants DEF StopJoin, FreshInv, ShapeInv, Counted, NoSession,
       Moves, Goes, Ends, lock, sculk, ghosts
  <2> QED BY <2>1, <2>2, <2>3, <2>4, AloneAfter
<1>23. ASSUME NEW c \in Callers, JoinStopped(c) PROVE AloneInv'
  <2> SUFFICES ASSUME ~overlap' PROVE Alone'
    BY DEF AloneInv
  <2>1. Alone
    BY <1>23 DEF JoinStopped, AloneInv
  <2>2. /\ Others(c)
        /\ op'[c] \in Starts => op[c] \in Starts
        /\ pc'[c] \notin {"ensure", "join", "follow"}
        /\ pc'[c] \in HostLive \union {"claim"} => pc[c] \in HostLive \union {"claim"}
    BY <1>23, JoinStoppedMoves, Constants DEF Moves, Goes, Ends, HostLive, Starts, Stops
  <2>3. /\ slot' \in {slot, NoSession} /\ (slot' = slot \/ mine'[c] = slot)
        /\ join' \in {join, "Idle"} \/ join # "Idle"
        /\ open' \subseteq open /\ dropped \subseteq dropped'
    BY <1>23, JoinStoppedMoves, AnswerIs DEF JoinStopped, lock, sculk, ghosts
  <2>4. mine'[c] = mine[c] \/ mine[c] \notin open' \/ mine[c] \in dropped'
    BY <1>23, JoinStoppedMoves, Constants DEF JoinStopped, FreshInv, ShapeInv, Counted,
       NoSession, Moves, Goes, Ends, lock, sculk, ghosts
  <2> QED BY <2>1, <2>2, <2>3, <2>4, AloneAfter
<1>24. ASSUME NEW c \in Callers, Hush(c) PROVE AloneInv'
  <2> SUFFICES ASSUME ~overlap' PROVE Alone'
    BY DEF AloneInv
  <2>1. Alone
    BY <1>24 DEF Hush, AloneInv
  <2>2. /\ Others(c)
        /\ op'[c] \in Starts => op[c] \in Starts
        /\ pc'[c] \notin {"ensure", "join", "follow"}
        /\ pc'[c] \in HostLive \union {"claim"} => pc[c] \in HostLive \union {"claim"}
    BY <1>24, HushMoves, Constants DEF Moves, Goes, Ends, HostLive, Starts, Stops
  <2>3. /\ slot' \in {slot, NoSession} /\ (slot' = slot \/ mine'[c] = slot)
        /\ join' \in {join, "Idle"} \/ join # "Idle"
        /\ open' \subseteq open /\ dropped \subseteq dropped'
    BY <1>24, HushMoves, AnswerIs DEF Hush, lock, sculk, ghosts
  <2>4. mine'[c] = mine[c] \/ mine[c] \notin open' \/ mine[c] \in dropped'
    BY <1>24, HushMoves, Constants DEF Hush, FreshInv, ShapeInv, Counted, NoSession, Moves, Goes,
       Ends, lock, sculk, ghosts
  <2> QED BY <2>1, <2>2, <2>3, <2>4, AloneAfter
<1>25. ASSUME NEW c \in Callers, BeginQuery(c) PROVE AloneInv'
  <2> SUFFICES ASSUME ~overlap' PROVE Alone'
    BY DEF AloneInv
  <2>1. Alone
    BY <1>25 DEF BeginQuery, AloneInv
  <2>2. /\ Others(c)
        /\ op'[c] \in Starts => op[c] \in Starts
        /\ pc'[c] \notin {"ensure", "join", "follow"}
        /\ pc'[c] \in HostLive \union {"claim"} => pc[c] \in HostLive \union {"claim"}
    BY <1>25, BeginQueryMoves, Constants DEF Moves, Goes, Ends, HostLive, Starts, Stops
  <2>3. /\ slot' \in {slot, NoSession} /\ (slot' = slot \/ mine'[c] = slot)
        /\ join' \in {join, "Idle"} \/ join # "Idle"
        /\ open' \subseteq open /\ dropped \subseteq dropped'
    BY <1>25, BeginQueryMoves DEF BeginQuery, lock, sculk, ghosts
  <2>4. mine'[c] = mine[c] \/ mine[c] \notin open' \/ mine[c] \in dropped'
    BY <1>25, BeginQueryMoves, Constants DEF BeginQuery, FreshInv, ShapeInv, Counted, NoSession,
       Moves, Goes, Ends, lock, sculk, ghosts
  <2> QED BY <2>1, <2>2, <2>3, <2>4, AloneAfter
<1>26. ASSUME NEW c \in Callers, EndQuery(c) PROVE AloneInv'
  <2> SUFFICES ASSUME ~overlap' PROVE Alone'
    BY DEF AloneInv
  <2>1. Alone
    BY <1>26 DEF EndQuery, AloneInv
  <2>2. /\ Others(c)
        /\ op'[c] \in Starts => op[c] \in Starts
        /\ pc'[c] \notin {"ensure", "join", "follow"}
        /\ pc'[c] \in HostLive \union {"claim"} => pc[c] \in HostLive \union {"claim"}
    BY <1>26, EndQueryMoves, Constants DEF Moves, Goes, Ends, HostLive, Starts, Stops
  <2>3. /\ slot' \in {slot, NoSession} /\ (slot' = slot \/ mine'[c] = slot)
        /\ join' \in {join, "Idle"} \/ join # "Idle"
        /\ open' \subseteq open /\ dropped \subseteq dropped'
    BY <1>26, EndQueryMoves DEF EndQuery, lock, sculk, ghosts
  <2>4. mine'[c] = mine[c] \/ mine[c] \notin open' \/ mine[c] \in dropped'
    BY <1>26, EndQueryMoves, Constants DEF EndQuery, FreshInv, ShapeInv, Counted, NoSession,
       Moves, Goes, Ends, lock, sculk, ghosts
  <2> QED BY <2>1, <2>2, <2>3, <2>4, AloneAfter
<1>27. ASSUME JoinMoves PROVE AloneInv'
  <2> SUFFICES ASSUME ~overlap' PROVE Alone'
    BY DEF AloneInv
  <2>1. Alone
    BY <1>27 DEF JoinMoves, AloneInv
  <2>2. UNCHANGED <<slot, open, pc, op, mine, busy, dropped>> /\ join # "Idle"
    BY <1>27 DEF JoinMoves, lock, local, ghosts
  <2>3. slot = NoSession /\ \A c \in Callers : pc[c] \notin HostLive \union {"claim"}
    BY <2>1, <2>2 DEF Alone
  <2> QED BY <2>1, <2>2, <2>3 DEF Alone, InHand
<1>28. ASSUME Hear PROVE AloneInv'
  <2> SUFFICES ASSUME ~overlap' PROVE Alone'
    BY DEF AloneInv
  <2>1. Alone
    BY <1>28 DEF Hear, AloneInv
  <2> QED BY <1>28, <2>1 DEF Hear, Alone, InHand, lock, sculk, local, ghosts
<1>29. ASSUME Apply PROVE AloneInv'
  <2> SUFFICES ASSUME ~overlap' PROVE Alone'
    BY DEF AloneInv
  <2>1. Alone
    BY <1>29 DEF Apply, AloneInv
  <2> QED BY <1>29, <2>1 DEF Apply, Alone, InHand, lock, sculk, local, ghosts
<1>30. CASE UNCHANGED vars
  BY <1>30 DEF vars, AloneInv, Alone, InHand, lock, sculk, local, ghosts
<1> QED BY <1>1, <1>2, <1>3, <1>4, <1>5, <1>6, <1>7, <1>8, <1>9, <1>10, <1>11, <1>12, <1>13,
           <1>14, <1>15, <1>16, <1>17, <1>18, <1>19, <1>20, <1>21, <1>22, <1>23, <1>24, <1>25,
           <1>26, <1>27, <1>28, <1>29, <1>30 DEF Next, Start, Stop

LEMMA Invariants == Spec => [](TypeOK /\ ShapeInv /\ FreshInv /\ EndInv /\ AloneInv)
<1>1. Init => FreshInv /\ EndInv /\ AloneInv
  <2> SUFFICES ASSUME Init PROVE FreshInv /\ EndInv /\ Alone
    BY DEF AloneInv
  <2>1. \A c \in Callers : pc[c] = "idle" /\ op[c] = None
    BY DEF Init
  <2>2. FreshInv /\ EndInv
    BY <2>1 DEF Init, FreshInv, EndInv, Spared, HostLive, Ending
  <2>3. Alone
    BY <2>1, Constants DEF Init, Alone, HostLive
  <2> QED BY <2>2, <2>3
<1> QED BY <1>1, ShapesStart, ShapesStep, FreshStep, EndStep, AloneStep, PTL DEF Spec

\* Starts that do not overlap never make a second tunnel, and no open node is lost
\* but by a status query that fails (ensure_idle, host, join, stop, shutdown).
THEOREM OneAtMost == Spec => []OneTunnel
<1>1. AloneInv => OneTunnel
  BY DEF AloneInv, Alone, OneTunnel
<1> QED BY <1>1, Invariants, PTL

\* A session that an answered stop found started is not published, and its node is
\* closed when its call ends (host_cancel, set by stop, read by host).
THEOREM StopsAreFinal == Spec => []StopIsFinal
<1>1. EndInv /\ AloneInv => StopIsFinal
  BY DEF EndInv, Spared, AloneInv, Alone, StopIsFinal
<1> QED BY <1>1, Invariants, PTL
=============================================================================
