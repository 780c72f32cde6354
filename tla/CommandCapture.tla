--------------------------- MODULE CommandCapture ---------------------------
(***************************************************************************)
(* capture_command_output (application/src/service/command_capture.rs) and *)
(* the registry of capture senders (log_recorder.rs), for one server: a    *)
(* capture registers a channel, sends its command, collects the lines the  *)
(* server prints and removes its channel by the slot it was given.         *)
(***************************************************************************)
EXTENDS Naturals, Sequences, FiniteSets, SequencesExt

CONSTANTS Calls,      \* bound: calls of capture_command_output
          MaxActive,  \* bound: calls at one time
          Capacity,   \* of a capture's channel
          MayCancel   \* may a capture's future be dropped?

ASSUME CaptureAssumption ==
    /\ Calls \in Nat /\ MaxActive \in Nat
    /\ Capacity \in Nat
    /\ MayCancel \in BOOLEAN

Captures == 1..Calls   \* numbered in the order in which they begin
Noise    == 0          \* a line that answers no command

VARIABLES slots,    \* CAPTURE_SENDERS[server]: whose sender is in which slot
          index,    \* index[c]: of its sender, as register returned it, 1-based
          stage,    \* where each capture is
          inbox,    \* inbox[c]: lines sent to its receiver, not taken
          heard,    \* heard[c]: lines it collected
          due,      \* commands of active captures the server will answer
          forwarded, to, \* the line being forwarded, the senders cloned for it
          reached,  \* history: active captures whose answer was forwarded in time
          overrun,  \* history: active captures whose channel was full for a line
          overlap   \* history: did two captures ever run at once?

registry == <<slots, index>>
forward  == <<forwarded, to>>
ghosts   == <<reached, overrun, overlap>>
captureVars == <<registry, stage, inbox, heard, due, forward, ghosts>>

Ended  == {"ok", "noresponse", "err", "cancelled"}
Active == {c \in Captures : stage[c] \notin Ended \union {"idle"}}

CaptureInit ==
    /\ slots = <<>> /\ index = [c \in Captures |-> 0]
    /\ stage = [c \in Captures |-> "idle"]
    /\ inbox = [c \in Captures |-> <<>>]
    /\ heard = [c \in Captures |-> {}]
    /\ due = {}
    /\ forwarded = Noise /\ to = <<>>
    /\ reached = {} /\ overrun = {} /\ overlap = FALSE

-----------------------------------------------------------------------------
(* The capture.                                                             *)

Move(c, label) == stage' = [stage EXCEPT ![c] = label]

\* The call returns or is dropped, and with it its receiver.
End(c, outcome) ==
    /\ Move(c, outcome)
    /\ inbox' = [inbox EXCEPT ![c] = <<>>]
    /\ heard' = [heard EXCEPT ![c] = {}]
    /\ due' = due \ {c}
    /\ reached' = reached \ {c} /\ overrun' = overrun \ {c}
    /\ UNCHANGED overlap

Register(c) ==
    /\ stage[c] = "idle" /\ Cardinality(Active) < MaxActive
    /\ \A d \in Captures : d < c => stage[d] # "idle"
    /\ slots' = Append(slots, c)
    /\ index' = [index EXCEPT ![c] = Len(slots) + 1]
    /\ overlap' = (overlap \/ Active # {})
    /\ Move(c, "send")
    /\ UNCHANGED <<inbox, heard, due, forward, reached, overrun>>

\* Mutant: the bound of the slot is checked off by one.
RemoveBelowLast(c) ==
    /\ slots' = IF index[c] < Len(slots) THEN RemoveAt(slots, index[c]) ELSE slots
    /\ index' = [index EXCEPT ![c] = 0]

\* deregister_capture_sender: whoever is in the slot by now is removed.
Deregister(c) ==
    /\ slots' = IF index[c] \in DOMAIN slots THEN RemoveAt(slots, index[c]) ELSE slots
    /\ index' = [index EXCEPT ![c] = 0]

CommandFails(c) ==
    /\ stage[c] = "send"
    /\ Deregister(c)
    /\ End(c, "err")
    /\ UNCHANGED forward

SendCommand(c) ==
    /\ stage[c] = "send"
    /\ due' = due \union {c}
    /\ Move(c, "drain")
    /\ UNCHANGED <<registry, inbox, heard, forward, ghosts>>

\* The deadline is looked at before every receive.
Drain(c) ==
    /\ stage[c] = "drain"
    /\ Move(c, "receive")
    /\ UNCHANGED <<registry, inbox, heard, due, forward, ghosts>>

DeadlinePassed(c) ==
    /\ stage[c] = "drain"
    /\ Move(c, "close")
    /\ UNCHANGED <<registry, inbox, heard, due, forward, ghosts>>

\* Mutant: only the first line is kept.
TakeFirstOnly(c) ==
    /\ stage[c] = "receive" /\ inbox[c] # <<>>
    /\ heard' = [heard EXCEPT ![c] = IF @ = {} THEN {Head(inbox[c])} ELSE @]
    /\ inbox' = [inbox EXCEPT ![c] = Tail(@)]
    /\ Move(c, "drain")
    /\ UNCHANGED <<registry, due, forward, ghosts>>

Take(c) ==
    /\ stage[c] = "receive" /\ inbox[c] # <<>>
    /\ heard' = [heard EXCEPT ![c] = @ \union {Head(inbox[c])}]
    /\ inbox' = [inbox EXCEPT ![c] = Tail(@)]
    /\ Move(c, "drain")
    /\ UNCHANGED <<registry, due, forward, ghosts>>

\* Mutant: silence before the first line waits for ever.
SilenceWaits(c) ==
    /\ stage[c] = "receive" /\ inbox[c] = <<>> /\ heard[c] # {}
    /\ Move(c, "close")
    /\ UNCHANGED <<registry, inbox, heard, due, forward, ghosts>>

\* stable_wait without a line: over if some line came before.
Silence(c) ==
    /\ stage[c] = "receive" /\ inbox[c] = <<>>
    /\ Move(c, IF heard[c] # {} THEN "close" ELSE "drain")
    /\ UNCHANGED <<registry, inbox, heard, due, forward, ghosts>>

\* Every sender of the channel is gone.
Disconnected(c) ==
    /\ stage[c] = "receive" /\ inbox[c] = <<>>
    /\ ~Contains(slots, c) /\ ~Contains(to, c)
    /\ Move(c, "close")
    /\ UNCHANGED <<registry, inbox, heard, due, forward, ghosts>>

Close(c) ==
    /\ stage[c] = "close"
    /\ Deregister(c)
    /\ End(c, IF heard[c] # {} THEN "ok" ELSE "noresponse")
    /\ UNCHANGED forward

DropCapture(c) ==
    /\ MayCancel
    /\ stage[c] \in {"send", "receive"}
    /\ End(c, "cancelled")
    /\ UNCHANGED <<registry, forward>>

Capture(c) == \/ Register(c) \/ CommandFails(c) \/ SendCommand(c) \/ Drain(c) \/ DeadlinePassed(c)
              \/ Take(c) \/ Silence(c) \/ Disconnected(c) \/ Close(c) \/ DropCapture(c)

-----------------------------------------------------------------------------
(* The log writer's callback: forward_to_capture_senders.                   *)

\* The server prints a line; the senders are cloned under the registry lock.
\* The answer to a capture that ended, and to a command nobody captures, is
\* noise like any other line.
Answer ==
    /\ to = <<>>
    /\ \/ forwarded' \in due /\ due' = due \ {forwarded'} /\ reached' = reached \union {forwarded'}
       \/ forwarded' = Noise /\ UNCHANGED <<due, reached>>
    /\ to' = slots
    /\ UNCHANGED <<registry, stage, inbox, heard, overrun, overlap>>

AsHeardBy(c) == IF forwarded = c THEN c ELSE Noise

\* Mutant: send instead of try_send, on a channel taken for unbounded.
SendAlways ==
    /\ to # <<>>
    /\ LET c == Head(to) IN
       IF c \in Active
       THEN inbox' = [inbox EXCEPT ![c] = Append(@, AsHeardBy(c))] /\ UNCHANGED overrun
       ELSE overrun' = overrun \union ({c} \intersect Active) /\ UNCHANGED inbox
    /\ to' = Tail(to)
    /\ forwarded' = IF to' = <<>> THEN Noise ELSE forwarded
    /\ UNCHANGED <<registry, stage, heard, due, reached, overlap>>

\* try_send to the next clone: dropped if its channel is full or closed.
TrySend ==
    /\ to # <<>>
    /\ LET c == Head(to) IN
       IF c \in Active /\ Len(inbox[c]) < Capacity
       THEN inbox' = [inbox EXCEPT ![c] = Append(@, AsHeardBy(c))] /\ UNCHANGED overrun
       ELSE overrun' = overrun \union ({c} \intersect Active) /\ UNCHANGED inbox
    /\ to' = Tail(to)
    /\ forwarded' = IF to' = <<>> THEN Noise ELSE forwarded
    /\ UNCHANGED <<registry, stage, heard, due, reached, overlap>>

Finished == (\A c \in Captures : stage[c] \in Ended) /\ UNCHANGED captureVars

CaptureNext == \/ \E c \in Captures : Capture(c)
        \/ Answer \/ TrySend \/ Finished

CaptureSpec == CaptureInit /\ [][CaptureNext]_captureVars

\* A capture that began is scheduled, and looks at its deadline, which stays
\* where it is, again and again until it has passed; the server need not answer,
\* and nobody need begin or cancel a capture.
CaptureFairness ==
    /\ \A c \in Captures :
        /\ WF_captureVars(CommandFails(c) \/ SendCommand(c)) /\ WF_captureVars(Close(c))
        /\ WF_captureVars(Drain(c)) /\ SF_captureVars(DeadlinePassed(c))
        /\ WF_captureVars(Take(c) \/ Silence(c) \/ Disconnected(c))
    /\ WF_captureVars(TrySend)

CaptureFairSpec == CaptureSpec /\ CaptureFairness

-----------------------------------------------------------------------------
(* Properties.                                                              *)

\* Every variable has its type; no channel holds more than its capacity.
CaptureTypeOK ==
    /\ slots \in Seq(Captures) /\ index \in [Captures -> Nat]
    /\ stage \in [Captures -> Ended \union {"idle", "send", "drain", "receive", "close"}]
    /\ inbox \in [Captures -> Seq(Captures \union {Noise})]
    /\ \A c \in Captures : Len(inbox[c]) <= Capacity
    /\ heard \in [Captures -> SUBSET (Captures \union {Noise})]
    /\ due \subseteq Captures
    /\ forwarded \in Captures \union {Noise} /\ to \in Seq(Captures)
    /\ reached \subseteq Captures /\ overrun \subseteq Captures
    /\ overlap \in BOOLEAN

\* While captures do not overlap the registry holds the sender of the one under
\* way and those that dropped futures left behind, and each once.
AloneIsExact ==
    ~overlap => /\ ToSet(slots) = Active \union {c \in Captures : stage[c] = "cancelled"}
                /\ IsInjective(slots)

\* command_capture.rs:66: a channel registered before the command is sent
\* misses no line of the answer: once forwarded to a capture that is alone, the
\* answer is in its hands or in its channel, unless the channel was full.
AnswerReaches ==
    ~overlap => \A c \in reached \ overrun :
        stage[c] \in {"drain", "receive", "close"} /\ ~Contains(to, c)
            => c \in heard[c] \/ Contains(inbox[c], c)

\* A capture that overlaps with no other is served, and leaves nothing behind.
AloneIsServed == AloneIsExact /\ AnswerReaches

\* Every capture that began returns, with or without an answer, even if its
\* sender was removed by another capture.
CapturesReturn == \A c \in Captures : stage[c] = "send" ~> stage[c] \in Ended

\* log_recorder.rs:77: deregistering drops the sender of that capture, and
\* so the registry holds one sender for each capture under way and no other.
SendersMatchCaptures == ToSet(slots) = Active /\ IsInjective(slots)
=============================================================================
