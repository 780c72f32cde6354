------------------------------- MODULE Downloads -------------------------------
(***************************************************************************)
(* The download manager (crates/infra/src/download) under the download     *)
(* service of the application: files fetched in ranges by parallel tasks,  *)
(* a monitor that gathers their results, and callers that poll and cancel. *)
(* All downloads here are saved to one path, the case nothing in the code  *)
(* forbids; each fetches a content of its own.                             *)
(***************************************************************************)
EXTENDS Naturals, FiniteSets

CONSTANTS MaxDownloads,  \* bound: downloads that get past the probe
          Total,         \* total_size, in blocks: what one write carries
          MaxThreads,    \* bound: thread_count
          MaxFaults,     \* bound: answers and tasks that go wrong by themselves
          Callers,       \* concurrent callers of poll and cancel
          None

ASSUME DownloadsAssumption ==
    /\ MaxDownloads \in Nat \ {0} /\ Total \in Nat \ {0} /\ MaxThreads \in Nat \ {0}
    /\ MaxFaults \in Nat
    /\ None \notin Nat

Downloads == 1..MaxDownloads    \* numbered in the order they create the file
Blocks    == 0..(Total - 1)
Chunks    == 1..MaxThreads
Hole      == 0                  \* a preallocated block nobody has written

VARIABLES
    file,       \* whose bytes each block of the saved file holds
    phase,      \* of the creating call: probing, opened, spawned, inserted, dropped
    tasks,      \* the manager's map: downloads that can be polled and cancelled
    chunk,      \* per download and range: where its task is
    range,      \* per download and range: the next block to write and the last
    flight,     \* a block handed to the blocking pool that is not on disk yet
    awaited,    \* the monitor: the chunk it awaits
    failed,     \* the monitor: has_error
    completed, errored, cancelled,   \* DownloadStatus
    pc, about, saw,     \* callers: where they are, the download, what they read
    crowded,    \* history: downloads that were not alone on the path
    faults,     \* the faults so far
    short       \* history: downloads of which a range was answered too short

status == <<completed, errored, cancelled>>
work   == <<chunk, range, flight>>
watch  == <<awaited, failed>>
calls  == <<pc, about, saw>>
ghosts == <<crowded, faults, short>>
vars   == <<file, phase, tasks, work, watch, status, calls, ghosts>>

Running == {"asked", "writing"}
Ended   == {"ok", "failed", "crashed", "absent"}

Unread == [error |-> FALSE, completed |-> FALSE]

Init ==
    /\ file = [b \in Blocks |-> Hole]
    /\ phase = [d \in Downloads |-> "probing"]
    /\ tasks = {}
    /\ chunk = [d \in Downloads |-> [i \in Chunks |-> "absent"]]
    /\ range = [d \in Downloads |-> [i \in Chunks |-> <<0, 0>>]]
    /\ flight = [d \in Downloads |-> [i \in Chunks |-> None]]
    /\ awaited = [d \in Downloads |-> 1] /\ failed = [d \in Downloads |-> FALSE]
    /\ completed = {} /\ errored = {} /\ cancelled = {}
    /\ pc = [c \in Callers |-> "idle"] /\ about = [c \in Callers |-> None]
    /\ saw = [c \in Callers |-> Unread]
    /\ crowded = {} /\ faults = 0 /\ short = {}

-----------------------------------------------------------------------------
(* split_ranges, for a total that is not 0.                                 *)

Count(total, threads) == IF threads < total THEN threads ELSE total

\* Mutant: a range ends where the next one begins.
SplitOver(total, threads) ==
    LET size == total \div Count(total, threads)
    IN  [i \in 1..Count(total, threads) |-> <<(i - 1) * size, i * size>>]

SplitRanges(total, threads) ==
    LET count == Count(total, threads)
        size  == total \div count
    IN  [i \in 1..count |->
            <<(i - 1) * size, IF i = count THEN total - 1 ELSE i * size - 1>>]

-----------------------------------------------------------------------------
(* Creating a download.                                                     *)

\* A task of d still runs, or a block it has written is not on disk yet.
Writes(d) == \E i \in Chunks : chunk[d][i] \in Running \/ flight[d][i] # None

\* The probe answered; the file is created, which empties an older one.
Open(d) ==
    /\ phase[d] = "probing"
    /\ \A e \in Downloads : e < d => phase[e] # "probing"
    /\ phase' = [phase EXCEPT ![d] = "opened"]
    /\ file' = [b \in Blocks |-> Hole]
    /\ crowded' = crowded \cup {e \in Downloads : e < d}
                          \cup (IF \E e \in Downloads : phase[e] = "opened" \/ Writes(e) THEN {d} ELSE {})
    /\ UNCHANGED <<tasks, work, watch, status, calls, faults, short>>

\* The chunk tasks and the monitor are spawned: one thread without ranges.
Spawn(d) ==
    /\ phase[d] = "opened"
    /\ phase' = [phase EXCEPT ![d] = "spawned"]
    /\ \E threads \in 1..MaxThreads :
          LET ranges == SplitRanges(Total, threads)
          IN  /\ range' = [range EXCEPT ![d] =
                    [i \in Chunks |-> IF i \in DOMAIN ranges THEN ranges[i] ELSE @[i]]]
              /\ chunk' = [chunk EXCEPT ![d] =
                    [i \in Chunks |-> IF i \in DOMAIN ranges THEN "asked" ELSE @[i]]]
    /\ UNCHANGED <<file, tasks, flight, watch, status, calls, ghosts>>

\* The manager learns of it under its lock.
Insert(d) ==
    /\ phase[d] = "spawned"
    /\ phase' = [phase EXCEPT ![d] = "inserted"]
    /\ tasks' = tasks \cup {d}
    /\ UNCHANGED <<file, work, watch, status, calls, ghosts>>

\* The request's future is dropped at an await, or the file cannot be made.
Drop(d) ==
    /\ phase[d] \in {"opened", "spawned"}
    /\ phase' = [phase EXCEPT ![d] = "dropped"]
    /\ UNCHANGED <<file, tasks, work, watch, status, calls, ghosts>>

-----------------------------------------------------------------------------
(* A chunk task.                                                            *)

EndChunk(d, i, how) ==
    /\ chunk' = [chunk EXCEPT ![d][i] = how]
    /\ range' = [range EXCEPT ![d][i] = <<0, 0>>]

Fault == faults < MaxFaults /\ faults' = faults + 1

\* A success status: a range, or to the task that starts at 0 the whole body.
Respond(d, i) ==
    /\ chunk[d][i] = "asked"
    /\ chunk' = [chunk EXCEPT ![d][i] = "writing"]
    /\ \/ UNCHANGED <<range, faults>>
       \/ range[d][i][1] = 0 /\ range' = [range EXCEPT ![d][i][2] = Total - 1] /\ Fault
    /\ UNCHANGED <<file, phase, tasks, flight, watch, status, calls, crowded, short>>

\* write_all: the file takes one write at a time.
Write(d, i) ==
    LET next == range[d][i][1]
    IN  /\ chunk[d][i] = "writing" /\ flight[d][i] = None
        /\ d \notin cancelled /\ next <= range[d][i][2]
        /\ flight' = [flight EXCEPT ![d][i] = next]
        /\ range' = [range EXCEPT ![d][i][1] = next + 1]
        /\ UNCHANGED <<file, phase, tasks, chunk, watch, status, calls, ghosts>>

\* The blocking pool writes it, whether or not the task still runs.
Land(d, i) ==
    /\ flight[d][i] # None
    /\ file' = [file EXCEPT ![flight[d][i]] = d]
    /\ flight' = [flight EXCEPT ![d][i] = None]
    /\ UNCHANGED <<phase, tasks, chunk, range, watch, status, calls, ghosts>>

\* Mutant: the last write is not waited for.
DrainedNot(d, i) == range[d][i][1] > range[d][i][2]

Drained(d, i) == flight[d][i] = None /\ range[d][i][1] > range[d][i][2]

\* The body ends, all of it is flushed.
Flush(d, i) ==
    /\ chunk[d][i] = "writing" /\ Drained(d, i)
    /\ EndChunk(d, i, "ok")
    /\ UNCHANGED <<file, phase, tasks, flight, watch, status, calls, ghosts>>

\* The server sends less than the range: the length is not compared.
EndShort(d, i) ==
    /\ chunk[d][i] = "writing" /\ flight[d][i] = None
    /\ range[d][i][1] <= range[d][i][2]
    /\ EndChunk(d, i, "ok")
    /\ Fault
    /\ short' = short \cup {d}
    /\ UNCHANGED <<file, phase, tasks, flight, watch, status, calls, crowded>>

\* A request, status, read or write that fails; a panic.
Fail(d, i) ==
    /\ chunk[d][i] \in Running /\ Fault
    /\ \/ EndChunk(d, i, "failed")
       \/ EndChunk(d, i, "crashed")
    /\ UNCHANGED <<file, phase, tasks, flight, watch, status, calls, crowded, short>>

\* The branch of the select! that sees the token drops the work where it is.
Abort(d, i) ==
    /\ chunk[d][i] \in Running /\ d \in cancelled
    /\ EndChunk(d, i, "failed")
    /\ UNCHANGED <<file, phase, tasks, flight, watch, status, calls, ghosts>>

-----------------------------------------------------------------------------
(* The monitor.                                                             *)

Awaits(d) == awaited[d] \in Chunks /\ chunk[d][awaited[d]] # "absent"

\* Mutant: a task that panicked only counts.
SaysNot(d, how) == how = "failed" /\ d \notin cancelled

\* set_error: always for a panic, else unless the download was cancelled.
Says(d, how) == how = "crashed" \/ (how = "failed" /\ d \notin cancelled)

Await(d) ==
    /\ phase[d] \in {"spawned", "inserted", "dropped"}
    /\ Awaits(d)
    /\ LET how == chunk[d][awaited[d]]
       IN  /\ how \in Ended
           /\ failed' = [failed EXCEPT ![d] = @ \/ how # "ok"]
           /\ errored' = IF Says(d, how) THEN errored \cup {d} ELSE errored
    /\ awaited' = [awaited EXCEPT ![d] = @ + 1]
    /\ UNCHANGED <<file, phase, tasks, work, completed, cancelled, calls, ghosts>>

Past == MaxThreads + 2    \* awaited: every chunk, and the flag was looked at
Gone == MaxThreads + 3    \* awaited: the monitor has ended

\* All are awaited: is the download neither failed nor cancelled?
Review(d) ==
    /\ chunk[d][1] # "absent"
    /\ awaited[d] < Past /\ ~Awaits(d)
    /\ awaited' = [awaited EXCEPT ![d] =
          IF ~failed[d] /\ d \notin cancelled THEN Past ELSE Gone]
    /\ UNCHANGED <<file, phase, tasks, work, failed, status, calls, ghosts>>

MarkCompleted(d) ==
    /\ awaited[d] = Past
    /\ awaited' = [awaited EXCEPT ![d] = Gone]
    /\ completed' = completed \cup {d}
    /\ UNCHANGED <<file, phase, tasks, work, failed, errored, cancelled, calls, ghosts>>

-----------------------------------------------------------------------------
(* get_progress and cancel.                                                 *)

Goto(c, label) == pc' = [pc EXCEPT ![c] = label]

\* The status is cloned under the read lock.
Get(c, d) ==
    /\ pc[c] = "idle" /\ d \in tasks
    /\ \/ Goto(c, "read_error")
       \/ Goto(c, "cancel")
    /\ about' = [about EXCEPT ![c] = d]
    /\ UNCHANGED <<file, phase, tasks, work, watch, status, saw, ghosts>>

\* snapshot: the error under its lock and the token, then the mark.
ReadError(c) ==
    /\ pc[c] = "read_error"
    /\ Goto(c, "read_mark")
    /\ saw' = [saw EXCEPT ![c].error = about[c] \in errored \cup cancelled]
    /\ UNCHANGED <<file, phase, tasks, work, watch, status, about, ghosts>>

ReadMark(c) ==
    /\ pc[c] = "read_mark"
    /\ Goto(c, "answer")
    /\ saw' = [saw EXCEPT ![c].completed = about[c] \in completed]
    /\ UNCHANGED <<file, phase, tasks, work, watch, status, about, ghosts>>

\* DownloadSnapshot and to_frontend_status.
Outcome(s) ==
    IF s.error THEN "Error"
    ELSE IF s.completed THEN "Completed" ELSE "Downloading"

Forget(c) ==
    /\ pc' = [pc EXCEPT ![c] = "idle"] /\ about' = [about EXCEPT ![c] = None]
    /\ saw' = [saw EXCEPT ![c] = Unread]

\* What is finished leaves the map, and the caller is told.
Answer(c) ==
    /\ pc[c] = "answer"
    /\ Forget(c)
    /\ tasks' = IF Outcome(saw[c]) = "Downloading" THEN tasks ELSE tasks \ {about[c]}
    /\ UNCHANGED <<file, phase, work, watch, status, ghosts>>

Cancel(c) ==
    /\ pc[c] = "cancel"
    /\ Goto(c, "untrack")
    /\ cancelled' = cancelled \cup {about[c]}
    /\ UNCHANGED <<file, phase, tasks, work, watch, completed, errored,
                   about, saw, ghosts>>

Untrack(c) ==
    /\ pc[c] = "untrack"
    /\ Forget(c)
    /\ tasks' = tasks \ {about[c]}
    /\ UNCHANGED <<file, phase, work, watch, status, ghosts>>

-----------------------------------------------------------------------------

ChunkStep(d, i) ==
    \/ Respond(d, i) \/ Write(d, i) \/ Flush(d, i) \/ EndShort(d, i) \/ Fail(d, i)
    \/ Abort(d, i)

Monitor(d) == Await(d) \/ Review(d) \/ MarkCompleted(d)

CallerStep(c) ==
    ReadError(c) \/ ReadMark(c) \/ Answer(c) \/ Cancel(c) \/ Untrack(c)

Next ==
    \/ \E d \in Downloads :
          \/ Open(d) \/ Spawn(d) \/ Insert(d) \/ Drop(d)
          \/ Monitor(d)
          \/ \E i \in Chunks : ChunkStep(d, i) \/ Land(d, i)
    \/ \E c \in Callers : CallerStep(c) \/ \E d \in Downloads : Get(c, d)

Spec == Init /\ [][Next]_vars

-----------------------------------------------------------------------------

\* The shape of the state.
TypeOK ==
    /\ file \in [Blocks -> Downloads \cup {Hole}]
    /\ phase \in [Downloads -> {"probing", "opened", "spawned", "inserted", "dropped"}]
    /\ tasks \subseteq Downloads
    /\ chunk \in [Downloads -> [Chunks -> Running \cup Ended]]
    /\ range \in [Downloads -> [Chunks -> (0..Total) \X Blocks]]
    /\ flight \in [Downloads -> [Chunks -> Blocks \cup {None}]]
    /\ awaited \in [Downloads -> 1..Gone] /\ failed \in [Downloads -> BOOLEAN]
    /\ completed \subseteq Downloads /\ errored \subseteq Downloads
    /\ cancelled \subseteq Downloads
    /\ pc \in [Callers -> {"idle", "read_error", "read_mark", "answer",
                           "cancel", "untrack"}]
    /\ about \in [Callers -> Downloads \cup {None}]
    /\ saw \in [Callers -> [error : BOOLEAN, completed : BOOLEAN]]
    /\ crowded \subseteq Downloads /\ faults \in 0..MaxFaults /\ short \subseteq Downloads

\* A caller told "Completed" finds a file with every block of that download on
\* disk, unless another download was saving to the same path or the server sent
\* less than a range.
CompletedIsWhole ==
    \A c \in Callers :
        pc[c] = "answer" /\ Outcome(saw[c]) = "Completed"
        /\ about[c] \notin crowded \cup short
            => \A b \in Blocks : file[b] = about[c]

Finished(d) == d \in completed \cup errored \cup cancelled

\* When the monitor has ended the download has a verdict for whoever polls it,
\* even if it is no longer in the map, and none of its tasks runs any more.
EndHasVerdict ==
    \A d \in Downloads :
        awaited[d] = Gone =>
            Finished(d) /\ \A i \in Chunks : chunk[d][i] \notin Running

=============================================================================
