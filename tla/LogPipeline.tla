---------------------------- MODULE LogPipeline ----------------------------
(***************************************************************************)
(* LogRecorder (application/src/service/log_recorder.rs) and LogWriter     *)
(* (crates/feature/src/server/log/writer.rs) of one server process: two    *)
(* reader tasks take lines from the process's pipes and submit them to an  *)
(* unbounded channel; one writer task batches them into SQLite             *)
(* transactions and, for each inserted row, publishes an event that        *)
(* carries the row id.                                                     *)
(***************************************************************************)
EXTENDS Naturals, Sequences, FiniteSets

CONSTANTS Outputs,      \* the process's output streams, one reader each
          Startup,      \* the recorder's own first line
          Stop,         \* WriteCommand::Shutdown
          MaxLines,     \* bound: lines the process writes to each output
          BatchSize,    \* LOG_BATCH_SIZE
          Window        \* LOG_FLUSH_INTERVAL, in ticks

ASSUME PipelineAssumption ==
    /\ MaxLines \in Nat
    /\ BatchSize \in Nat \ {0}
    /\ Window \in Nat \ {0}
    /\ Startup \notin Outputs

VARIABLES alive,     \* is the process running?
          written,   \* written[o]: lines the process wrote to o
          pipe,      \* pipe[o]: those nobody read yet
          reader,    \* reader[o]: "reading" until the end of file
          keeper,    \* where the recorder's owner is
          channel,   \* commands between submit and the writer task
          writer,    \* where the writer task is
          batch,     \* lines received and not yet handed to a transaction
          pending,   \* lines of the running flush, still to be inserted
          rows,      \* lines the open transaction has inserted
          db,        \* committed rows: the row id is the position
          events,    \* events published, as [seq, line]
          idle,      \* ticks since the writer's select began to wait
          accepted,  \* history: lines submitted before Stop
          lost       \* history: lines of transactions that failed

process == <<alive, written, pipe>>
flush   == <<pending, rows, db, events, lost>>
logVars == <<process, reader, keeper, channel, writer, batch, flush, idle, accepted>>

Line  == [from : Outputs, n : 1..MaxLines] \union [from : {Startup}, n : {1}]
Event == [seq : Nat \ {0}, line : Line]

ASSUME StopIsNoLine == Stop \notin Line

InSeq(s) == {s[i] : i \in DOMAIN s}

LogInit ==
    /\ alive = TRUE
    /\ written = [o \in Outputs |-> 0]
    /\ pipe = [o \in Outputs |-> <<>>]
    /\ reader = [o \in Outputs |-> "reading"]
    /\ keeper = "starting"
    /\ channel = <<>> /\ batch = <<>> /\ pending = <<>> /\ rows = <<>> /\ db = <<>>
    /\ writer \in {"recv", "none"}
    /\ events = {}
    /\ idle = 0
    /\ accepted = {} /\ lost = {}

-----------------------------------------------------------------------------
(* The process and its readers.                                             *)

Emit(o) ==
    /\ alive /\ written[o] < MaxLines
    /\ written' = [written EXCEPT ![o] = @ + 1]
    /\ pipe' = [pipe EXCEPT ![o] = Append(@, [from |-> o, n |-> written[o] + 1])]
    /\ UNCHANGED <<alive, reader, keeper, channel, writer, batch, flush, idle, accepted>>

Exit ==
    /\ alive
    /\ alive' = FALSE
    /\ UNCHANGED <<written, pipe, reader, keeper, channel, writer, batch, flush, idle, accepted>>

\* submit: a send to a writer that has ended is ignored.
Submit(line) ==
    /\ channel' = IF writer \in {"none", "ended"} THEN channel ELSE Append(channel, line)
    /\ accepted' = IF writer \in {"none", "ended"} \/ Stop \in InSeq(channel)
                   THEN accepted ELSE accepted \union {line}

Read(o) ==
    /\ reader[o] = "reading" /\ pipe[o] # <<>>
    /\ Submit(Head(pipe[o]))
    /\ pipe' = [pipe EXCEPT ![o] = Tail(@)]
    /\ UNCHANGED <<alive, written, reader, keeper, writer, batch, flush, idle>>

EndOfFile(o) ==
    /\ reader[o] = "reading" /\ pipe[o] = <<>> /\ ~alive
    /\ reader' = [reader EXCEPT ![o] = "eof"]
    /\ UNCHANGED <<process, keeper, channel, writer, batch, flush, idle, accepted>>

-----------------------------------------------------------------------------
(* The recorder's owner, CoreServerService.                                 *)

\* LogRecorder::start ends with the line that announces the start.
Announce ==
    /\ keeper = "starting"
    /\ Submit([from |-> Startup, n |-> 1])
    /\ keeper' = "attached"
    /\ UNCHANGED <<process, reader, writer, batch, flush, idle>>

\* Mutant: Stop is sent ahead of the lines that wait in the channel.
ShutdownJumpsQueue ==
    /\ keeper = "attached" /\ ~alive
    /\ channel' = IF writer \in {"none", "ended"} THEN channel ELSE <<Stop>> \o channel
    /\ keeper' = "stopping"
    /\ UNCHANGED <<process, reader, writer, batch, flush, idle, accepted>>

\* The service saw the process gone, or killed it, and shuts the writer down.
Shutdown ==
    /\ keeper = "attached" /\ ~alive
    /\ channel' = IF writer \in {"none", "ended"} THEN channel ELSE Append(channel, Stop)
    /\ keeper' = "stopping"
    /\ UNCHANGED <<process, reader, writer, batch, flush, idle, accepted>>

\* The writer handle is dropped unused: the table entry was gone already.
DropRecorder ==
    /\ keeper = "attached" /\ ~alive
    /\ keeper' = "dropped"
    /\ UNCHANGED <<process, reader, channel, writer, batch, flush, idle, accepted>>

ShutdownReturns ==
    /\ keeper = "stopping" /\ writer \in {"none", "ended"}
    /\ keeper' = "down"
    /\ UNCHANGED <<process, reader, channel, writer, batch, flush, idle, accepted>>

-----------------------------------------------------------------------------
(* The writer task.                                                         *)

\* flush_batch takes the batch; an empty one needs no transaction.
Flush(lines, busy, rest) ==
    /\ batch' = <<>>
    /\ pending' = lines
    /\ writer' = IF lines = <<>> THEN rest ELSE busy
    /\ idle' = 0
    /\ UNCHANGED <<rows, db, events, lost>>

\* Mutant: a full batch is noticed one line late.
ReceiveOneTooMany ==
    /\ writer = "recv" /\ channel # <<>> /\ Head(channel) # Stop
    /\ channel' = Tail(channel)
    /\ LET lines == Append(batch, Head(channel)) IN
       IF Len(lines) > BatchSize
       THEN Flush(lines, "write", "recv")
       ELSE /\ batch' = lines
            /\ idle' = 0
            /\ UNCHANGED <<writer, flush>>
    /\ UNCHANGED <<process, reader, keeper, accepted>>

\* Every turn of the select starts a new sleep.
Receive ==
    /\ writer = "recv" /\ channel # <<>> /\ Head(channel) # Stop
    /\ channel' = Tail(channel)
    /\ LET lines == Append(batch, Head(channel)) IN
       IF Len(lines) >= BatchSize
       THEN Flush(lines, "write", "recv")
       ELSE /\ batch' = lines
            /\ idle' = 0
            /\ UNCHANGED <<writer, flush>>
    /\ UNCHANGED <<process, reader, keeper, accepted>>

\* Mutant: Shutdown leaves the loop and the task without the last flush.
FinishWithoutFlush ==
    /\ writer = "recv"
    /\ \/ channel # <<>> /\ Head(channel) = Stop
       \/ channel = <<>> /\ keeper = "dropped" /\ \A o \in Outputs : reader[o] = "eof"
    /\ writer' = "ended"
    /\ UNCHANGED <<process, reader, keeper, channel, batch, flush, idle, accepted>>

\* Shutdown was received, or every sender is gone.
Finish ==
    /\ writer = "recv"
    /\ \/ channel # <<>> /\ Head(channel) = Stop
       \/ channel = <<>> /\ keeper = "dropped" /\ \A o \in Outputs : reader[o] = "eof"
    /\ Flush(batch, "last", "ended")
    /\ UNCHANGED <<process, reader, keeper, channel, accepted>>

Tick ==
    /\ writer = "recv" /\ batch # <<>> /\ idle < Window
    /\ idle' = idle + 1
    /\ UNCHANGED <<process, reader, keeper, channel, writer, batch, flush, accepted>>

\* Mutant: the timer's flush forgets to empty the batch.
FlushKeepsBatch ==
    /\ writer = "recv" /\ batch # <<>> /\ idle = Window
    /\ pending' = batch
    /\ writer' = "write"
    /\ idle' = 0
    /\ UNCHANGED <<process, reader, keeper, channel, batch, rows, db, events, lost, accepted>>

FlushOnTimer ==
    /\ writer = "recv" /\ batch # <<>> /\ idle = Window
    /\ Flush(batch, "write", "recv")
    /\ UNCHANGED <<process, reader, keeper, channel, accepted>>

\* Mutant: the row id does not count the rows of the open transaction.
InsertReportsOldId ==
    /\ writer \in {"write", "last"} /\ pending # <<>>
    /\ pending' = Tail(pending)
    /\ rows' = Append(rows, Head(pending))
    /\ events' = events \union {[seq |-> Len(db) + 1, line |-> Head(pending)]}
    /\ UNCHANGED <<process, reader, keeper, channel, writer, batch, db, lost, idle, accepted>>

\* INSERT, then on_written, which publishes the event: still uncommitted.
InsertRow ==
    /\ writer \in {"write", "last"} /\ pending # <<>>
    /\ pending' = Tail(pending)
    /\ rows' = Append(rows, Head(pending))
    /\ events' = events \union {[seq |-> Len(db) + Len(rows) + 1, line |-> Head(pending)]}
    /\ UNCHANGED <<process, reader, keeper, channel, writer, batch, db, lost, idle, accepted>>

AfterWrite == writer' = IF writer = "last" THEN "ended" ELSE "recv"

Commit ==
    /\ writer \in {"write", "last"} /\ pending = <<>>
    /\ db' = db \o rows
    /\ rows' = <<>>
    /\ AfterWrite
    /\ UNCHANGED <<process, reader, keeper, channel, batch, pending, events, lost, idle, accepted>>

\* BEGIN, an INSERT or COMMIT fails: rolled back, and the error is ignored.
Abort ==
    /\ writer \in {"write", "last"}
    /\ lost' = lost \union InSeq(rows) \union InSeq(pending)
    /\ pending' = <<>> /\ rows' = <<>>
    /\ AfterWrite
    /\ UNCHANGED <<process, reader, keeper, channel, batch, db, events, idle, accepted>>

Write == InsertRow \/ Commit \/ Abort

\* Everything is over: the process, its readers, the recorder and the writer.
Done ==
    /\ keeper \in {"down", "dropped"} /\ writer \in {"none", "ended"}
    /\ \A o \in Outputs : reader[o] = "eof"
    /\ UNCHANGED logVars

LogNext ==
    \/ \E o \in Outputs : Emit(o) \/ Read(o) \/ EndOfFile(o)
    \/ Exit \/ Announce \/ Shutdown \/ DropRecorder \/ ShutdownReturns
    \/ Receive \/ Finish \/ Tick \/ FlushOnTimer \/ Write
    \/ Done

LogSpec == LogInit /\ [][LogNext]_logVars

\* The runtime schedules its tasks; nobody makes a process write or exit.
LogFairness ==
    /\ \A o \in Outputs : WF_logVars(Read(o)) /\ WF_logVars(EndOfFile(o))
    /\ WF_logVars(Announce) /\ WF_logVars(ShutdownReturns)
    /\ WF_logVars(Receive) /\ WF_logVars(Finish) /\ WF_logVars(Tick) /\ WF_logVars(FlushOnTimer)
    /\ WF_logVars(Write)

LogFairSpec == LogSpec /\ LogFairness

-----------------------------------------------------------------------------
(* Properties.                                                              *)

\* Every variable has its type; the line counters never exceed their bounds.
LogTypeOK ==
    /\ alive \in BOOLEAN
    /\ written \in [Outputs -> 0..MaxLines]
    /\ pipe \in [Outputs -> Seq(Line)]
    /\ reader \in [Outputs -> {"reading", "eof"}]
    /\ keeper \in {"starting", "attached", "stopping", "down", "dropped"}
    /\ channel \in Seq(Line \union {Stop})
    /\ writer \in {"none", "recv", "write", "last", "ended"}
    /\ batch \in Seq(Line) /\ Len(batch) < BatchSize
    /\ pending \in Seq(Line) /\ rows \in Seq(Line) /\ db \in Seq(Line)
    /\ events \subseteq Event
    /\ idle \in 0..Window
    /\ accepted \subseteq Line /\ lost \subseteq Line

\* Batching keeps what a reader saw: of each output the database holds the
\* lines in their order, each once, and skips only lines of transactions that
\* failed (writer.rs, batches and transactions).
StoredInOrder ==
    /\ \A i, j \in DOMAIN db : i < j /\ db[i].from = db[j].from => db[i].n < db[j].n
    /\ \A line \in InSeq(db) : \A n \in 1..(line.n - 1) :
           LET earlier == [from |-> line.from, n |-> n]
           IN earlier \in InSeq(db) \union lost

\* A cursor that clients have seen names the row of its line: unless its
\* transaction failed, no other line is ever stored under it.
CursorsAreRows ==
    \A e \in events :
        e.line \notin lost /\ e.seq \in DOMAIN db => db[e.seq] = e.line

\* What a reader of the log gets, page by page or live, is the console's output.
LogIsOutput == StoredInOrder /\ CursorsAreRows

\* When shutdown returns, every line submitted before it was handed to a
\* transaction, and is stored unless that failed (writer.rs:42-44).
ShutdownFlushes == keeper = "down" => accepted \subseteq InSeq(db) \union lost

\* A line accepted by the writer reaches a transaction in the end, by the timer,
\* a full batch or the last flush, whether or not anybody shuts it down.
AcceptedAreWritten ==
    \A line \in Line : line \in accepted ~> line \in InSeq(db) \union lost

\* Shutting the pipeline down ends, even if transactions fail: a stop of the
\* server, which waits for it, returns.
ShutdownEnds == keeper = "stopping" ~> keeper = "down"

\* Nothing that was handed to the writer, a line or a shutdown, waits for ever.
WriterDelivers == AcceptedAreWritten /\ ShutdownEnds
=============================================================================
