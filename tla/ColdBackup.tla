----------------------------- MODULE ColdBackup -----------------------------
(***************************************************************************)
(* Backups of one server directory: CoreBackupService                      *)
(* (application/src/service/backup.rs) over BackupManager                  *)
(* (crates/feature/src/backup/manager.rs).  A backup or a restore is       *)
(* refused unless the server is stopped; it then works on the directory    *)
(* file by file, without holding any lock, while the server can be         *)
(* disturbed, other backup calls run and the console reads the logs.       *)
(*                                                                         *)
(* A part is one of the directory's contents (core, world, plugins, ...);  *)
(* its version stands for its data, and version 0 for its absence.         *)
(***************************************************************************)
EXTENDS Naturals, FiniteSets

CONSTANTS Callers,      \* concurrent backup calls
          Operations,   \* the operations they make
          Parts,        \* BackupContentType
          Ids,          \* backup ids, handed out once each
          Missing,      \* no directory, no archive
          MaxVersion,   \* bound: writes of the server
          MayStart,     \* may the server be disturbed?
          LogsAreRead,  \* may the console open the log database?
          RenameMayFail,\* may the renames of a restore fail for reasons of their own?
          MayCrash      \* may the host die?

Content == [Parts -> 0..MaxVersion]

ASSUME BackupAssumption ==
    /\ Missing \notin Ids /\ Missing \notin Content
    /\ Operations \subseteq {"create", "delete", "restore"}
    /\ MaxVersion \in Nat
    /\ {MayStart, LogsAreRead, RenameMayFail, MayCrash} \subseteq BOOLEAN

VARIABLES server,    \* "stopped", "running", or left behind by a host that died
          dir,       \* the server directory
          aside,     \* aside[c]: the directory a restore renamed away
          leftover,  \* renamed directories whose call is over
          archive,   \* archive[i]: the published archive of backup i
          listed,    \* backups whose metadata file exists
          pc, id,    \* where each caller is, for which backup
          copy,      \* copy[c]: its temporary copy, or its staged directory
          extracted, \* extracted[c]: what a restore unpacked from the archive
          todo,      \* todo[c]: parts still to be copied
          version,   \* the server's writes so far
          current,   \* history: what the directory is meant to hold
          doomed,    \* history: backups somebody began to delete
          disturbed  \* history: c's second check missed an orphan, or a start
                     \* or another call's renaming came after it

disk   == <<dir, aside, leftover, archive, listed>>
locals == <<pc, id, copy, extracted, todo, disturbed>>
world  == <<server, version>>
ghosts == <<current, doomed>>
vars   == <<world, disk, locals, ghosts>>

Nothing == [p \in Parts |-> 0]
Resting == {"idle", "ok", "err"}
Labels  == Resting \union
           {"create", "recheck", "copy", "archive", "record", "discard",
            "delete", "delete_record",
            "restore", "find", "restore_check", "extract", "stage", "apply",
            "set_aside", "publish", "roll_back"}

Init ==
    /\ server = "stopped" /\ version = 0
    /\ dir = Nothing
    /\ aside = [c \in Callers |-> Missing]
    /\ archive = [i \in Ids |-> Missing]
    /\ listed = {} /\ leftover = {}
    /\ pc = [c \in Callers |-> "idle"]
    /\ id = [c \in Callers |-> Missing]
    /\ copy = [c \in Callers |-> Nothing]
    /\ extracted = [c \in Callers |-> Nothing]
    /\ todo = [c \in Callers |-> {}]
    /\ current = Nothing /\ doomed = {}
    /\ disturbed = [c \in Callers |-> FALSE]

\* The calls that take the directory to stay as their second check found it.
Relying == {c \in Callers : pc[c] \in {"copy", "archive", "extract", "stage", "apply", "set_aside"}}

\* Whoever still relies on the directory after the step is disturbed by it.
Disturb == disturbed' = [c \in Callers |->
                            pc'[c] \notin Resting /\ (disturbed[c] \/ c \in Relying')]

\* Archive a over directory d: the parts the archive holds replace the others.
Merge(a, d) == [p \in Parts |-> IF a[p] # 0 THEN a[p] ELSE d[p]]

Goto(c, label) == pc' = [pc EXCEPT ![c] = label]

\* The call returns: its temporary directories are dropped.
Leave(c, outcome) ==
    /\ Goto(c, outcome)
    /\ id' = [id EXCEPT ![c] = Missing]
    /\ copy' = [copy EXCEPT ![c] = Nothing]
    /\ extracted' = [extracted EXCEPT ![c] = Nothing]
    /\ todo' = [todo EXCEPT ![c] = {}]

Return(c, outcome) == Leave(c, outcome) /\ disturbed' = [disturbed EXCEPT ![c] = FALSE]

\* Used by every step that only reads or only moves on.
Keep == UNCHANGED <<world, disk, ghosts>>

-----------------------------------------------------------------------------
(* The server, its starter and the console.                                 *)

\* ServerService::start knows of no backup; without a directory it fails.
StartServer ==
    /\ MayStart /\ server = "stopped" /\ dir # Missing /\ version < MaxVersion
    /\ server' = "running"
    /\ UNCHANGED <<version, disk, pc, id, copy, extracted, todo, ghosts>>
    /\ Disturb

ServerWrites(p) ==
    /\ server # "stopped" /\ dir # Missing /\ version < MaxVersion
    /\ version' = version + 1
    /\ dir' = [dir EXCEPT ![p] = version + 1]
    /\ current' = dir'
    /\ UNCHANGED <<server, aside, leftover, archive, listed, locals, doomed>>

ServerStops ==
    /\ server # "stopped" /\ server' = "stopped"
    /\ UNCHANGED <<version, disk, locals, ghosts>>

\* open_log_database creates the directory of the database if it is missing.
ReadLogs ==
    /\ LogsAreRead /\ dir = Missing
    /\ dir' = Nothing
    /\ UNCHANGED <<world, aside, leftover, archive, listed, locals, ghosts>>

-----------------------------------------------------------------------------
(* Requests, and the file operations that may fail.                         *)

Call(c) ==
    /\ pc[c] \in Resting
    /\ \E o \in Operations, i \in Ids :
        /\ o = "create" => archive[i] = Missing /\ i \notin listed \union doomed
                           /\ \A d \in Callers : pc[d] \in Resting \/ id[d] # i
        /\ Goto(c, o)
        /\ id' = [id EXCEPT ![c] = i]
    /\ UNCHANGED <<copy, extracted, todo, disturbed>> /\ Keep

\* require_stopped_instance, before the blocking task is spawned.
RequireStopped(c) ==
    /\ pc[c] \in {"create", "restore"}
    /\ \/ server = "running" /\ Return(c, "err")
       \/ /\ server # "running"
          /\ Goto(c, IF pc[c] = "create" THEN "recheck" ELSE "find")
          /\ UNCHANGED <<id, copy, extracted, todo, disturbed>>
    /\ Keep

\* Mutant: the answer of the second check is not used.
CheckIgnored(c) ==
    /\ pc[c] \in {"recheck", "restore_check"}
    /\ disturbed' = [disturbed EXCEPT ![c] = server = "orphan"]
    /\ Goto(c, IF pc[c] = "recheck" THEN "copy" ELSE "extract")
    /\ todo' = [todo EXCEPT ![c] = Parts]
    /\ UNCHANGED <<id, copy, extracted>> /\ Keep

\* check_server_stopped, inside the blocking task: the last look at the server.
Recheck(c) ==
    /\ pc[c] \in {"recheck", "restore_check"}
    /\ IF server = "running"
       THEN Return(c, "err")
       ELSE /\ disturbed' = [disturbed EXCEPT ![c] = server = "orphan"]
            /\ Goto(c, IF pc[c] = "recheck" THEN "copy" ELSE "extract")
            /\ todo' = [todo EXCEPT ![c] = Parts]
            /\ UNCHANGED <<id, copy, extracted>>
    /\ Keep

\* A read, a write or a missing file ends the call before it publishes.
FileError(c) ==
    /\ pc[c] \in {"copy", "archive", "delete", "delete_record", "find",
                  "extract", "stage", "apply", "set_aside"}
    /\ Return(c, "err")
    /\ Keep

-----------------------------------------------------------------------------
(* create_backup.                                                           *)

\* prepare_backup_content and copy_dir_all copy one entry after the other.
CopyPart(c, p) ==
    /\ pc[c] \in {"copy", "stage"} /\ p \in todo[c] /\ dir # Missing
    /\ copy' = [copy EXCEPT ![c][p] = dir[p]]
    /\ todo' = [todo EXCEPT ![c] = @ \ {p}]
    /\ Goto(c, IF todo'[c] # {} THEN pc[c] ELSE IF pc[c] = "copy" THEN "archive" ELSE "apply")
    /\ UNCHANGED <<id, extracted, disturbed>> /\ Keep

\* create_archive builds a temporary file and publishes it under its name.
PublishArchive(c) ==
    /\ pc[c] = "archive" /\ copy[c] # Nothing
    /\ archive' = [archive EXCEPT ![id[c]] = copy[c]]
    /\ Goto(c, "record")
    /\ UNCHANGED <<id, copy, extracted, todo, disturbed, world, dir, aside, leftover, listed, ghosts>>

RecordMetadata(c) ==
    /\ pc[c] = "record"
    /\ listed' = listed \union {id[c]}
    /\ Return(c, "ok")
    /\ UNCHANGED <<world, dir, aside, leftover, archive, ghosts>>

\* Mutant: a failed archive is discarded after its metadata was listed.
DiscardListed(c) ==
    /\ pc[c] = "record"
    /\ archive' = [archive EXCEPT ![id[c]] = Missing]
    /\ listed' = listed \union {id[c]}
    /\ Return(c, "err")
    /\ UNCHANGED <<world, dir, aside, leftover, ghosts>>

\* The archive's size or its metadata cannot be had: the archive is removed, and
\* if that fails it stays, unlisted.
DiscardArchive(c) ==
    /\ pc[c] = "record"
    /\ archive' \in {archive, [archive EXCEPT ![id[c]] = Missing]}
    /\ Return(c, "err")
    /\ UNCHANGED <<world, dir, aside, leftover, listed, ghosts>>

Create(c) == \/ \E p \in Parts : CopyPart(c, p)
             \/ PublishArchive(c) \/ RecordMetadata(c) \/ DiscardArchive(c)

-----------------------------------------------------------------------------
(* delete_backup.                                                           *)

DeleteArchive(c) ==
    /\ pc[c] = "delete" /\ id[c] \in listed
    /\ archive' = [archive EXCEPT ![id[c]] = Missing]
    /\ doomed' = doomed \union {id[c]}
    /\ Goto(c, "delete_record")
    /\ UNCHANGED <<id, copy, extracted, todo, disturbed, world, dir, aside, leftover, listed, current>>

DeleteMetadata(c) ==
    /\ pc[c] = "delete_record" /\ id[c] \in listed
    /\ listed' = listed \ {id[c]}
    /\ Return(c, "ok")
    /\ UNCHANGED <<world, dir, aside, leftover, archive, ghosts>>

-----------------------------------------------------------------------------
(* restore_backup.                                                          *)

Find(c) ==
    /\ pc[c] = "find" /\ id[c] \in listed /\ dir # Missing
    /\ Goto(c, "restore_check")
    /\ UNCHANGED <<id, copy, extracted, todo, disturbed>> /\ Keep

\* ensure_archive_file and extract_archive.
Extract(c) ==
    /\ pc[c] = "extract" /\ archive[id[c]] # Missing
    /\ extracted' = [extracted EXCEPT ![c] = archive[id[c]]]
    /\ Goto(c, "stage")
    /\ UNCHANGED <<id, copy, todo, disturbed>> /\ Keep

\* Mutant: the staged directory is the archive's content and nothing else.
ApplyAlone(c) ==
    /\ pc[c] = "apply"
    /\ copy' = [copy EXCEPT ![c] = extracted[c]]
    /\ extracted' = [extracted EXCEPT ![c] = Nothing]
    /\ Goto(c, "set_aside")
    /\ UNCHANGED <<id, todo, disturbed>> /\ Keep

\* apply_restored_content replaces the parts the archive holds.
Apply(c) ==
    /\ pc[c] = "apply"
    /\ copy' = [copy EXCEPT ![c] = Merge(extracted[c], @)]
    /\ extracted' = [extracted EXCEPT ![c] = Nothing]
    /\ Goto(c, "set_aside")
    /\ UNCHANGED <<id, todo, disturbed>> /\ Keep

\* Mutant: the old directory is deleted instead of being renamed.
RemoveOld(c) ==
    /\ pc[c] = "set_aside" /\ dir # Missing
    /\ dir' = Missing
    /\ Goto(c, "publish") /\ Disturb
    /\ UNCHANGED <<id, copy, extracted, todo, world, aside, leftover, archive, listed, ghosts>>

\* The first rename of publish_staged_directory.
SetAside(c) ==
    /\ pc[c] = "set_aside" /\ dir # Missing
    /\ aside' = [aside EXCEPT ![c] = dir]
    /\ dir' = Missing
    /\ Goto(c, "publish") /\ Disturb
    /\ UNCHANGED <<id, copy, extracted, todo, world, leftover, archive, listed, ghosts>>

\* The second rename succeeds, and the old directory is removed; if that fails,
\* what is left of it is nobody's any more.
Publish(c) ==
    /\ pc[c] = "publish" /\ dir = Missing
    /\ dir' = copy[c]
    /\ current' = copy[c]
    /\ aside' = [aside EXCEPT ![c] = Missing]
    /\ Leave(c, "ok") /\ Disturb
    /\ UNCHANGED <<world, leftover, archive, listed, doomed>>

\* The second rename fails: an I/O error, or a directory is there again.
PublishFails(c) ==
    /\ pc[c] = "publish" /\ (dir # Missing \/ RenameMayFail)
    /\ Goto(c, "roll_back")
    /\ UNCHANGED <<id, copy, extracted, todo, disturbed>> /\ Keep

\* Mutant: the error is returned without renaming the directory back.
NoRollBack(c) ==
    /\ pc[c] = "roll_back"
    /\ Return(c, "err")
    /\ Keep

\* Mutant: the renamed directory is cleaned up although it is not back in place.
CleansUp(c) ==
    /\ pc[c] = "roll_back"
    /\ dir' \in {dir, IF dir = Missing THEN aside[c] ELSE dir}
    /\ aside' = [aside EXCEPT ![c] = Missing]
    /\ Leave(c, "err") /\ Disturb
    /\ UNCHANGED <<world, leftover, archive, listed, ghosts>>

\* Renaming back succeeds, or fails like any renaming: an I/O error, or a
\* directory is there again. What was renamed away then stays where it is.
RollBack(c) ==
    /\ pc[c] = "roll_back"
    /\ \/ /\ dir = Missing /\ dir' = aside[c]
          /\ Leave(c, "err") /\ Disturb
          /\ UNCHANGED leftover
       \/ /\ dir # Missing \/ RenameMayFail
          /\ leftover' = leftover \union {aside[c]}
          /\ Return(c, "err")
          /\ UNCHANGED dir
    /\ aside' = [aside EXCEPT ![c] = Missing]
    /\ UNCHANGED <<world, archive, listed, ghosts>>

Restore(c) == \/ Find(c) \/ Extract(c) \/ Apply(c)
              \/ SetAside(c) \/ Publish(c) \/ PublishFails(c) \/ RollBack(c)

-----------------------------------------------------------------------------

\* The host dies: every call is gone, what is on the disk stays, and so does a
\* running server, which the next host's empty process table reports stopped.
Crash ==
    /\ MayCrash
    /\ pc' = [c \in Callers |-> "idle"]
    /\ id' = [c \in Callers |-> Missing]
    /\ copy' = [c \in Callers |-> Nothing]
    /\ extracted' = [c \in Callers |-> Nothing]
    /\ todo' = [c \in Callers |-> {}]
    /\ server' = IF server = "running" THEN "orphan" ELSE server
    /\ aside' = [c \in Callers |-> Missing]
    /\ leftover' = leftover \union ({aside[c] : c \in Callers} \ {Missing})
    /\ disturbed' = [c \in Callers |-> FALSE]
    /\ UNCHANGED <<version, dir, archive, listed, ghosts>>

Next ==
    \/ \E c \in Callers :
        \/ Call(c) \/ RequireStopped(c) \/ Recheck(c) \/ FileError(c)
        \/ Create(c) \/ DeleteArchive(c) \/ DeleteMetadata(c) \/ Restore(c)
    \/ StartServer \/ ServerStops \/ (\E p \in Parts : ServerWrites(p))
    \/ ReadLogs \/ Crash

Spec == Init /\ [][Next]_vars

-----------------------------------------------------------------------------
(* Properties.                                                              *)

\* Every variable has its type, and a directory is renamed away only while its
\* restore is publishing.
TypeOK ==
    /\ server \in {"stopped", "running", "orphan"} /\ version \in 0..MaxVersion
    /\ dir \in Content \union {Missing}
    /\ aside \in [Callers -> Content \union {Missing}]
    /\ archive \in [Ids -> Content \union {Missing}]
    /\ leftover \subseteq Content
    /\ listed \subseteq Ids /\ doomed \subseteq Ids
    /\ pc \in [Callers -> Labels] /\ id \in [Callers -> Ids \union {Missing}]
    /\ copy \in [Callers -> Content] /\ extracted \in [Callers -> Content]
    /\ todo \in [Callers -> SUBSET Parts]
    /\ \A c \in Callers : aside[c] # Missing => pc[c] \in {"publish", "roll_back"}
    /\ current \in Content /\ disturbed \in [Callers -> BOOLEAN]

\* The archive is published before the metadata, and removed first only by a
\* delete: whatever is listed can be restored unless somebody began to delete
\* it, also after a crash (manager.rs, create_backup and delete_backup).
ListedHasArchive == \A i \in listed \ doomed : archive[i] # Missing

\* The two renames of a restore keep the server's data on the disk at every
\* moment, in its place or beside it: also if the second fails and so does the
\* renaming back, if the host dies between them, if another restore publishes or
\* the directory is created anew in between (manager.rs, publish_staged_directory).
DataSurvives ==
    dir = current \/ current \in leftover \/ \E c \in Callers : aside[c] = current

\* No crash, error or call costs the user a listed backup or the server's data.
NothingIsLost == ListedHasArchive /\ DataSurvives

\* A backup that nothing disturbed after its second check is the directory as it
\* was throughout the copying, never a mixture, whatever other calls, errors and
\* crashes came before (manager.rs, create_backup).
QuietBackupIsSnapshot ==
    [][\A c \in Callers :
        pc[c] = "archive" /\ pc'[c] = "record" /\ ~disturbed[c]
            => archive'[id[c]] = dir]_vars

\* A restore that nothing disturbed between its second check and its first rename
\* puts in place the archive as it is listed over the directory it has renamed
\* away: no part of either is lost or of another moment, although both were copied
\* steps earlier; unless somebody deletes the backup meanwhile (manager.rs,
\* restore_backup and apply_restored_content).
QuietRestoreIsMerge ==
    [][\A c \in Callers :
        pc[c] = "publish" /\ pc'[c] = "ok" /\ ~disturbed[c] /\ id[c] \notin doomed
            => dir' = Merge(archive[id[c]], aside[c])]_vars

\* What a backup takes and what a restore puts in place are of one moment.
CopiesAreWhole == QuietBackupIsSnapshot /\ QuietRestoreIsMerge

=============================================================================
