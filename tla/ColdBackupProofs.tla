-------------------------- MODULE ColdBackupProofs --------------------------
(***************************************************************************)
(* Proofs about ColdBackup: types, that no listed backup and no directory  *)
(* is lost, that an undisturbed backup is the directory as it was and that *)
(* an undisturbed restore puts its archive over the directory as it was;   *)
(* for any callers, ids, parts and versions.                               *)
(***************************************************************************)
EXTENDS ColdBackup, TLAPS

Creating   == {"create", "recheck", "copy", "archive", "record"}
Publishing == {"publish", "roll_back"}
Restoring  == {"restore_check", "extract", "stage", "apply", "set_aside"} \union Publishing

\* Who works has an id, and who publishes has a directory renamed away.
HeldOf(c) ==
    /\ pc[c] \in Resting \/ id[c] \in Ids
    /\ pc[c] \in Publishing => aside[c] # Missing
HeldInv == \A c \in Callers : HeldOf(c)

\* A backup under construction is its maker's own, and not listed yet.
OwnOf(c) ==
    /\ id[c] \notin listed \union doomed
    /\ pc[c] = "record" => archive[id[c]] # Missing
    /\ \A d \in Callers \ {c} : pc[d] \in Creating => id[d] # id[c]
OwnInv == \A c \in Callers : pc[c] \in Creating => OwnOf(c)

LossInv == OwnInv /\ NothingIsLost

\* A backup being restored was listed, and is still unless somebody began to
\* delete it.
KnownOf(c) ==
    /\ pc[c] \in Restoring => id[c] \in listed \union doomed
    /\ pc[c] = "delete_record" => id[c] \in doomed
KnownInv == \A c \in Callers : KnownOf(c)

\* Whoever relies on the directory undisturbed has copied from it as it is, and
\* the server is down.
SameOf(c) ==
    /\ server = "stopped"
    /\ pc[c] \in {"archive", "apply"} => todo[c] = {}
    /\ pc[c] \in {"archive", "apply", "set_aside"} => dir # Missing
    /\ pc[c] # "set_aside" =>
        /\ dir = Missing => todo[c] = Parts
        /\ dir # Missing => \A p \in Parts \ todo[c] : copy[c][p] = dir[p]
SameInv == \A c \in Relying : ~disturbed[c] => SameOf(c)

\* What an undisturbed restore unpacked is the archive as it is, and what it
\* staged is the archive over the directory, in place and then renamed away.
MergeOf(c) ==
    /\ pc[c] \in {"stage", "apply"} => extracted[c] = archive[id[c]]
    /\ pc[c] = "set_aside" => copy[c] = Merge(archive[id[c]], dir)
    /\ pc[c] \in Publishing => copy[c] = Merge(archive[id[c]], aside[c])
MergeInv == \A c \in Callers : ~disturbed[c] /\ id[c] \notin doomed => MergeOf(c)

LEMMA Constants ==
    /\ Missing \notin Ids /\ Missing \notin Content /\ Nothing \in Content
    /\ Operations \subseteq {"create", "delete", "restore"}
    /\ MaxVersion \in Nat
BY BackupAssumption DEF Content, Nothing

-----------------------------------------------------------------------------
(* Types.                                                                    *)

LEMMA TypesStart == Init => TypeOK /\ HeldInv
BY Constants DEF Init, TypeOK, HeldInv, HeldOf, Labels, Resting, Publishing

LEMMA ReturnKeeps ==
    ASSUME TypeOK, HeldInv, NEW c \in Callers, pc[c] \notin Publishing, Return(c, "err"), Keep
    PROVE  TypeOK' /\ HeldInv'
<1>1. pc' = [pc EXCEPT ![c] = "err"] /\ id' = [id EXCEPT ![c] = Missing] /\ UNCHANGED aside
  BY DEF Return, Leave, Goto, Keep, disk
<1>2. TypeOK'
  <2>1. UNCHANGED <<world, disk, ghosts>>
    BY DEF Keep
  <2>2. /\ pc' \in [Callers -> Labels] /\ id' \in [Callers -> Ids \union {Missing}]
        /\ \A d \in Callers : aside'[d] # Missing => pc'[d] \in {"publish", "roll_back"}
    BY <1>1 DEF TypeOK, Labels, Resting, Publishing
  <2>3. /\ copy' \in [Callers -> Content] /\ extracted' \in [Callers -> Content]
        /\ todo' \in [Callers -> SUBSET Parts] /\ disturbed' \in [Callers -> BOOLEAN]
    BY Constants DEF Return, Leave, TypeOK
  <2> QED BY <2>1, <2>2, <2>3 DEF TypeOK, world, disk, ghosts
<1>3. HeldInv'
  BY <1>1 DEF TypeOK, HeldInv, HeldOf, Resting, Publishing
<1> QED BY <1>2, <1>3

LEMMA TypesStep == TypeOK /\ HeldInv /\ [Next]_vars => TypeOK' /\ HeldInv'
<1> SUFFICES ASSUME TypeOK, HeldInv, [Next]_vars PROVE TypeOK' /\ HeldInv'
  OBVIOUS
<1>1. ASSUME NEW c \in Callers, Call(c) PROVE TypeOK' /\ HeldInv'
  BY <1>1, Constants DEF Call, Keep, Goto, TypeOK, HeldInv, HeldOf, Labels, Resting, Publishing,
     disk, locals, world, ghosts
<1>2. ASSUME NEW c \in Callers, RequireStopped(c) PROVE TypeOK' /\ HeldInv'
  <2>1. CASE server = "running"
    <3>1. Return(c, "err") /\ Keep
      BY <1>2, <2>1 DEF RequireStopped
    <3> QED BY <1>2, <3>1, ReturnKeeps DEF RequireStopped, Publishing
  <2>2. CASE server # "running"
    BY <1>2, <2>2 DEF RequireStopped, Goto, Keep, TypeOK, HeldInv, HeldOf, Labels, Resting,
       Publishing, disk, locals, world, ghosts
  <2> QED BY <2>1, <2>2
<1>3. ASSUME NEW c \in Callers, Recheck(c) PROVE TypeOK' /\ HeldInv'
  <2>1. CASE server = "running"
    <3>1. Return(c, "err") /\ Keep
      BY <1>3, <2>1 DEF Recheck
    <3> QED BY <1>3, <3>1, ReturnKeeps DEF Recheck, Publishing
  <2>2. CASE server # "running"
    <3>1. TypeOK'
      BY <1>3, <2>2 DEF Recheck, Goto, Keep, TypeOK, Labels, Resting, disk, locals, world, ghosts
    <3>2. HeldInv'
      BY <1>3, <2>2 DEF Recheck, Goto, Keep, TypeOK, HeldInv, HeldOf, Labels, Resting,
         Publishing, disk, locals, world, ghosts
    <3> QED BY <3>1, <3>2
  <2> QED BY <2>1, <2>2
<1>4. ASSUME NEW c \in Callers, FileError(c) PROVE TypeOK' /\ HeldInv'
  BY <1>4, Constants DEF FileError, Return, Leave, Goto, Keep, TypeOK, HeldInv, HeldOf, Labels,
     Resting, Publishing, disk, locals, world, ghosts
<1>5. ASSUME NEW c \in Callers, NEW p \in Parts, CopyPart(c, p) PROVE TypeOK' /\ HeldInv'
  <2>1. dir \in Content /\ copy[c] \in Content
    BY <1>5 DEF CopyPart, TypeOK
  <2>2. [copy[c] EXCEPT ![p] = dir[p]] \in Content
    BY <2>1 DEF Content
  <2>3. copy' \in [Callers -> Content]
    BY <1>5, <2>2 DEF CopyPart, TypeOK
  <2> QED BY <1>5, <2>3 DEF CopyPart, Keep, Goto, TypeOK, HeldInv, HeldOf, Labels, Resting,
             Publishing, disk, locals, world, ghosts
<1>6. ASSUME NEW c \in Callers, PublishArchive(c) PROVE TypeOK' /\ HeldInv'
  BY <1>6, Constants DEF PublishArchive, Goto, TypeOK, HeldInv, HeldOf, Labels, Resting,
     Publishing, disk, locals, world, ghosts
<1>7. ASSUME NEW c \in Callers, RecordMetadata(c) PROVE TypeOK' /\ HeldInv'
  BY <1>7, Constants DEF RecordMetadata, Return, Leave, Goto, TypeOK, HeldInv, HeldOf, Labels,
     Resting, Publishing, disk, locals, world, ghosts
<1>8. ASSUME NEW c \in Callers, DiscardArchive(c) PROVE TypeOK' /\ HeldInv'
  BY <1>8, Constants DEF DiscardArchive, Return, Leave, Goto, TypeOK, HeldInv, HeldOf, Labels,
     Resting, Publishing, disk, locals, world, ghosts
<1>9. ASSUME NEW c \in Callers, DeleteArchive(c) PROVE TypeOK' /\ HeldInv'
  BY <1>9, Constants DEF DeleteArchive, Goto, TypeOK, HeldInv, HeldOf, Labels, Resting,
     Publishing, disk, locals, world, ghosts
<1>10. ASSUME NEW c \in Callers, DeleteMetadata(c) PROVE TypeOK' /\ HeldInv'
  BY <1>10, Constants DEF DeleteMetadata, Return, Leave, Goto, TypeOK, HeldInv, HeldOf, Labels,
     Resting, Publishing, disk, locals, world, ghosts
<1>11. ASSUME NEW c \in Callers, Find(c) PROVE TypeOK' /\ HeldInv'
  BY <1>11, Constants DEF Find, Goto, Keep, TypeOK, HeldInv, HeldOf, Labels, Resting, Publishing,
     disk, locals, world, ghosts
<1>12. ASSUME NEW c \in Callers, Extract(c) PROVE TypeOK' /\ HeldInv'
  BY <1>12, Constants DEF Extract, Goto, Keep, TypeOK, HeldInv, HeldOf, Labels, Resting,
     Publishing, disk, locals, world, ghosts
<1>13. ASSUME NEW c \in Callers, Apply(c) PROVE TypeOK' /\ HeldInv'
  <2>1. copy[c] \in Content /\ extracted[c] \in Content
    BY <1>13 DEF TypeOK
  <2>2. Merge(extracted[c], copy[c]) \in Content
    BY <2>1 DEF Content, Merge
  <2>3. copy' \in [Callers -> Content]
    BY <1>13, <2>2 DEF Apply, TypeOK
  <2> QED BY <1>13, <2>3, Constants DEF Apply, Keep, Goto, TypeOK, HeldInv, HeldOf, Labels,
             Resting, Publishing, disk, locals, world, ghosts
<1>14. ASSUME NEW c \in Callers, SetAside(c) PROVE TypeOK' /\ HeldInv'
  BY <1>14, Constants DEF SetAside, Goto, Disturb, Relying, TypeOK, HeldInv, HeldOf, Labels,
     Resting, Publishing, disk, locals, world, ghosts
<1>15. ASSUME NEW c \in Callers, Publish(c) PROVE TypeOK' /\ HeldInv'
  BY <1>15, Constants DEF Publish, Leave, Goto, Disturb, Relying, TypeOK, HeldInv, HeldOf,
     Labels, Resting, Publishing, disk, locals, world, ghosts
<1>16. ASSUME NEW c \in Callers, PublishFails(c) PROVE TypeOK' /\ HeldInv'
  BY <1>16, Constants DEF PublishFails, Goto, Keep, TypeOK, HeldInv, HeldOf, Labels, Resting,
     Publishing, disk, locals, world, ghosts
<1>17. ASSUME NEW c \in Callers, RollBack(c) PROVE TypeOK' /\ HeldInv'
  <2>1. /\ pc' = [pc EXCEPT ![c] = "err"] /\ id' = [id EXCEPT ![c] = Missing]
        /\ copy' = [copy EXCEPT ![c] = Nothing] /\ extracted' = [extracted EXCEPT ![c] = Nothing]
        /\ todo' = [todo EXCEPT ![c] = {}] /\ aside' = [aside EXCEPT ![c] = Missing]
        /\ pc[c] = "roll_back" /\ UNCHANGED <<world, archive, listed, ghosts>>
    BY <1>17 DEF RollBack, Return, Leave, Goto
  <2>2. aside[c] \in Content
    BY <2>1 DEF TypeOK, HeldInv, HeldOf, Publishing
  <2>3. dir' \in Content \union {Missing} /\ leftover' \subseteq Content
    BY <1>17, <2>2 DEF RollBack, TypeOK
  <2>4. disturbed' \in [Callers -> BOOLEAN]
    <3>1. CASE Disturb
      BY <3>1 DEF Disturb, TypeOK
    <3>2. CASE disturbed' = [disturbed EXCEPT ![c] = FALSE]
      BY <3>2 DEF TypeOK
    <3> QED BY <1>17, <3>1, <3>2 DEF RollBack, Return
  <2>5. TypeOK'
    BY <2>1, <2>3, <2>4, Constants DEF TypeOK, Labels, Resting, world, ghosts
  <2>6. HeldInv'
    BY <2>1 DEF TypeOK, HeldInv, HeldOf, Resting, Publishing
  <2> QED BY <2>5, <2>6
<1>18. CASE StartServer
  BY <1>18, Constants DEF StartServer, Disturb, Relying, TypeOK, HeldInv, HeldOf, Labels,
     Resting, Publishing, disk, locals, world, ghosts
<1>19. CASE ServerStops
  BY <1>19, Constants DEF ServerStops, TypeOK, HeldInv, HeldOf, Labels, Resting, Publishing,
     disk, locals, world, ghosts
<1>20. ASSUME NEW p \in Parts, ServerWrites(p) PROVE TypeOK' /\ HeldInv'
  <2>1. dir \in Content /\ version + 1 \in 0..MaxVersion
    BY <1>20, Constants DEF ServerWrites, TypeOK
  <2>2. dir' \in Content
    BY <1>20, <2>1 DEF ServerWrites, Content
  <2> QED BY <1>20, <2>1, <2>2 DEF ServerWrites, TypeOK, HeldInv, HeldOf, disk, locals, world,
             ghosts
<1>21. CASE ReadLogs
  BY <1>21, Constants DEF ReadLogs, TypeOK, HeldInv, HeldOf, Labels, Resting, Publishing, disk,
     locals, world, ghosts
<1>22. CASE Crash
  BY <1>22, Constants DEF Crash, TypeOK, HeldInv, HeldOf, Labels, Resting, Publishing, disk,
     locals, world, ghosts
<1>23. CASE UNCHANGED vars
  BY <1>23, Constants DEF vars, TypeOK, HeldInv, HeldOf, Labels, Resting, Publishing, disk,
     locals, world, ghosts
<1> QED BY <1>1, <1>2, <1>3, <1>4, <1>5, <1>6, <1>7, <1>8, <1>9, <1>10, <1>11, <1>12, <1>13,
           <1>14, <1>15, <1>16, <1>17, <1>18, <1>19, <1>20, <1>21, <1>22, <1>23 DEF Next, Create,
           Restore

\* Types, whatever calls, the server, the console, errors and deaths do.
THEOREM Typing == Spec => []TypeOK
<1>1. TypeOK /\ HeldInv => TypeOK
  OBVIOUS
<1> QED BY <1>1, TypesStart, TypesStep, PTL DEF Spec

-----------------------------------------------------------------------------
(* What is lost.                                                             *)

LEMMA LossStep == TypeOK /\ HeldInv /\ LossInv /\ [Next]_vars => LossInv'
<1> SUFFICES ASSUME TypeOK, HeldInv, LossInv, [Next]_vars PROVE LossInv'
  OBVIOUS
<1>1. ASSUME NEW c \in Callers, Call(c) PROVE LossInv'
  BY <1>1, Constants DEF Call, Keep, Goto, TypeOK, HeldInv, HeldOf, LossInv, OwnInv, OwnOf,
     Creating, Publishing, Resting, NothingIsLost, ListedHasArchive, DataSurvives, disk, locals,
     world, ghosts
<1>2. ASSUME NEW c \in Callers, RequireStopped(c) PROVE LossInv'
  BY <1>2, Constants DEF RequireStopped, Return, Leave, Goto, Keep, TypeOK, HeldInv, HeldOf,
     LossInv, OwnInv, OwnOf, Creating, Publishing, Resting, NothingIsLost, ListedHasArchive,
     DataSurvives, disk, locals, world, ghosts
<1>3. ASSUME NEW c \in Callers, Recheck(c) PROVE LossInv'
  BY <1>3, Constants DEF Recheck, Return, Leave, Goto, Keep, TypeOK, HeldInv, HeldOf, LossInv,
     OwnInv, OwnOf, Creating, Publishing, Resting, NothingIsLost, ListedHasArchive, DataSurvives,
     disk, locals, world, ghosts
<1>4. ASSUME NEW c \in Callers, FileError(c) PROVE LossInv'
  BY <1>4, Constants DEF FileError, Return, Leave, Goto, Keep, TypeOK, HeldInv, HeldOf, LossInv,
     OwnInv, OwnOf, Creating, Publishing, Resting, NothingIsLost, ListedHasArchive, DataSurvives,
     disk, locals, world, ghosts
<1>5. ASSUME NEW c \in Callers, NEW p \in Parts, CopyPart(c, p) PROVE LossInv'
  BY <1>5, Constants DEF CopyPart, Goto, Keep, TypeOK, HeldInv, HeldOf, LossInv, OwnInv, OwnOf,
     Creating, Publishing, Resting, NothingIsLost, ListedHasArchive, DataSurvives, disk, locals,
     world, ghosts
<1>6. ASSUME NEW c \in Callers, PublishArchive(c) PROVE LossInv'
  BY <1>6, Constants DEF PublishArchive, Goto, TypeOK, HeldInv, HeldOf, LossInv, OwnInv, OwnOf,
     Creating, Publishing, Resting, NothingIsLost, ListedHasArchive, DataSurvives, disk, locals,
     world, ghosts
<1>7. ASSUME NEW c \in Callers, RecordMetadata(c) PROVE LossInv'
  BY <1>7, Constants DEF RecordMetadata, Return, Leave, Goto, TypeOK, HeldInv, HeldOf, LossInv,
     OwnInv, OwnOf, Creating, Publishing, Resting, NothingIsLost, ListedHasArchive, DataSurvives,
     disk, locals, world, ghosts
<1>8. ASSUME NEW c \in Callers, DiscardArchive(c) PROVE LossInv'
  BY <1>8, Constants DEF DiscardArchive, Return, Leave, Goto, TypeOK, HeldInv, HeldOf, LossInv,
     OwnInv, OwnOf, Creating, Publishing, Resting, NothingIsLost, ListedHasArchive, DataSurvives,
     disk, locals, world, ghosts
<1>9. ASSUME NEW c \in Callers, DeleteArchive(c) PROVE LossInv'
  BY <1>9, Constants DEF DeleteArchive, Goto, TypeOK, HeldInv, HeldOf, LossInv, OwnInv, OwnOf,
     Creating, Publishing, Resting, NothingIsLost, ListedHasArchive, DataSurvives, disk, locals,
     world, ghosts
<1>10. ASSUME NEW c \in Callers, DeleteMetadata(c) PROVE LossInv'
  BY <1>10, Constants DEF DeleteMetadata, Return, Leave, Goto, TypeOK, HeldInv, HeldOf, LossInv,
     OwnInv, OwnOf, Creating, Publishing, Resting, NothingIsLost, ListedHasArchive, DataSurvives,
     disk, locals, world, ghosts
<1>11. ASSUME NEW c \in Callers, Find(c) PROVE LossInv'
  BY <1>11, Constants DEF Find, Goto, Keep, TypeOK, HeldInv, HeldOf, LossInv, OwnInv, OwnOf,
     Creating, Publishing, Resting, NothingIsLost, ListedHasArchive, DataSurvives, disk, locals,
     world, ghosts
<1>12. ASSUME NEW c \in Callers, Extract(c) PROVE LossInv'
  BY <1>12, Constants DEF Extract, Goto, Keep, TypeOK, HeldInv, HeldOf, LossInv, OwnInv, OwnOf,
     Creating, Publishing, Resting, NothingIsLost, ListedHasArchive, DataSurvives, disk, locals,
     world, ghosts
<1>13. ASSUME NEW c \in Callers, Apply(c) PROVE LossInv'
  BY <1>13, Constants DEF Apply, Goto, Keep, TypeOK, HeldInv, HeldOf, LossInv, OwnInv, OwnOf,
     Creating, Publishing, Resting, NothingIsLost, ListedHasArchive, DataSurvives, disk, locals,
     world, ghosts
<1>14. ASSUME NEW c \in Callers, SetAside(c) PROVE LossInv'
  BY <1>14, Constants DEF SetAside, Goto, Disturb, Relying, TypeOK, HeldInv, HeldOf, LossInv,
     OwnInv, OwnOf, Creating, Publishing, Resting, NothingIsLost, ListedHasArchive, DataSurvives,
     disk, locals, world, ghosts
<1>15. ASSUME NEW c \in Callers, Publish(c) PROVE LossInv'
  BY <1>15, Constants DEF Publish, Leave, Goto, Disturb, Relying, TypeOK, HeldInv, HeldOf,
     LossInv, OwnInv, OwnOf, Creating, Publishing, Resting, NothingIsLost, ListedHasArchive,
     DataSurvives, disk, locals, world, ghosts
<1>16. ASSUME NEW c \in Callers, PublishFails(c) PROVE LossInv'
  BY <1>16, Constants DEF PublishFails, Goto, Keep, TypeOK, HeldInv, HeldOf, LossInv, OwnInv,
     OwnOf, Creating, Publishing, Resting, NothingIsLost, ListedHasArchive, DataSurvives, disk,
     locals, world, ghosts
<1>17. ASSUME NEW c \in Callers, RollBack(c) PROVE LossInv'
  BY <1>17, Constants DEF RollBack, Return, Leave, Goto, Disturb, Relying, TypeOK, HeldInv, HeldOf,
     LossInv, OwnInv, OwnOf, Creating, Publishing, Resting, NothingIsLost, ListedHasArchive,
     DataSurvives, disk, locals, world, ghosts
<1>18. CASE StartServer
  BY <1>18, Constants DEF StartServer, Disturb, Relying, TypeOK, HeldInv, HeldOf, LossInv,
     OwnInv, OwnOf, Creating, Publishing, Resting, NothingIsLost, ListedHasArchive, DataSurvives,
     disk, locals, world, ghosts
<1>19. CASE ServerStops
  BY <1>19, Constants DEF ServerStops, TypeOK, HeldInv, HeldOf, LossInv, OwnInv, OwnOf, Creating,
     Publishing, Resting, NothingIsLost, ListedHasArchive, DataSurvives, disk, locals, world,
     ghosts
<1>20. ASSUME NEW p \in Parts, ServerWrites(p) PROVE LossInv'
  BY <1>20 DEF ServerWrites, TypeOK, HeldInv, HeldOf, LossInv, OwnInv, OwnOf, Creating,
     Publishing, Resting, NothingIsLost, ListedHasArchive, DataSurvives, disk, locals, world,
     ghosts
<1>21. CASE ReadLogs
  BY <1>21, Constants DEF ReadLogs, TypeOK, HeldInv, HeldOf, LossInv, OwnInv, OwnOf, Creating,
     Publishing, Resting, NothingIsLost, ListedHasArchive, DataSurvives, disk, locals, world,
     ghosts
<1>22. CASE Crash
  BY <1>22, Constants DEF Crash, TypeOK, HeldInv, HeldOf, LossInv, OwnInv, OwnOf, Creating,
     Publishing, Resting, NothingIsLost, ListedHasArchive, DataSurvives, disk, locals, world,
     ghosts
<1>23. CASE UNCHANGED vars
  BY <1>23, Constants DEF vars, TypeOK, HeldInv, HeldOf, LossInv, OwnInv, OwnOf, Creating,
     Publishing, Resting, NothingIsLost, ListedHasArchive, DataSurvives, disk, locals, world,
     ghosts
<1> QED BY <1>1, <1>2, <1>3, <1>4, <1>5, <1>6, <1>7, <1>8, <1>9, <1>10, <1>11, <1>12, <1>13,
           <1>14, <1>15, <1>16, <1>17, <1>18, <1>19, <1>20, <1>21, <1>22, <1>23 DEF Next, Create,
           Restore

LEMMA Losses == Spec => [](TypeOK /\ HeldInv /\ LossInv)
<1>1. Init => LossInv
  BY DEF Init, LossInv, OwnInv, Creating, NothingIsLost, ListedHasArchive, DataSurvives
<1> QED BY <1>1, TypesStart, TypesStep, LossStep, PTL DEF Spec

\* A listed backup nobody began to delete has its archive, and what the directory
\* is meant to hold is in it or beside it, at every moment (create_backup,
\* delete_backup, publish_staged_directory).
THEOREM NothingLost == Spec => []NothingIsLost
<1>1. LossInv => NothingIsLost
  BY DEF LossInv
<1> QED BY <1>1, Losses, PTL

-----------------------------------------------------------------------------
(* What a backup takes and a failed restore leaves.                          *)

LEMMA SameStep == TypeOK /\ SameInv /\ [Next]_vars => SameInv'
<1> SUFFICES ASSUME TypeOK, SameInv, [Next]_vars PROVE SameInv'
  OBVIOUS
<1>1. ASSUME NEW c \in Callers, Call(c) PROVE SameInv'
  BY <1>1, Constants DEF Call, Keep, Goto, TypeOK, Labels, Resting, SameInv, SameOf, Relying,
     Content, disk, locals, world, ghosts
<1>2. ASSUME NEW c \in Callers, RequireStopped(c) PROVE SameInv'
  <2>1. CASE Return(c, "err")
    BY <1>2, <2>1 DEF RequireStopped, Return, Leave, Goto, Keep, TypeOK, Resting, SameInv,
       SameOf, Relying, disk, locals, world, ghosts
  <2>2. CASE ~Return(c, "err")
    BY <1>2, <2>2 DEF RequireStopped, Goto, Keep, TypeOK, SameInv, SameOf, Relying, disk, locals,
       world, ghosts
  <2> QED BY <2>1, <2>2
<1>3. ASSUME NEW c \in Callers, Recheck(c) PROVE SameInv'
  <2>1. CASE server = "running"
    BY <1>3, <2>1 DEF Recheck, Return, Leave, Goto, Keep, TypeOK, Resting, SameInv, SameOf,
       Relying, disk, locals, world, ghosts
  <2>2. CASE server # "running"
    <3>1. /\ UNCHANGED <<server, dir, copy>> /\ todo' = [todo EXCEPT ![c] = Parts]
          /\ disturbed' = [disturbed EXCEPT ![c] = server = "orphan"]
          /\ pc' = [pc EXCEPT ![c] = IF pc[c] = "recheck" THEN "copy" ELSE "extract"]
      BY <1>3, <2>2 DEF Recheck, Goto, Keep, disk, world
    <3> QED BY <1>3, <2>2, <3>1 DEF Recheck, TypeOK, SameInv, SameOf, Relying
  <2> QED BY <2>1, <2>2
<1>4. ASSUME NEW c \in Callers, FileError(c) PROVE SameInv'
  BY <1>4, Constants DEF FileError, Return, Leave, Goto, Keep, TypeOK, Labels, Resting, SameInv,
     SameOf, Relying, Content, disk, locals, world, ghosts
<1>5. ASSUME NEW c \in Callers, NEW p \in Parts, CopyPart(c, p) PROVE SameInv'
  BY <1>5, Constants DEF CopyPart, Goto, Keep, TypeOK, Labels, Resting, SameInv, SameOf, Relying,
     Content, disk, locals, world, ghosts
<1>6. ASSUME NEW c \in Callers, PublishArchive(c) PROVE SameInv'
  BY <1>6, Constants DEF PublishArchive, Goto, TypeOK, Labels, Resting, SameInv, SameOf, Relying,
     Content, disk, locals, world, ghosts
<1>7. ASSUME NEW c \in Callers, RecordMetadata(c) PROVE SameInv'
  BY <1>7, Constants DEF RecordMetadata, Return, Leave, Goto, TypeOK, Labels, Resting, SameInv,
     SameOf, Relying, Content, disk, locals, world, ghosts
<1>8. ASSUME NEW c \in Callers, DiscardArchive(c) PROVE SameInv'
  BY <1>8, Constants DEF DiscardArchive, Return, Leave, Goto, TypeOK, Labels, Resting, SameInv,
     SameOf, Relying, Content, disk, locals, world, ghosts
<1>9. ASSUME NEW c \in Callers, DeleteArchive(c) PROVE SameInv'
  BY <1>9, Constants DEF DeleteArchive, Goto, TypeOK, Labels, Resting, SameInv, SameOf, Relying,
     Content, disk, locals, world, ghosts
<1>10. ASSUME NEW c \in Callers, DeleteMetadata(c) PROVE SameInv'
  BY <1>10, Constants DEF DeleteMetadata, Return, Leave, Goto, TypeOK, Labels, Resting, SameInv,
     SameOf, Relying, Content, disk, locals, world, ghosts
<1>11. ASSUME NEW c \in Callers, Find(c) PROVE SameInv'
  BY <1>11, Constants DEF Find, Goto, Keep, TypeOK, Labels, Resting, SameInv, SameOf, Relying,
     Content, disk, locals, world, ghosts
<1>12. ASSUME NEW c \in Callers, Extract(c) PROVE SameInv'
  BY <1>12, Constants DEF Extract, Goto, Keep, TypeOK, Labels, Resting, SameInv, SameOf, Relying,
     Content, disk, locals, world, ghosts
<1>13. ASSUME NEW c \in Callers, Apply(c) PROVE SameInv'
  BY <1>13, Constants DEF Apply, Goto, Keep, TypeOK, Labels, Resting, SameInv, SameOf, Relying,
     Content, disk, locals, world, ghosts
<1>14. ASSUME NEW c \in Callers, SetAside(c) PROVE SameInv'
  BY <1>14, Constants DEF SetAside, Goto, Disturb, TypeOK, Labels, Resting, SameInv, SameOf,
     Relying, Content, disk, locals, world, ghosts
<1>15. ASSUME NEW c \in Callers, Publish(c) PROVE SameInv'
  BY <1>15, Constants DEF Publish, Leave, Goto, Disturb, TypeOK, Labels, Resting, SameInv,
     SameOf, Relying, Content, disk, locals, world, ghosts
<1>16. ASSUME NEW c \in Callers, PublishFails(c) PROVE SameInv'
  BY <1>16, Constants DEF PublishFails, Goto, Keep, TypeOK, Labels, Resting, SameInv, SameOf,
     Relying, Content, disk, locals, world, ghosts
<1>17. ASSUME NEW c \in Callers, RollBack(c) PROVE SameInv'
  <2>1. pc' = [pc EXCEPT ![c] = "err"] /\ copy' = [copy EXCEPT ![c] = Nothing]
        /\ todo' = [todo EXCEPT ![c] = {}] /\ server' = server
    BY <1>17 DEF RollBack, Return, Leave, Goto, world
  <2>2. \A d \in Callers : d \in Relying' /\ ~disturbed'[d] => d \in Relying /\ ~disturbed[d] /\ dir' = dir
    BY <1>17, <2>1 DEF RollBack, Return, Disturb, Relying, Resting, TypeOK
  <2>3. \A d \in Relying' : pc'[d] = pc[d] /\ copy'[d] = copy[d] /\ todo'[d] = todo[d]
    BY <2>1 DEF Relying, TypeOK
  <2> QED BY <2>1, <2>2, <2>3 DEF SameInv, SameOf, Relying
<1>18. CASE StartServer
  BY <1>18, Constants DEF StartServer, Disturb, TypeOK, Labels, Resting, SameInv, SameOf,
     Relying, Content, disk, locals, world, ghosts
<1>19. CASE ServerStops
  BY <1>19, Constants DEF ServerStops, TypeOK, Labels, Resting, SameInv, SameOf, Relying,
     Content, disk, locals, world, ghosts
<1>20. ASSUME NEW p \in Parts, ServerWrites(p) PROVE SameInv'
  BY <1>20 DEF ServerWrites, TypeOK, Labels, Resting, SameInv, SameOf, Relying, Content, disk,
     locals, world, ghosts
<1>21. CASE ReadLogs
  BY <1>21, Constants DEF ReadLogs, TypeOK, Labels, Resting, SameInv, SameOf, Relying, Content,
     disk, locals, world, ghosts
<1>22. CASE Crash
  BY <1>22, Constants DEF Crash, TypeOK, Labels, Resting, SameInv, SameOf, Relying, Content,
     disk, locals, world, ghosts
<1>23. CASE UNCHANGED vars
  BY <1>23, Constants DEF vars, TypeOK, Labels, Resting, SameInv, SameOf, Relying, Content, disk,
     locals, world, ghosts
<1> QED BY <1>1, <1>2, <1>3, <1>4, <1>5, <1>6, <1>7, <1>8, <1>9, <1>10, <1>11, <1>12, <1>13,
           <1>14, <1>15, <1>16, <1>17, <1>18, <1>19, <1>20, <1>21, <1>22, <1>23 DEF Next, Create,
           Restore

LEMMA KnownStep == TypeOK /\ HeldInv /\ KnownInv /\ [Next]_vars => KnownInv'
<1> SUFFICES ASSUME TypeOK, HeldInv, KnownInv, [Next]_vars PROVE KnownInv'
  OBVIOUS
<1>1. ASSUME NEW c \in Callers, Call(c) PROVE KnownInv'
  BY <1>1, Constants DEF Call, Goto, Keep, Resting, TypeOK, KnownInv, KnownOf, Restoring,
     Publishing, disk, locals, world, ghosts
<1>2. ASSUME NEW c \in Callers, RequireStopped(c) PROVE KnownInv'
  BY <1>2, Constants DEF RequireStopped, Return, Leave, Goto, Keep, Resting, TypeOK, KnownInv,
     KnownOf, Restoring, Publishing, disk, locals, world, ghosts
<1>3. ASSUME NEW c \in Callers, Recheck(c) PROVE KnownInv'
  BY <1>3, Constants DEF Recheck, Return, Leave, Goto, Keep, Resting, TypeOK, KnownInv, KnownOf,
     Restoring, Publishing, disk, locals, world, ghosts
<1>4. ASSUME NEW c \in Callers, FileError(c) PROVE KnownInv'
  BY <1>4, Constants DEF FileError, Return, Leave, Goto, Keep, Resting, TypeOK, KnownInv,
     KnownOf, Restoring, Publishing, disk, locals, world, ghosts
<1>5. ASSUME NEW c \in Callers, NEW p \in Parts, CopyPart(c, p) PROVE KnownInv'
  BY <1>5, Constants DEF CopyPart, Goto, Keep, TypeOK, KnownInv, KnownOf, Restoring, Publishing,
     Resting, disk, locals, world, ghosts
<1>6. ASSUME NEW c \in Callers, PublishArchive(c) PROVE KnownInv'
  BY <1>6, Constants DEF PublishArchive, Goto, TypeOK, KnownInv, KnownOf, Restoring, Publishing,
     Resting, disk, locals, world, ghosts
<1>7. ASSUME NEW c \in Callers, RecordMetadata(c) PROVE KnownInv'
  BY <1>7, Constants DEF RecordMetadata, Return, Leave, Goto, TypeOK, KnownInv, KnownOf,
     Restoring, Publishing, Resting, disk, locals, world, ghosts
<1>8. ASSUME NEW c \in Callers, DiscardArchive(c) PROVE KnownInv'
  BY <1>8, Constants DEF DiscardArchive, Return, Leave, Goto, TypeOK, KnownInv, KnownOf,
     Restoring, Publishing, Resting, disk, locals, world, ghosts
<1>9. ASSUME NEW c \in Callers, DeleteArchive(c) PROVE KnownInv'
  BY <1>9, Constants DEF DeleteArchive, Goto, TypeOK, KnownInv, KnownOf, Restoring, Publishing,
     Resting, disk, locals, world, ghosts
<1>10. ASSUME NEW c \in Callers, DeleteMetadata(c) PROVE KnownInv'
  BY <1>10, Constants DEF DeleteMetadata, Return, Leave, Goto, TypeOK, KnownInv, KnownOf,
     Restoring, Publishing, Resting, disk, locals, world, ghosts
<1>11. ASSUME NEW c \in Callers, Find(c) PROVE KnownInv'
  BY <1>11, Constants DEF Find, Goto, Keep, TypeOK, KnownInv, KnownOf, Restoring, Publishing,
     Resting, disk, locals, world, ghosts
<1>12. ASSUME NEW c \in Callers, Extract(c) PROVE KnownInv'
  BY <1>12, Constants DEF Extract, Goto, Keep, TypeOK, KnownInv, KnownOf, Restoring, Publishing,
     Resting, disk, locals, world, ghosts
<1>13. ASSUME NEW c \in Callers, Apply(c) PROVE KnownInv'
  BY <1>13, Constants DEF Apply, Goto, Keep, TypeOK, KnownInv, KnownOf, Restoring, Publishing,
     Resting, disk, locals, world, ghosts
<1>14. ASSUME NEW c \in Callers, SetAside(c) PROVE KnownInv'
  BY <1>14, Constants DEF SetAside, Goto, Disturb, TypeOK, KnownInv, KnownOf, Restoring,
     Publishing, Resting, disk, locals, world, ghosts
<1>15. ASSUME NEW c \in Callers, Publish(c) PROVE KnownInv'
  BY <1>15, Constants DEF Publish, Leave, Goto, Disturb, TypeOK, KnownInv, KnownOf, Restoring,
     Publishing, Resting, disk, locals, world, ghosts
<1>16. ASSUME NEW c \in Callers, PublishFails(c) PROVE KnownInv'
  BY <1>16, Constants DEF PublishFails, Goto, Keep, TypeOK, KnownInv, KnownOf, Restoring,
     Publishing, Resting, disk, locals, world, ghosts
<1>17. ASSUME NEW c \in Callers, RollBack(c) PROVE KnownInv'
  BY <1>17, Constants DEF RollBack, Return, Leave, Goto, Disturb, TypeOK, KnownInv, KnownOf,
     Restoring, Publishing, Resting, disk, locals, world, ghosts
<1>18. CASE StartServer
  BY <1>18, Constants DEF StartServer, Disturb, TypeOK, KnownInv, KnownOf, Restoring, Publishing,
     Resting, disk, locals, world, ghosts
<1>19. CASE ServerStops
  BY <1>19, Constants DEF ServerStops, TypeOK, KnownInv, KnownOf, Restoring, Publishing, Resting,
     disk, locals, world, ghosts
<1>20. ASSUME NEW p \in Parts, ServerWrites(p) PROVE KnownInv'
  BY <1>20, Constants DEF ServerWrites, TypeOK, KnownInv, KnownOf, Restoring, Publishing,
     Resting, disk, locals, world, ghosts
<1>21. CASE ReadLogs
  BY <1>21, Constants DEF ReadLogs, TypeOK, KnownInv, KnownOf, Restoring, Publishing, Resting,
     disk, locals, world, ghosts
<1>22. CASE Crash
  BY <1>22, Constants DEF Crash, TypeOK, KnownInv, KnownOf, Restoring, Publishing, Resting, disk,
     locals, world, ghosts
<1>23. CASE UNCHANGED vars
  BY <1>23, Constants DEF vars, TypeOK, KnownInv, KnownOf, Restoring, Publishing, Resting, disk,
     locals, world, ghosts
<1> QED BY <1>1, <1>2, <1>3, <1>4, <1>5, <1>6, <1>7, <1>8, <1>9, <1>10, <1>11, <1>12, <1>13,
           <1>14, <1>15, <1>16, <1>17, <1>18, <1>19, <1>20, <1>21, <1>22, <1>23 DEF Next, Create,
           Restore

LEMMA MergeStep == TypeOK /\ HeldInv /\ OwnInv /\ KnownInv /\ SameInv /\ MergeInv /\ [Next]_vars => MergeInv'
<1> SUFFICES ASSUME TypeOK, HeldInv, OwnInv, KnownInv, SameInv, MergeInv, [Next]_vars PROVE MergeInv'
  OBVIOUS
<1>1. ASSUME NEW c \in Callers, Call(c) PROVE MergeInv'
  BY <1>1, Constants DEF Call, Goto, Keep, Resting, TypeOK, MergeInv, MergeOf, Publishing, disk,
     locals, world, ghosts
<1>2. ASSUME NEW c \in Callers, RequireStopped(c) PROVE MergeInv'
  BY <1>2, Constants DEF RequireStopped, Return, Leave, Goto, Keep, Resting, TypeOK, MergeInv,
     MergeOf, Publishing, disk, locals, world, ghosts
<1>3. ASSUME NEW c \in Callers, Recheck(c) PROVE MergeInv'
  BY <1>3, Constants DEF Recheck, Return, Leave, Goto, Keep, Resting, TypeOK, MergeInv, MergeOf,
     Publishing, disk, locals, world, ghosts
<1>4. ASSUME NEW c \in Callers, FileError(c) PROVE MergeInv'
  BY <1>4, Constants DEF FileError, Return, Leave, Goto, Keep, Resting, TypeOK, MergeInv,
     MergeOf, Publishing, disk, locals, world, ghosts
<1>5. ASSUME NEW c \in Callers, NEW p \in Parts, CopyPart(c, p) PROVE MergeInv'
  BY <1>5, Constants DEF CopyPart, Goto, Keep, TypeOK, Resting, MergeInv, MergeOf, Publishing,
     disk, locals, world, ghosts
<1>6. ASSUME NEW c \in Callers, PublishArchive(c) PROVE MergeInv'
  <2>1. ASSUME NEW d \in Callers, pc[d] \in Restoring PROVE id[d] # id[c] /\ d # c
    BY <1>6, <2>1 DEF PublishArchive, OwnInv, OwnOf, Creating, KnownInv, KnownOf, Restoring,
       Publishing
  <2>2. \A d \in Callers : pc'[d] \in Restoring => pc[d] = pc'[d]
    BY <1>6 DEF PublishArchive, Goto, TypeOK, Restoring, Publishing
  <2>3. \A d \in Callers : d # c => id'[d] = id[d] /\ copy'[d] = copy[d] /\ extracted'[d] = extracted[d]
    BY <1>6 DEF PublishArchive, Goto, TypeOK
  <2>4. \A i \in Ids : i # id[c] => archive'[i] = archive[i]
    BY <1>6 DEF PublishArchive, TypeOK
  <2>5. \A d \in Callers : d # c => disturbed'[d] = disturbed[d]
    BY <1>6 DEF PublishArchive, TypeOK
  <2>6. \A d \in Callers : pc[d] \in Restoring => id[d] \in Ids
    BY DEF HeldInv, HeldOf, Restoring, Publishing, Resting
  <2>7. UNCHANGED <<dir, aside, doomed>>
    BY <1>6 DEF PublishArchive, ghosts
  <2> QED BY <2>1, <2>2, <2>3, <2>4, <2>5, <2>6, <2>7 DEF MergeInv, MergeOf, Restoring, Publishing
<1>7. ASSUME NEW c \in Callers, RecordMetadata(c) PROVE MergeInv'
  BY <1>7, Constants DEF RecordMetadata, Return, Leave, Goto, TypeOK, Resting, MergeInv, MergeOf,
     Publishing, disk, locals, world, ghosts
<1>8. ASSUME NEW c \in Callers, DiscardArchive(c) PROVE MergeInv'
  <2>1. ASSUME NEW d \in Callers, pc[d] \in Restoring PROVE id[d] # id[c] /\ d # c
    BY <1>8, <2>1 DEF DiscardArchive, OwnInv, OwnOf, Creating, KnownInv, KnownOf, Restoring,
       Publishing
  <2>2. \A d \in Callers : pc'[d] \in Restoring => pc[d] = pc'[d]
    BY <1>8 DEF DiscardArchive, Return, Leave, Goto, TypeOK, Restoring, Publishing
  <2>3. \A d \in Callers : d # c => id'[d] = id[d] /\ copy'[d] = copy[d] /\ extracted'[d] = extracted[d]
    BY <1>8 DEF DiscardArchive, Return, Leave, Goto, TypeOK
  <2>4. \A i \in Ids : i # id[c] => archive'[i] = archive[i]
    BY <1>8 DEF DiscardArchive, TypeOK
  <2>5. \A d \in Callers : d # c => disturbed'[d] = disturbed[d]
    BY <1>8 DEF DiscardArchive, Return, Leave, TypeOK
  <2>6. \A d \in Callers : pc[d] \in Restoring => id[d] \in Ids
    BY DEF HeldInv, HeldOf, Restoring, Publishing, Resting
  <2>7. UNCHANGED <<dir, aside, doomed>>
    BY <1>8 DEF DiscardArchive, ghosts
  <2> QED BY <2>1, <2>2, <2>3, <2>4, <2>5, <2>6, <2>7 DEF MergeInv, MergeOf, Restoring, Publishing
<1>9. ASSUME NEW c \in Callers, DeleteArchive(c) PROVE MergeInv'
  BY <1>9, Constants DEF DeleteArchive, Goto, TypeOK, Resting, MergeInv, MergeOf, Publishing,
     disk, locals, world, ghosts
<1>10. ASSUME NEW c \in Callers, DeleteMetadata(c) PROVE MergeInv'
  BY <1>10, Constants DEF DeleteMetadata, Return, Leave, Goto, TypeOK, Resting, MergeInv,
     MergeOf, Publishing, disk, locals, world, ghosts
<1>11. ASSUME NEW c \in Callers, Find(c) PROVE MergeInv'
  BY <1>11, Constants DEF Find, Goto, Keep, TypeOK, Resting, MergeInv, MergeOf, Publishing, disk,
     locals, world, ghosts
<1>12. ASSUME NEW c \in Callers, Extract(c) PROVE MergeInv'
  BY <1>12, Constants DEF Extract, Goto, Keep, TypeOK, Resting, MergeInv, MergeOf, Publishing,
     disk, locals, world, ghosts
<1>13. ASSUME NEW c \in Callers, Apply(c) PROVE MergeInv'
  <2>1. /\ pc[c] = "apply" /\ copy' = [copy EXCEPT ![c] = Merge(extracted[c], copy[c])]
        /\ extracted' = [extracted EXCEPT ![c] = Nothing] /\ pc' = [pc EXCEPT ![c] = "set_aside"]
        /\ UNCHANGED <<id, disturbed, dir, aside, archive, doomed>>
    BY <1>13 DEF Apply, Goto, Keep, disk, ghosts
  <2>2. ASSUME ~disturbed[c] PROVE copy[c] = dir
    <3>1. todo[c] = {} /\ dir # Missing /\ \A p \in Parts : copy[c][p] = dir[p]
      BY <2>1, <2>2 DEF SameInv, SameOf, Relying
    <3>2. copy[c] \in Content /\ dir \in Content
      BY <3>1 DEF TypeOK
    <3> QED BY <3>1, <3>2 DEF Content
  <2>3. ASSUME ~disturbed[c], id[c] \notin doomed PROVE copy'[c] = Merge(archive[id[c]], dir)
    <3>1. extracted[c] = archive[id[c]]
      BY <2>1, <2>3 DEF MergeInv, MergeOf
    <3> QED BY <2>1, <2>2, <2>3, <3>1 DEF TypeOK
  <2> QED BY <2>1, <2>3 DEF TypeOK, MergeInv, MergeOf, Publishing
<1>14. ASSUME NEW c \in Callers, SetAside(c) PROVE MergeInv'
  <2>1. /\ pc[c] = "set_aside" /\ aside' = [aside EXCEPT ![c] = dir] /\ pc' = [pc EXCEPT ![c] = "publish"]
        /\ UNCHANGED <<id, copy, extracted, archive, doomed>>
    BY <1>14 DEF SetAside, Goto, ghosts
  <2>2. \A d \in Callers : pc'[d] \notin Resting /\ ~disturbed'[d] => ~disturbed[d] /\ pc'[d] # "set_aside"
    BY <1>14 DEF SetAside, Disturb, Relying
  <2> QED BY <2>1, <2>2 DEF TypeOK, MergeInv, MergeOf, Publishing, Resting
<1>15. ASSUME NEW c \in Callers, Publish(c) PROVE MergeInv'
  <2>1. /\ pc[c] = "publish" /\ pc' = [pc EXCEPT ![c] = "ok"] /\ aside' = [aside EXCEPT ![c] = Missing]
        /\ id' = [id EXCEPT ![c] = Missing] /\ copy' = [copy EXCEPT ![c] = Nothing]
        /\ extracted' = [extracted EXCEPT ![c] = Nothing] /\ UNCHANGED <<archive, doomed>>
    BY <1>15 DEF Publish, Leave, Goto
  <2>2. \A d \in Callers : pc'[d] \notin Resting /\ ~disturbed'[d] => ~disturbed[d] /\ pc'[d] # "set_aside"
    BY <1>15 DEF Publish, Disturb, Relying
  <2> QED BY <2>1, <2>2 DEF TypeOK, MergeInv, MergeOf, Publishing, Resting
<1>16. ASSUME NEW c \in Callers, PublishFails(c) PROVE MergeInv'
  BY <1>16, Constants DEF PublishFails, Goto, Keep, TypeOK, Resting, MergeInv, MergeOf,
     Publishing, disk, locals, world, ghosts
<1>17. ASSUME NEW c \in Callers, RollBack(c) PROVE MergeInv'
  <2>1. /\ pc' = [pc EXCEPT ![c] = "err"] /\ aside' = [aside EXCEPT ![c] = Missing]
        /\ id' = [id EXCEPT ![c] = Missing] /\ copy' = [copy EXCEPT ![c] = Nothing]
        /\ extracted' = [extracted EXCEPT ![c] = Nothing] /\ UNCHANGED <<archive, doomed>>
    BY <1>17 DEF RollBack, Return, Leave, Goto, ghosts
  <2>2. \A d \in Callers : pc'[d] \notin Resting /\ ~disturbed'[d] =>
            ~disturbed[d] /\ (pc'[d] = "set_aside" => dir' = dir)
    BY <1>17, <2>1 DEF RollBack, Return, Disturb, Relying, TypeOK, Resting
  <2> QED BY <2>1, <2>2 DEF TypeOK, MergeInv, MergeOf, Publishing, Resting
<1>18. CASE StartServer
  BY <1>18, Constants DEF StartServer, Disturb, TypeOK, Resting, MergeInv, MergeOf, Publishing,
     disk, locals, world, ghosts
<1>19. CASE ServerStops
  BY <1>19, Constants DEF ServerStops, TypeOK, Resting, MergeInv, MergeOf, Publishing, disk,
     locals, world, ghosts
<1>20. ASSUME NEW p \in Parts, ServerWrites(p) PROVE MergeInv'
  <2>1. server # "stopped" /\ UNCHANGED <<pc, id, copy, extracted, disturbed, aside, archive, doomed>>
    BY <1>20 DEF ServerWrites, locals
  <2>2. \A d \in Callers : pc[d] = "set_aside" => disturbed[d]
    BY <2>1 DEF SameInv, SameOf, Relying
  <2> QED BY <2>1, <2>2 DEF MergeInv, MergeOf
<1>21. CASE ReadLogs
  <2>1. dir = Missing /\ UNCHANGED <<pc, id, copy, extracted, disturbed, aside, archive, doomed>>
    BY <1>21 DEF ReadLogs, locals, ghosts
  <2>2. \A d \in Callers : pc[d] = "set_aside" => disturbed[d]
    BY <2>1 DEF SameInv, SameOf, Relying
  <2> QED BY <2>1, <2>2 DEF MergeInv, MergeOf
<1>22. CASE Crash
  BY <1>22, Constants DEF Crash, TypeOK, Resting, MergeInv, MergeOf, Publishing, disk, locals,
     world, ghosts
<1>23. CASE UNCHANGED vars
  BY <1>23, Constants DEF vars, TypeOK, Resting, MergeInv, MergeOf, Publishing, disk, locals,
     world, ghosts
<1> QED BY <1>1, <1>2, <1>3, <1>4, <1>5, <1>6, <1>7, <1>8, <1>9, <1>10, <1>11, <1>12, <1>13,
           <1>14, <1>15, <1>16, <1>17, <1>18, <1>19, <1>20, <1>21, <1>22, <1>23 DEF Next, Create,
           Restore

LEMMA Copies == Spec => [](TypeOK /\ HeldInv /\ SameInv /\ MergeInv)
<1>1. Init => KnownInv /\ SameInv /\ MergeInv
  BY DEF Init, KnownInv, KnownOf, Restoring, Publishing, SameInv, Relying, MergeInv, MergeOf
<1>2. LossInv => OwnInv
  BY DEF LossInv
<1> QED BY <1>1, <1>2, TypesStart, TypesStep, Losses, KnownStep, SameStep, MergeStep, PTL DEF Spec

Steps(c) ==
    \/ Call(c) \/ RequireStopped(c) \/ Recheck(c) \/ FileError(c)
    \/ Create(c) \/ DeleteArchive(c) \/ DeleteMetadata(c) \/ Restore(c)

\* One call moves at a time, but when the host dies:
LEMMA Mover ==
    ASSUME TypeOK, [Next]_vars, NEW c \in Callers, pc'[c] # pc[c], pc'[c] # "idle"
    PROVE  Steps(c)
<1>1. PICK d \in Callers : Steps(d)
  BY DEF Next, Steps, StartServer, ServerStops, ServerWrites, ReadLogs, Crash, vars, locals
<1>2. \E label : Goto(d, label)
  BY <1>1 DEF Steps, Call, RequireStopped, Recheck, FileError, Create, CopyPart, PublishArchive,
              RecordMetadata, DiscardArchive, DeleteArchive, DeleteMetadata, Restore, Find, Extract,
              Apply, SetAside, Publish, PublishFails, RollBack, Return, Leave
<1>3. c = d
  BY <1>2 DEF Goto, TypeOK
<1> QED BY <1>1, <1>3

\* only the second rename leads from there to a success,
LEMMA Renames ==
    ASSUME TypeOK, [Next]_vars, NEW c \in Callers, pc[c] = "publish", pc'[c] = "ok"
    PROVE  Publish(c)
<1>1. Steps(c)
  BY Mover
<1> QED BY <1>1 DEF Steps, Call, RequireStopped, Recheck, FileError, Create, CopyPart,
           PublishArchive,
              RecordMetadata, DiscardArchive, DeleteArchive, DeleteMetadata, Restore, Find, Extract,
              Apply, SetAside, PublishFails, RollBack, Return, Leave, Goto, Resting, TypeOK

\* and only publishing an archive leads to its record.
LEMMA Publishes ==
    ASSUME TypeOK, [Next]_vars, NEW c \in Callers, pc[c] = "archive", pc'[c] = "record"
    PROVE  PublishArchive(c)
<1>1. Steps(c)
  BY Mover
<1> QED BY <1>1 DEF Steps, Call, RequireStopped, Recheck, FileError, Create, CopyPart,
              RecordMetadata, DiscardArchive, DeleteArchive, DeleteMetadata, Restore, Find, Extract,
              Apply, SetAside, Publish, PublishFails, RollBack, Return, Leave, Goto, Resting, TypeOK

\* An undisturbed backup is the directory as it is when the archive is published,
\* and an undisturbed restore puts its archive over the directory it has renamed
\* away (create_backup, restore_backup, publish_staged_directory).
THEOREM CopiesWhole == Spec => CopiesAreWhole
<1>1. ASSUME TypeOK, HeldInv, SameInv, [Next]_vars, NEW c \in Callers,
             pc[c] = "archive", pc'[c] = "record", ~disturbed[c]
      PROVE  archive'[id[c]] = dir
  <2>1. PublishArchive(c)
    BY <1>1, Publishes
  <2>2. todo[c] = {} /\ dir # Missing /\ \A p \in Parts : copy[c][p] = dir[p]
    BY <1>1 DEF SameInv, SameOf, Relying
  <2>3. copy[c] \in Content /\ dir \in Content
    BY <1>1, <2>2 DEF TypeOK
  <2>4. copy[c] = dir
    BY <2>2, <2>3 DEF Content
  <2>5. id[c] \in Ids
    BY <1>1 DEF HeldInv, HeldOf, Resting
  <2> QED BY <1>1, <2>1, <2>4, <2>5 DEF PublishArchive, TypeOK
<1>2. ASSUME TypeOK, MergeInv, [Next]_vars, NEW c \in Callers,
             pc[c] = "publish", pc'[c] = "ok", ~disturbed[c], id[c] \notin doomed
      PROVE  dir' = Merge(archive[id[c]], aside[c])
  <2>1. Publish(c)
    BY <1>2, Renames
  <2> QED BY <1>2, <2>1 DEF Publish, MergeInv, MergeOf, Publishing
<1>3. TypeOK /\ HeldInv /\ SameInv /\ MergeInv /\ [Next]_vars =>
        /\ [\A c \in Callers : pc[c] = "archive" /\ pc'[c] = "record" /\ ~disturbed[c]
              => archive'[id[c]] = dir]_vars
        /\ [\A c \in Callers : pc[c] = "publish" /\ pc'[c] = "ok" /\ ~disturbed[c] /\ id[c] \notin doomed
              => dir' = Merge(archive[id[c]], aside[c])]_vars
  BY <1>1, <1>2
<1> QED BY <1>3, Copies, PTL DEF Spec, CopiesAreWhole, QuietBackupIsSnapshot, QuietRestoreIsMerge

=============================================================================
