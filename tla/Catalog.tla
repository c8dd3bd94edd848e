------------------------------ MODULE Catalog ------------------------------
(***************************************************************************)
(* The backup catalog: what the plugin reads out of the answer of          *)
(* pgbackrest info.  A catalog is the sequence of the backups of one       *)
(* stanza in the order of their labels, which is that of their starts.     *)
(*                                                                         *)
(* Seconds and LSNs are natural numbers; 0 is a time that is not there.    *)
(***************************************************************************)
EXTENDS Integers, Sequences

CONSTANT NoBackup  \* a nil backup

LatestTimelineID == -1

\* RecoveryTarget: each field may be empty (NoID, NoTime, NoLSN, and for the timeline
\* anything that is not a number, such as "latest").
NoID == 0
NoTime == 0
NoLSN == 0
Latest == LatestTimelineID

\* The last, and the first, of some places in a catalog.
LastOf(cat, places) ==
    IF places = {} THEN NoBackup ELSE cat[CHOOSE i \in places : \A j \in places : j <= i]

FirstOf(cat, places) ==
    IF places = {} THEN NoBackup ELSE cat[CHOOSE i \in places : \A j \in places : i <= j]

isBackupDone(b) == b.start # 0 /\ b.stop # 0

\* The timeline in the name of the first WAL file of the backup.
startTimeline(b) == b.wal.tli

\* Mutant: any timeline will do.
AnyTimeline(b, tli) == isBackupDone(b)

\* The backups a look-up considers.
OnTimeline(b, tli) ==
    isBackupDone(b) /\ (startTimeline(b) <= tli \/ tli = LatestTimelineID)

LatestBackupInfo(cat) == LastOf(cat, {i \in DOMAIN cat : isBackupDone(cat[i])})

findClosestBackupFromTargetTime(cat, time, tli) ==
    LastOf(cat, {i \in DOMAIN cat : OnTimeline(cat[i], tli) /\ cat[i].stop <= time})

findClosestBackupFromTargetLSN(cat, lsn, tli) ==
    LastOf(cat, {i \in DOMAIN cat : OnTimeline(cat[i], tli) /\ cat[i].lsn < lsn})

findLatestBackupFromTimeline(cat, tli) ==
    LastOf(cat, {i \in DOMAIN cat : OnTimeline(cat[i], tli)})

\* An ID that is not in the catalog is an error, as is, for the caller, no backup.
findBackupFromID(cat, id) ==
    FirstOf(cat, {i \in DOMAIN cat : isBackupDone(cat[i]) /\ cat[i].id = id})

\* An ID wins over a time, and a time over an LSN.
FindBackupInfo(cat, target) ==
    IF target.id # NoID THEN findBackupFromID(cat, target.id)
    ELSE IF target.time # NoTime THEN findClosestBackupFromTargetTime(cat, target.time, target.tli)
    ELSE IF target.lsn # NoLSN THEN findClosestBackupFromTargetLSN(cat, target.lsn, target.tli)
    ELSE findLatestBackupFromTimeline(cat, target.tli)

\* Mutant: the name is not looked at.
IDOfLatest(cat, name) == IF cat = <<>> THEN NoID ELSE cat[Len(cat)].id

\* The ID of the last backup that carries the name in its annotation, or NoID.
GetBackupIDFromAnnotatedName(cat, name) ==
    LET b == LastOf(cat, {i \in DOMAIN cat : cat[i].name = name})
    IN  IF b = NoBackup THEN NoID ELSE b.id
=============================================================================
