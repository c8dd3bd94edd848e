---------------------------- MODULE RestoreJob ----------------------------
(***************************************************************************)
(* The job that creates a cluster from a backup: the Restore hook of the   *)
(* plugin, called by the restore command of CloudNativePG.                 *)
(*                                                                         *)
(* The repository is not this module's: its actions take the catalog that  *)
(* pgbackrest info reports and the backups that are there.  A file of WAL  *)
(* is whole where it is listed; the one that is being copied is not.       *)
(***************************************************************************)
EXTENDS Catalog, FiniteSets

CONSTANTS
    Clusters,      \* the clusters that may be created: [target, walStorage]
    NoCluster,
    NoTarget,      \* no recoveryTarget
    Files,         \* WAL files that come with a backup, in pg_wal
    NoFile,
    MaxAttempts,   \* bound: pods of the job
    MaxFailures    \* bound: attempts that fail or are killed

ASSUME RestoreJobAssumption ==
    /\ NoCluster \notin Clusters /\ NoFile \notin Files
    /\ \A c \in Clusters :
         c.target = NoTarget \/ c.target \in [id: Nat, time: Nat, lsn: Nat, tli: Nat \cup {Latest}]
    /\ MaxAttempts \in Nat \ {0} /\ MaxFailures \in Nat

VARIABLES
    cluster,    \* the new cluster
    jpc,        \* where its job is
    chosen,     \* the backup to restore
    data,       \* PGDATA: "none", "partial" or "restored"
    walDir,     \* pg_wal in PGDATA: "none", "dir" or "link", to the WAL volume
    inData,     \* the WAL files in the pg_wal directory
    inVolume,   \* the WAL files in the WAL volume
    copying,    \* the file that is being copied to the WAL volume
    attempts, failures

volumeVars == <<data, walDir, inData, inVolume, copying>>
jobVars == <<cluster, jpc, chosen, volumeVars, attempts, failures>>

JobSteps == {"idle", "load", "restore", "restoring", "link", "move", "symlink", "ok", "failed"}

JobInit ==
    /\ cluster = NoCluster /\ jpc = "idle" /\ chosen = NoBackup
    /\ data = "none" /\ walDir = "none" /\ inData = {} /\ inVolume = {} /\ copying = NoFile
    /\ attempts = 0 /\ failures = 0

CreateCluster ==
    /\ cluster = NoCluster
    /\ cluster' \in Clusters
    /\ UNCHANGED <<jpc, chosen, volumeVars, attempts, failures>>

\* A pod of the job: CloudNativePG clears PGDATA and the WAL volume, and calls the hook,
\* which reads the Archives and asks for the destination of the new cluster's own WAL
\* files: a stanza that is missing is fine, and so is one in use.
JobBegins ==
    /\ cluster # NoCluster /\ jpc \in {"idle", "failed"} /\ attempts < MaxAttempts
    /\ attempts' = attempts + 1
    /\ data' = "none" /\ walDir' = "none" /\ inData' = {} /\ inVolume' = {} /\ copying' = NoFile
    /\ chosen' = NoBackup
    /\ jpc' = "load"
    /\ UNCHANGED <<cluster, failures>>

\* The backup to restore.
BackupToRestore(catalog, target) ==
    IF target = NoTarget THEN LatestBackupInfo(catalog) ELSE FindBackupInfo(catalog, target)

\* loadBackupObjectFromExternalCluster; no target backup found is an error.
LoadBackup(catalog) ==
    /\ jpc = "load"
    /\ chosen' = BackupToRestore(catalog, cluster.target)
    /\ jpc' = IF chosen' = NoBackup THEN "failed" ELSE "restore"
    /\ UNCHANGED <<cluster, volumeVars, attempts, failures>>

\* pgbackrest restore --set needs the backup from its start to its end.
RestoreStarts(backups) ==
    /\ jpc = "restore" /\ chosen \in backups
    /\ data' = "partial"
    /\ jpc' = "restoring"
    /\ UNCHANGED <<cluster, chosen, walDir, inData, inVolume, copying, attempts, failures>>

BackupGone(backups) ==
    /\ jpc \in {"restore", "restoring"} /\ chosen \notin backups
    /\ jpc' = "failed"
    /\ UNCHANGED <<cluster, chosen, volumeVars, attempts, failures>>

\* The restore ends, and postgresql.auto.conf is overwritten.  With the additional
\* argument --link-all pgbackrest has made pg_wal a link to the WAL volume itself.
RestoreEnds(backups) ==
    /\ jpc = "restoring" /\ chosen \in backups
    /\ data' = "restored"
    /\ \/ walDir' = "dir" /\ inData' = Files /\ UNCHANGED inVolume
       \/ cluster.walStorage /\ walDir' = "link" /\ inVolume' = Files /\ UNCHANGED inData
    /\ jpc' = IF cluster.walStorage THEN "link" ELSE "ok"
    /\ UNCHANGED <<cluster, chosen, copying, attempts, failures>>

\* Mutant: a link that is there is an error.
LinkIsAnError ==
    /\ jpc = "link"
    /\ jpc' = IF walDir = "link" THEN "failed" ELSE "move"
    /\ UNCHANGED <<cluster, chosen, volumeVars, attempts, failures>>

\* Mutant: the link is not looked at; the files are then moved onto themselves, and what
\* is opened to be written is empty.
NoLinkCheck ==
    /\ jpc = "link"
    /\ jpc' = "move"
    /\ inVolume' = IF walDir = "link" THEN {} ELSE inVolume
    /\ inData' = IF walDir = "link" THEN {} ELSE inData
    /\ UNCHANGED <<cluster, chosen, data, walDir, copying, attempts, failures>>

\* restoreCustomWalDir: a link that is there is left alone.
CheckLink ==
    /\ jpc = "link"
    /\ jpc' = IF walDir = "link" THEN "ok" ELSE "move"
    /\ UNCHANGED <<cluster, chosen, volumeVars, attempts, failures>>

\* Mutant: a file is removed before it is copied.
RemoveBeforeCopy ==
    /\ jpc = "move" /\ copying = NoFile
    /\ \E f \in inData : copying' = f /\ inData' = inData \ {f}
    /\ UNCHANGED <<cluster, jpc, chosen, data, walDir, inVolume, attempts, failures>>

\* MoveDirectoryContent to another volume: each file is copied, then removed.
CopyFile ==
    /\ jpc = "move" /\ copying = NoFile
    /\ \E f \in inData : copying' = f
    /\ UNCHANGED <<cluster, jpc, chosen, data, walDir, inData, inVolume, attempts, failures>>

FileMoved ==
    /\ jpc = "move" /\ copying # NoFile
    /\ inVolume' = inVolume \cup {copying}
    /\ inData' = inData \ {copying}
    /\ copying' = NoFile
    /\ UNCHANGED <<cluster, jpc, chosen, data, walDir, attempts, failures>>

\* Mutant: pg_wal is removed with what is still in it.
RemoveAllOfPgWal ==
    /\ jpc = "move" /\ copying = NoFile
    /\ walDir' = "none" /\ inData' = {}
    /\ jpc' = "symlink"
    /\ UNCHANGED <<cluster, chosen, data, inVolume, copying, attempts, failures>>

\* RemoveFile of pg_wal, which has to be empty.
RemovePgWal ==
    /\ jpc = "move" /\ inData = {} /\ copying = NoFile
    /\ walDir' = "none"
    /\ jpc' = "symlink"
    /\ UNCHANGED <<cluster, chosen, data, inData, inVolume, copying, attempts, failures>>

Symlink ==
    /\ jpc = "symlink"
    /\ walDir' = "link"
    /\ jpc' = "ok"
    /\ UNCHANGED <<cluster, chosen, data, inData, inVolume, copying, attempts, failures>>

\* A call, a command or a file operation fails, or the pod is killed.
JobFails ==
    /\ jpc \notin {"idle", "ok", "failed"}
    /\ failures < MaxFailures /\ failures' = failures + 1
    /\ jpc' = "failed"
    /\ UNCHANGED <<cluster, chosen, volumeVars, attempts>>

\* The hook of a pod of the job.
Restore(catalog, backups) ==
    \/ LoadBackup(catalog)
    \/ RestoreStarts(backups) \/ RestoreEnds(backups) \/ BackupGone(backups)
    \/ CheckLink \/ CopyFile \/ FileMoved \/ RemovePgWal \/ Symlink

-----------------------------------------------------------------------------
JobTypeOK(Backups) ==
    /\ cluster \in Clusters \cup {NoCluster} /\ jpc \in JobSteps
    /\ chosen \in Backups \cup {NoBackup}
    /\ data \in {"none", "partial", "restored"} /\ walDir \in {"none", "dir", "link"}
    /\ inData \subseteq Files /\ inVolume \subseteq Files
    /\ copying \in inData \cup {NoFile}
    /\ attempts \in 0 .. MaxAttempts /\ failures \in 0 .. MaxFailures
=============================================================================
