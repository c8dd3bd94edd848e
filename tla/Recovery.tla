----------------------------- MODULE Recovery -----------------------------
(***************************************************************************)
(* A cluster that is recovered from the repository of another one, which   *)
(* goes on taking backups, expiring them and failing over meanwhile:       *)
(* RestoreJob over the repository that Backups keeps.                      *)
(***************************************************************************)
EXTENDS Repository, RestoreJob

CONSTANTS
    RecoverySecond,  \* bound: the new cluster is not created before
    Parallel         \* maxParallel of the WAL restore

\* A list longer than that would come round to the first numbers again.
ASSUME RecoveryAssumption == RecoverySecond \in Nat /\ Parallel \in 1 .. IntMax + 2

vars == <<repositoryVars, jobVars>>

Init == RepositoryInit /\ JobInit

JobNext ==
    \/ clock >= RecoverySecond /\ CreateCluster
    \/ JobBegins
    \/ Restore(info, stored)
    \/ JobFails

Next ==
    \/ RepositoryNext /\ UNCHANGED jobVars
    \/ JobNext /\ UNCHANGED repositoryVars

Spec == Init /\ [][Next]_vars

\* The pod of the job runs, and CloudNativePG replaces one that failed.
FairSpec == Spec /\ WF_vars((JobBegins \/ Restore(info, stored)) /\ UNCHANGED repositoryVars)

-----------------------------------------------------------------------------
TypeOK ==
    /\ clock \in Seconds /\ forks \in Seq(Forks) /\ Len(forks) <= MaxFailovers
    /\ stored \subseteq taken /\ Range(info) \subseteq taken /\ taken \subseteq BackupRecords
    /\ JobTypeOK(taken)

\* A recovery along a timeline comes through the end of a backup: it was taken on that
\* timeline, or on one that was left, on the way to it, no earlier than there.
LeadsTo(b, tli) ==
    \/ b.wal.tli = tli
    \/ b.wal.tli \in DOMAIN History(tli) /\ b.lsn <= History(tli)[b.wal.tli]

\* The timeline PostgreSQL recovers along.
RecoveryTimeline(target) ==
    IF target = NoTarget \/ target.tli = Latest THEN Timeline ELSE target.tli

\* What PostgreSQL asks of a backup: it ended before the target, by so much, on the way to
\* it.  A target that names a backup asks for that one.
CanReach(b, target, margin) ==
    \/ target # NoTarget /\ target.id # NoID /\ b.id = target.id
    \/ /\ target = NoTarget \/ target.id = NoID
       /\ RecoveryTimeline(target) \in 1 .. Timeline /\ LeadsTo(b, RecoveryTimeline(target))
       /\ target # NoTarget =>
            /\ target.time # NoTime => b.stop + margin <= target.time
            /\ target.time = NoTime /\ target.lsn # NoLSN => b.lsn + margin <= target.lsn

\* The code compares the numbers of timelines (catalog.go:182,211,234), so that it takes a
\* backup of an earlier one for one on the way, also where a failover left that timeline
\* behind the end of the backup, or where there is no such timeline.
OffTheWay(b, target) ==
    /\ target = NoTarget \/ target.id = NoID
    /\ b.wal.tli <= RecoveryTimeline(target)
    /\ ~ (RecoveryTimeline(target) \in 1 .. Timeline /\ LeadsTo(b, RecoveryTimeline(target)))

\* Restore misses no backup from which the target can be reached: it reports that there is
\* none only when the catalog has none, and takes one that is as new as any of them.  That
\* one can reach the target too, or is newer and off the way.
ChoosesNewest ==
    [][jpc = "load" /\ jpc' # "load" /\ failures' = failures =>
         LET usable == {b \in Range(info) : CanReach(b, cluster.target, 1)}
         IN  /\ jpc' = "failed" => usable = {}
             /\ jpc' = "restore" => /\ chosen' \in Range(info)
                                    /\ \A b \in usable : b.stop <= chosen'.stop
                                    /\ \/ CanReach(chosen', cluster.target, 0)
                                       \/ OffTheWay(chosen', cluster.target)]_vars

\* From the end of the restore on, each WAL file of the backup is whole in one place or
\* the other, wherever the job stops.
NoFileLost == data = "restored" => inData \cup inVolume = Files

\* The recovery starts on a data directory that is complete, with its WAL files where
\* PostgreSQL follows pg_wal to.
ReadyToRecover ==
    jpc = "ok" =>
        /\ data = "restored" /\ chosen \in taken
        /\ IF cluster.walStorage THEN walDir = "link" /\ inVolume = Files
                                 ELSE walDir = "dir" /\ inData = Files

\* The timeline on which a segment was written that is on the way to a timeline.
WrittenOn(tli, pos) == Max({t \in DOMAIN History(tli) \cup {tli} : FirstLSN(t) <= pos})

\* One segment is before another of its timeline.
Before(s, t) == s.tli = t.tli /\ (s.log < t.log \/ (s.log = t.log /\ s.seg < t.seg))

\* So many segments on, the log of a segment has not ended, for the server and the code.
LogHolds(s, more) ==
    s.seg + more < LogSize \div SegmentSize /\ s.seg + more <= WalSegmentsPerFile

\* Along whatever timeline the recovery goes, it asks for each segment from the start of
\* its backup on.  The list of files to prefetch starts with that segment and only goes
\* forward.  It is what the server asks for next: all of it where the server has segments
\* of the default size, otherwise up to the end of a log, where the list goes astray
\* (wal.go:493-495).  Past the greatest number it has, it holds no name of a WAL file.
GatheredFollow ==
    jpc = "ok" =>
        \A tli \in {t \in 1 .. Timeline : LeadsTo(chosen, t)} :
        \A pos \in LSNAt(chosen.wal.tli, chosen.start) .. LSNAt(tli, EndOf(tli)) :
            LET asked    == SegmentAt(WrittenOn(tli, pos), pos)
                gathered == GatherWALFiles(asked, Parallel)
            IN  /\ gathered[1] = asked
                /\ \A i \in DOMAIN gathered \ {1} : IsWALFile(gathered[i]) =>
                     /\ Before(gathered[i - 1], gathered[i])
                     /\ SegmentSize = DefaultWALSegmentSize \/ LogHolds(asked, i - 1)
                          => gathered[i] = SegmentAt(asked.tli, pos + (i - 1))

\* A backup from which the new cluster can be recovered is in the repository.
Recoverable ==
    LET b == BackupToRestore(info, cluster.target) IN b # NoBackup /\ b \in stored

\* While there always is such a backup, the cluster is recovered, although backups expire
\* under the job and its pods die.
EventuallyRestored ==
    [](cluster # NoCluster => Recoverable) /\ <>(cluster # NoCluster) => <>(jpc = "ok")
=============================================================================
