--------------------------- MODULE RecoveryProofs ---------------------------
(* Proofs about Recovery: whatever fails, expires or is killed, a restored  *)
(* data directory keeps each WAL file of its backup, and a job that ends    *)
(* leaves a directory PostgreSQL can recover from.                          *)
EXTENDS Recovery, RepositoryProofs

\* The files of a restored directory, and the one that is being copied, which is still
\* in the place it is copied from.
FilesInv ==
    /\ inData \subseteq Files /\ inVolume \subseteq Files
    /\ copying # NoFile => copying \in inData
    /\ NoFileLost

\* What the job has reached at each of its steps.
StepInv ==
    /\ jpc # "idle" => cluster # NoCluster
    /\ jpc \in {"link", "move", "symlink", "ok"} => data = "restored" /\ chosen \in taken
    /\ jpc \in {"link", "move", "symlink"} => cluster.walStorage
    /\ jpc = "link" /\ walDir = "link" => inVolume = Files
    /\ jpc = "symlink" => inData = {}

Inv == stored \subseteq taken /\ FilesInv /\ StepInv /\ ReadyToRecover

USE RestoreJobAssumption

\* The repository may change under the job: what was taken stays taken.
LEMMA RepositoryStep ==
    ASSUME Inv, RepositoryNext, UNCHANGED jobVars
    PROVE  Inv'
<1>1. stored' \subseteq taken' /\ taken \subseteq taken'
  <2>1. CASE Store BY <2>1 DEF Store, Inv
  <2>2. CASE Expire BY <2>2, KeptIsPart DEF Expire, Inv
  <2>3. CASE Tick \/ Fork BY <2>3 DEF Tick, Fork, Inv
  <2> QED BY <2>1, <2>2, <2>3 DEF RepositoryNext
<1>2. FilesInv' BY DEF Inv, FilesInv, NoFileLost, jobVars, volumeVars
<1>3. StepInv' BY <1>1 DEF Inv, StepInv, jobVars, volumeVars
<1>4. ReadyToRecover' BY <1>1 DEF Inv, ReadyToRecover, jobVars, volumeVars
<1> QED BY <1>1, <1>2, <1>3, <1>4 DEF Inv

\* Each step of the job keeps the files and gets it where the next one expects it.
LEMMA JobStep ==
    ASSUME Inv, JobNext, UNCHANGED repositoryVars
    PROVE  Inv'
<1> USE DEF volumeVars
<1>1. stored' \subseteq taken' /\ taken' = taken BY DEF Inv, repositoryVars
<1>2. FilesInv' /\ StepInv' /\ ReadyToRecover'
  <2> USE <1>1 DEF Inv, FilesInv, NoFileLost, StepInv, ReadyToRecover
  <2>1. CASE CreateCluster BY <2>1 DEF CreateCluster
  <2>2. CASE JobBegins BY <2>2 DEF JobBegins
  <2>3. CASE LoadBackup(info) BY <2>3 DEF LoadBackup
  <2>4. CASE RestoreStarts(stored) BY <2>4 DEF RestoreStarts
  <2>5. CASE RestoreEnds(stored) BY <2>5 DEF RestoreEnds
  <2>6. CASE BackupGone(stored) BY <2>6 DEF BackupGone
  <2>7. CASE CheckLink BY <2>7 DEF CheckLink
  <2>8. CASE CopyFile BY <2>8 DEF CopyFile
  <2>9. CASE FileMoved BY <2>9 DEF FileMoved
  <2>10. CASE RemovePgWal BY <2>10 DEF RemovePgWal
  <2>11. CASE Symlink BY <2>11 DEF Symlink
  <2>12. CASE JobFails BY <2>12 DEF JobFails
  <2> QED BY <2>1, <2>2, <2>3, <2>4, <2>5, <2>6, <2>7, <2>8, <2>9, <2>10, <2>11, <2>12
          DEF JobNext, Restore
<1> QED BY <1>1, <1>2 DEF Inv

LEMMA Invariance == Spec => []Inv
<1>1. Init => Inv
  BY DEF Init, RepositoryInit, JobInit, Inv, FilesInv, NoFileLost, StepInv, ReadyToRecover
<1>2. Inv /\ [Next]_vars => Inv'
  <2> SUFFICES ASSUME Inv, [Next]_vars PROVE Inv' OBVIOUS
  <2>1. CASE RepositoryNext /\ UNCHANGED jobVars BY <2>1, RepositoryStep
  <2>2. CASE JobNext /\ UNCHANGED repositoryVars BY <2>2, JobStep
  <2>3. CASE UNCHANGED vars
    BY <2>3 DEF vars, repositoryVars, jobVars, volumeVars, Inv, FilesInv, NoFileLost,
                StepInv, ReadyToRecover
  <2> QED BY <2>1, <2>2, <2>3 DEF Next
<1> QED BY <1>1, <1>2, PTL DEF Spec

\* restoreCustomWalDir loses no WAL file, wherever a pod of the job stops.
THEOREM NoFileIsLost == Spec => []NoFileLost
<1>1. Inv => NoFileLost BY DEF Inv, FilesInv
<1> QED BY <1>1, Invariance, PTL

\* A job that ends well leaves a complete data directory, of a backup that was taken.
THEOREM RecoveryIsReady == Spec => []ReadyToRecover
<1>1. Inv => ReadyToRecover BY DEF Inv
<1> QED BY <1>1, Invariance, PTL

-----------------------------------------------------------------------------
(* The choice of the backup.                                               *)

\* The newest backup of some is the last of them in the catalog.
LEMMA LastIsNewest ==
    ASSUME RepositoryInv, NEW U
    PROVE  LET b == LastOf(info, {i \in DOMAIN info : info[i] \in U})
               usable == {c \in Range(info) : c \in U}
           IN  \/ b = NoBackup /\ usable = {}
               \/ b \in usable /\ \A c \in usable : c.stop <= b.stop
<1> DEFINE places == {i \in DOMAIN info : info[i] \in U}
           usable == {c \in Range(info) : c \in U}
<1>1. info \in Seq(taken) /\ Range(info) = {info[i] : i \in DOMAIN info} /\ DOMAIN info \subseteq Int
  BY DEF RepositoryInv, Range
<1>2. CASE places = {}
  BY <1>1, <1>2 DEF LastOf
<1>3. CASE places # {}
  <2>1. PICK i \in places : LastOf(info, places) = info[i] /\ \A j \in places : j <= i
    <3> HIDE DEF places
    <3>1. places \in SUBSET DOMAIN info
      BY DEF places
    <3> QED
      BY <1>1, <1>3, <3>1, PlacesHaveEnds
  <2>2. \A j \in DOMAIN info : info[j] \in taken
    BY <1>1
  <2>3. ASSUME NEW c \in usable PROVE c.stop <= info[i].stop
    <3>1. PICK j \in places : c = info[j]
      BY <1>1
    <3>2. /\ c \in taken /\ info[i] \in taken /\ j \in Int /\ i \in Int /\ j <= i
          /\ c.stop \in Nat /\ info[i].start \in Nat /\ info[i].stop \in Nat
          /\ info[i].start <= info[i].stop
      BY <1>1, <2>1, <2>2, <3>1, RepositoryAssumption DEF RepositoryInv, Whole, BackupRecords, Seconds
    <3>3. CASE j = i
      BY <3>1, <3>2, <3>3
    <3>4. CASE j < i
      <4>1. c.id < info[i].id
        BY <3>1, <3>4 DEF RepositoryInv, InOrder
      <4>2. c.stop <= info[i].start
        BY <3>2, <4>1 DEF RepositoryInv, OneAfterAnother
      <4> QED
        BY <3>2, <4>2
    <3> QED
      BY <3>2, <3>3, <3>4
  <2>4. info[i] \in usable
    BY <1>1
  <2> HIDE DEF usable, places
  <2> QED
    BY <2>1, <2>3, <2>4 DEF usable, places
<1> QED
  BY <1>2, <1>3

IsTarget(target) ==
    target = NoTarget \/ target \in [id: Nat, time: Nat, lsn: Nat, tli: Nat \cup {Latest}]

\* The backups the code takes for ones from which the target can be reached.
Accepted(b, target) ==
    IF target = NoTarget THEN TRUE
    ELSE IF target.id # NoID THEN b.id = target.id
    ELSE /\ OnTimeline(b, target.tli)
         /\ target.time # NoTime => b.stop <= target.time
         /\ target.time = NoTime /\ target.lsn # NoLSN => b.lsn < target.lsn

\* What is known of a backup that was taken.
LEMMA TakenAre ==
    ASSUME RepositoryInv, NEW c \in taken
    PROVE  /\ c.start \in Nat \ {0} /\ c.stop \in Nat \ {0} /\ c.lsn \in Nat
           /\ c.wal.tli \in 1 .. Timeline /\ c.wal.tli \in Nat \ {0} /\ Timeline \in Nat
           /\ c.id \in Nat /\ isBackupDone(c) /\ c # NoBackup
<1>1. Whole(c) /\ Timeline \in Nat
  BY TimelinesAre DEF RepositoryInv
<1>2. c.start \in Nat /\ c.stop \in Nat /\ c.lsn \in Nat /\ c.id \in Nat /\ c # NoBackup
  BY <1>1, RepositoryAssumption DEF Whole, BackupRecords, Seconds, LSNs, Ids
<1>3. c.start # 0 /\ c.stop # 0
  BY <1>1, <1>2, RepositoryAssumption DEF Whole
<1> QED
  BY <1>1, <1>2, <1>3 DEF Whole, isBackupDone

\* The way to a timeline leads over earlier ones.
LEMMA TheWayIsBack ==
    ASSUME RepositoryInv, NEW b \in taken, NEW tli \in 1 .. Timeline, LeadsTo(b, tli)
    PROVE  b.wal.tli <= tli
<1>1. b.wal.tli \in Nat /\ tli \in Nat /\ Timeline = Len(forks) + 1 /\ Len(forks) \in Nat /\ ClockInv
  BY TakenAre, ForksAre DEF Timeline, RepositoryInv
<1>2. CASE b.wal.tli = tli
  BY <1>1, <1>2
<1>3. CASE b.wal.tli # tli
  <2>1. b.wal.tli \in DOMAIN History(tli)
    BY <1>3 DEF LeadsTo
  <2>2. CASE tli = 1
    BY <2>1, <2>2 DEF History
  <2>3. CASE tli # 1
    <3>1. tli - 1 \in 1 .. Len(forks)
      BY <1>1, <2>3
    <3>2. DOMAIN History(tli) \subseteq 1 .. tli - 1
      BY <1>1, <2>3, <3>1, ForksAre DEF History
    <3> QED
      BY <1>1, <2>1, <3>2
  <2> QED
    BY <2>2, <2>3
<1> QED
  BY <1>2, <1>3

\* The code accepts each backup from which the target can be reached, and no other one but
\* those off the way.
LEMMA AcceptsWhatReaches ==
    ASSUME RepositoryInv, NEW target, IsTarget(target), NEW b \in taken
    PROVE  /\ CanReach(b, target, 1) => Accepted(b, target)
           /\ Accepted(b, target) => CanReach(b, target, 0) \/ OffTheWay(b, target)
<1> DEFINE tli == RecoveryTimeline(target)
           leads == tli \in 1 .. Timeline /\ LeadsTo(b, tli)
<1>1. /\ b.wal.tli \in 1 .. Timeline /\ b.wal.tli \in Nat \ {0} /\ Timeline \in Nat
      /\ b.stop \in Nat /\ b.lsn \in Nat /\ isBackupDone(b)
  BY TakenAre
<1>2. leads => b.wal.tli <= tli
  BY TheWayIsBack
<1>3. CASE target = NoTarget
  <2>1. tli = Timeline
    BY <1>3 DEF RecoveryTimeline
  <2>2. b.wal.tli <= tli
    BY <1>1, <2>1
  <2> QED
    BY <1>3, <2>2 DEF Accepted, CanReach, OffTheWay
<1>4. CASE target # NoTarget /\ target.id # NoID
  BY <1>4 DEF Accepted, CanReach
<1>5. CASE target # NoTarget /\ target.id = NoID
  <2>1. target.time \in Nat /\ target.lsn \in Nat /\ target.tli \in Nat \cup {Latest}
    BY <1>5 DEF IsTarget
  <2>2. OnTimeline(b, target.tli) <=> b.wal.tli <= tli
    <3>1. CASE target.tli = Latest
      BY <1>1, <3>1 DEF OnTimeline, startTimeline, RecoveryTimeline, Latest
    <3>2. CASE target.tli # Latest
      BY <1>1, <1>5, <3>2 DEF OnTimeline, startTimeline, RecoveryTimeline, Latest
    <3> QED
      BY <3>1, <3>2
  <2> DEFINE InTime(margin) ==
          /\ target.time # NoTime => b.stop + margin <= target.time
          /\ target.time = NoTime /\ target.lsn # NoLSN => b.lsn + margin <= target.lsn
  <2>3. \A margin : CanReach(b, target, margin) <=> leads /\ InTime(margin)
    BY <1>5 DEF CanReach
  <2>4. OffTheWay(b, target) <=> b.wal.tli <= tli /\ ~leads
    BY <1>5 DEF OffTheWay
  <2> DEFINE early == /\ target.time # NoTime => b.stop <= target.time
                      /\ target.time = NoTime /\ target.lsn # NoLSN => b.lsn < target.lsn
  <2>5. Accepted(b, target) <=> b.wal.tli <= tli /\ early
    BY <1>5, <2>2 DEF Accepted
  <2>6. (InTime(1) => early) /\ (early => InTime(0))
    BY <1>1, <2>1
  <2> HIDE DEF leads, tli, InTime, early
  <2> QED
    BY <1>2, <2>3, <2>4, <2>5, <2>6
<1> QED
  BY <1>3, <1>4, <1>5

\* The backup that the code picks is the newest of those it accepts.
LEMMA TheNewestIsPicked ==
    ASSUME RepositoryInv, NEW target, IsTarget(target)
    PROVE  LET b == BackupToRestore(info, target)
               accepted == {c \in Range(info) : Accepted(c, target)}
           IN  \/ b = NoBackup /\ accepted = {}
               \/ b \in accepted /\ \A c \in accepted : c.stop <= b.stop
<1> DEFINE U == {c \in taken : Accepted(c, target)}
           accepted == {c \in Range(info) : Accepted(c, target)}
           places == {i \in DOMAIN info : info[i] \in U}
<1>1. info \in Seq(taken) /\ Range(info) = {info[i] : i \in DOMAIN info}
      /\ \A i \in DOMAIN info : info[i] \in taken
  BY DEF RepositoryInv, Range
<1>2. accepted = {c \in Range(info) : c \in U}
  BY <1>1
<1>3. \A c \in taken : c.stop \in Nat /\ isBackupDone(c)
  BY TakenAre
<1>4. CASE target = NoTarget
  <2>1. places = {i \in DOMAIN info : isBackupDone(info[i])}
    BY <1>1, <1>3, <1>4 DEF Accepted
  <2>2. BackupToRestore(info, target) = LastOf(info, places)
    BY <1>4, <2>1 DEF BackupToRestore, LatestBackupInfo
  <2> HIDE DEF U, accepted
  <2> QED
    BY <1>2, <2>2, LastIsNewest DEF accepted
<1>5. CASE target # NoTarget
  <2>1. /\ target.id \in Nat /\ target.time \in Nat /\ target.lsn \in Nat
        /\ target.tli \in Nat \cup {Latest} /\ BackupToRestore(info, target) = FindBackupInfo(info, target)
    BY <1>5 DEF IsTarget, BackupToRestore
  <2>2. CASE target.id # NoID
    <3>1. places = {i \in DOMAIN info : isBackupDone(info[i]) /\ info[i].id = target.id}
      BY <1>1, <1>3, <1>5, <2>2 DEF Accepted
    <3>2. BackupToRestore(info, target) = FirstOf(info, places)
      BY <2>1, <2>2, <3>1 DEF FindBackupInfo, findBackupFromID
    <3>3. CASE places = {}
      BY <1>1, <3>2, <3>3 DEF FirstOf
    <3>4. CASE places # {}
      <4>1. PICK i \in places : FirstOf(info, places) = info[i]
        <5> HIDE DEF places
        <5>1. places \in SUBSET DOMAIN info
          BY DEF places
        <5> QED
          BY <1>1, <3>4, <5>1, PlacesHaveEnds
      <4>2. info[i] \in accepted /\ info[i] \in taken
        BY <1>1
      <4>3. ASSUME NEW c \in accepted PROVE c = info[i]
        <5>1. c \in taken /\ c.id = target.id /\ info[i].id = target.id
          BY <1>1, <1>5, <2>2 DEF Accepted
        <5> QED
          BY <4>2, <5>1 DEF RepositoryInv, OneAfterAnother
      <4>4. info[i].stop \in Nat
        BY <1>3, <4>2
      <4> HIDE DEF accepted
      <4> QED
        BY <3>2, <4>1, <4>2, <4>3, <4>4 DEF accepted
    <3> QED
      BY <3>3, <3>4
  <2>3. CASE target.id = NoID
    <3>1. \A c \in taken : Accepted(c, target) <=>
             /\ OnTimeline(c, target.tli)
             /\ target.time # NoTime => c.stop <= target.time
             /\ target.time = NoTime /\ target.lsn # NoLSN => c.lsn < target.lsn
      BY <1>5, <2>3 DEF Accepted
    <3>2. BackupToRestore(info, target) = LastOf(info, places)
      <4>1. CASE target.time # NoTime
        <5>1. places = {i \in DOMAIN info : OnTimeline(info[i], target.tli) /\ info[i].stop <= target.time}
          BY <1>1, <3>1, <4>1
        <5> QED
          BY <2>1, <2>3, <4>1, <5>1 DEF FindBackupInfo, findClosestBackupFromTargetTime
      <4>2. CASE target.time = NoTime /\ target.lsn # NoLSN
        <5>1. places = {i \in DOMAIN info : OnTimeline(info[i], target.tli) /\ info[i].lsn < target.lsn}
          BY <1>1, <3>1, <4>2
        <5> QED
          BY <2>1, <2>3, <4>2, <5>1 DEF FindBackupInfo, findClosestBackupFromTargetLSN
      <4>3. CASE target.time = NoTime /\ target.lsn = NoLSN
        <5>1. places = {i \in DOMAIN info : OnTimeline(info[i], target.tli)}
          BY <1>1, <3>1, <4>3
        <5> QED
          BY <2>1, <2>3, <4>3, <5>1 DEF FindBackupInfo, findLatestBackupFromTimeline
      <4> QED
        BY <4>1, <4>2, <4>3
    <3> HIDE DEF U, accepted
    <3> QED
      BY <1>2, <3>2, LastIsNewest DEF accepted
  <2> QED
    BY <2>2, <2>3
<1> QED
  BY <1>4, <1>5

\* No backup from which the target can be reached is missed.
LEMMA TheNewestThatReaches ==
    ASSUME RepositoryInv, NEW target, IsTarget(target)
    PROVE  LET b == BackupToRestore(info, target)
               usable == {c \in Range(info) : CanReach(c, target, 1)}
           IN  \/ b = NoBackup /\ usable = {}
               \/ /\ b \in Range(info) /\ \A c \in usable : c.stop <= b.stop
                  /\ CanReach(b, target, 0) \/ OffTheWay(b, target)
<1>1. \A c \in Range(info) : /\ CanReach(c, target, 1) => Accepted(c, target)
                             /\ Accepted(c, target) => CanReach(c, target, 0) \/ OffTheWay(c, target)
  <2>1. Range(info) \subseteq taken
    BY DEF RepositoryInv, Range
  <2> QED
    BY <2>1, AcceptsWhatReaches
<1> QED
  BY <1>1, TheNewestIsPicked

-----------------------------------------------------------------------------
(* The job and the repository together.                                    *)

FullInv == Inv /\ RepositoryInv /\ JobTypeOK(taken)

\* The job loads a backup that was taken, or none.
LEMMA LoadsWhatWasTaken ==
    ASSUME FullInv, LoadBackup(info)
    PROVE  /\ IsTarget(cluster.target)
           /\ chosen' = BackupToRestore(info, cluster.target)
           /\ chosen' \in taken \cup {NoBackup}
<1>1. cluster \in Clusters
  BY DEF FullInv, Inv, StepInv, JobTypeOK, LoadBackup
<1>2. IsTarget(cluster.target)
  BY <1>1 DEF IsTarget
<1>3. chosen' = BackupToRestore(info, cluster.target)
  BY DEF LoadBackup
<1>4. Range(info) \subseteq taken
  BY DEF FullInv, RepositoryInv, Range
<1> QED
  BY <1>2, <1>3, <1>4, TheNewestThatReaches DEF FullInv

LEMMA JobTypes ==
    ASSUME FullInv, JobNext, UNCHANGED repositoryVars
    PROVE  JobTypeOK(taken)'
<1> USE DEF volumeVars, JobSteps
<1>1. taken' = taken
  BY DEF repositoryVars
<1>2. JobTypeOK(taken)
  BY DEF FullInv
<1>3. CASE LoadBackup(info)
  <2>1. chosen' \in taken \cup {NoBackup}
    BY <1>3, LoadsWhatWasTaken
  <2> QED
    BY <1>1, <1>2, <1>3, <2>1 DEF LoadBackup, JobTypeOK
<1>4. CASE FileMoved
  BY <1>1, <1>2, <1>4 DEF FileMoved, JobTypeOK
<1>5. CASE CreateCluster \/ CheckLink \/ CopyFile \/ RemovePgWal \/ Symlink
  BY <1>1, <1>2, <1>5 DEF CreateCluster, CheckLink, CopyFile, RemovePgWal, Symlink, JobTypeOK
<1>6. CASE JobBegins
  BY <1>1, <1>2, <1>6 DEF JobBegins, JobTypeOK
<1>7. CASE RestoreStarts(stored) \/ BackupGone(stored)
  BY <1>1, <1>2, <1>7 DEF RestoreStarts, BackupGone, JobTypeOK
<1>8. CASE RestoreEnds(stored)
  BY <1>1, <1>2, <1>8 DEF RestoreEnds, JobTypeOK
<1>9. CASE JobFails
  BY <1>1, <1>2, <1>9 DEF JobFails, JobTypeOK
<1> QED
  BY <1>3, <1>4, <1>5, <1>6, <1>7, <1>8, <1>9 DEF JobNext, Restore

LEMMA FullInvariance == Spec => []FullInv
<1>1. Init => FullInv
  <2> SUFFICES ASSUME Init PROVE FullInv
    OBVIOUS
  <2>1. Inv
    BY DEF Init, RepositoryInit, JobInit, Inv, FilesInv, NoFileLost, StepInv, ReadyToRecover
  <2>2. JobTypeOK(taken)
    BY DEF Init, JobInit, JobTypeOK, JobSteps
  <2> QED
    BY <2>1, <2>2, RepositoryStarts DEF Init, FullInv
<1>2. FullInv /\ [Next]_vars => FullInv'
  <2> SUFFICES ASSUME FullInv, [Next]_vars PROVE FullInv'
    OBVIOUS
  <2>1. CASE RepositoryNext /\ UNCHANGED jobVars
    <3>1. Inv'
      BY <2>1, RepositoryStep DEF FullInv
    <3>2. RepositoryInv'
      BY <2>1, RepositoryKeeps DEF FullInv
    <3>3. taken \subseteq taken'
      <4>1. CASE Store
        BY <4>1 DEF Store
      <4>2. CASE Tick \/ Fork \/ Expire
        BY <4>2 DEF Tick, Fork, Expire
      <4> QED
        BY <2>1, <4>1, <4>2 DEF RepositoryNext
    <3>4. JobTypeOK(taken)'
      BY <2>1, <3>3 DEF FullInv, JobTypeOK, jobVars, volumeVars
    <3> QED
      BY <3>1, <3>2, <3>4 DEF FullInv
  <2>2. CASE JobNext /\ UNCHANGED repositoryVars
    <3>1. Inv' /\ RepositoryInv'
      BY <2>2, JobStep, RepositoryKeeps DEF FullInv
    <3> QED
      BY <2>2, <3>1, JobTypes DEF FullInv
  <2>3. CASE UNCHANGED vars
    <3>1. RepositoryInv'
      BY <2>3, RepositoryKeeps DEF vars, FullInv
    <3>2. Inv'
      BY <2>3 DEF vars, repositoryVars, jobVars, volumeVars, FullInv, Inv, FilesInv, NoFileLost,
                StepInv, ReadyToRecover
    <3>3. JobTypeOK(taken)'
      BY <2>3 DEF vars, repositoryVars, jobVars, volumeVars, FullInv, JobTypeOK
    <3> QED
      BY <3>1, <3>2, <3>3 DEF FullInv
  <2> QED
    BY <2>1, <2>2, <2>3 DEF Next
<1> QED
  BY <1>1, <1>2, PTL DEF Spec

\* Every variable keeps its type: the catalog never reports a backup that was not taken,
\* and the numbers of a backup's first segment fit in its name.
THEOREM Typing == Spec => []TypeOK
<1>1. FullInv => TypeOK
  <2> SUFFICES ASSUME FullInv PROVE TypeOK
    OBVIOUS
  <2>1. clock \in Seconds /\ forks \in Seq(Forks) /\ Len(forks) <= MaxFailovers
    BY TimelinesAre DEF FullInv, RepositoryInv, ClockInv
  <2>2. Range(info) \subseteq taken
    BY DEF FullInv, RepositoryInv, Range
  <2>3. stored \subseteq taken /\ taken \subseteq BackupRecords
    BY DEF FullInv, RepositoryInv, Whole
  <2> QED
    BY <2>1, <2>2, <2>3 DEF FullInv, TypeOK
<1> QED
  BY <1>1, FullInvariance, PTL

\* The job misses no backup from which the recovery target can be reached: it says that
\* there is none only when the catalog has none, and takes one that is as new as any of
\* them.  That one can reach the target, or is off the way that failovers left.
THEOREM NewestIsChosen == Spec => ChoosesNewest
<1> DEFINE Chooses ==
        jpc = "load" /\ jpc' # "load" /\ failures' = failures =>
            LET usable == {b \in Range(info) : CanReach(b, cluster.target, 1)}
            IN  /\ jpc' = "failed" => usable = {}
                /\ jpc' = "restore" => /\ chosen' \in Range(info)
                                       /\ \A b \in usable : b.stop <= chosen'.stop
                                       /\ \/ CanReach(chosen', cluster.target, 0)
                                          \/ OffTheWay(chosen', cluster.target)
<1>1. ASSUME FullInv, [Next]_vars PROVE Chooses
  <2> SUFFICES ASSUME jpc = "load", jpc' # "load", failures' = failures
               PROVE  LET usable == {b \in Range(info) : CanReach(b, cluster.target, 1)}
                      IN  /\ jpc' = "failed" => usable = {}
                          /\ jpc' = "restore" => /\ chosen' \in Range(info)
                                                 /\ \A b \in usable : b.stop <= chosen'.stop
                                                 /\ \/ CanReach(chosen', cluster.target, 0)
                                                    \/ OffTheWay(chosen', cluster.target)
    OBVIOUS
  <2>1. LoadBackup(info)
    <3>1. ~ UNCHANGED jpc
      OBVIOUS
    <3>2. ~ JobFails
      BY <1>1 DEF JobFails, FullInv, JobTypeOK
    <3>3. JobNext
      BY <1>1, <3>1 DEF Next, vars, jobVars
    <3> QED
      BY <3>1, <3>2, <3>3
         DEF JobNext, Restore, CreateCluster, JobBegins, RestoreStarts, RestoreEnds, BackupGone,
             CheckLink, CopyFile, FileMoved, RemovePgWal, Symlink
  <2>2. IsTarget(cluster.target) /\ chosen' = BackupToRestore(info, cluster.target)
    BY <1>1, <2>1, LoadsWhatWasTaken
  <2>3. jpc' = IF chosen' = NoBackup THEN "failed" ELSE "restore"
    BY <2>1 DEF LoadBackup
  <2>4. \A b \in Range(info) : b # NoBackup
    BY <1>1, RepositoryAssumption DEF FullInv, RepositoryInv, Whole, Range
  <2>5. LET usable == {b \in Range(info) : CanReach(b, cluster.target, 1)}
        IN  \/ chosen' = NoBackup /\ usable = {}
            \/ /\ chosen' \in Range(info) /\ \A c \in usable : c.stop <= chosen'.stop
               /\ CanReach(chosen', cluster.target, 0) \/ OffTheWay(chosen', cluster.target)
    BY <1>1, <2>2, TheNewestThatReaches DEF FullInv
  <2> QED
    BY <2>3, <2>4, <2>5
<1>2. FullInv /\ [Next]_vars
      => [jpc = "load" /\ jpc' # "load" /\ failures' = failures =>
            LET usable == {b \in Range(info) : CanReach(b, cluster.target, 1)}
            IN  /\ jpc' = "failed" => usable = {}
                /\ jpc' = "restore" => /\ chosen' \in Range(info)
                                       /\ \A b \in usable : b.stop <= chosen'.stop
                                       /\ \/ CanReach(chosen', cluster.target, 0)
                                          \/ OffTheWay(chosen', cluster.target)]_vars
  BY <1>1
<1> QED
  BY <1>2, FullInvariance, PTL DEF Spec, ChoosesNewest

-----------------------------------------------------------------------------
(* The list of files to prefetch.                                          *)

\* NextSegments starts with its segment, and each next one follows from the one before.
LEMMA EachFromTheOneBefore ==
    ASSUME NEW s, NEW size \in Nat \ {0}
    PROVE  LET list == NextSegments(s, size) IN
           /\ DOMAIN list = 1 .. size /\ list[1] = s
           /\ \A i \in 2 .. size : list[i] = NextSegment(list[i - 1])
<1> DEFINE Step(g, i) == IF i = 1 THEN s ELSE NextSegment(g[i - 1])
           Upto(n) == \E g : g = [i \in 1 .. n |-> Step(g, i)]
           Missing == {n \in Nat : ~Upto(n)}
<1>1. Missing = {}
  <2> SUFFICES ASSUME Missing # {} PROVE FALSE
    OBVIOUS
  <2>1. PICK n \in Missing : \A m \in Missing : n <= m
    <3> HIDE DEF Missing
    <3>1. Missing \in SUBSET Nat
      BY DEF Missing
    <3> QED
      BY <3>1, LeastNumber
  <2>2. CASE n = 0
    <3> DEFINE empty == [i \in 1 .. 0 |-> s]
    <3>1. empty = [i \in 1 .. 0 |-> Step(empty, i)]
      OBVIOUS
    <3> HIDE DEF empty, Step
    <3> QED
      BY <2>2, <3>1
  <2>3. CASE n # 0
    <3>0. n \in Nat
      OBVIOUS
    <3>1. n - 1 \in Nat /\ n - 1 \notin Missing
      <4> HIDE DEF Missing
      <4> QED
        BY <2>1, <2>3, <3>0
    <3>2. PICK g : g = [i \in 1 .. n - 1 |-> Step(g, i)]
      BY <3>1
    <3> DEFINE h == [i \in 1 .. n |-> IF i = n THEN Step(g, n) ELSE g[i]]
    <3>3. \A i \in 1 .. n : h[i] = Step(h, i)
      <4> TAKE i \in 1 .. n
      <4>1. CASE i = 1
        <5>1. h[i] = s
          BY <3>2, <4>1
        <5> HIDE DEF h
        <5> QED
          BY <4>1, <5>1
      <4>2. CASE i # 1
        <5>1. i - 1 \in 1 .. n - 1 /\ i - 1 \in 1 .. n /\ i - 1 # n
          BY <4>2
        <5>2. h[i - 1] = g[i - 1]
          BY <5>1
        <5>3. h[i] = Step(g, i)
          BY <3>2, <4>2
        <5> HIDE DEF h
        <5> QED
          BY <4>2, <5>2, <5>3
      <4> QED
        BY <4>1, <4>2
    <3>4. h = [i \in 1 .. n |-> Step(h, i)]
      <4>1. h = [i \in 1 .. n |-> h[i]]
        OBVIOUS
      <4> HIDE DEF h, Step
      <4> QED
        BY <3>3, <4>1
    <3> HIDE DEF h, Step
    <3> QED
      BY <3>4
  <2> QED
    BY <2>2, <2>3
<1>2. NextSegments(s, size) = CHOOSE g : g = [i \in 1 .. size |-> Step(g, i)]
  BY DEF NextSegments
<1>3. \E g : g = [i \in 1 .. size |-> Step(g, i)]
  BY <1>1
<1> DEFINE list == NextSegments(s, size)
<1> HIDE DEF list
<1>4. list = [i \in 1 .. size |-> Step(list, i)]
  <2> HIDE DEF Step
  <2> QED
    BY <1>2, <1>3 DEF list
<1>5. \A i \in 1 .. size : list[i] = Step(list, i)
  <2> HIDE DEF Step
  <2> QED
    BY <1>4
<1>6. DOMAIN list = 1 .. size
  BY <1>4
<1> QED
  BY <1>5, <1>6 DEF list

\* The numbers of a segment whose names the code cannot write: one of them is negative.
Spoiled(s, k) ==
    /\ s = Segment(s.tli, s.log, s.seg)
    /\ s.log \in -IntMax - 1 .. IntMax /\ s.seg \in -IntMax - 1 .. IntMax
    /\ \/ s.log \in -IntMax - 1 .. -IntMax - 1 + k
       \/ s.seg \in -IntMax - 1 .. -IntMax - 1 + k

\* The names whose numbers the code can read and count on from.
Readable(s) ==
    /\ s = Segment(s.tli, s.log, s.seg)
    /\ s.log \in 0 .. IntMax /\ s.seg \in 0 .. IntMax

\* Logs have a number of segments, for the server and for the code.
LEMMA LogsAre ==
    /\ LogSize \div SegmentSize \in Nat \ {0} /\ WalSegmentsPerFile \in Nat
    /\ IntMax \in Nat \ {0}
    /\ SegmentSize = DefaultWALSegmentSize => WalSegmentsPerFile = (LogSize \div SegmentSize) - 1
<1>1. /\ LogSize \in Nat \ {0} /\ FieldMax = LogSize - 1 /\ IntMax \in Nat \ {0}
      /\ SegmentSize \in Nat \ {0} /\ LogSize % SegmentSize = 0
      /\ DefaultWALSegmentSize \in Nat \ {0} /\ LogSize % DefaultWALSegmentSize = 0
  BY SegmentAssumption DEF LogSize, FieldMax
<1>2. /\ LogSize \div SegmentSize \in Nat \ {0}
      /\ LogSize \div DefaultWALSegmentSize \in Nat \ {0}
      /\ WalSegmentsPerFile = (LogSize \div DefaultWALSegmentSize) - 1
  BY <1>1, LastRow DEF WalSegmentsPerFile
<1> QED
  BY <1>1, <1>2

\* From a name it can read the code goes to the next segment of the log or to the next log,
\* or to a number that has just turned negative.
LEMMA NextOfReadable ==
    ASSUME NEW s, Readable(s)
    PROVE  \/ /\ Readable(NextSegment(s)) /\ Before(s, NextSegment(s))
              /\ NextSegment(s) = IF s.seg + 1 <= WalSegmentsPerFile
                                  THEN Segment(s.tli, s.log, s.seg + 1)
                                  ELSE Segment(s.tli, s.log + 1, 0)
           \/ Spoiled(NextSegment(s), 0)
<1>1. WalSegmentsPerFile \in Nat /\ IntMax \in Nat \ {0}
  BY LogsAre
<1>2. PICK tli, log, seg : s = Segment(tli, log, seg) /\ log \in 0 .. IntMax /\ seg \in 0 .. IntMax
      /\ tli = s.tli /\ log = s.log /\ seg = s.seg
  BY DEF Readable
<1>3. CASE seg = IntMax
  <2>1. Increment(seg) = -IntMax - 1 /\ ~ (Increment(seg) > WalSegmentsPerFile)
    BY <1>1, <1>3 DEF Increment
  <2>2. NextSegment(s) = Segment(tli, log, -IntMax - 1)
    BY <1>2, <2>1 DEF NextSegment, Segment
  <2> QED
    BY <1>1, <1>2, <2>2 DEF Spoiled, Segment
<1>4. CASE seg # IntMax /\ seg + 1 <= WalSegmentsPerFile
  <2>1. Increment(seg) = seg + 1 /\ ~ (Increment(seg) > WalSegmentsPerFile)
    BY <1>1, <1>2, <1>4 DEF Increment
  <2>2. NextSegment(s) = Segment(tli, log, seg + 1)
    BY <1>2, <2>1 DEF NextSegment, Segment
  <2>3. seg + 1 \in 0 .. IntMax /\ seg < seg + 1
    BY <1>1, <1>2, <1>4
  <2> QED
    BY <1>2, <1>4, <2>2, <2>3 DEF Readable, Before, Segment
<1>5. CASE seg # IntMax /\ ~ (seg + 1 <= WalSegmentsPerFile)
  <2>1. Increment(seg) > WalSegmentsPerFile
    BY <1>1, <1>2, <1>5 DEF Increment
  <2>2. NextSegment(s) = Segment(tli, Increment(log), 0)
    BY <1>2, <2>1 DEF NextSegment
  <2>3. CASE log = IntMax
    <3>1. NextSegment(s) = Segment(tli, -IntMax - 1, 0)
      BY <2>2, <2>3 DEF Increment
    <3> QED
      BY <1>1, <3>1 DEF Spoiled, Segment
  <2>4. CASE log # IntMax
    <3>1. NextSegment(s) = Segment(tli, log + 1, 0) /\ log + 1 \in 0 .. IntMax /\ log < log + 1
          /\ 0 \in 0 .. IntMax
      BY <1>1, <1>2, <2>2, <2>4 DEF Increment
    <3> QED
      BY <1>2, <1>5, <3>1 DEF Readable, Before, Segment
  <2> QED
    BY <2>3, <2>4
<1> QED
  BY <1>3, <1>4, <1>5

\* That is the segment at the next position of the server, if code and server have the same
\* segments or the log goes on for both.
LEMMA NextOfPlace ==
    ASSUME NEW tli, NEW pos \in Nat, NEW s, s = SegmentAt(tli, pos),
           SegmentSize = DefaultWALSegmentSize \/ LogHolds(s, 1)
    PROVE  (IF s.seg + 1 <= WalSegmentsPerFile THEN Segment(s.tli, s.log, s.seg + 1)
                                               ELSE Segment(s.tli, s.log + 1, 0))
           = SegmentAt(tli, pos + 1)
<1> DEFINE perLog == LogSize \div SegmentSize
<1>1. /\ perLog \in Nat \ {0} /\ WalSegmentsPerFile \in Nat
      /\ SegmentSize = DefaultWALSegmentSize => WalSegmentsPerFile = perLog - 1
  BY LogsAre
<1>2. /\ \A p : SegmentAt(tli, p) = Segment(tli, p \div perLog, p % perLog)
      /\ s.tli = tli /\ s.log = pos \div perLog /\ s.seg = pos % perLog
      /\ LogHolds(s, 1) => s.seg + 1 < perLog /\ s.seg + 1 <= WalSegmentsPerFile
  BY DEF SegmentAt, Segment, LogHolds
<1> HIDE DEF perLog
<1>3. pos % perLog \in 0 .. perLog - 1 /\ pos \div perLog \in Nat
  BY <1>1, Division
<1>4. CASE s.seg < perLog - 1
  <2>1. (pos + 1) \div perLog = pos \div perLog /\ (pos + 1) % perLog = (pos % perLog) + 1
    BY <1>1, <1>2, <1>4, NextPlace
  <2>2. s.seg + 1 <= WalSegmentsPerFile
    BY <1>1, <1>2, <1>3, <1>4
  <2> QED
    BY <1>2, <2>1, <2>2
<1>5. CASE s.seg = perLog - 1
  <2>1. (pos + 1) \div perLog = (pos \div perLog) + 1 /\ (pos + 1) % perLog = 0
    BY <1>1, <1>2, <1>5, NextRow
  <2>2. ~ (s.seg + 1 <= WalSegmentsPerFile)
    BY <1>1, <1>2, <1>3, <1>5
  <2> QED
    BY <1>2, <2>1, <2>2
<1> QED
  BY <1>1, <1>2, <1>3, <1>4, <1>5

\* A number that is negative stays so for as many names as there are negative numbers.
LEMMA NextOfSpoiled ==
    ASSUME NEW s, NEW k \in 0 .. IntMax - 1, Spoiled(s, k)
    PROVE  Spoiled(NextSegment(s), k + 1)
<1>1. IntMax \in Nat \ {0} /\ WalSegmentsPerFile \in Nat
  BY LogsAre
<1>2. /\ s = Segment(s.tli, s.log, s.seg)
      /\ s.log \in -IntMax - 1 .. IntMax /\ s.seg \in -IntMax - 1 .. IntMax
  BY DEF Spoiled
<1>3. \A n \in -IntMax - 1 .. IntMax :
         /\ Increment(n) \in -IntMax - 1 .. IntMax
         /\ n \in -IntMax - 1 .. -IntMax - 1 + k
               => Increment(n) \in -IntMax - 1 .. -IntMax - 1 + (k + 1) /\ Increment(n) < 0
  BY <1>1 DEF Increment
<1>4. CASE Increment(s.seg) > WalSegmentsPerFile
  <2>1. NextSegment(s) = Segment(s.tli, Increment(s.log), 0)
    BY <1>4 DEF NextSegment
  <2>2. s.log \in -IntMax - 1 .. -IntMax - 1 + k
    BY <1>1, <1>2, <1>3, <1>4 DEF Spoiled
  <2> QED
    BY <1>1, <1>2, <1>3, <2>1, <2>2 DEF Spoiled, Segment
<1>5. CASE ~ (Increment(s.seg) > WalSegmentsPerFile)
  <2>1. NextSegment(s) = [s EXCEPT !.seg = Increment(s.seg)]
    BY <1>5 DEF NextSegment
  <2>2. NextSegment(s) = Segment(s.tli, s.log, Increment(s.seg))
    BY <1>2, <2>1 DEF Segment
  <2>3. \A n \in -IntMax - 1 .. -IntMax - 1 + k : n \in -IntMax - 1 .. -IntMax - 1 + (k + 1)
    BY <1>1
  <2> QED
    BY <1>1, <1>2, <1>3, <2>2, <2>3 DEF Spoiled, Segment
<1> QED
  BY <1>4, <1>5

\* The list starts with the segment that is asked for and only goes forward.  It is what
\* the server asks for next, unless the server has segments of another size and the log
\* has ended; it holds no name of a WAL file past the greatest number of the code.
LEMMA ListFollows ==
    ASSUME NEW tli, NEW pos \in Nat
    PROVE  LET asked    == SegmentAt(tli, pos)
               gathered == GatherWALFiles(asked, Parallel)
           IN  /\ gathered[1] = asked
               /\ \A i \in DOMAIN gathered \ {1} : IsWALFile(gathered[i]) =>
                    /\ Before(gathered[i - 1], gathered[i])
                    /\ SegmentSize = DefaultWALSegmentSize \/ LogHolds(asked, i - 1)
                         => gathered[i] = SegmentAt(tli, pos + (i - 1))
<1> DEFINE asked == SegmentAt(tli, pos)
           list == NextSegments(asked, Parallel)
           same == SegmentSize = DefaultWALSegmentSize
           Holds(i) == LogHolds(asked, i - 1)
           Follows(i) == same \/ Holds(i) => list[i] = SegmentAt(tli, pos + (i - 1))
           Further(i) == Holds(i) => list[i].seg = asked.seg + (i - 1)
           Good(i) == \/ Readable(list[i]) /\ Follows(i) /\ Further(i)
                      \/ i >= 2 /\ Spoiled(list[i], i - 2)
           Forward(i) == \/ Readable(list[i]) /\ Before(list[i - 1], list[i]) /\ Follows(i)
                         \/ Spoiled(list[i], i - 2)
<1>1. IntMax \in Nat \ {0} /\ Parallel \in Nat \ {0} /\ Parallel <= IntMax + 2
  BY SegmentAssumption, RecoveryAssumption
<1>2. CASE ~Parses(asked)
  <2>1. GatherWALFiles(asked, Parallel) = <<asked>>
    BY <1>2 DEF GatherWALFiles
  <2> HIDE DEF asked
  <2>2. <<asked>>[1] = asked /\ DOMAIN <<asked>> \ {1} = {}
    OBVIOUS
  <2> QED
    BY <2>1, <2>2 DEF asked
<1>3. CASE Parses(asked)
  <2>1. GatherWALFiles(asked, Parallel) = list
    BY <1>3 DEF GatherWALFiles
  <2>2. /\ DOMAIN list = 1 .. Parallel /\ list[1] = asked
        /\ \A i \in 2 .. Parallel : list[i] = NextSegment(list[i - 1])
    BY <1>1, EachFromTheOneBefore
  <2>3. Readable(asked) /\ asked.seg \in Nat
    <3> DEFINE perLog == LogSize \div SegmentSize
    <3>1. perLog \in Nat \ {0}
      BY LogsAre
    <3>2. /\ asked = Segment(tli, pos \div perLog, pos % perLog)
          /\ asked.tli = tli /\ asked.log = pos \div perLog /\ asked.seg = pos % perLog
      BY DEF SegmentAt, Segment
    <3> HIDE DEF perLog, asked
    <3>3. pos \div perLog \in Nat /\ pos % perLog \in Nat
      BY <3>1, Division
    <3>4. asked.log <= IntMax /\ asked.seg <= IntMax
      BY <1>3 DEF Parses
    <3> QED
      BY <1>1, <3>2, <3>3, <3>4 DEF Readable
  <2>4. \A i \in Nat : Holds(i) <=> /\ asked.seg + (i - 1) < LogSize \div SegmentSize
                                    /\ asked.seg + (i - 1) <= WalSegmentsPerFile
    BY DEF LogHolds
  <2> HIDE DEF list
  <2>5. Good(1)
    <3>1. pos + (1 - 1) = pos /\ asked.seg + (1 - 1) = asked.seg
      BY <2>3
    <3> QED
      BY <2>2, <2>3, <3>1
  <2>6. ASSUME NEW n \in 2 .. Parallel, Good(n - 1)
        PROVE  Good(n) /\ Forward(n)
    <3>1. /\ list[n] = NextSegment(list[n - 1])
          /\ n \in Nat /\ n - 1 \in Nat /\ n >= 2 /\ (n - 1) - 1 = n - 2 /\ n <= IntMax + 2
      BY <1>1, <2>2
    <3>2. CASE Readable(list[n - 1]) /\ Follows(n - 1) /\ Further(n - 1)
      <4>1. PICK s : s = list[n - 1]
        OBVIOUS
      <4>2. CASE Spoiled(list[n], 0)
        <5>1. Spoiled(list[n], n - 2)
          BY <1>1, <3>1, <4>2 DEF Spoiled
        <5> QED
          BY <3>1, <5>1
      <4>3. CASE ~Spoiled(list[n], 0)
        <5>1. /\ Readable(list[n]) /\ Before(s, list[n])
              /\ list[n] = IF s.seg + 1 <= WalSegmentsPerFile THEN Segment(s.tli, s.log, s.seg + 1)
                                                              ELSE Segment(s.tli, s.log + 1, 0)
          BY <3>1, <3>2, <4>1, <4>3, NextOfReadable
        <5>2. Holds(n) => Holds(n - 1) /\ LogHolds(s, 1) /\ s.seg + 1 = asked.seg + (n - 1)
          <6> SUFFICES ASSUME Holds(n)
                       PROVE  Holds(n - 1) /\ LogHolds(s, 1) /\ s.seg + 1 = asked.seg + (n - 1)
            OBVIOUS
          <6> HIDE DEF Holds, asked
          <6>1. /\ asked.seg + (n - 1) < LogSize \div SegmentSize
                /\ asked.seg + (n - 1) <= WalSegmentsPerFile
            BY <2>4, <3>1
          <6>2. LogSize \div SegmentSize \in Nat /\ WalSegmentsPerFile \in Nat
            BY LogsAre
          <6> DEFINE perLog == LogSize \div SegmentSize
          <6>3. Holds(n - 1)
            <7>1. asked.seg + ((n - 1) - 1) < perLog /\ asked.seg + ((n - 1) - 1) <= WalSegmentsPerFile
              <8> HIDE DEF perLog
              <8> QED
                BY <2>3, <3>1, <6>1, <6>2 DEF perLog
            <7> QED
              BY <2>4, <3>1, <7>1
          <6>4. s.seg = asked.seg + (n - 2)
            BY <3>1, <3>2, <4>1, <6>3
          <6>5. s.seg + 1 = asked.seg + (n - 1)
            BY <2>3, <3>1, <6>4
          <6> QED
            BY <6>1, <6>3, <6>5 DEF LogHolds
        <5>3. Follows(n)
          <6> SUFFICES ASSUME same \/ Holds(n) PROVE list[n] = SegmentAt(tli, pos + (n - 1))
            OBVIOUS
          <6>1. pos + (n - 2) \in Nat /\ (pos + (n - 2)) + 1 = pos + (n - 1)
            BY <3>1
          <6> HIDE DEF Holds, same
          <6>2. s = SegmentAt(tli, pos + (n - 2))
            BY <3>1, <3>2, <4>1, <5>2
          <6>3. same \/ LogHolds(s, 1)
            BY <5>2
          <6> QED
            BY <5>1, <6>1, <6>2, <6>3, NextOfPlace DEF same
        <5>4. Further(n)
          <6> SUFFICES ASSUME Holds(n) PROVE list[n].seg = asked.seg + (n - 1)
            OBVIOUS
          <6>1. s.seg + 1 <= WalSegmentsPerFile /\ s.seg + 1 = asked.seg + (n - 1)
            BY <5>2 DEF LogHolds
          <6>2. list[n].seg = s.seg + 1
            BY <5>1, <6>1 DEF Segment
          <6> QED
            BY <6>1, <6>2
        <5> HIDE DEF Follows, Further
        <5> QED
          BY <4>1, <5>1, <5>3, <5>4
      <4> QED
        BY <4>2, <4>3
    <3>3. CASE n - 1 >= 2 /\ Spoiled(list[n - 1], (n - 1) - 2)
      <4>1. (n - 1) - 2 \in 0 .. IntMax - 1 /\ ((n - 1) - 2) + 1 = n - 2
        BY <1>1, <3>1, <3>3
      <4>2. Spoiled(list[n], n - 2)
        BY <3>1, <3>3, <4>1, NextOfSpoiled
      <4> QED
        BY <3>1, <4>2
    <3> HIDE DEF Follows, Further, Forward
    <3> QED
      BY <2>6, <3>2, <3>3
  <2> DEFINE Bad == {i \in Nat : i \in 1 .. Parallel /\ ~Good(i)}
  <2>7. Bad = {}
    <3> SUFFICES ASSUME Bad # {} PROVE FALSE
      OBVIOUS
    <3>1. PICK n \in Bad : \A m \in Bad : n <= m
      <4> HIDE DEF Bad
      <4>1. Bad \in SUBSET Nat
        BY DEF Bad
      <4> QED
        BY <4>1, LeastNumber
    <3>2. n \in Nat /\ n \in 1 .. Parallel /\ ~Good(n)
      OBVIOUS
    <3> HIDE DEF Good
    <3>3. n # 1
      BY <2>5, <3>2
    <3>4. n - 1 \in Nat /\ n - 1 \in 1 .. Parallel /\ n \in 2 .. Parallel /\ ~ (n <= n - 1)
      BY <1>1, <3>2, <3>3
    <3>5. Good(n - 1)
      BY <3>1, <3>4
    <3> QED
      BY <2>6, <3>2, <3>4, <3>5
  <2>8. \A i \in 2 .. Parallel : Forward(i)
    <3> TAKE i \in 2 .. Parallel
    <3>1. i - 1 \in Nat /\ i - 1 \in 1 .. Parallel
      BY <1>1
    <3> HIDE DEF Good, Forward
    <3>2. Good(i - 1)
      BY <2>7, <3>1
    <3> QED
      BY <2>6, <3>2
  <2>9. ASSUME NEW i \in DOMAIN list \ {1}, IsWALFile(list[i])
        PROVE  Before(list[i - 1], list[i]) /\ Follows(i)
    <3>1. i \in 2 .. Parallel
      BY <1>1, <2>2
    <3>2. ~Spoiled(list[i], i - 2)
      <4> SUFFICES ASSUME Spoiled(list[i], i - 2) PROVE FALSE
        OBVIOUS
      <4>1. list[i].log \in Int /\ list[i].seg \in Int /\ (list[i].log < 0 \/ list[i].seg < 0)
        BY <1>1, <3>1 DEF Spoiled
      <4> QED
        BY <2>9, <4>1 DEF IsWALFile
    <3> HIDE DEF Follows
    <3> QED
      BY <2>8, <3>1, <3>2
  <2> QED
    BY <2>1, <2>2, <2>9
<1> QED
  BY <1>2, <1>3

\* What is prefetched follows the segment that is asked for, wherever the recovery of the
\* backup that was chosen has come to.
THEOREM GatheredInOrder == Spec => []GatheredFollow
<1>1. FullInv => GatheredFollow
  <2> SUFFICES ASSUME FullInv, jpc = "ok", NEW tli \in 1 .. Timeline,
                      NEW pos \in LSNAt(chosen.wal.tli, chosen.start) .. LSNAt(tli, EndOf(tli))
               PROVE  LET asked    == SegmentAt(WrittenOn(tli, pos), pos)
                          gathered == GatherWALFiles(asked, Parallel)
                      IN  /\ gathered[1] = asked
                          /\ \A i \in DOMAIN gathered \ {1} : IsWALFile(gathered[i]) =>
                               /\ Before(gathered[i - 1], gathered[i])
                               /\ SegmentSize = DefaultWALSegmentSize \/ LogHolds(asked, i - 1)
                                    => gathered[i] = SegmentAt(asked.tli, pos + (i - 1))
    BY DEF GatheredFollow
  <2>1. LSNAt(chosen.wal.tli, chosen.start) \in Nat
    <3>1. Whole(chosen) /\ ClockInv
      BY DEF FullInv, Inv, ReadyToRecover, RepositoryInv
    <3>2. chosen.wal.tli \in 1 .. Timeline /\ chosen.start \in Nat /\ chosen.stop \in Nat
      BY <3>1 DEF Whole, BackupRecords, Seconds
    <3>3. PICK t \in 1 .. Timeline : t = chosen.wal.tli
      BY <3>2
    <3>4. BeginOf(t) \in Nat /\ EndOf(t) \in Nat
      BY <3>1, TimelinesAre
    <3>5. chosen.start \in BeginOf(t) .. EndOf(t)
      BY <3>1, <3>2, <3>3, <3>4 DEF Whole
    <3> QED
      BY <3>1, <3>3, <3>5, LSNsAre
  <2>2. pos \in Nat
    <3>1. \A m \in Nat : \A n : pos \in m .. n => pos \in Nat
      OBVIOUS
    <3> QED
      BY <2>1, <3>1
  <2>3. \A t : SegmentAt(t, pos).tli = t
    BY DEF SegmentAt, Segment
  <2>4. PICK t : t = WrittenOn(tli, pos)
    OBVIOUS
  <2> QED
    BY <2>2, <2>3, <2>4, ListFollows
<1> QED
  BY <1>1, FullInvariance, PTL
=============================================================================
