---------------------------- MODULE BackupsProofs ----------------------------
(***************************************************************************)
(* Proofs about Backups, for any number of instances, requests, failovers  *)
(* and faults: the handlers keep a repository a recovery can rely on, a    *)
(* handler reports its own backup, and it panics only when another command *)
(* wrote the catalog under it.                                             *)
(***************************************************************************)
EXTENDS Backups, RepositoryProofs

\* Where a handler has a backup of its own, where that is not stored yet, and where the
\* command of the handler holds the lock of its pod.
Own     == {"run", "save", "expire", "look", "get", "done", "panicked"}
Unsaved == {"run", "save"}
Locked  == {"creating", "run", "save", "expire"}

VarTypes ==
    /\ primary \in Pods /\ stanza \in BOOLEAN
    /\ lock \in [Pods -> Handlers \cup {NoHandler}]
    /\ pc \in [Handlers -> Steps] /\ pod \in [Handlers -> Pods]
    /\ kind \in [Handlers -> {"backup", "archive"}]
    /\ name \in [Handlers -> Seconds]
    /\ mine \in [Handlers -> BackupRecords \cup {NoBackup}]
    /\ base \in [Handlers -> SUBSET taken]
    /\ answer \in [Handlers -> taken \cup {NoBackup}]
    /\ requests \in [backup: 0 .. MaxBackups, archive: 0 .. MaxArchives] /\ faults \in 0 .. MaxFaults
    /\ met \subseteq Handlers

\* The handlers that will have a backup have asked for one; one that waits for its turn
\* has a name, and one that has a backup has the one it named.
HandlerInv ==
    \A h \in Handlers :
        /\ pc[h] \in Own \cup {"take"} => kind[h] = "backup"
        /\ pc[h] = "check" => kind[h] = "archive"
        /\ mine[h] # NoBackup <=> pc[h] \in Own
        /\ pc[h] = "take" => name[h] \in FirstSecond .. clock
        /\ pc[h] \in Own => mine[h].name = name[h]
        /\ pc[h] \in Own \ Unsaved => mine[h] \in taken
        /\ pc[h] \in {"get", "done"} => answer[h] \in taken /\ answer[h].name = name[h]

\* A backup that is being taken lies on the timeline on which it started; it has found
\* backups with lower IDs.
OwnInv ==
    \A h \in Handlers : pc[h] \in Unsaved =>
        LET b == mine[h] IN
        /\ b.wal = SegmentAt(b.wal.tli, LSNAt(b.wal.tli, b.start)) /\ b.wal.tli \in 1 .. Timeline
        /\ b.name \in FirstSecond .. b.start
        /\ b.start \in BeginOf(b.wal.tli) .. EndOf(b.wal.tli)
        /\ pc[h] = "save" => b.stop \in b.start .. EndOf(b.wal.tli) /\ b.lsn = LSNAt(b.wal.tli, b.stop)
        /\ \A c \in base[h] : c.id < b.id

\* The lock of a pod is held by the handler whose command runs there.  While the session
\* of a backup is up, its pod is the primary.
LockInv ==
    /\ \A h \in Handlers : pc[h] \in Locked => lock[pod[h]] = h
    /\ \A p \in Pods : lock[p] # NoHandler => pc[lock[p]] \in Locked /\ pod[lock[p]] = p
    /\ \A h \in Handlers : pc[h] = "run" /\ SessionIsUp(h) => pod[h] = primary

\* What a backup that is being taken was before something started: it is stopped, or
\* never will be.
WasBefore(h, start) ==
    IF pc[h] = "run" THEN ~SessionIsUp(h) ELSE mine[h].stop <= start

\* Backups that are being taken have their places among each other, and among those that
\* were stored.
PlaceInv ==
    \A h \in Handlers : pc[h] \in Unsaved =>
        /\ \A g \in Handlers \ {h} : pc[g] \in Unsaved =>
              /\ mine[g].id # mine[h].id
              /\ mine[g].id < mine[h].id => WasBefore(g, mine[h].start)
        /\ \A c \in taken :
              \/ c.id < mine[h].id /\ c.stop <= mine[h].start
              \/ mine[h].id < c.id /\ WasBefore(h, c.start)

\* There is a request for each ID that was given, and for each that will be.
Pending == {h \in Handlers : kind[h] = "backup" /\ pc[h] \in {"create", "creating", "take"}}
Labels == {b.id : b \in taken \cup {mine[h] : h \in {g \in Handlers : mine[g] # NoBackup}}}

RequestInv ==
    /\ Cardinality(Pending) <= requests.backup
    /\ \A id \in Labels : id + Cardinality(Pending) <= requests.backup

\* A backup is only taken once there is a stanza, unless the plugin is not to create one.
StanzaInv ==
    \A h \in Handlers :
        /\ Policy # "Disabled" /\ pc[h] \in Own \cup {"take"} => stanza
        /\ Policy = "Disabled" => pc[h] \notin {"create", "creating"}

\* What a handler relies on, as long as nobody else wrote the catalog: its backup is the
\* newest, is kept and is found.
AloneInv ==
    \A h \in Handlers \ met :
        /\ pc[h] \in Unsaved => base[h] = stored
        /\ pc[h] = "expire" => mine[h] \in stored /\ \A b \in stored : b.id <= mine[h].id
        /\ pc[h] = "look" => mine[h] \in Range(info)
        /\ pc[h] = "get" => answer[h] \in Range(info)
        /\ pc[h] # "panicked"

BackupsInv ==
    /\ VarTypes /\ HandlerInv /\ OwnInv /\ LockInv /\ PlaceInv /\ RequestInv /\ StanzaInv /\ AloneInv
    /\ RepositoryInv

-----------------------------------------------------------------------------
(* The steps, as the invariants see them.                                  *)

\* What a step does to a handler that has no part in it.
Same(h) ==
    /\ pc'[h] = pc[h] /\ pod'[h] = pod[h] /\ kind'[h] = kind[h] /\ name'[h] = name[h]
    /\ mine'[h] = mine[h] /\ base'[h] = base[h] /\ answer'[h] = answer[h]

\* A handler that is at its end, or whose sidecar restarts, leaves nothing.
Ended(h) ==
    /\ pc'[h] = "idle" /\ pod'[h] = FirstPrimary /\ kind'[h] = "backup" /\ name'[h] = NoTime
    /\ mine'[h] = NoBackup /\ base'[h] = {} /\ answer'[h] = NoBackup

\* The steps at which handlers end.
Ends == \E gone \in SUBSET Handlers : End(gone) /\ faults' \in 0 .. MaxFaults

\* The steps at which one handler goes on, and the world around stays.
Goes(h) ==
    \/ Request(h) \/ CreateStarts(h) \/ CreateEnds(h) \/ TakeStarts(h) \/ TakeStops(h)
    \/ TakeSaves(h) \/ TakeExpires(h) \/ LookUpName(h)
    \/ /\ UNCHANGED faults
       /\ Move(h, "check", "create") /\ ShouldCreateStanzaOnArchive
    \/ /\ UNCHANGED faults
       /\ Move(h, "get", "done") /\ answer[h] \in Range(info)
    \/ /\ UNCHANGED faults
       /\ Move(h, "get", "panicked") /\ answer[h] \notin Range(info)

LEMMA EndFrame ==
    ASSUME VarTypes, NEW gone \in SUBSET Handlers, End(gone)
    PROVE  /\ \A h \in Handlers \ gone : Same(h)
           /\ \A h \in gone : Ended(h)
           /\ met' = met \ gone
           /\ \A p \in Pods : lock'[p] = IF lock[p] \in gone THEN NoHandler ELSE lock[p]
           /\ UNCHANGED <<worldVars, repoVars, taken>>
BY DEF End, Same, Ended, VarTypes

LEMMA FaultCounts ==
    ASSUME VarTypes, Fault \/ UNCHANGED faults
    PROVE  faults' \in 0 .. MaxFaults
BY BackupsAssumption DEF VarTypes, Fault

\* A handler that takes a step ends or goes on.
LEMMA HandlerCases ==
    ASSUME NEW h \in Handlers, Request(h) \/ Handle(h)
    PROVE  (End({h}) /\ (Fault \/ UNCHANGED faults)) \/ Goes(h)
<1>1. CASE CheckStanza(h)
  BY <1>1 DEF CheckStanza, Goes
<1>2. CASE CreateRefused(h) \/ TakeRefused(h) \/ TakeFails(h) \/ Reply(h) \/ StepFails(h)
  BY <1>2 DEF CreateRefused, TakeRefused, TakeFails, Reply, StepFails
<1>3. CASE GetBackup(h)
  BY <1>3 DEF GetBackup, Goes
<1> QED
  BY <1>1, <1>2, <1>3 DEF Handle, CreatePgbackrestStanza, Backup, Goes

\* Every step is one of these, or one of the world around.
LEMMA StepCases ==
    ASSUME VarTypes, [Next]_vars
    PROVE  \/ Ends
           \/ \E h \in Handlers : Goes(h)
           \/ Second \/ Failover \/ UNCHANGED vars
<1>1. ASSUME NEW h \in Handlers, Request(h) \/ Handle(h)
      PROVE  Ends \/ Goes(h)
  <2>1. {h} \in SUBSET Handlers
    OBVIOUS
  <2> QED
    BY <1>1, <2>1, HandlerCases, FaultCounts DEF Ends
<1>2. ASSUME NEW p \in Pods, SidecarRestart(p) PROVE Ends
  <2> DEFINE gone == {h \in Handlers : pc[h] # "idle" /\ pod[h] = p}
  <2>1. End(gone) /\ (Fault \/ UNCHANGED faults)
    BY <1>2 DEF SidecarRestart
  <2>2. gone \in SUBSET Handlers
    OBVIOUS
  <2> HIDE DEF gone
  <2> QED
    BY <2>1, <2>2, FaultCounts DEF Ends
<1> QED
  BY <1>1, <1>2 DEF Next

LEMMA GoesFrame ==
    ASSUME VarTypes, NEW h \in Handlers, Goes(h)
    PROVE  /\ \A g \in Handlers \ {h} : Same(g)
           /\ UNCHANGED <<clock, primary, forks, faults>>
           /\ TakeSaves(h) \/ UNCHANGED taken
           /\ TakeSaves(h) \/ TakeExpires(h) \/ UNCHANGED <<stored, info>>
           /\ CreateEnds(h) \/ UNCHANGED stanza
           /\ Request(h) \/ UNCHANGED requests
<1> USE DEF Goto, Same, VarTypes, worldVars, repoVars, Move, BackupName
<1>1. CASE Request(h)
  BY <1>1 DEF Request
<1>2. CASE CreateStarts(h)
  BY <1>2 DEF CreateStarts
<1>3. CASE CreateEnds(h)
  BY <1>3 DEF CreateEnds
<1>4. CASE TakeStarts(h)
  BY <1>4 DEF TakeStarts
<1>5. CASE TakeStops(h)
  BY <1>5 DEF TakeStops
<1>6. CASE TakeSaves(h)
  BY <1>6 DEF TakeSaves
<1>7. CASE TakeExpires(h)
  BY <1>7 DEF TakeExpires, Expire
<1>8. CASE LookUpName(h)
  BY <1>8 DEF LookUpName
<1>9. CASE UNCHANGED faults /\ (Move(h, "check", "create") \/ Move(h, "get", "done") \/ Move(h, "get", "panicked"))
  BY <1>9
<1> QED
  BY <1>1, <1>2, <1>3, <1>4, <1>5, <1>6, <1>7, <1>8, <1>9 DEF Goes

-----------------------------------------------------------------------------
(* Handlers that end.                                                      *)

LEMMA LabelsAre ==
    ASSUME VarTypes, RepositoryInv
    PROVE  /\ \A id \in Labels : id \in Ids /\ id \in Nat
           /\ \A id : id \in Labels <=> \/ \E b \in taken : id = b.id
                                        \/ \E h \in Handlers : mine[h] # NoBackup /\ id = mine[h].id
<1>1. \A b \in taken : b.id \in Ids
  BY DEF RepositoryInv, Whole, BackupRecords
<1>2. \A h \in Handlers : mine[h] # NoBackup => mine[h].id \in Ids
  BY DEF VarTypes, BackupRecords
<1>3. Ids \subseteq Nat
  BY RepositoryAssumption DEF Ids
<1> QED
  BY <1>1, <1>2, <1>3 DEF Labels

LEMMA PendingIsFinite ==
    IsFiniteSet(Handlers) /\ \A S \in SUBSET Handlers : IsFiniteSet(S) /\ Cardinality(S) \in Nat
BY BackupsAssumption, FS_Subset, FS_CardinalityType

LEMMA EndKeeps ==
    ASSUME BackupsInv, Ends
    PROVE  /\ VarTypes' /\ HandlerInv' /\ OwnInv' /\ LockInv' /\ PlaceInv' /\ RequestInv'
           /\ StanzaInv' /\ AloneInv'
           /\ UNCHANGED repositoryVars
<1>1. PICK gone \in SUBSET Handlers : End(gone) /\ faults' \in 0 .. MaxFaults
  BY DEF Ends
<1>2. VarTypes /\ HandlerInv /\ OwnInv /\ LockInv /\ PlaceInv /\ RequestInv /\ StanzaInv
      /\ AloneInv /\ RepositoryInv
  BY DEF BackupsInv
<1>3. /\ \A h \in Handlers \ gone : Same(h)
      /\ \A h \in gone : Ended(h)
      /\ met' = met \ gone
      /\ \A p \in Pods : lock'[p] = IF lock[p] \in gone THEN NoHandler ELSE lock[p]
      /\ UNCHANGED <<clock, primary, forks, requests, stanza, stored, info, taken>>
  BY <1>1, <1>2, EndFrame DEF worldVars, repoVars
<1>4. /\ Timeline' = Timeline
      /\ \A t : EndOf(t)' = EndOf(t) /\ BeginOf(t)' = BeginOf(t)
      /\ \A t, s : LSNAt(t, s)' = LSNAt(t, s)
  BY <1>3 DEF Timeline, EndOf, BeginOf, FirstLSN, LSNAt
<1>5. \A h \in Handlers : (pc'[h] # "idle" \/ pc[h] = "idle") => h \notin gone \/ pc[h] = "idle"
  BY <1>3 DEF Ended
<1>6. VarTypes'
  <2>1. NoTime \in Seconds /\ FirstPrimary \in Pods
    BY BackupsAssumption, RepositoryAssumption DEF NoTime, Seconds
  <2>2. met' \subseteq Handlers
    BY <1>2, <1>3 DEF VarTypes
  <2> QED
    BY <1>1, <1>2, <1>3, <2>1, <2>2 DEF End, VarTypes, Steps
<1>7. \A h \in Handlers : pc'[h] # "idle" => h \notin gone /\ Same(h)
  BY <1>3 DEF Ended
<1>8. \A h \in Handlers : pc'[h] = "idle" => mine'[h] = NoBackup
  <2> TAKE h \in Handlers
  <2>1. CASE h \in gone
    BY <1>3, <2>1 DEF Ended
  <2>2. CASE h \notin gone
    BY <1>2, <1>3, <2>2 DEF Same, HandlerInv, Own
  <2> QED
    BY <2>1, <2>2
<1>9. HandlerInv'
  BY <1>2, <1>3, <1>7, <1>8 DEF HandlerInv, Same, Own, Unsaved
<1>10. OwnInv'
  BY <1>2, <1>4, <1>7 DEF OwnInv, Same, Unsaved
<1>11. LockInv'
  <2>1. \A h \in Handlers : pc'[h] \in Locked => lock'[pod'[h]] = h
    <3> TAKE h \in Handlers
    <3> HAVE pc'[h] \in Locked
    <3>1. h \notin gone /\ Same(h) /\ lock[pod[h]] = h /\ pod[h] \in Pods
      BY <1>2, <1>7 DEF LockInv, Same, Locked, VarTypes
    <3> QED
      BY <1>3, <3>1 DEF Same
  <2>2. \A p \in Pods : lock'[p] # NoHandler => pc'[lock'[p]] \in Locked /\ pod'[lock'[p]] = p
    BY <1>2, <1>3 DEF LockInv, Same, VarTypes
  <2>3. \A h \in Handlers : pc'[h] = "run" /\ SessionIsUp(h)' => pod'[h] = primary'
    BY <1>2, <1>3, <1>4, <1>7 DEF LockInv, Same, SessionIsUp
  <2> QED
    BY <2>1, <2>2, <2>3 DEF LockInv
<1>12. PlaceInv'
  <2>1. \A h \in Handlers : pc'[h] \in Unsaved => Same(h) /\ pc[h] \in Unsaved
    BY <1>7 DEF Same, Unsaved
  <2>2. \A h \in Handlers : Same(h) => \A t : WasBefore(h, t)' = WasBefore(h, t)
    BY <1>4 DEF Same, WasBefore, SessionIsUp
  <2> QED
    BY <1>2, <1>3, <2>1, <2>2 DEF PlaceInv, Same
<1>13. RequestInv'
  <2>1. Pending' \subseteq Pending /\ Pending \subseteq Handlers
    BY <1>7 DEF Pending, Same
  <2>2. Cardinality(Pending') <= Cardinality(Pending)
        /\ Cardinality(Pending) \in Nat /\ Cardinality(Pending') \in Nat
    <3>1. IsFiniteSet(Pending) /\ Cardinality(Pending) \in Nat /\ Cardinality(Pending') \in Nat
      BY <2>1, PendingIsFinite
    <3> QED
      BY <2>1, <3>1, FS_Subset
  <2>3. Labels' \subseteq Labels
    <3>1. \A h \in Handlers : mine'[h] # NoBackup => mine'[h] = mine[h]
      BY <1>3 DEF Same, Ended
    <3>2. \A id : id \in Labels' <=> \/ \E b \in taken' : id = b.id
                                     \/ \E h \in Handlers : mine'[h] # NoBackup /\ id = mine'[h].id
      BY DEF Labels
    <3>3. \A id : id \in Labels <=> \/ \E b \in taken : id = b.id
                                    \/ \E h \in Handlers : mine[h] # NoBackup /\ id = mine[h].id
      BY <1>2, LabelsAre
    <3> QED
      BY <1>3, <3>1, <3>2, <3>3
  <2>4. \A id \in Labels : id \in Nat
    BY <1>2, LabelsAre
  <2>5. requests.backup \in Nat
    BY <1>2, RepositoryAssumption DEF VarTypes
  <2> QED
    BY <1>2, <1>3, <2>2, <2>3, <2>4, <2>5 DEF RequestInv
<1>14. StanzaInv'
  BY <1>2, <1>3, <1>7 DEF StanzaInv, Same, Own
<1>15. AloneInv'
  <2>1. \A h \in Handlers \ met' : h \in gone \/ h \notin met
    BY <1>3
  <2> QED
    BY <1>2, <1>3, <1>7, <2>1 DEF AloneInv, Same, Ended, Unsaved
<1>16. UNCHANGED repositoryVars
  BY <1>3 DEF repositoryVars
<1> QED
  BY <1>6, <1>9, <1>10, <1>11, <1>12, <1>13, <1>14, <1>15, <1>16

-----------------------------------------------------------------------------
(* The world around.                                                       *)

\* The time goes on, and the cluster fails over.  A failover ends the sessions of all the
\* backups that are being taken.
LEMMA WorldKeeps ==
    ASSUME BackupsInv, Second \/ Failover
    PROVE  /\ VarTypes' /\ HandlerInv' /\ OwnInv' /\ LockInv' /\ PlaceInv' /\ RequestInv'
           /\ StanzaInv' /\ AloneInv'
           /\ [RepositoryNext]_repositoryVars
<1>1. VarTypes /\ HandlerInv /\ OwnInv /\ LockInv /\ PlaceInv /\ RequestInv /\ StanzaInv
      /\ AloneInv /\ RepositoryInv /\ ClockInv
  BY DEF BackupsInv, RepositoryInv
<1>2. /\ Tick \/ Fork
      /\ UNCHANGED <<requests, stanza, lock, handlerVars, faults, met, stored, info, taken>>
  BY DEF Second, Failover, Tick, Fork
<1>3. primary' \in Pods /\ (primary' = primary \/ Failover)
  BY <1>1 DEF Second, Failover, VarTypes
<1>4. clock \in Nat /\ clock' \in Nat /\ clock <= clock' /\ FirstSecond \in Nat
  BY <1>1, <1>2, TimelinesAre DEF Tick, Fork
<1>5. \A t \in 1 .. Timeline : /\ BeginOf(t)' = BeginOf(t) /\ t \in 1 .. Timeline'
                               /\ EndOf(t) <= EndOf(t)' /\ EndOf(t) \in Nat /\ EndOf(t)' \in Nat
                               /\ BeginOf(t) \in Nat /\ \A s : LSNAt(t, s)' = LSNAt(t, s)
  BY <1>1, <1>2, TimelinesAre, TimelinesStay DEF LSNAt
<1>6. Failover => Timeline' = Timeline + 1
  BY <1>1, ForkCounts DEF Failover
<1>7. Second => Timeline' = Timeline
  BY DEF Second, Tick, Timeline
<1>8. \A h \in Handlers : pc[h] \in Unsaved /\ SessionIsUp(h)' => SessionIsUp(h) /\ ~Failover
  <2> TAKE h \in Handlers
  <2> HAVE pc[h] \in Unsaved /\ SessionIsUp(h)'
  <2>1. mine[h].wal.tli \in 1 .. Timeline /\ mine'[h] = mine[h]
    BY <1>1, <1>2 DEF OwnInv, handlerVars
  <2>2. mine[h].wal.tli = Timeline'
    BY <2>1 DEF SessionIsUp
  <2>3. Timeline \in Nat
    BY <1>1, TimelinesAre
  <2> QED
    BY <1>6, <1>7, <2>1, <2>2, <2>3 DEF SessionIsUp
<1>9. VarTypes'
  BY <1>1, <1>2, <1>3 DEF VarTypes, handlerVars
<1>10. HandlerInv'
  BY <1>1, <1>2, <1>4 DEF HandlerInv, handlerVars
<1>11. OwnInv'
  <2> SUFFICES ASSUME NEW h \in Handlers, pc[h] \in Unsaved, NEW b, b = mine[h]
               PROVE  /\ b.wal = SegmentAt(b.wal.tli, LSNAt(b.wal.tli, b.start)') /\ b.wal.tli \in 1 .. Timeline'
                      /\ b.name \in FirstSecond .. b.start
                      /\ b.start \in BeginOf(b.wal.tli)' .. EndOf(b.wal.tli)'
                      /\ pc[h] = "save" => b.stop \in b.start .. EndOf(b.wal.tli)' /\ b.lsn = LSNAt(b.wal.tli, b.stop)'
                      /\ \A c \in base[h] : c.id < b.id
    BY <1>2 DEF OwnInv, handlerVars
  <2>1. /\ b.wal = SegmentAt(b.wal.tli, LSNAt(b.wal.tli, b.start)) /\ b.wal.tli \in 1 .. Timeline
        /\ b.name \in FirstSecond .. b.start
        /\ b.start \in BeginOf(b.wal.tli) .. EndOf(b.wal.tli)
        /\ pc[h] = "save" => b.stop \in b.start .. EndOf(b.wal.tli) /\ b.lsn = LSNAt(b.wal.tli, b.stop)
        /\ \A c \in base[h] : c.id < b.id
    BY <1>1 DEF OwnInv
  <2>2. PICK t \in 1 .. Timeline : t = b.wal.tli
    BY <2>1
  <2>3. t \in 1 .. Timeline' /\ BeginOf(t)' = BeginOf(t) /\ BeginOf(t) \in Nat
        /\ EndOf(t) <= EndOf(t)' /\ EndOf(t) \in Nat /\ EndOf(t)' \in Nat
        /\ \A s : LSNAt(t, s)' = LSNAt(t, s)
    BY <1>5
  <2>4. b.start \in BeginOf(t)' .. EndOf(t)' /\ b.start \in Nat
    BY <2>1, <2>2, <2>3
  <2>5. pc[h] = "save" => b.stop \in b.start .. EndOf(t)'
    BY <2>1, <2>2, <2>3, <2>4
  <2> QED
    BY <2>1, <2>2, <2>3, <2>4, <2>5
<1>12. LockInv'
  <2>1. \A h \in Handlers : pc'[h] = "run" /\ SessionIsUp(h)' => pod'[h] = primary'
    BY <1>1, <1>2, <1>3, <1>8 DEF LockInv, handlerVars, Unsaved
  <2> QED
    BY <1>1, <1>2, <2>1 DEF LockInv, handlerVars
<1>13. PlaceInv'
  <2>1. \A h \in Handlers : \A t : pc[h] \in Unsaved /\ WasBefore(h, t) => WasBefore(h, t)'
    BY <1>2, <1>8 DEF WasBefore, handlerVars
  <2> QED
    BY <1>1, <1>2, <2>1 DEF PlaceInv, handlerVars
<1>14. RequestInv'
  <2>1. Pending' = Pending /\ Labels' = Labels
    BY <1>2 DEF Pending, Labels, handlerVars
  <2> QED
    BY <1>1, <1>2, <2>1 DEF RequestInv
<1>15. StanzaInv' /\ AloneInv'
  BY <1>1, <1>2 DEF StanzaInv, AloneInv, handlerVars
<1> QED
  BY <1>2, <1>9, <1>10, <1>11, <1>12, <1>13, <1>14, <1>15 DEF RepositoryNext

-----------------------------------------------------------------------------
(* Handlers that go on.                                                    *)

\* A backup gets an ID that is greater than all others, and one for which there was a
\* request.
LEMMA NextIdIs ==
    ASSUME VarTypes, RepositoryInv, RequestInv, NEW h \in Pending
    PROVE  /\ NextId \in Ids /\ NextId \in Nat
           /\ \A id \in Labels : id < NextId
           /\ NextId + Cardinality(Pending \ {h}) <= requests.backup
<1>1. NextId = 1 + Ordered(Labels)
  BY DEF NextId, Labels
<1>2. \A id \in Labels : id \in Ids /\ id \in Nat
  BY LabelsAre
<1>3. requests.backup \in Nat /\ requests.backup <= MaxBackups /\ MaxBackups \in Nat
  BY RepositoryAssumption DEF VarTypes
<1>4. /\ Cardinality(Pending) \in Nat /\ Cardinality(Pending \ {h}) \in Nat
      /\ Cardinality(Pending \ {h}) = Cardinality(Pending) - 1
  <2>1. IsFiniteSet(Pending) /\ Cardinality(Pending) \in Nat
    BY PendingIsFinite DEF Pending
  <2>2. Cardinality(Pending \ {h}) = Cardinality(Pending) - 1 /\ IsFiniteSet(Pending \ {h})
    BY <2>1, FS_RemoveElement
  <2> QED
    BY <2>1, <2>2, FS_CardinalityType
<1>5. CASE Labels = {}
  <2>1. NextId = 1
    BY <1>1, <1>5 DEF Ordered
  <2> QED
    BY <1>3, <1>4, <1>5, <2>1 DEF RequestInv, Ids
<1>6. CASE Labels # {}
  <2>1. PICK top \in Labels : \A id \in Labels : id <= top
    <3>1. Labels \in SUBSET Nat /\ \A id \in Labels : id <= MaxBackups
      BY <1>2, <1>3 DEF Ids
    <3> QED
      BY <1>3, <1>6, <3>1, GreatestNumber
  <2>2. Ordered(Labels) \in Labels /\ \A id \in Labels : Ordered(Labels) >= id
    <3>1. \A id \in Labels : top >= id
      BY <1>2, <2>1
    <3> QED
      BY <1>6, <3>1 DEF Ordered, Max
  <2>3. Ordered(Labels) + Cardinality(Pending) <= requests.backup
    BY <2>2 DEF RequestInv
  <2>4. \A id \in Labels : id \in Nat /\ id < NextId
    BY <1>1, <1>2, <2>2
  <2>5. NextId \in Nat /\ NextId + Cardinality(Pending \ {h}) <= requests.backup /\ NextId >= 1
    BY <1>1, <1>2, <1>3, <1>4, <2>2, <2>3
  <2> QED
    BY <1>3, <1>4, <2>4, <2>5 DEF Ids
<1> QED
  BY <1>5, <1>6

\* The catalog is looked up by name for a backup of the handler's name.
LEMMA LookUpFinds ==
    ASSUME RepositoryInv, NEW n,
           NEW id, id = GetBackupIDFromAnnotatedName(info, n)
    PROVE  \/ /\ id = NoID /\ findBackupFromID(info, id) = NoBackup
              /\ \A b \in Range(info) : b.name # n
           \/ /\ id # NoID
              /\ findBackupFromID(info, id) \in Range(info) /\ findBackupFromID(info, id).name = n
<1> DEFINE named == {i \in DOMAIN info : info[i].name = n}
           found == {i \in DOMAIN info : isBackupDone(info[i]) /\ info[i].id = id}
<1>1. /\ info \in Seq(taken) /\ Range(info) = {info[i] : i \in DOMAIN info}
      /\ \A i \in DOMAIN info : info[i] \in taken
  BY DEF RepositoryInv, Range
<1>2. \A b \in taken : /\ isBackupDone(b) /\ b.id \in Nat \ {0} /\ b # NoBackup
                       /\ \A c \in taken : b.id = c.id => b = c
  BY RepositoryAssumption
     DEF RepositoryInv, OneAfterAnother, Whole, BackupRecords, Seconds, Ids, isBackupDone
<1>3. id = IF LastOf(info, named) = NoBackup THEN NoID ELSE LastOf(info, named).id
  BY DEF GetBackupIDFromAnnotatedName
<1>4. findBackupFromID(info, id) = FirstOf(info, found)
  BY DEF findBackupFromID
<1>5. CASE named = {}
  <2>1. id = NoID
    BY <1>3, <1>5 DEF LastOf
  <2>2. found = {}
    BY <1>1, <1>2, <2>1 DEF NoID
  <2> QED
    BY <1>1, <1>4, <1>5, <2>1, <2>2 DEF FirstOf
<1>6. CASE named # {}
  <2>1. PICK i \in named : LastOf(info, named) = info[i]
    <3> HIDE DEF named
    <3>1. named \in SUBSET DOMAIN info
      BY DEF named
    <3> QED
      BY <1>1, <1>6, <3>1, PlacesHaveEnds
  <2>2. info[i] \in taken /\ info[i].name = n /\ info[i] # NoBackup
    BY <1>1, <1>2
  <2>3. id = info[i].id /\ id # NoID
    BY <1>2, <1>3, <2>1, <2>2 DEF NoID
  <2>4. i \in found
    BY <1>1, <1>2, <2>2, <2>3
  <2>5. PICK j \in found : FirstOf(info, found) = info[j]
    <3> HIDE DEF found
    <3>1. found \in SUBSET DOMAIN info /\ found # {}
      BY <2>4 DEF found
    <3> QED
      BY <1>1, <3>1, PlacesHaveEnds
  <2>6. info[j] = info[i]
    BY <1>1, <1>2, <2>2, <2>3
  <2> QED
    BY <1>1, <1>4, <2>2, <2>3, <2>5, <2>6
<1> QED
  BY <1>5, <1>6

\* The LSN of the primary is in range.
LEMMA PresentLSNIs == ASSUME ClockInv PROVE PresentLSN \in LSNs
<1>1. Timeline \in 1 .. Timeline /\ clock \in BeginOf(Timeline) .. EndOf(Timeline)
  BY TimelinesAre
<1> QED
  BY <1>1, LSNsAre DEF PresentLSN

LEMMA GoesTypes ==
    ASSUME BackupsInv, NEW h \in Handlers, Goes(h)
    PROVE  VarTypes'
<1>1. VarTypes /\ RepositoryInv /\ RequestInv /\ HandlerInv /\ ClockInv
  BY DEF BackupsInv, RepositoryInv
<1>2. UNCHANGED <<clock, primary, forks, faults>>
  BY <1>1, GoesFrame
<1>3. /\ clock \in Seconds /\ clock \in Nat /\ Timeline \in Timelines
      /\ taken \subseteq BackupRecords /\ stored \subseteq taken /\ Range(info) \subseteq taken
  BY <1>1, TimelinesAre DEF RepositoryInv, Whole, Range
<1>4. CASE Request(h)
  <2>1. PICK k \in {"backup", "archive"} :
          /\ requests[k] < MaxRequests[k]
          /\ requests' = [requests EXCEPT ![k] = @ + 1]
          /\ kind' = [kind EXCEPT ![h] = k]
          /\ \/ k = "archive" /\ Goto(h, "check") /\ UNCHANGED name
             \/ k = "backup" /\ ShouldCreateStanzaOnBackup /\ Goto(h, "create") /\ UNCHANGED name
             \/ k = "backup" /\ ~ShouldCreateStanzaOnBackup /\ Goto(h, "take") /\ BackupName(h)
    BY <1>4 DEF Request
  <2>2. requests' \in [backup: 0 .. MaxBackups, archive: 0 .. MaxArchives]
    BY <1>1, <2>1, BackupsAssumption, RepositoryAssumption DEF VarTypes, MaxRequests
  <2>3. pc' \in [Handlers -> Steps] /\ name' \in [Handlers -> Seconds]
    BY <1>1, <1>3, <2>1 DEF VarTypes, Goto, BackupName, Steps
  <2>4. kind' \in [Handlers -> {"backup", "archive"}]
    BY <1>1, <2>1 DEF VarTypes
  <2>5. pod' \in [Handlers -> Pods]
        /\ UNCHANGED <<stanza, stored, info, lock, mine, base, answer, taken, met>>
    BY <1>1, <1>4 DEF VarTypes, Request, repoVars
  <2> QED
    BY <1>1, <1>2, <2>2, <2>3, <2>4, <2>5 DEF VarTypes
<1>5. CASE CreateStarts(h)
  BY <1>1, <1>2, <1>5 DEF VarTypes, CreateStarts, Goto, worldVars, repoVars, Steps
<1>6. CASE CreateEnds(h)
  BY <1>1, <1>2, <1>3, <1>6 DEF VarTypes, CreateEnds, Release, Goto, BackupName, worldVars, Steps
<1>7. CASE TakeStarts(h)
  <2> DEFINE b == [id |-> NextId, name |-> name[h], start |-> clock, stop |-> 0,
                   lsn |-> 0, wal |-> SegmentAt(Timeline, PresentLSN)]
  <2>1. h \in Pending
    BY <1>1, <1>7 DEF Pending, HandlerInv, TakeStarts
  <2>2. NextId \in Ids
    BY <1>1, <2>1, NextIdIs
  <2>3. SegmentAt(Timeline, PresentLSN) \in [tli: Timelines, log: 0 .. FieldMax, seg: 0 .. FieldMax]
    BY <1>1, <1>3, PresentLSNIs, SegmentFits
  <2>4. b \in BackupRecords
    <3>1. name[h] \in Seconds /\ 0 \in Seconds /\ 0 \in LSNs
      BY <1>1, RepositoryAssumption DEF VarTypes, Seconds, LSNs
    <3> HIDE DEF Seconds, LSNs
    <3> QED
      BY <1>3, <2>2, <2>3, <3>1 DEF BackupRecords
  <2>5. mine' = [mine EXCEPT ![h] = b]
    BY <1>7 DEF TakeStarts
  <2> HIDE DEF b
  <2>6. mine' \in [Handlers -> BackupRecords \cup {NoBackup}]
    BY <1>1, <2>4, <2>5 DEF VarTypes
  <2>7. base' \in [Handlers -> SUBSET taken]
    BY <1>1, <1>3, <1>7 DEF VarTypes, TakeStarts
  <2> QED
    BY <1>1, <1>2, <1>7, <2>6, <2>7 DEF VarTypes, TakeStarts, Goto, worldVars, repoVars, Steps
<1>8. CASE TakeStops(h)
  <2>1. mine[h] \in BackupRecords
    BY <1>1, <1>8 DEF VarTypes, HandlerInv, TakeStops, Own
  <2>2. [mine[h] EXCEPT !.stop = clock, !.lsn = PresentLSN] \in BackupRecords
    BY <1>1, <1>3, <2>1, PresentLSNIs DEF BackupRecords
  <2>3. mine' = [mine EXCEPT ![h] = [mine[h] EXCEPT !.stop = clock, !.lsn = PresentLSN]]
    BY <1>1, <1>8 DEF TakeStops, VarTypes
  <2>4. mine' \in [Handlers -> BackupRecords \cup {NoBackup}]
    BY <1>1, <2>2, <2>3 DEF VarTypes
  <2> QED
    BY <1>1, <1>2, <1>8, <2>4 DEF VarTypes, TakeStops, Goto, worldVars, repoVars, Steps
<1>9. CASE TakeSaves(h)
  <2>1. taken \subseteq taken' /\ met' \subseteq Handlers
    BY <1>1, <1>9 DEF TakeSaves, VarTypes, Others
  <2> QED
    BY <1>1, <1>2, <1>9, <2>1 DEF VarTypes, TakeSaves, Goto, worldVars, Steps
<1>10. CASE TakeExpires(h)
  <2>1. met' \subseteq Handlers /\ taken' = taken
    BY <1>1, <1>10 DEF TakeExpires, Expire, VarTypes, Others
  <2> QED
    BY <1>1, <1>2, <1>10, <2>1 DEF VarTypes, TakeExpires, Release, Goto, Steps
<1>11. CASE LookUpName(h)
  <2> DEFINE id == GetBackupIDFromAnnotatedName(info, name[h])
  <2>1. findBackupFromID(info, id) \in taken \cup {NoBackup}
    BY <1>1, <1>3, LookUpFinds
  <2>2. answer' = [answer EXCEPT ![h] = findBackupFromID(info, id)]
        /\ (Goto(h, "panicked") \/ Goto(h, "get"))
    BY <1>11 DEF LookUpName
  <2> HIDE DEF id
  <2> QED
    BY <1>1, <1>2, <1>11, <2>1, <2>2 DEF VarTypes, LookUpName, Goto, worldVars, repoVars, Steps
<1>12. CASE Move(h, "check", "create") \/ Move(h, "get", "done") \/ Move(h, "get", "panicked")
  BY <1>1, <1>2, <1>12 DEF VarTypes, Move, Goto, worldVars, repoVars, Steps
<1> QED
  BY <1>4, <1>5, <1>6, <1>7, <1>8, <1>9, <1>10, <1>11, <1>12 DEF Goes

\* The handler that takes the step.
Part(h, from, to) == pc[h] = from /\ pc'[h] = to

LEMMA GoesOn ==
    ASSUME VarTypes, NEW h \in Handlers, Goes(h)
    PROVE  \/ /\ Request(h)
              /\ \/ Part(h, "idle", "check") /\ kind'[h] = "archive" /\ name'[h] = name[h]
                 \/ /\ Part(h, "idle", "create") /\ kind'[h] = "backup" /\ Policy # "Disabled"
                    /\ name'[h] = name[h]
                 \/ /\ Part(h, "idle", "take") /\ kind'[h] = "backup" /\ name'[h] = clock
                    /\ Policy = "Disabled"
              /\ UNCHANGED <<lock, mine, base, answer, met>>
           \/ /\ CreateStarts(h) /\ Part(h, "create", "creating")
              /\ UNCHANGED <<pod, kind, name, mine, base, answer, met>>
           \/ /\ CreateEnds(h)
              /\ \/ Part(h, "creating", "idle") /\ kind[h] = "archive" /\ name'[h] = name[h]
                 \/ Part(h, "creating", "take") /\ kind[h] = "backup" /\ name'[h] = clock
              /\ UNCHANGED <<pod, kind, mine, base, answer, met>>
           \/ /\ TakeStarts(h) /\ Part(h, "take", "run") /\ UNCHANGED <<pod, kind, name, answer>>
           \/ /\ TakeStops(h) /\ Part(h, "run", "save")
              /\ UNCHANGED <<lock, pod, kind, name, base, answer, met>>
           \/ /\ TakeSaves(h) /\ Part(h, "save", "expire")
              /\ UNCHANGED <<lock, pod, kind, name, mine, base, answer>>
           \/ /\ TakeExpires(h) /\ Part(h, "expire", "look")
              /\ UNCHANGED <<pod, kind, name, mine, base, answer>>
           \/ /\ LookUpName(h) /\ (Part(h, "look", "get") \/ Part(h, "look", "panicked"))
              /\ UNCHANGED <<lock, pod, kind, name, mine, base, met>>
           \/ /\ \/ Part(h, "check", "create") /\ Policy # "Disabled"
                 \/ Part(h, "get", "done") /\ answer[h] \in Range(info)
                 \/ Part(h, "get", "panicked") /\ answer[h] \notin Range(info)
              /\ UNCHANGED <<lock, pod, kind, name, mine, base, answer, met, stored, info>>
<1> USE DEF Goto, VarTypes, repoVars, Part, BackupName, ShouldCreateStanzaOnBackup,
            ShouldCreateStanzaOnArchive
<1>1. CASE Request(h)
  <2>1. PICK k \in {"backup", "archive"} :
          /\ kind' = [kind EXCEPT ![h] = k]
          /\ \/ k = "archive" /\ Goto(h, "check") /\ UNCHANGED name
             \/ k = "backup" /\ ShouldCreateStanzaOnBackup /\ Goto(h, "create") /\ UNCHANGED name
             \/ k = "backup" /\ ~ShouldCreateStanzaOnBackup /\ Goto(h, "take") /\ BackupName(h)
    BY <1>1 DEF Request
  <2>2. pc[h] = "idle" /\ UNCHANGED <<lock, mine, base, answer, met>>
    BY <1>1 DEF Request
  <2>3. kind'[h] = k
    BY <2>1
  <2> QED
    BY <1>1, <2>1, <2>2, <2>3
<1>2. CASE CreateStarts(h)
  BY <1>2 DEF CreateStarts
<1>3. CASE CreateEnds(h)
  BY <1>3 DEF CreateEnds
<1>4. CASE TakeStarts(h)
  BY <1>4 DEF TakeStarts
<1>5. CASE TakeStops(h)
  BY <1>5 DEF TakeStops
<1>6. CASE TakeSaves(h)
  BY <1>6 DEF TakeSaves
<1>7. CASE TakeExpires(h)
  BY <1>7 DEF TakeExpires
<1>8. CASE LookUpName(h)
  BY <1>8 DEF LookUpName
<1>9. CASE Move(h, "check", "create") /\ ShouldCreateStanzaOnArchive
  BY <1>9 DEF Move
<1>10. CASE \/ Move(h, "get", "done") /\ answer[h] \in Range(info)
            \/ Move(h, "get", "panicked") /\ answer[h] \notin Range(info)
  BY <1>10 DEF Move
<1> QED
  BY <1>1, <1>2, <1>3, <1>4, <1>5, <1>6, <1>7, <1>8, <1>9, <1>10 DEF Goes

LEMMA GoesHandler ==
    ASSUME BackupsInv, NEW h \in Handlers, Goes(h)
    PROVE  HandlerInv'
<1>1. VarTypes /\ RepositoryInv /\ HandlerInv /\ OwnInv /\ ClockInv
  BY DEF BackupsInv, RepositoryInv
<1>2. UNCHANGED clock /\ (\A g \in Handlers \ {h} : Same(g)) /\ taken \subseteq taken'
  BY <1>1, GoesFrame DEF TakeSaves
<1>3. clock \in FirstSecond .. clock
  BY <1>1, TimelinesAre
<1> DEFINE P(g) == /\ pc'[g] \in Own \cup {"take"} => kind'[g] = "backup"
                   /\ pc'[g] = "check" => kind'[g] = "archive"
                   /\ mine'[g] # NoBackup <=> pc'[g] \in Own
                   /\ pc'[g] = "take" => name'[g] \in FirstSecond .. clock
                   /\ pc'[g] \in Own => mine'[g].name = name'[g]
                   /\ pc'[g] \in Own \ Unsaved => mine'[g] \in taken'
                   /\ pc'[g] \in {"get", "done"} => answer'[g] \in taken' /\ answer'[g].name = name'[g]
<1>4. \A g \in Handlers \ {h} : P(g)
  BY <1>1, <1>2 DEF HandlerInv, Same
<1>5. P(h)
  <2> USE DEF Own, Unsaved, Part
  <2>1. CASE Request(h) \/ CreateStarts(h) \/ CreateEnds(h) \/ TakeExpires(h)
    BY <1>1, <1>2, <1>3, <2>1, GoesOn DEF HandlerInv, Request, CreateStarts, CreateEnds, TakeExpires
  <2>2. CASE TakeStarts(h)
    <3>1. /\ mine'[h] = [id |-> NextId, name |-> name[h], start |-> clock, stop |-> 0,
                         lsn |-> 0, wal |-> SegmentAt(Timeline, PresentLSN)]
          /\ pc[h] = "take" /\ pc'[h] = "run" /\ name' = name /\ kind' = kind
      BY <1>1, <2>2 DEF TakeStarts, VarTypes, Goto
    <3>2. mine'[h] # NoBackup
      <4>1. h \in Pending
        BY <1>1, <3>1 DEF Pending, HandlerInv
      <4>2. NextId \in Ids
        BY <1>1, <4>1, NextIdIs DEF BackupsInv
      <4>3. SegmentAt(Timeline, PresentLSN) \in [tli: Timelines, log: 0 .. FieldMax, seg: 0 .. FieldMax]
        BY <1>1, TimelinesAre, PresentLSNIs, SegmentFits
      <4>4. name[h] \in Seconds /\ 0 \in Seconds /\ clock \in Seconds /\ 0 \in LSNs
        BY <1>1, RepositoryAssumption, TimelinesAre DEF VarTypes, Seconds, LSNs
      <4>5. mine'[h] \in BackupRecords
        <5> HIDE DEF Seconds, LSNs
        <5> QED
          BY <3>1, <4>2, <4>3, <4>4 DEF BackupRecords
      <4> QED
        BY <4>5, RepositoryAssumption
    <3> QED
      BY <1>1, <3>1, <3>2 DEF HandlerInv
  <2>3. CASE TakeStops(h)
    <3>1. mine'[h] = [mine[h] EXCEPT !.stop = clock, !.lsn = PresentLSN] /\ mine[h] \in BackupRecords
      BY <1>1, <2>3 DEF TakeStops, VarTypes, HandlerInv
    <3>2. mine'[h] \in BackupRecords /\ mine'[h].name = mine[h].name
      BY <1>1, <3>1, TimelinesAre, PresentLSNIs DEF BackupRecords
    <3>3. pc[h] = "run" /\ pc'[h] = "save" /\ UNCHANGED <<kind, name, answer, taken>>
      BY <1>1, <2>3 DEF TakeStops, Goto, VarTypes
    <3> QED
      BY <1>1, <3>2, <3>3, RepositoryAssumption DEF HandlerInv
  <2>4. CASE TakeSaves(h)
    BY <1>1, <2>4 DEF HandlerInv, TakeSaves, Goto, VarTypes
  <2>5. CASE LookUpName(h)
    <3> DEFINE id == GetBackupIDFromAnnotatedName(info, name[h])
    <3>1. /\ pc[h] = "look" /\ UNCHANGED <<kind, name, mine, taken>>
          /\ answer'[h] = findBackupFromID(info, id)
          /\ pc'[h] = IF id = NoID THEN "panicked" ELSE "get"
      BY <1>1, <2>5 DEF LookUpName, Goto, VarTypes, repoVars
    <3>2. id # NoID => answer'[h] \in taken /\ answer'[h].name = name[h]
      <4>1. Range(info) \subseteq taken
        BY <1>1 DEF RepositoryInv, Range
      <4> QED
        BY <1>1, <3>1, <4>1, LookUpFinds
    <3> HIDE DEF id
    <3> QED
      BY <1>1, <3>1, <3>2 DEF HandlerInv
  <2>6. CASE /\ Part(h, "check", "create") \/ Part(h, "get", "done") \/ Part(h, "get", "panicked")
             /\ UNCHANGED <<kind, name, mine, answer>>
    BY <1>1, <1>2, <2>6 DEF HandlerInv
  <2> HIDE DEF P
  <2> QED
    BY <1>1, <2>1, <2>2, <2>3, <2>4, <2>5, <2>6, GoesOn
<1> HIDE DEF P
<1>6. \A g \in Handlers : P(g)
  BY <1>4, <1>5
<1> QED
  BY <1>2, <1>6 DEF HandlerInv, P

LEMMA GoesOwn ==
    ASSUME BackupsInv, NEW h \in Handlers, Goes(h)
    PROVE  OwnInv'
<1>1. VarTypes /\ RepositoryInv /\ HandlerInv /\ OwnInv /\ AloneInv /\ ClockInv
  BY DEF BackupsInv, RepositoryInv
<1>2. UNCHANGED <<clock, forks>> /\ (\A g \in Handlers \ {h} : Same(g))
  BY <1>1, GoesFrame
<1>3. Timeline' = Timeline /\ (\A t : EndOf(t)' = EndOf(t) /\ BeginOf(t)' = BeginOf(t))
      /\ \A t, s : LSNAt(t, s)' = LSNAt(t, s)
  BY <1>2 DEF Timeline, EndOf, BeginOf, FirstLSN, LSNAt
<1> DEFINE P(g, b) ==
        /\ b.wal = SegmentAt(b.wal.tli, LSNAt(b.wal.tli, b.start)) /\ b.wal.tli \in 1 .. Timeline
        /\ b.name \in FirstSecond .. b.start
        /\ b.start \in BeginOf(b.wal.tli) .. EndOf(b.wal.tli)
        /\ pc'[g] = "save" => b.stop \in b.start .. EndOf(b.wal.tli) /\ b.lsn = LSNAt(b.wal.tli, b.stop)
        /\ \A c \in base'[g] : c.id < b.id
<1>4. \A g \in Handlers \ {h} : pc'[g] \in Unsaved => P(g, mine'[g])
  BY <1>1, <1>2 DEF OwnInv, Same
<1>5. pc'[h] \in Unsaved => P(h, mine'[h])
  <2> USE DEF Unsaved, Part
  <2>1. CASE TakeStarts(h)
    <3>1. PICK b : b = [id |-> NextId, name |-> name[h], start |-> clock, stop |-> 0,
                        lsn |-> 0, wal |-> SegmentAt(Timeline, PresentLSN)]
      OBVIOUS
    <3>2. /\ mine'[h] = b /\ base'[h] = stored
          /\ pc[h] = "take" /\ pc'[h] = "run"
      BY <1>1, <2>1, <3>1 DEF TakeStarts, VarTypes, Goto
    <3>3. /\ b.id = NextId /\ b.name = name[h] /\ b.start = clock
          /\ b.wal = SegmentAt(Timeline, PresentLSN) /\ b.wal.tli = Timeline
      BY <3>1 DEF SegmentAt, Segment
    <3>0. b.wal = SegmentAt(b.wal.tli, LSNAt(b.wal.tli, b.start))
      BY <3>3 DEF PresentLSN
    <3>4. name[h] \in FirstSecond .. clock
      BY <1>1, <3>2 DEF HandlerInv
    <3>5. clock \in BeginOf(Timeline) .. EndOf(Timeline) /\ Timeline \in 1 .. Timeline
      BY <1>1, TimelinesAre
    <3>6. \A c \in stored : c.id < NextId
      <4>1. h \in Pending
        BY <1>1, <3>2 DEF Pending, HandlerInv
      <4>2. \A c \in stored : c.id \in Labels
        BY <1>1 DEF Labels, RepositoryInv
      <4> QED
        BY <1>1, <4>1, <4>2, NextIdIs DEF BackupsInv
    <3> QED
      BY <3>0, <3>2, <3>3, <3>4, <3>5, <3>6
  <2>2. CASE TakeStops(h)
    <3>1. PICK b : b = [mine[h] EXCEPT !.stop = clock, !.lsn = PresentLSN]
      OBVIOUS
    <3>2. /\ mine'[h] = b /\ base' = base /\ pc[h] = "run" /\ mine[h] \in BackupRecords
          /\ mine[h].wal.tli = Timeline
      BY <1>1, <2>2, <3>1 DEF TakeStops, VarTypes, HandlerInv, Own, SessionIsUp
    <3>3. /\ b.id = mine[h].id /\ b.name = mine[h].name /\ b.start = mine[h].start
          /\ b.wal = mine[h].wal /\ b.stop = clock /\ b.lsn = PresentLSN
      BY <3>1, <3>2 DEF BackupRecords
    <3>4. b.start \in BeginOf(Timeline) .. EndOf(Timeline) /\ EndOf(Timeline) = clock
      BY <1>1, <3>2, <3>3, TimelinesAre DEF OwnInv
    <3>5. b.stop \in b.start .. EndOf(b.wal.tli)
      BY <1>1, <3>2, <3>3, <3>4, TimelinesAre
    <3> QED
      BY <1>1, <3>2, <3>3, <3>5 DEF OwnInv, PresentLSN
  <2>3. CASE ~TakeStarts(h) /\ ~TakeStops(h)
    BY <1>1, <2>3, GoesOn
  <2> QED
    BY <2>1, <2>2, <2>3
<1> HIDE DEF P
<1>6. \A g \in Handlers : pc'[g] \in Unsaved => P(g, mine'[g])
  BY <1>4, <1>5
<1>7. ASSUME NEW g \in Handlers, pc'[g] \in Unsaved, NEW b, b = mine'[g]
      PROVE  /\ b.wal = SegmentAt(b.wal.tli, LSNAt(b.wal.tli, b.start)') /\ b.wal.tli \in 1 .. Timeline'
             /\ b.name \in FirstSecond .. b.start
             /\ b.start \in BeginOf(b.wal.tli)' .. EndOf(b.wal.tli)'
             /\ pc'[g] = "save" => b.stop \in b.start .. EndOf(b.wal.tli)' /\ b.lsn = LSNAt(b.wal.tli, b.stop)'
             /\ \A c \in base'[g] : c.id < b.id
  BY <1>3, <1>6, <1>7 DEF P
<1> QED
  BY <1>7 DEF OwnInv

LEMMA GoesLock ==
    ASSUME BackupsInv, NEW h \in Handlers, Goes(h)
    PROVE  LockInv'
<1>1. VarTypes /\ LockInv /\ HandlerInv /\ RepositoryInv
  BY DEF BackupsInv
<1>2. UNCHANGED <<clock, forks, primary>> /\ (\A g \in Handlers \ {h} : Same(g)) /\ Timeline' = Timeline
  BY <1>1, GoesFrame DEF Timeline
<1>3. /\ \A g \in Handlers : pod[g] \in Pods
      /\ \A p \in Pods : lock[p] \in Handlers \cup {NoHandler}
      /\ NoHandler \notin Handlers
  BY <1>1, BackupsAssumption DEF VarTypes
<1> USE DEF Part, Same, Locked, SessionIsUp
\* The handler takes the lock, gives it back, or leaves it.
<1>4. \/ /\ pod'[h] = pod[h] /\ lock[pod[h]] = NoHandler /\ pod[h] = primary
         /\ \A p \in Pods : lock'[p] = IF p = pod[h] THEN h ELSE lock[p]
         /\ pc[h] \notin Locked /\ pc'[h] \in Locked
      \/ /\ pod'[h] = pod[h] /\ pc[h] \in Locked /\ pc'[h] \notin Locked
         /\ \A p \in Pods : lock'[p] = IF lock[p] = h THEN NoHandler ELSE lock[p]
      \/ /\ lock' = lock /\ pc[h] \notin Locked /\ pc'[h] \notin Locked
      \/ /\ lock' = lock /\ pod'[h] = pod[h] /\ pc[h] \in Locked /\ pc'[h] \in Locked \ {"run"}
  <2>1. CASE CreateStarts(h) \/ TakeStarts(h)
    BY <1>1, <1>3, <2>1 DEF CreateStarts, TakeStarts, MayRun, Goto, VarTypes
  <2>2. CASE CreateEnds(h) \/ TakeExpires(h)
    <3>1. pod' = pod /\ pc[h] \in Locked /\ pc'[h] \notin Locked /\ Release(h)
      BY <1>1, <2>2 DEF CreateEnds, TakeExpires, Goto, VarTypes
    <3> QED
      BY <3>1 DEF Release
  <2>3. CASE ~(CreateStarts(h) \/ TakeStarts(h) \/ CreateEnds(h) \/ TakeExpires(h))
    <3>1. lock' = lock
      BY <1>1, <2>3, GoesOn DEF TakeStops, TakeSaves, LookUpName
    <3>2. \/ pc[h] \notin Locked /\ pc'[h] \notin Locked
          \/ pod' = pod /\ pc[h] \in Locked /\ pc'[h] \in Locked \ {"run"}
      BY <1>1, <2>3, GoesOn
    <3> QED
      BY <3>1, <3>2
  <2> QED
    BY <2>1, <2>2, <2>3
<1>5. \A g \in Handlers : pc'[g] \in Locked => lock'[pod'[g]] = g
  BY <1>1, <1>2, <1>3, <1>4 DEF LockInv
<1>6. \A p \in Pods : lock'[p] # NoHandler => pc'[lock'[p]] \in Locked /\ pod'[lock'[p]] = p
  BY <1>1, <1>2, <1>3, <1>4 DEF LockInv
<1>7. \A g \in Handlers : pc'[g] = "run" /\ mine'[g].wal.tli = Timeline' => pod'[g] = primary'
  BY <1>1, <1>2, <1>3, <1>4 DEF LockInv
<1> QED
  BY <1>5, <1>6, <1>7 DEF LockInv

LEMMA GoesStanza ==
    ASSUME BackupsInv, NEW h \in Handlers, Goes(h)
    PROVE  StanzaInv'
<1>1. VarTypes /\ StanzaInv /\ HandlerInv
  BY DEF BackupsInv
<1>2. (\A g \in Handlers \ {h} : Same(g)) /\ (stanza' = stanza \/ stanza' = TRUE)
  BY <1>1, GoesFrame DEF CreateEnds
<1>3. /\ Policy # "Disabled" /\ pc'[h] \in Own \cup {"take"} => stanza'
      /\ Policy = "Disabled" => pc'[h] \notin {"create", "creating"}
  <2>1. CreateEnds(h) => stanza'
    BY DEF CreateEnds
  <2>2. stanza => stanza'
    BY <1>2
  <2> QED
    BY <1>1, <2>1, <2>2, GoesOn DEF StanzaInv, Part, Own
<1> QED
  BY <1>1, <1>2, <1>3 DEF StanzaInv, Same

LEMMA GoesRequest ==
    ASSUME BackupsInv, NEW h \in Handlers, Goes(h)
    PROVE  RequestInv'
<1>1. VarTypes /\ RepositoryInv /\ RequestInv /\ HandlerInv
  BY DEF BackupsInv
<1>2. \A g \in Handlers \ {h} : Same(g)
  BY <1>1, GoesFrame
<1>3. /\ IsFiniteSet(Pending) /\ Cardinality(Pending) \in Nat
      /\ requests.backup \in Nat
      /\ \A id \in Labels : id \in Nat
  BY <1>1, PendingIsFinite, LabelsAre, RepositoryAssumption DEF Pending, VarTypes
<1>4. \A id : id \in Labels <=> \/ \E b \in taken : id = b.id
                                \/ \E g \in Handlers : mine[g] # NoBackup /\ id = mine[g].id
  BY DEF Labels
<1>5. \A id : id \in Labels' <=> \/ \E b \in taken' : id = b.id
                                 \/ \E g \in Handlers : mine'[g] # NoBackup /\ id = mine'[g].id
  BY DEF Labels
<1>6. \A g \in Handlers \ {h} : g \in Pending' <=> g \in Pending
  BY <1>2 DEF Pending, Same
<1>7. CASE Request(h)
  <2>1. Labels' = Labels
    BY <1>7 DEF Request, Labels
  <2>2. PICK k \in {"backup", "archive"} :
          /\ requests' = [requests EXCEPT ![k] = @ + 1] /\ kind' = [kind EXCEPT ![h] = k]
    BY <1>7 DEF Request
  <2>3. h \notin Pending
    BY <1>7 DEF Request, Pending
  <2>4. CASE k = "backup"
    <3>1. requests'.backup = requests.backup + 1
      BY <1>1, <2>2, <2>4 DEF VarTypes
    <3>2. Pending' \subseteq Pending \cup {h}
      BY <1>6 DEF Pending
    <3>3. IsFiniteSet(Pending \cup {h}) /\ Cardinality(Pending \cup {h}) = Cardinality(Pending) + 1
      BY <1>3, <2>3, FS_AddElement
    <3>4. Cardinality(Pending') <= Cardinality(Pending) + 1 /\ Cardinality(Pending') \in Nat
      BY <3>2, <3>3, FS_Subset, FS_CardinalityType
    <3> QED
      BY <1>1, <1>3, <2>1, <3>1, <3>4 DEF RequestInv
  <2>5. CASE k = "archive"
    <3>1. requests'.backup = requests.backup /\ h \notin Pending'
      BY <1>1, <2>2, <2>5 DEF VarTypes, Pending
    <3>2. Pending' = Pending
      BY <1>6, <2>3, <3>1 DEF Pending
    <3> QED
      BY <1>1, <2>1, <3>1, <3>2 DEF RequestInv
  <2> QED
    BY <2>2, <2>4, <2>5
<1>8. CASE TakeStarts(h)
  <2>1. h \in Pending /\ requests' = requests /\ taken' = taken
        /\ mine'[h].id = NextId
    BY <1>1, <1>8 DEF TakeStarts, Pending, HandlerInv, VarTypes, worldVars
  <2>2. Pending' = Pending \ {h}
    <3>1. h \notin Pending'
      BY <1>1, <1>8 DEF TakeStarts, Pending, VarTypes, Goto
    <3> QED
      BY <1>6, <3>1 DEF Pending
  <2>3. \A id \in Labels' : id \in Labels \/ id = NextId
    BY <1>2, <1>4, <1>5, <2>1 DEF Same
  <2>4. /\ NextId \in Nat
        /\ NextId + Cardinality(Pending \ {h}) <= requests.backup
    BY <1>1, <2>1, NextIdIs
  <2>5. Cardinality(Pending \ {h}) = Cardinality(Pending) - 1
    BY <1>3, <2>1, FS_RemoveElement
  <2>6. Cardinality(Pending') = Cardinality(Pending) - 1 /\ requests'.backup = requests.backup
    BY <2>1, <2>2, <2>5
  <2>7. ASSUME NEW id \in Labels' PROVE id + Cardinality(Pending') <= requests'.backup
    BY <1>1, <1>3, <2>3, <2>4, <2>5, <2>6 DEF RequestInv
  <2> QED
    BY <1>1, <1>3, <2>6, <2>7 DEF RequestInv
<1>9. CASE ~Request(h) /\ ~TakeStarts(h)
  <2>1. requests' = requests
    BY <1>1, <1>9, GoesFrame
  <2>2. h \in Pending' => h \in Pending
    BY <1>1, <1>9, GoesOn DEF Part, Pending, HandlerInv
  <2>3. Pending' \subseteq Pending
    BY <1>6, <2>2 DEF Pending
  <2>4. Cardinality(Pending') <= Cardinality(Pending) /\ Cardinality(Pending') \in Nat
    BY <1>3, <2>3, FS_Subset, FS_CardinalityType
  <2>5. mine'[h] # NoBackup => mine[h] # NoBackup /\ mine'[h].id = mine[h].id
    <3>1. CASE TakeStops(h)
      <4>1. mine'[h] = [mine[h] EXCEPT !.stop = clock, !.lsn = PresentLSN] /\ mine[h] \in BackupRecords
        BY <1>1, <3>1 DEF TakeStops, VarTypes, HandlerInv, Own
      <4> QED
        BY <4>1, RepositoryAssumption DEF BackupRecords
    <3>2. CASE ~TakeStops(h)
      BY <1>1, <1>9, <3>2, GoesOn
    <3> QED
      BY <3>1, <3>2
  <2>6. \A b \in taken' : b \in taken \/ (b = mine[h] /\ mine[h] # NoBackup)
    <3>1. CASE TakeSaves(h)
      BY <1>1, <3>1 DEF TakeSaves, HandlerInv, Own
    <3> QED
      BY <1>1, <3>1, GoesFrame
  <2>7. \A id \in Labels' : id \in Labels
    BY <1>2, <1>4, <1>5, <2>5, <2>6 DEF Same
  <2> QED
    BY <1>1, <1>3, <2>1, <2>4, <2>7 DEF RequestInv
<1> QED
  BY <1>7, <1>8, <1>9

LEMMA GoesPlace ==
    ASSUME BackupsInv, NEW h \in Handlers, Goes(h)
    PROVE  PlaceInv'
<1>1. VarTypes /\ RepositoryInv /\ RequestInv /\ HandlerInv /\ OwnInv /\ LockInv /\ PlaceInv /\ ClockInv
  BY DEF BackupsInv, RepositoryInv
<1>2. (\A g \in Handlers \ {h} : Same(g)) /\ UNCHANGED <<clock, forks>> /\ Timeline' = Timeline
  BY <1>1, GoesFrame DEF Timeline
<1>3. \A g \in Handlers : pc[g] \in Unsaved =>
          mine[g].id \in Nat /\ mine[g].id \in Labels /\ mine[g] \in BackupRecords
  <2>1. \A g \in Handlers : pc[g] \in Unsaved => mine[g] # NoBackup /\ mine[g] \in BackupRecords
    BY <1>1 DEF HandlerInv, Own, Unsaved, VarTypes
  <2> QED
    BY <1>1, <2>1, LabelsAre
<1>4. \A c \in taken : c.id \in Nat /\ c.id \in Labels
  BY <1>1, LabelsAre
<1>5. \A g \in Handlers \ {h} : \A t : WasBefore(g, t)' = WasBefore(g, t)
  BY <1>2 DEF Same, WasBefore, SessionIsUp
\* Two handlers, and a handler and what was stored.
<1> DEFINE Pair(g, k) == /\ mine[k].id # mine[g].id
                         /\ mine[k].id < mine[g].id => WasBefore(k, mine[g].start)
           Placed(g, c) == \/ c.id < mine[g].id /\ c.stop <= mine[g].start
                           \/ mine[g].id < c.id /\ WasBefore(g, c.start)
<1>6. SUFFICES \A g \in Handlers : pc'[g] \in Unsaved =>
                  /\ \A k \in Handlers \ {g} : pc'[k] \in Unsaved => Pair(g, k)'
                  /\ \A c \in taken' : Placed(g, c)'
  BY DEF PlaceInv
<1>7. \A g \in Handlers : pc[g] \in Unsaved =>
          /\ \A k \in Handlers \ {g} : pc[k] \in Unsaved => Pair(g, k)
          /\ \A c \in taken : Placed(g, c)
  BY <1>1 DEF PlaceInv
<1>8. ASSUME NEW g \in Handlers \ {h}, pc'[g] \in Unsaved
      PROVE  /\ pc[g] \in Unsaved
             /\ \A k \in Handlers \ {g, h} : pc'[k] \in Unsaved => Pair(g, k)'
             /\ \A c \in taken : Placed(g, c)'
  BY <1>2, <1>5, <1>7, <1>8 DEF Same
<1> HIDE DEF Pair, Placed
<1>9. CASE TakeStarts(h)
  <2>1. /\ mine'[h].id = NextId /\ mine'[h].start = clock /\ taken' = taken
        /\ pc'[h] = "run" /\ lock[pod[h]] = NoHandler /\ pod[h] = primary
        /\ h \in Pending
    BY <1>1, <1>9 DEF TakeStarts, MayRun, Goto, VarTypes, Pending, HandlerInv
  <2>2. NextId \in Nat /\ \A id \in Labels : id \in Nat /\ id < NextId
    BY <1>1, <2>1, NextIdIs, LabelsAre
  \* The session of nobody else is up, or they would hold the lock.
  <2>3. ASSUME NEW k \in Handlers \ {h}, pc[k] \in Unsaved
        PROVE  WasBefore(k, clock)
    <3>1. CASE pc[k] = "run"
      <4>1. SessionIsUp(k) => lock[primary] = k
        BY <1>1, <3>1 DEF LockInv, Locked
      <4>2. k # NoHandler
        BY BackupsAssumption
      <4> QED
        BY <2>1, <3>1, <4>1, <4>2 DEF WasBefore
    <3>2. CASE pc[k] = "save"
      <4>1. mine[k].wal.tli \in 1 .. Timeline /\ mine[k].stop \in mine[k].start .. EndOf(mine[k].wal.tli)
        BY <1>1, <3>2, <2>3 DEF OwnInv
      <4>2. mine[k].stop \in Nat
        BY <1>3, <2>3 DEF BackupRecords, Seconds
      <4>3. PICK t \in 1 .. Timeline : t = mine[k].wal.tli
        BY <4>1
      <4>4. EndOf(t) \in Nat /\ EndOf(t) <= clock /\ clock \in Nat
        BY <1>1, TimelinesAre
      <4>5. mine[k].stop <= EndOf(t) /\ mine[k].start \in Nat
        BY <1>3, <2>3, <4>1, <4>3, <4>4 DEF BackupRecords, Seconds
      <4>6. mine[k].stop <= clock
        BY <4>2, <4>4, <4>5
      <4> QED
        BY <3>2, <4>6 DEF WasBefore
    <3> QED
      BY <2>3, <3>1, <3>2 DEF Unsaved
  <2>4. ASSUME NEW k \in Handlers \ {h}, pc'[k] \in Unsaved
        PROVE  Pair(h, k)' /\ Pair(k, h)'
    <3>1. pc[k] \in Unsaved /\ pc'[k] = pc[k] /\ mine'[k] = mine[k]
      BY <1>2, <2>4 DEF Same
    <3>2. mine[k].id \in Nat /\ mine[k].id < NextId
      BY <1>3, <2>2, <3>1
    <3>3. WasBefore(k, clock)
      BY <2>3, <3>1
    <3>4. IF pc'[k] = "run" THEN ~SessionIsUp(k)' ELSE mine'[k].stop <= mine'[h].start
      BY <1>2, <2>1, <3>1, <3>3 DEF WasBefore, SessionIsUp
    <3>5. Pair(h, k)'
      BY <2>1, <3>1, <3>2, <3>4 DEF Pair, WasBefore
    <3>6. Pair(k, h)'
      BY <2>1, <2>2, <3>1, <3>2 DEF Pair
    <3> QED
      BY <3>5, <3>6
  <2>5. ASSUME NEW c \in taken' PROVE Placed(h, c)'
    <3>1. c \in taken /\ c.id \in Nat /\ c.id < NextId
      BY <1>4, <2>1, <2>2, <2>5
    <3>2. c.stop <= clock
      <4>1. c.wal.tli \in 1 .. Timeline /\ c.stop <= EndOf(c.wal.tli) /\ c.stop \in Nat
        BY <1>1, <3>1 DEF RepositoryInv, Whole, BackupRecords, Seconds
      <4>2. PICK t \in 1 .. Timeline : t = c.wal.tli
        BY <4>1
      <4>3. EndOf(t) \in Nat /\ EndOf(t) <= clock /\ clock \in Nat
        BY <1>1, TimelinesAre
      <4> QED
        BY <4>1, <4>2, <4>3
    <3> QED
      BY <2>1, <3>1, <3>2 DEF Placed
  <2>6. \A g \in Handlers \ {h} : pc'[g] \in Unsaved => \A c \in taken' : Placed(g, c)'
    BY <1>8, <2>1
  <2> QED
    BY <1>8, <2>4, <2>5, <2>6
<1>10. CASE TakeStops(h)
  <2>1. /\ mine[h] \in BackupRecords /\ mine'[h] = [mine[h] EXCEPT !.stop = clock, !.lsn = PresentLSN]
        /\ pc[h] = "run" /\ pc'[h] = "save" /\ SessionIsUp(h) /\ taken' = taken
    BY <1>1, <1>10 DEF TakeStops, Goto, VarTypes, HandlerInv, Own
  <2>2. mine'[h].id = mine[h].id /\ mine'[h].start = mine[h].start /\ mine[h].id \in Nat
    BY <2>1 DEF BackupRecords, Ids
  \* Nothing started since, for the session is up.
  <2>3. ASSUME NEW k \in Handlers \ {h}, pc'[k] \in Unsaved
        PROVE  Pair(h, k)' /\ Pair(k, h)'
    <3>1. pc[k] \in Unsaved /\ pc[h] \in Unsaved /\ mine'[k] = mine[k] /\ mine[k].id \in Nat
      BY <1>2, <1>3, <2>1, <2>3 DEF Same, Unsaved
    <3>2. Pair(h, k) /\ Pair(k, h)
      BY <1>7, <3>1
    <3>3. ~(mine[h].id < mine[k].id) /\ mine[k].id # mine[h].id
      BY <2>1, <3>2 DEF Pair, WasBefore
    <3>4. Pair(k, h)'
      BY <2>2, <3>1, <3>3 DEF Pair
    <3>5. WasBefore(k, mine[h].start)' = WasBefore(k, mine'[h].start)
      BY <1>5, <2>2
    <3>6. WasBefore(k, mine[h].start)
      BY <2>2, <3>1, <3>2, <3>3 DEF Pair
    <3>7. Pair(h, k)'
      BY <1>5, <2>2, <3>1, <3>3, <3>6 DEF Pair
    <3> QED
      BY <3>4, <3>7
  <2>4. ASSUME NEW c \in taken' PROVE Placed(h, c)'
    <3>1. c \in taken /\ Placed(h, c)
      BY <1>7, <2>1, <2>4 DEF Unsaved
    <3>2. c.id < mine[h].id /\ c.stop <= mine[h].start
      BY <2>1, <3>1 DEF Placed, WasBefore
    <3> QED
      BY <2>2, <3>2 DEF Placed
  <2>5. \A g \in Handlers \ {h} : pc'[g] \in Unsaved => \A c \in taken' : Placed(g, c)'
    BY <1>8, <2>1
  <2> QED
    BY <1>8, <2>3, <2>4, <2>5
<1>11. CASE TakeSaves(h)
  <2>1. /\ pc[h] = "save" /\ pc'[h] \notin Unsaved /\ taken' = taken \cup {mine[h]}
        /\ pc[h] \in Unsaved
    BY <1>1, <1>11 DEF TakeSaves, Goto, VarTypes, Unsaved
  <2>2. ASSUME NEW g \in Handlers \ {h}, pc'[g] \in Unsaved
        PROVE  Placed(g, mine[h])'
    <3>1. pc[g] \in Unsaved /\ mine'[g] = mine[g] /\ mine[g].id \in Nat /\ mine[h].id \in Nat
      BY <1>2, <1>3, <2>1, <2>2 DEF Same
    <3>2. Pair(h, g) /\ Pair(g, h)
      BY <1>7, <2>1, <3>1
    <3>3. CASE mine[h].id < mine[g].id
      <4>1. mine[h].stop <= mine[g].start
        BY <2>1, <3>2, <3>3 DEF Pair, WasBefore
      <4>2. mine'[h] = mine[h]
        BY <1>11 DEF TakeSaves
      <4> QED
        BY <3>1, <3>3, <4>1, <4>2 DEF Placed
    <3>4. CASE mine[g].id < mine[h].id
      <4>1. WasBefore(g, mine[h].start)
        BY <3>2, <3>4 DEF Pair
      <4>2. mine'[h] = mine[h]
        BY <1>11 DEF TakeSaves
      <4> QED
        BY <1>5, <3>1, <3>4, <4>1, <4>2 DEF Placed
    <3> QED
      BY <3>1, <3>2, <3>3, <3>4 DEF Pair
  <2>3. mine'[h] = mine[h]
    BY <1>11 DEF TakeSaves
  <2>4. \A g \in Handlers \ {h} : pc'[g] \in Unsaved => \A c \in taken' : Placed(g, c)'
    BY <1>8, <2>1, <2>2, <2>3
  <2> QED
    BY <1>8, <2>1, <2>4
<1>12. CASE ~TakeStarts(h) /\ ~TakeStops(h) /\ ~TakeSaves(h)
  <2>1. taken' = taken
    BY <1>1, <1>12, GoesFrame
  <2>2. pc'[h] \notin Unsaved
    BY <1>1, <1>12, GoesOn DEF Part, Unsaved
  <2> QED
    BY <1>8, <2>1, <2>2
<1> QED
  BY <1>9, <1>10, <1>11, <1>12

LEMMA GoesAlone ==
    ASSUME BackupsInv, NEW h \in Handlers, Goes(h)
    PROVE  AloneInv'
<1>1. VarTypes /\ RepositoryInv /\ HandlerInv /\ OwnInv /\ LockInv /\ AloneInv
  BY DEF BackupsInv
<1>2. \A g \in Handlers \ {h} : Same(g)
  BY <1>1, GoesFrame
<1>3. stored \subseteq taken /\ (\A b \in taken : b \in BackupRecords /\ b.id \in Nat)
      /\ \A b, c \in taken : b.id = c.id => b = c
  BY <1>1 DEF RepositoryInv, Whole, OneAfterAnother, BackupRecords, Ids
<1> DEFINE P(g, b) == /\ pc'[g] \in Unsaved => base'[g] = stored'
                      /\ pc'[g] = "expire" => b \in stored' /\ \A c \in stored' : c.id <= b.id
                      /\ pc'[g] = "look" => b \in Range(info')
                      /\ pc'[g] = "get" => answer'[g] \in Range(info')
                      /\ pc'[g] # "panicked"
<1>4. ASSUME NEW g \in Handlers \ {h}, g \notin met' PROVE P(g, mine'[g])
  <2>1. CASE TakeSaves(h) \/ TakeExpires(h)
    <3>1. met' = met \cup Others(h)
      BY <2>1 DEF TakeSaves, TakeExpires
    <3>2. g \notin met /\ pc[g] \notin {"run", "save", "expire", "look", "get"}
      <4>1. pc[g] \notin {"run", "save", "expire"} \/ pod[g] = pod[h]
        BY <1>4, <3>1 DEF Others
      <4>2. pc[g] \in Locked => lock[pod[g]] = g
        BY <1>1 DEF LockInv
      <4>3. lock[pod[h]] = h
        BY <1>1, <2>1 DEF LockInv, Locked, TakeSaves, TakeExpires
      <4> QED
        BY <1>4, <3>1, <4>1, <4>2, <4>3 DEF Others, Locked
    <3>3. pc'[g] = pc[g] /\ pc[g] # "panicked"
      BY <1>1, <1>2, <3>2 DEF Same, AloneInv
    <3> QED
      BY <3>2, <3>3 DEF Unsaved
  <2>2. CASE ~TakeSaves(h) /\ ~TakeExpires(h)
    <3>1. UNCHANGED <<stored, info>>
      BY <1>1, <2>2, GoesFrame
    <3>2. g \notin met
      BY <1>1, <1>4, <2>2, GoesOn DEF TakeStarts
    <3> QED
      BY <1>1, <1>2, <3>1, <3>2 DEF AloneInv, Same
  <2> QED
    BY <2>1, <2>2
<1>5. ASSUME h \notin met' PROVE P(h, mine'[h])
  <2> USE DEF Unsaved
  <2>1. CASE TakeStarts(h)
    BY <1>1, <2>1 DEF TakeStarts, Goto, VarTypes, repoVars
  <2>2. CASE TakeStops(h)
    BY <1>1, <1>5, <2>2 DEF TakeStops, Goto, VarTypes, repoVars, AloneInv
  <2>3. CASE TakeSaves(h)
    <3>1. /\ pc[h] = "save" /\ pc'[h] = "expire" /\ h \notin met /\ mine' = mine
          /\ stored' = stored \cup {mine[h]}
      BY <1>1, <1>5, <2>3 DEF TakeSaves, Goto, VarTypes
    <3>2. base[h] = stored /\ \A c \in base[h] : c.id < mine[h].id
      BY <1>1, <3>1 DEF AloneInv, OwnInv
    <3>3. mine[h].id \in Nat
      BY <1>1, <3>1 DEF HandlerInv, VarTypes, Own, BackupRecords, Ids
    <3>4. \A c \in stored : c.id \in Nat
      BY <1>3
    <3> QED
      BY <3>1, <3>2, <3>3, <3>4
  <2>4. CASE TakeExpires(h)
    <3>1. /\ pc[h] = "expire" /\ pc'[h] = "look" /\ h \notin met /\ mine' = mine
          /\ info' = Listed(Kept(stored))
      BY <1>1, <1>5, <2>4 DEF TakeExpires, Expire, Goto, VarTypes
    <3>2. mine[h] \in stored /\ \A c \in stored : c.id <= mine[h].id
      BY <1>1, <3>1 DEF AloneInv
    <3>3. mine[h] \in Kept(stored)
      <4>1. {c \in stored : c.id > mine[h].id} = {}
        BY <1>3, <3>2
      <4> QED
        BY <3>2, <4>1, FS_EmptySet, RepositoryAssumption DEF Kept
    <3>4. Range(Listed(Kept(stored))) = Kept(stored)
      <4>1. Kept(stored) \in SUBSET BackupRecords /\ Kept(stored) \subseteq taken
        BY <1>3, KeptIsPart
      <4>2. \A b, c \in Kept(stored) : b.id = c.id => b = c
        BY <1>3, <4>1
      <4> QED
        BY <4>1, <4>2, ListedInOrder
    <3> QED
      BY <3>1, <3>3, <3>4
  <2>5. CASE LookUpName(h)
    <3> DEFINE id == GetBackupIDFromAnnotatedName(info, name[h])
    <3>1. /\ pc[h] = "look" /\ UNCHANGED <<stored, info, mine, met>>
          /\ answer'[h] = findBackupFromID(info, id)
          /\ pc'[h] = IF id = NoID THEN "panicked" ELSE "get"
      BY <1>1, <2>5 DEF LookUpName, Goto, VarTypes, repoVars
    <3>2. mine[h] \in Range(info) /\ mine[h].name = name[h]
      BY <1>1, <1>5, <3>1 DEF AloneInv, HandlerInv, Own
    <3>3. id # NoID /\ answer'[h] \in Range(info)
      <4> HIDE DEF id
      <4>1. \/ /\ id = NoID /\ findBackupFromID(info, id) = NoBackup
               /\ \A b \in Range(info) : b.name # name[h]
            \/ /\ id # NoID
               /\ findBackupFromID(info, id) \in Range(info)
               /\ findBackupFromID(info, id).name = name[h]
        BY <1>1, LookUpFinds DEF id
      <4> QED
        BY <3>1, <3>2, <4>1
    <3> HIDE DEF id
    <3> QED
      BY <3>1, <3>3
  <2>6. CASE ~TakeStarts(h) /\ ~TakeStops(h) /\ ~TakeSaves(h) /\ ~TakeExpires(h) /\ ~LookUpName(h)
    <3>1. UNCHANGED <<stored, info, met>> /\ pc'[h] \notin {"run", "save", "expire", "look", "get"}
      BY <1>1, <2>6, GoesFrame, GoesOn DEF Part
    <3>2. pc'[h] = "panicked" => pc[h] = "get" /\ answer[h] \notin Range(info)
      BY <1>1, <2>6, GoesOn DEF Part
    <3> QED
      BY <1>1, <1>5, <3>1, <3>2 DEF AloneInv
  <2> QED
    BY <2>1, <2>2, <2>3, <2>4, <2>5, <2>6
<1> HIDE DEF P
<1>6. \A g \in Handlers \ met' : P(g, mine'[g])
  BY <1>4, <1>5
<1> QED
  BY <1>6 DEF AloneInv, P

\* What the handlers do to the repository is what Repository says of it.
LEMMA GoesRepository ==
    ASSUME BackupsInv, NEW h \in Handlers, Goes(h)
    PROVE  [RepositoryNext]_repositoryVars
<1>1. VarTypes /\ RepositoryInv /\ HandlerInv /\ OwnInv /\ PlaceInv /\ ClockInv
  BY DEF BackupsInv, RepositoryInv
<1>2. CASE TakeSaves(h)
  <2>1. PICK b : b = mine[h]
    OBVIOUS
  <2>2. /\ pc[h] = "save" /\ stored' = stored \cup {b} /\ taken' = taken \cup {b}
        /\ info' = Listed(base[h] \cup {b}) /\ UNCHANGED <<clock, forks>>
    BY <1>2, <2>1 DEF TakeSaves, worldVars
  <2>3. /\ b \in BackupRecords
        /\ b.wal = SegmentAt(b.wal.tli, LSNAt(b.wal.tli, b.start)) /\ b.wal.tli \in 1 .. Timeline
        /\ b.name \in FirstSecond .. b.start
        /\ b.start \in BeginOf(b.wal.tli) .. EndOf(b.wal.tli)
        /\ b.stop \in b.start .. EndOf(b.wal.tli) /\ b.lsn = LSNAt(b.wal.tli, b.stop)
        /\ \A c \in base[h] : c.id < b.id
    BY <1>1, <2>1, <2>2 DEF VarTypes, HandlerInv, OwnInv, Own, Unsaved
  <2>4. PICK id, tli, start, stop, named :
          id = b.id /\ tli = b.wal.tli /\ start = b.start /\ stop = b.stop /\ named = b.name
    OBVIOUS
  <2>5. b = BackupOf(id, named, start, stop, tli)
    BY <2>3, <2>4 DEF BackupOf, BackupRecords
  <2>6. id \in Ids /\ tli \in 1 .. Timeline /\ named \in FirstSecond .. start
    BY <2>3, <2>4 DEF BackupRecords
  <2>7. start \in BeginOf(tli) .. EndOf(tli) /\ stop \in BeginOf(tli) .. EndOf(tli) /\ start <= stop
    <3>1. BeginOf(tli) \in Nat /\ EndOf(tli) \in Nat
      BY <1>1, <2>6, TimelinesAre
    <3>2. start \in BeginOf(tli) .. EndOf(tli) /\ stop \in start .. EndOf(tli)
      BY <2>3, <2>4
    <3> QED
      BY <3>1, <3>2
  <2>8. base[h] \in SUBSET {c \in taken : c.id < id}
    BY <1>1, <2>3, <2>4 DEF VarTypes
  <2>9. \A c \in taken : \/ c.id < id /\ c.stop <= start
                         \/ id < c.id /\ stop <= c.start
    BY <1>1, <2>1, <2>2, <2>4 DEF PlaceInv, WasBefore, Unsaved
  <2>10. Store
    <3> SUFFICES \E S \in SUBSET {c \in taken : c.id < id} :
                   LET d == BackupOf(id, named, start, stop, tli) IN
                   /\ start <= stop
                   /\ \A c \in taken : \/ c.id < id /\ c.stop <= start
                                       \/ id < c.id /\ stop <= c.start
                   /\ stored' = stored \cup {d} /\ taken' = taken \cup {d}
                   /\ info' = Listed(S \cup {d})
                   /\ UNCHANGED <<clock, forks>>
      BY <2>6, <2>7 DEF Store
    <3> WITNESS base[h] \in SUBSET {c \in taken : c.id < id}
    <3> QED
      BY <2>2, <2>5, <2>7, <2>8, <2>9
  <2> QED
    BY <2>10 DEF RepositoryNext
<1>3. CASE TakeExpires(h)
  BY <1>3 DEF TakeExpires, RepositoryNext
<1>4. CASE ~TakeSaves(h) /\ ~TakeExpires(h)
  BY <1>1, <1>4, GoesFrame DEF repositoryVars
<1> QED
  BY <1>2, <1>3, <1>4

-----------------------------------------------------------------------------

LEMMA BackupsStart == Init => BackupsInv
<1> SUFFICES ASSUME Init PROVE BackupsInv
  OBVIOUS
<1>1. RepositoryInv
  BY RepositoryStarts DEF Init
<1>2. VarTypes
  <2>1. NoTime \in Seconds
    BY RepositoryAssumption DEF NoTime, Seconds
  <2>2. requests \in [backup: 0 .. MaxBackups, archive: 0 .. MaxArchives] /\ faults \in 0 .. MaxFaults
    BY BackupsAssumption, RepositoryAssumption DEF Init
  <2> QED
    BY <2>1, <2>2, BackupsAssumption DEF Init, RepositoryInit, VarTypes, Steps
<1>3. \A h \in Handlers : pc[h] = "idle" /\ mine[h] = NoBackup
  BY DEF Init
<1>4. HandlerInv /\ OwnInv /\ PlaceInv /\ StanzaInv /\ AloneInv
  BY <1>3 DEF HandlerInv, OwnInv, PlaceInv, StanzaInv, AloneInv, Own, Unsaved
<1>5. LockInv
  BY <1>3, BackupsAssumption DEF Init, LockInv, Locked
<1>6. RequestInv
  <2>1. Pending = {} /\ Labels = {} /\ requests.backup = 0
    BY <1>3 DEF Init, RepositoryInit, Pending, Labels
  <2> QED
    BY <2>1, FS_EmptySet DEF RequestInv
<1> QED
  BY <1>1, <1>2, <1>4, <1>5, <1>6 DEF BackupsInv

LEMMA BackupsKeep ==
    ASSUME BackupsInv, [Next]_vars
    PROVE  BackupsInv' /\ [RepositoryNext]_repositoryVars
<1> DEFINE Kept8 == /\ VarTypes' /\ HandlerInv' /\ OwnInv' /\ LockInv' /\ PlaceInv' /\ RequestInv'
                    /\ StanzaInv' /\ AloneInv'
<1>1. Kept8 /\ [RepositoryNext]_repositoryVars
  <2>1. CASE Ends
    BY <2>1, EndKeeps
  <2>2. ASSUME NEW h \in Handlers, Goes(h) PROVE Kept8 /\ [RepositoryNext]_repositoryVars
    BY <2>2, GoesTypes, GoesHandler, GoesOwn, GoesLock, GoesPlace, GoesRequest, GoesStanza,
       GoesAlone, GoesRepository
  <2>3. CASE Second \/ Failover
    BY <2>3, WorldKeeps
  <2>4. CASE UNCHANGED vars
    BY <2>4 DEF vars, worldVars, repoVars, handlerVars, repositoryVars, BackupsInv, VarTypes,
                HandlerInv, OwnInv, LockInv, PlaceInv, RequestInv, StanzaInv, AloneInv,
                SessionIsUp, WasBefore, Timeline, BeginOf, EndOf, FirstLSN, LSNAt, Pending, Labels
  <2> HIDE DEF Kept8
  <2> QED
    BY <2>1, <2>2, <2>3, <2>4, StepCases DEF BackupsInv, Kept8
<1>2. RepositoryInv'
  BY <1>1, RepositoryKeeps DEF BackupsInv
<1> QED
  BY <1>1, <1>2 DEF BackupsInv

THEOREM BackupsInvariant == Spec => []BackupsInv
<1> QED
  BY BackupsStart, BackupsKeep, PTL DEF Spec

\* Every variable keeps its type.
THEOREM Typing == Spec => []TypeOK
<1>1. BackupsInv => TypeOK
  <2> SUFFICES ASSUME BackupsInv PROVE TypeOK
    OBVIOUS
  <2>1. VarTypes /\ RepositoryInv /\ ClockInv
    BY DEF BackupsInv, RepositoryInv
  <2>2. taken \subseteq BackupRecords /\ stored \subseteq taken /\ Range(info) \subseteq taken
    BY <2>1 DEF RepositoryInv, Whole, Range
  <2>3. clock \in Seconds /\ forks \in Seq(Forks) /\ Len(forks) <= MaxFailovers
    BY <2>1, TimelinesAre DEF ClockInv
  <2> QED
    BY <2>1, <2>2, <2>3 DEF VarTypes, TypeOK
<1> QED
  BY <1>1, BackupsInvariant, PTL

\* Backup answers with the backup that its own command took, unless another one was given
\* the same name.
THEOREM AnswersWithItsOwn == Spec => []ReportsOwn
<1>1. BackupsInv => ReportsOwn
  <2> SUFFICES ASSUME BackupsInv, NEW h \in Handlers, pc[h] = "done", answer[h].id # mine[h].id
               PROVE  \E b \in taken : b.id # mine[h].id /\ b.name = mine[h].name
    BY DEF ReportsOwn
  <2>1. answer[h] \in taken /\ answer[h].name = name[h] /\ mine[h].name = name[h]
    BY DEF BackupsInv, HandlerInv, Own
  <2> QED
    BY <2>1
<1> QED
  BY <1>1, BackupsInvariant, PTL

\* A handler that panics had company: the command of another pod wrote the catalog while
\* its own ran, or any command did between the end of its own and its look-up.
THEOREM PanicsInCompany == Spec => []PanicNeedsOverlap
<1>1. BackupsInv => PanicNeedsOverlap
  BY DEF BackupsInv, AloneInv, PanicNeedsOverlap
<1> QED
  BY <1>1, BackupsInvariant, PTL

\* A stanza-create that the lock refuses was not needed: the stanza is there, or the
\* holder of the lock is creating it.
THEOREM RefusalDoesNoHarm == Spec => RefusedIsHarmless
<1> DEFINE Harmless(h) == \/ stanza
                          \/ pod[h] # primary
                          \/ pc[lock[pod[h]]] = "creating"
           Refused(h) == pc[h] = "create" /\ pc'[h] = "idle" /\ faults' = faults
<1>1. ASSUME BackupsInv, [Next]_vars, NEW h \in Handlers, Refused(h)
      PROVE  Harmless(h)
  <2>1. VarTypes /\ LockInv /\ StanzaInv /\ faults \in Nat
    BY <1>1 DEF BackupsInv, VarTypes
  <2>2. Policy # "Disabled"
    BY <1>1, <2>1 DEF StanzaInv
  <2>3. \A g \in Handlers : pc[g] \in Own \cup {"take"} => stanza
    BY <2>1, <2>2 DEF StanzaInv
  <2>4. ~Fault
    BY <1>1, <2>1 DEF Fault
  <2>5. CASE CreateRefused(h)
    <3>1. lock[pod[h]] # NoHandler \/ pod[h] # primary
      BY <2>5 DEF CreateRefused, MayRun
    <3>2. CASE lock[pod[h]] # NoHandler
      <4>1. lock[pod[h]] \in Handlers /\ pc[lock[pod[h]]] \in Locked
        BY <2>1, <3>2 DEF LockInv, VarTypes
      <4> QED
        BY <2>3, <4>1 DEF Locked, Own
    <3> QED
      BY <3>1, <3>2
  <2>6. ASSUME NEW g \in Handlers, Request(g) \/ Handle(g)
        PROVE  CreateRefused(h)
    <3>1. CASE g # h
      <4>1. Same(h)
        <5>1. {g} \in SUBSET Handlers /\ h \in Handlers \ {g}
          BY <3>1
        <5>2. CASE End({g})
          <6>1. \A k \in Handlers \ {g} : Same(k)
            BY <2>1, <5>1, <5>2, EndFrame
          <6> QED
            BY <5>1, <6>1
        <5>3. CASE Goes(g)
          BY <2>1, <5>1, <5>3, GoesFrame
        <5> QED
          BY <2>6, <5>2, <5>3, HandlerCases
      <4> QED
        BY <1>1, <4>1 DEF Same
    <3>2. CASE g = h
      <4>1. CASE Goes(h)
        BY <1>1, <2>1, <4>1, GoesOn DEF Part
      <4>2. CASE ~Goes(h)
        BY <1>1, <2>4, <2>6, <3>2, <4>2
           DEF Handle, CheckStanza, CreatePgbackrestStanza, Backup, TakeRefused, TakeFails,
               GetBackup, Reply, StepFails, Goes
      <4> QED
        BY <4>1, <4>2
    <3> QED
      BY <3>1, <3>2
  <2>7. ASSUME NEW p \in Pods, SidecarRestart(p)
        PROVE  stanza
    BY <2>3, <2>4, <2>7 DEF SidecarRestart, Own
  <2>8. CASE Second \/ Failover \/ UNCHANGED vars
    BY <1>1, <2>8 DEF Second, Failover, handlerVars, vars
  <2> QED
    BY <1>1, <2>5, <2>6, <2>7, <2>8 DEF Next
<1>2. BackupsInv /\ [Next]_vars => [\A h \in Handlers : Refused(h) => Harmless(h)]_vars
  <2> HIDE DEF Harmless, Refused
  <2> QED
    BY <1>1
<1> QED
  BY <1>2, BackupsInvariant, PTL DEF Spec, RefusedIsHarmless

\* Whatever the handlers do, a recovery finds a repository as Repository describes it.
THEOREM RepositoryIsKept == Spec => KeepsRepository
<1>1. Init => RepositoryInit
  BY DEF Init
<1>2. BackupsInv /\ [Next]_vars => [RepositoryNext]_repositoryVars
  BY BackupsKeep
<1> QED
  BY <1>1, <1>2, BackupsInvariant, PTL DEF Spec, KeepsRepository, RepositorySpec
=============================================================================
