------------------------------ MODULE Backups ------------------------------
(***************************************************************************)
(* The Backup handler of the instance sidecars and the repository they     *)
(* share: stanza-create, the name at the granularity of a second, the      *)
(* backup command with its expiry, and the look-up of the backup by name.  *)
(* Beside it the part of the Archive handler that looks the stanza up and  *)
(* creates it (WalArchive has the rest).                                   *)
(*                                                                         *)
(* pgbackrest reads backup.info when a backup starts and writes it when    *)
(* the backup ends; its lock is a file of the pod, so that commands of two *)
(* pods may overlap.                                                       *)
(***************************************************************************)
EXTENDS Repository

CONSTANTS
    Pods,           \* instances of the source cluster
    FirstPrimary,
    Handlers,       \* bound: requests in flight
    NoHandler,
    Policy,         \* createStanza: "OnFirstArchive", "OnBackup" or "Disabled"
    StanzaAtStart,  \* the stanza was created out of band
    MaxArchives,    \* bound: requests to archive
    MaxFaults       \* bound: calls and commands that fail, sidecars that restart

ASSUME BackupsAssumption ==
    /\ FirstPrimary \in Pods /\ IsFiniteSet(Handlers) /\ NoHandler \notin Handlers
    /\ Policy \in {"OnFirstArchive", "OnBackup", "Disabled"}
    /\ StanzaAtStart \in BOOLEAN
    /\ MaxArchives \in Nat /\ MaxFaults \in Nat

VARIABLES
    primary,     \* the pod whose PostgreSQL is up and writes
    stanza,      \* the stanza exists in the repository
    lock,        \* the handler whose command holds the lock file of each pod
    pc, pod, kind,  \* of each handler: where it is, its pod, what was asked of it
    name,        \* the name it gave its backup
    mine,        \* the backup its command takes
    base,        \* the backups its command found when it started
    answer,      \* the backup its look-up found, then the one it reports
    requests, faults,  \* what is used of the bounds
    met          \* history: handlers under whose backup another one wrote the catalog

repoVars    == <<stanza, stored, info>>
handlerVars == <<pc, pod, kind, name, mine, base, answer>>
worldVars   == <<clock, primary, forks, requests>>
vars        == <<worldVars, repoVars, lock, handlerVars, faults, taken, met>>

Steps == {"idle", "check", "create", "creating", "take", "run", "save", "expire",
          "look", "get", "done", "panicked"}

Init ==
    /\ RepositoryInit
    /\ primary = FirstPrimary /\ stanza = StanzaAtStart
    /\ lock = [p \in Pods |-> NoHandler]
    /\ pc = [h \in Handlers |-> "idle"]
    /\ pod = [h \in Handlers |-> FirstPrimary]
    /\ kind = [h \in Handlers |-> "backup"]
    /\ name = [h \in Handlers |-> NoTime]
    /\ mine = [h \in Handlers |-> NoBackup]
    /\ base = [h \in Handlers |-> {}]
    /\ answer = [h \in Handlers |-> NoBackup]
    /\ requests = [backup |-> 0, archive |-> 0] /\ faults = 0
    /\ met = {}

-----------------------------------------------------------------------------
Fault == faults < MaxFaults /\ faults' = faults + 1

Goto(h, step) == pc' = [pc EXCEPT ![h] = step]

\* A step that changes nothing but where the handler is.
Move(h, from, to) ==
    /\ pc[h] = from
    /\ Goto(h, to)
    /\ UNCHANGED <<worldVars, repoVars, lock, pod, kind, name, mine, base, answer, taken, met>>

Release(h) == lock' = [p \in Pods |-> IF lock[p] = h THEN NoHandler ELSE lock[p]]

\* The handlers end, with their locals and the locks of their commands.
End(gone) ==
    /\ pc' = [h \in Handlers |-> IF h \in gone THEN "idle" ELSE pc[h]]
    /\ name' = [h \in Handlers |-> IF h \in gone THEN NoTime ELSE name[h]]
    /\ mine' = [h \in Handlers |-> IF h \in gone THEN NoBackup ELSE mine[h]]
    /\ base' = [h \in Handlers |-> IF h \in gone THEN {} ELSE base[h]]
    /\ answer' = [h \in Handlers |-> IF h \in gone THEN NoBackup ELSE answer[h]]
    /\ met' = met \ gone
    /\ lock' = [p \in Pods |-> IF lock[p] \in gone THEN NoHandler ELSE lock[p]]
    /\ pod' = [h \in Handlers |-> IF h \in gone THEN FirstPrimary ELSE pod[h]]
    /\ kind' = [h \in Handlers |-> IF h \in gone THEN "backup" ELSE kind[h]]
    /\ UNCHANGED <<worldVars, repoVars, taken>>

MaxRequests == [backup |-> MaxBackups, archive |-> MaxArchives]

ShouldCreateStanzaOnArchive == Policy = "OnFirstArchive"
ShouldCreateStanzaOnBackup == Policy # "Disabled"

\* Mutant: the second is rounded up.
NextSecond(h) == name' = [name EXCEPT ![h] = clock + 1]

\* The name of a backup is the second it is.
BackupName(h) == name' = [name EXCEPT ![h] = clock]

\* A request for a backup, or to archive a WAL file, reaches the primary's sidecar; its
\* handler reads the Archive object and the credentials and makes the temporary directory.
Request(h) ==
    /\ pc[h] = "idle"
    /\ \E k \in {"backup", "archive"} :
         /\ requests[k] < MaxRequests[k]
         /\ requests' = [requests EXCEPT ![k] = @ + 1]
         /\ kind' = [kind EXCEPT ![h] = k]
         /\ \/ k = "archive" /\ Goto(h, "check") /\ UNCHANGED name
            \/ k = "backup" /\ ShouldCreateStanzaOnBackup /\ Goto(h, "create") /\ UNCHANGED name
            \/ k = "backup" /\ ~ShouldCreateStanzaOnBackup /\ Goto(h, "take") /\ BackupName(h)
    /\ pod' = [pod EXCEPT ![h] = primary]
    /\ UNCHANGED <<clock, primary, forks, repoVars, lock, mine, base, answer, faults, taken, met>>

\* CheckWalArchiveDestination of the Archive handler.  Unless it creates the stanza, what
\* it does from here on is of no concern to backups.
CheckStanza(h) ==
    /\ pc[h] = "check" /\ UNCHANGED faults
    /\ IF ~stanza /\ ShouldCreateStanzaOnArchive THEN Move(h, "check", "create") ELSE End({h})

\* Mutant: every command has a lock file of its own.
OwnLockPath(h) == pod[h] = primary

\* stanza-create and backup talk to the PostgreSQL of their pod, and take its lock file.
MayRun(h) == lock[pod[h]] = NoHandler /\ pod[h] = primary

CreateStarts(h) ==
    /\ pc[h] = "create" /\ MayRun(h)
    /\ lock' = [lock EXCEPT ![pod[h]] = h]
    /\ Goto(h, "creating")
    /\ UNCHANGED <<worldVars, repoVars, pod, kind, name, mine, base, answer, faults, taken, met>>

\* pgbackrest refuses: another command of the pod holds the lock, or PostgreSQL is down.
\* Without its stanza Backup ends; Archive logs the failure and goes on to archive-push.
CreateRefused(h) == pc[h] = "create" /\ ~MayRun(h) /\ End({h}) /\ UNCHANGED faults

\* stanza-create ends; it is no error that the stanza exists.
CreateEnds(h) ==
    /\ pc[h] = "creating"
    /\ stanza' = TRUE
    /\ Release(h)
    /\ \/ kind[h] = "archive" /\ Goto(h, "idle") /\ UNCHANGED name
       \/ kind[h] = "backup" /\ Goto(h, "take") /\ BackupName(h)
    /\ UNCHANGED <<worldVars, stored, info, pod, kind, mine, base, answer, faults, taken, met>>

-----------------------------------------------------------------------------
(* Backup, once it has its stanza.                                         *)

Ordered(S) == IF S = {} THEN 0 ELSE Max(S)
NextId == 1 + Ordered({b.id : b \in taken \cup {mine[h] : h \in {g \in Handlers : mine[g] # NoBackup}}})

\* pg_current_wal_lsn of the primary.
PresentLSN == LSNAt(Timeline, clock)

\* Take: the command has the lock, labels its backup and reads backup.info.
TakeStarts(h) ==
    /\ pc[h] = "take" /\ MayRun(h)
    /\ lock' = [lock EXCEPT ![pod[h]] = h]
    /\ mine' = [mine EXCEPT ![h] = [id |-> NextId, name |-> name[h], start |-> clock, stop |-> 0,
                                    lsn |-> 0, wal |-> SegmentAt(Timeline, PresentLSN)]]
    /\ base' = [base EXCEPT ![h] = stored]
    /\ met' = met \ {h}
    /\ Goto(h, "run")
    /\ UNCHANGED <<worldVars, repoVars, pod, kind, name, answer, faults, taken>>

TakeRefused(h) == pc[h] = "take" /\ ~MayRun(h) /\ End({h}) /\ UNCHANGED faults

\* The PostgreSQL that began the backup is up: a failover ends the session for good, also
\* when a later one leads back to the pod.
SessionIsUp(h) == mine[h].wal.tli = Timeline

\* PostgreSQL ends the backup, unless it, or the stanza, is not there.
TakeStops(h) ==
    /\ pc[h] = "run" /\ SessionIsUp(h) /\ stanza
    /\ mine' = [mine EXCEPT ![h].stop = clock, ![h].lsn = PresentLSN]
    /\ Goto(h, "save")
    /\ UNCHANGED <<worldVars, repoVars, lock, pod, kind, name, base, answer, faults, taken, met>>

\* Those whose backup the command of a handler writes the catalog under: commands of other
\* pods that run, and handlers that have yet to look their backup up.
Others(h) ==
    {g \in Handlers \ {h} : \/ pc[g] \in {"run", "save", "expire"} /\ pod[g] # pod[h]
                            \/ pc[g] \in {"look", "get"}}

\* The backup is stored, and backup.info is what it was at the start and the backup.
TakeSaves(h) ==
    /\ pc[h] = "save"
    /\ stored' = stored \cup {mine[h]}
    /\ info' = Listed(base[h] \cup {mine[h]})
    /\ taken' = taken \cup {mine[h]}
    /\ met' = met \cup Others(h)
    /\ Goto(h, "expire")
    /\ UNCHANGED <<worldVars, stanza, lock, pod, kind, name, mine, base, answer, faults>>

\* The command ends with the expiry of old backups.
TakeExpires(h) ==
    /\ pc[h] = "expire"
    /\ Expire
    /\ met' = met \cup Others(h)
    /\ Release(h)
    /\ Goto(h, "look")
    /\ UNCHANGED <<primary, requests, stanza, pod, kind, name, mine, base, answer, faults>>

TakeFails(h) ==
    pc[h] = "run" /\ ~(SessionIsUp(h) /\ stanza) /\ End({h}) /\ UNCHANGED faults

\* Mutant: the latest backup is taken for the one that was executed.
LookUpLatest(h) ==
    /\ pc[h] = "look"
    /\ answer' = [answer EXCEPT ![h] = LatestBackupInfo(info)]
    /\ Goto(h, IF answer'[h] = NoBackup THEN "panicked" ELSE "get")
    /\ UNCHANGED <<worldVars, repoVars, lock, pod, kind, name, mine, base, faults, taken, met>>

\* Mutant: the name is made anew for the look-up.
LookUpSecond(h) ==
    /\ pc[h] = "look"
    /\ LET id == GetBackupIDFromAnnotatedName(info, clock) IN
         /\ answer' = [answer EXCEPT ![h] = findBackupFromID(info, id)]
         /\ Goto(h, IF id = NoID THEN "panicked" ELSE "get")
    /\ UNCHANGED <<worldVars, repoVars, lock, pod, kind, name, mine, base, faults, taken, met>>

\* GetBackupByAnnotatedName, first query.  Without a match there is no backup and no
\* error, and Backup goes on with a nil catalog.
LookUpName(h) ==
    /\ pc[h] = "look"
    /\ LET id == GetBackupIDFromAnnotatedName(info, name[h]) IN
         /\ answer' = [answer EXCEPT ![h] = findBackupFromID(info, id)]
         /\ Goto(h, IF id = NoID THEN "panicked" ELSE "get")
    /\ UNCHANGED <<worldVars, repoVars, lock, pod, kind, name, mine, base, faults, taken, met>>

\* Second query, info --set: when the backup has gone meanwhile pgbackrest ends with an
\* error, or reports no backup and Backup reads past the end of the list.
GetBackup(h) ==
    /\ pc[h] = "get" /\ UNCHANGED faults
    /\ \/ answer[h] \in Range(info) /\ Move(h, "get", "done")
       \/ answer[h] \notin Range(info) /\ Move(h, "get", "panicked")
       \/ answer[h] \notin Range(info) /\ End({h})

\* The answer is sent; a handler that panicked ends, if the panic is recovered.
Reply(h) == pc[h] \in {"done", "panicked"} /\ End({h}) /\ UNCHANGED faults

\* Mutant: Backup goes on when stanza-create failed.
CreateErrorIgnored(h) ==
    /\ pc[h] \in {"create", "creating"} /\ kind[h] = "backup" /\ Fault
    /\ Release(h) /\ BackupName(h) /\ Goto(h, "take")
    /\ UNCHANGED <<worldVars, repoVars, pod, kind, mine, base, answer, taken, met>>

\* A call or a command fails.
StepFails(h) == pc[h] \notin {"idle", "done", "panicked"} /\ Fault /\ End({h})

-----------------------------------------------------------------------------
(* The world around.                                                       *)

Second == Tick /\ UNCHANGED <<primary, requests, stanza, lock, handlerVars, faults, met>>

\* The PostgreSQL of the old primary is down before another pod is promoted.
Failover ==
    /\ Fork
    /\ \E p \in Pods \ {primary} : primary' = p
    /\ UNCHANGED <<requests, stanza, lock, handlerVars, faults, met>>

\* The sidecar of a pod restarts, on its own or because a handler panicked: its handlers
\* and their commands are gone.
SidecarRestart(p) ==
    LET gone == {h \in Handlers : pc[h] # "idle" /\ pod[h] = p} IN
    /\ gone # {}
    /\ IF \E h \in gone : pc[h] = "panicked" THEN UNCHANGED faults ELSE Fault
    /\ End(gone)

Backup(h) ==
    \/ TakeStarts(h) \/ TakeRefused(h) \/ TakeStops(h) \/ TakeSaves(h) \/ TakeExpires(h)
    \/ TakeFails(h) \/ LookUpName(h) \/ GetBackup(h)

CreatePgbackrestStanza(h) == CreateStarts(h) \/ CreateRefused(h) \/ CreateEnds(h)

Handle(h) == CheckStanza(h) \/ CreatePgbackrestStanza(h) \/ Backup(h) \/ Reply(h) \/ StepFails(h)

Next ==
    \/ \E h \in Handlers : Request(h) \/ Handle(h)
    \/ Second \/ Failover
    \/ \E p \in Pods : SidecarRestart(p)

Spec == Init /\ [][Next]_vars

-----------------------------------------------------------------------------
TypeOK ==
    /\ clock \in Seconds /\ primary \in Pods
    /\ forks \in Seq(Forks) /\ Len(forks) <= MaxFailovers
    /\ stanza \in BOOLEAN /\ stored \subseteq BackupRecords /\ Range(info) \subseteq BackupRecords
    /\ lock \in [Pods -> Handlers \cup {NoHandler}]
    /\ pc \in [Handlers -> Steps] /\ pod \in [Handlers -> Pods]
    /\ kind \in [Handlers -> {"backup", "archive"}]
    /\ name \in [Handlers -> Seconds]
    /\ mine \in [Handlers -> BackupRecords \cup {NoBackup}]
    /\ base \in [Handlers -> SUBSET BackupRecords]
    /\ answer \in [Handlers -> BackupRecords \cup {NoBackup}]
    /\ requests \in [backup: 0 .. MaxBackups, archive: 0 .. MaxArchives] /\ faults \in 0 .. MaxFaults
    /\ taken \subseteq BackupRecords /\ met \subseteq Handlers

\* Backup reports the backup that its own command took, although the catalog changed
\* since, unless another backup was given the same name in the same second.
ReportsOwn ==
    \A h \in Handlers :
        pc[h] = "done" /\ kind[h] = "backup" =>
            \/ answer[h].id = mine[h].id
            \/ \E b \in taken : b.id # mine[h].id /\ b.name = mine[h].name

\* Backup reads past the end of the list of backups (instance/backup.go:151) only when
\* another command wrote the catalog under it: one of another pod, whose lock is another
\* file, while its own ran, or any one between the end of its own, which gives the lock
\* back, and the end of its look-up.  Never on its own account.
PanicNeedsOverlap == \A h \in Handlers : pc[h] = "panicked" => h \in met

\* Archive creates the stanza only when it is missing, and relies on it that nothing
\* contends for the lock then: where pgbackrest refuses because of the lock, the stanza
\* is there by now or its holder is creating it.
RefusedIsHarmless ==
    [][\A h \in Handlers :
         pc[h] = "create" /\ pc'[h] = "idle" /\ faults' = faults =>
             \/ stanza
             \/ pod[h] # primary
             \/ pc[lock[pod[h]]] = "creating"]_vars

\* Whatever commands overlap, fail and expire, what a recovery finds in the repository is
\* what Repository says: backups of one timeline each, in the order of their labels.
KeepsRepository == RepositorySpec
=============================================================================
