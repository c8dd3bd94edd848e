----------------------------- MODULE WalRestore -----------------------------
(***************************************************************************)
(* WAL restore: the Restore handler of the WAL service, its prefetch into  *)
(* the spool and its end-of-wal-stream flag, and around them a PostgreSQL  *)
(* that recovers from the archive and from a streaming connection.         *)
(*                                                                         *)
(* One timeline: a segment is its number, and History stands for the       *)
(* history file of the next timeline, which is asked for and never there.  *)
(* Restore_command copies to one path (RECOVERYXLOG); archive-get creates  *)
(* its destination and fills it; the caller of a handler may be gone.      *)
(***************************************************************************)
EXTENDS Naturals, FiniteSets

CONSTANTS
    NSeg,          \* bound: segments that are ever archived are 1..NSeg
    MaxParallel,   \* bound: maxParallel is at most this
    Clusters,      \* the states of the Cluster object this pod may be in
    NoCluster,
    Partials,      \* the source archive may end in a .partial segment
    NoFile,
    Handlers,      \* bound: executions of Restore in flight
    NoHandler,
    MaxFaults,     \* bound: transient failures of a command or a file operation
    MaxCrashes,    \* bound: restarts of PostgreSQL, of the sidecar, of the pod
    MaxChanges     \* bound: changes of the Cluster object

Archives == {"cluster", "recovery", "source"}

\* status.currentPrimary as this pod sees it ("" before the first primary), whether
\* the cluster is a replica of another and can stream from it, and whether a
\* promotion token waits to be used.
ClusterStates == [primary: {"", "me", "other"}, replica: BOOLEAN, streams: BOOLEAN,
                  token: BOOLEAN]

ASSUME RestoreAssumption ==
    /\ NSeg \in Nat
    /\ MaxParallel \in Nat \ {0}
    /\ Clusters \subseteq ClusterStates /\ NoCluster \notin Clusters
    /\ Partials \in BOOLEAN
    /\ NoHandler \notin Handlers
    /\ MaxFaults \in Nat /\ MaxCrashes \in Nat /\ MaxChanges \in Nat

VARIABLES
    next,        \* the segment recovery needs
    mode,        \* what PostgreSQL does for it: "scan" (looks for a timeline), "archive",
                 \* "stream", or "ended"
    caller,      \* the handler PostgreSQL waits for, or NoHandler
    dest,        \* the file at the destination path
    spool,       \* the file prefetched under the name of each segment
    eos,         \* the spool holds the end-of-wal-stream flag
    avail,       \* segments in each archive
    partial,     \* the segment each archive has as .partial, or 0
    cluster,     \* the Cluster object
    parallel,    \* Archive.spec.configuration.wal.maxParallel
    pc, req, conf, task,  \* of each handler: where it is, the name requested (History or
                          \* a segment), the Cluster it was sent, the state of each download
    faults, crashes, changes,  \* what is used of the bounds
    abandoned,   \* PostgreSQL restarted while a handler was running for it
    missed,      \* history: what the last list of downloads did not find
    spoiled,     \* history: files reported restored that PostgreSQL could not use, and
    stale        \* segments restored from another archive than the present one, both
                 \* counted until a call is abandoned

pgVars    == <<next, mode, caller>>
fileVars  == <<dest, spool, eos>>
archVars  == <<avail, partial>>
hVars     == <<pc, req, conf, task>>
envVars   == <<cluster, parallel, crashes, changes, abandoned>>
histVars  == <<missed, spoiled, stale>>
vars == <<pgVars, fileVars, archVars, hVars, envVars, histVars, faults>>

Last == NSeg + MaxParallel - 1  \* the last segment a list may reach
Segs == 1 .. Last
History == 0

\* A download is of a segment, or of its .partial variant.
Members == (Segs \X {"full", "partial"}) \cup {<<History, "full">>}
Contents == [seg: Segs, kind: {"full", "partial", "torn"}, from: Archives]
Files == Contents \cup {NoFile}

ASSUME NoFileAssumption == NoFile \notin Contents

Steps == {"idle", "spool", "take", "flag", "reset", "gather", "get", "set",
          "restored", "notfound", "end", "failed"}
TaskStates == {"none", "get", "write", "ok", "missing", "err"}
NoTasks == [m \in Members |-> "none"]

\* The archive Restore chooses.
Source(c) ==
    IF c.token \/ (c.replica /\ c.primary = "me") THEN "source"
    ELSE IF c.primary = "" THEN "recovery" ELSE "cluster"

\* isStreamingAvailable: the instance can get WAL from a streaming connection.
Streaming(c) ==
    \/ c.primary = "other"
    \/ c.primary = "me" /\ c.replica /\ c.streams

\* Only the recovery of a new cluster ends when the archive has no more.
Standby(c) == c.primary # ""

Init ==
    /\ next = 1 /\ mode = "scan" /\ caller = NoHandler
    /\ dest = NoFile /\ spool = [w \in Segs |-> NoFile] /\ eos = FALSE
    /\ avail = [a \in Archives |-> {}] /\ partial = [a \in Archives |-> 0]
    /\ cluster \in Clusters /\ parallel \in 1 .. MaxParallel
    /\ pc = [h \in Handlers |-> "idle"]
    /\ req = [h \in Handlers |-> History]
    /\ conf = [h \in Handlers |-> NoCluster]
    /\ task = [h \in Handlers |-> NoTasks]
    /\ faults = 0 /\ crashes = 0 /\ changes = 0
    /\ abandoned = FALSE
    /\ missed = {} /\ spoiled = 0 /\ stale = 0

-----------------------------------------------------------------------------
(* Archives that other clusters and other instances fill.                  *)

\* The next segment is archived, or the last one as .partial.
Upload ==
    /\ \E a \in {Source(c) : c \in {d \in Clusters : Standby(d) = Standby(cluster)}} :
         /\ partial[a] = 0
         /\ \E w \in 1 .. NSeg :
              /\ w \notin avail[a] /\ \A v \in 1 .. w - 1 : v \in avail[a]
              /\ \/ /\ avail' = [avail EXCEPT ![a] = @ \cup {w}]
                    /\ UNCHANGED partial
                 \/ /\ Partials /\ a = "source"
                    /\ partial' = [partial EXCEPT ![a] = w]
                    /\ UNCHANGED avail
    /\ UNCHANGED <<pgVars, fileVars, hVars, envVars, histVars, faults>>

-----------------------------------------------------------------------------
(* PostgreSQL's startup process (outside the repository).                  *)

\* It asks for the history file of a newer timeline, or for the segment it needs.
Request(h) ==
    /\ caller = NoHandler /\ pc[h] = "idle"
    /\ \/ mode = "scan"
       \/ mode = "archive" /\ next <= NSeg
    /\ caller' = h
    /\ pc' = [pc EXCEPT ![h] = "spool"]
    /\ req' = [req EXCEPT ![h] = IF mode = "scan" THEN History ELSE next]
    /\ conf' = [conf EXCEPT ![h] = cluster]
    /\ dest' = NoFile
    /\ UNCHANGED <<next, mode, spool, eos, archVars, task, envVars, histVars, faults>>

\* Without the segment it looks for a stream, or ends recovery.
Fallback == mode' = IF Standby(cluster) THEN "stream" ELSE "ended"

\* The segment arrives by streaming.
Streamed ==
    /\ mode = "stream" /\ Streaming(cluster) /\ next <= NSeg
    /\ next' = next + 1
    /\ UNCHANGED <<mode, caller, fileVars, archVars, hVars, envVars, histVars, faults>>

\* There is no connection, or it ends.
StreamEnds ==
    /\ mode = "stream"
    /\ mode' = "scan"
    /\ UNCHANGED <<next, caller, fileVars, archVars, hVars, envVars, histVars, faults>>

Usable(f, w) == f # NoFile /\ f.seg = w /\ f.kind # "torn"

\* The handler returns.  PostgreSQL, if it waits, takes the file it was told is there.
Reply(h) ==
    /\ pc[h] \in {"restored", "notfound", "end", "failed"}
    /\ IF caller # h THEN UNCHANGED <<next, mode, caller, spoiled, stale>>
       ELSE /\ caller' = NoHandler
            /\ IF req[h] = History
               THEN mode' = "archive" /\ UNCHANGED <<next, spoiled, stale>>
               ELSE IF pc[h] = "restored" /\ Usable(dest, next)
               THEN /\ next' = next + 1
                    /\ stale' = stale + (IF ~abandoned /\ dest.from # Source(cluster) THEN 1 ELSE 0)
                    /\ UNCHANGED <<mode, spoiled>>
               ELSE /\ Fallback
                    /\ spoiled' = spoiled + (IF ~abandoned /\ pc[h] = "restored" THEN 1 ELSE 0)
                    /\ UNCHANGED <<next, stale>>
    /\ pc' = [pc EXCEPT ![h] = "idle"]
    /\ req' = [req EXCEPT ![h] = History]
    /\ conf' = [conf EXCEPT ![h] = NoCluster]
    /\ task' = [task EXCEPT ![h] = NoTasks]
    /\ UNCHANGED <<fileVars, archVars, envVars, missed, faults>>

-----------------------------------------------------------------------------
(* The Restore handler.                                                    *)

Goto(h, step) == pc' = [pc EXCEPT ![h] = step]

\* A step of handler h that changes nothing but where the handler is.
Move(h, from, to) ==
    /\ pc[h] = from
    /\ Goto(h, to)
    /\ UNCHANGED <<pgVars, fileVars, archVars, req, conf, task, envVars, histVars>>

Fault == faults < MaxFaults /\ faults' = faults + 1

\* Mutant: the role of the instance is left out of the choice.
ArchiveForAnyRole(h) == Source([conf[h] EXCEPT !.replica = FALSE])

\* The archive chosen for the Cluster the request came with.
ArchiveOf(h) == Source(conf[h])

\* Where the handler goes when the name is not in the spool.
AfterSpool(h) == IF Streaming(conf[h]) THEN "flag" ELSE "gather"

\* RestoreFromSpool of a prefetched segment: MoveOut, between two volumes, copies it ...
RestoreFromSpool(h) ==
    /\ pc[h] = "spool"
    /\ req[h] # History /\ spool[req[h]] # NoFile
    /\ dest' = spool[req[h]]
    /\ Goto(h, "take")
    /\ UNCHANGED <<pgVars, spool, eos, archVars, req, conf, task, envVars, histVars, faults>>

\* Mutant: the file is left in the spool.
LeaveInSpool(h) ==
    /\ Move(h, "take", IF spool[req[h]] = NoFile THEN AfterSpool(h) ELSE "restored")
    /\ UNCHANGED faults

\* ... and then removes it.  One that is gone by now was not in the spool.
RemoveFromSpool(h) ==
    /\ pc[h] = "take"
    /\ spool' = [spool EXCEPT ![req[h]] = NoFile]
    /\ Goto(h, IF spool[req[h]] = NoFile THEN AfterSpool(h) ELSE "restored")
    /\ UNCHANGED <<pgVars, dest, eos, archVars, req, conf, task, envVars, histVars, faults>>

NotInSpool(h) ==
    /\ req[h] # History => spool[req[h]] = NoFile
    /\ Move(h, "spool", AfterSpool(h))
    /\ UNCHANGED faults

\* checkEndOfWALStreamFlag, first half.
IsEndOfWALStream(h) ==
    /\ Move(h, "flag", IF eos THEN "reset" ELSE "gather")
    /\ UNCHANGED faults

ResetTo(h, value) ==
    /\ pc[h] = "reset"
    /\ eos' = value
    /\ Goto(h, IF eos THEN "end" ELSE "failed")
    /\ UNCHANGED <<pgVars, dest, spool, archVars, req, conf, task, envVars, histVars, faults>>

\* Mutant: the flag is reported and kept.
KeepFlag(h) == ResetTo(h, eos)

\* checkEndOfWALStreamFlag, second half: the flag is removed and the end reported.
\* Remove fails when another handler removed the flag first.
ResetEndOfWalStream(h) == ResetTo(h, FALSE)

\* Reading the Archive and its credentials, the spool or the flag fails.
StepFails(h) ==
    Fault /\ \E step \in {"spool", "take", "flag", "reset", "set"} : Move(h, step, "failed")

\* gatherWALFilesToRestore: the segment and those that follow, and, for a promotion
\* with a token, the .partial of the last of them.
ListFor(c, w) ==
    LET full == {v \in Segs : w <= v /\ v < w + parallel} IN
    IF w = History THEN {<<History, "full">>}
    ELSE (full \X {"full"}) \cup
         (IF c.token /\ (Cardinality(full) < parallel \/ parallel = 1)
          THEN {m \in full \X {"partial"} : \A v \in full : v <= m[1]}
          ELSE {})

\* RestoreList starts a goroutine for each name of the list.
Start(h, list) ==
    /\ pc[h] = "gather"
    /\ task' = [task EXCEPT ![h] = [m \in Members |-> IF m \in list THEN "get" ELSE "none"]]
    /\ Goto(h, "get")
    /\ UNCHANGED <<pgVars, fileVars, archVars, req, conf, envVars, histVars, faults>>

\* Mutant: the list never has the .partial.
StartFullOnly(h) == Start(h, ListFor([conf[h] EXCEPT !.token = FALSE], req[h]))

RestoreListStarts(h) == Start(h, ListFor(conf[h], req[h]))

Has(a, m) == IF m[2] = "full" THEN m[1] \in avail[a] ELSE m[1] = partial[a]

First(h) == <<req[h], "full">>
Current(h, m) == IF m = First(h) THEN dest ELSE spool[m[1]]

\* Mutant: prefetched files are not named after their segments.
WriteElsewhere(h, m, file) ==
    IF m = First(h) THEN dest' = file /\ UNCHANGED spool
    ELSE /\ spool' = [w \in DOMAIN spool \cup {History} |-> IF w = History THEN file ELSE spool[w]]
         /\ UNCHANGED dest

\* The requested segment goes to the destination path, the others to the spool, a
\* .partial there under the name of its segment.
Write(h, m, file) ==
    IF m = First(h) THEN dest' = file /\ UNCHANGED spool
    ELSE spool' = [spool EXCEPT ![m[1]] = file] /\ UNCHANGED dest

\* A step of the goroutine of name m.
Member(h, m, from, to) ==
    /\ pc[h] = "get" /\ task[h][m] = from
    /\ task' = [task EXCEPT ![h][m] = to]
    /\ UNCHANGED <<pgVars, eos, archVars, pc, req, conf, envVars, histVars>>

File(h, m, kind) == [seg |-> m[1], kind |-> kind, from |-> ArchiveOf(h)]

\* archive-get finds the file and creates its destination.
GetStarts(h, m) ==
    /\ Member(h, m, "get", "write")
    /\ Has(ArchiveOf(h), m)
    /\ Write(h, m, File(h, m, "torn"))
    /\ UNCHANGED faults

\* Another execution is filling the same file.
Shared(h, m) ==
    \E g \in Handlers \ {h}, n \in Members :
        /\ pc[g] = "get" /\ task[g][n] = "write"
        /\ (m = First(h)) <=> (n = First(g))
        /\ m # First(h) => m[1] = n[1]

\* What is at the path when archive-get has filled its file: nothing if it was taken away
\* meanwhile; anything of the two if another execution wrote there as well.
Filled(h, m) ==
    IF Current(h, m) = NoFile THEN {NoFile}
    ELSE IF Current(h, m) = File(h, m, "torn") /\ ~Shared(h, m) THEN {File(h, m, m[2])}
    ELSE {File(h, m, m[2]), File(h, m, "torn"), Current(h, m)}

\* It fills it.
GetEnds(h, m) ==
    /\ Member(h, m, "write", "ok")
    /\ \E file \in Filled(h, m) : Write(h, m, file)
    /\ UNCHANGED faults

\* The archive does not have it.
GetMisses(h, m) ==
    /\ Member(h, m, "get", "missing")
    /\ ~Has(ArchiveOf(h), m)
    /\ UNCHANGED <<dest, spool, faults>>

\* It fails, before or after it created its destination.
GetFails(h, m) ==
    /\ Member(h, m, "get", "err") \/ Member(h, m, "write", "err")
    /\ Fault
    /\ UNCHANGED <<dest, spool>>

\* Mutant: the test of the error is turned round.
FoundAreMissing(h) == {m \in Members : task[h][m] = "ok"}

\* isEndOfWALStream: the names of the list that were not found.
Missing(h) == {m \in Members : task[h][m] = "missing"}

\* Mutant: a miss of any name is the answer.
AnyMissIsResult(h) == IF Missing(h) # {} THEN "missing" ELSE task[h][First(h)]

\* The answer is the result of the requested name.
Result(h) == task[h][First(h)]

\* When the goroutines have ended, a miss among the prefetched names sets the flag on an
\* instance that can stream.
RestoreListEnds(h) ==
    /\ \A m \in Members : task[h][m] \in {"none", "ok", "missing", "err"}
    /\ pc[h] = "get"
    /\ missed' = {m[1] : m \in {n \in Members : task[h][n] = "missing"}}
    /\ Goto(h, CASE Result(h) = "missing" -> "notfound"
                 [] Result(h) = "err" -> "failed"
                 [] OTHER -> IF Streaming(conf[h]) /\ Missing(h) # {} THEN "set" ELSE "restored")
    /\ UNCHANGED <<pgVars, fileVars, archVars, req, conf, task, envVars, spoiled, stale, faults>>

\* SetEndOfWALStream; setting it again is no error.
SetEndOfWALStream(h) ==
    /\ pc[h] = "set"
    /\ eos' = TRUE
    /\ Goto(h, "restored")
    /\ UNCHANGED <<pgVars, dest, spool, archVars, req, conf, task, envVars, histVars, faults>>

-----------------------------------------------------------------------------
(* Crashes, and changes of the cluster.                                    *)

Crash == crashes < MaxCrashes /\ crashes' = crashes + 1

\* PostgreSQL restarts, from this segment or an earlier one.
PgRestarts ==
    /\ mode' = "scan" /\ caller' = NoHandler
    /\ next' \in 1 .. next

\* The handler PostgreSQL had called keeps running.
PgRestart ==
    /\ mode # "ended"
    /\ Crash
    /\ PgRestarts
    /\ abandoned' = (abandoned \/ caller # NoHandler)
    /\ UNCHANGED <<fileVars, archVars, hVars, cluster, parallel, changes, histVars, faults>>

AllHandlersStop ==
    /\ pc' = [h \in Handlers |-> "idle"]
    /\ req' = [h \in Handlers |-> History]
    /\ conf' = [h \in Handlers |-> NoCluster]
    /\ task' = [h \in Handlers |-> NoTasks]

\* The sidecar container restarts, and archive-get with it; the spool stays.
SidecarRestart ==
    /\ \E h \in Handlers : pc[h] # "idle"
    /\ Crash
    /\ AllHandlersStop
    /\ caller' = NoHandler
    /\ IF caller = NoHandler THEN UNCHANGED mode
       ELSE IF req[caller] = History THEN mode' = "archive" ELSE Fallback
    /\ UNCHANGED <<next, fileVars, archVars, cluster, parallel, changes, abandoned, histVars, faults>>

\* The pod is replaced, and the spool with it.
PodReplaced ==
    /\ mode # "ended"
    /\ Crash
    /\ AllHandlersStop
    /\ PgRestarts
    /\ spool' = [w \in Segs |-> NoFile] /\ eos' = FALSE
    /\ UNCHANGED <<dest, archVars, cluster, parallel, changes, abandoned, histVars, faults>>

\* A failover, a promotion or a demotion of an instance that exists.
ChangeCluster ==
    /\ changes < MaxChanges /\ changes' = changes + 1
    /\ Standby(cluster)
    /\ \E c \in Clusters \ {cluster} : Standby(c) /\ cluster' = c
    /\ UNCHANGED <<pgVars, fileVars, archVars, hVars, parallel, crashes, abandoned, histVars, faults>>

-----------------------------------------------------------------------------
Downloading(h) ==
    \E m \in Members : GetStarts(h, m) \/ GetEnds(h, m) \/ GetMisses(h, m) \/ GetFails(h, m)

Handle(h) ==
    \/ RestoreFromSpool(h) \/ RemoveFromSpool(h) \/ NotInSpool(h)
    \/ IsEndOfWALStream(h) \/ ResetEndOfWalStream(h) \/ StepFails(h)
    \/ RestoreListStarts(h) \/ Downloading(h) \/ RestoreListEnds(h)
    \/ SetEndOfWALStream(h) \/ Reply(h)

Requesting == \E h \in Handlers : Request(h)
Stream == Streamed \/ StreamEnds

Next ==
    \/ Upload \/ Requesting \/ Stream
    \/ \E h \in Handlers : Handle(h)
    \/ PgRestart \/ SidecarRestart \/ PodReplaced \/ ChangeCluster

Spec == Init /\ [][Next]_vars

\* Handlers run and their commands return; PostgreSQL asks again; a streaming
\* connection brings the next segment or ends.
Fairness ==
    /\ WF_vars(Requesting) /\ WF_vars(Stream)
    /\ \A h \in Handlers : WF_vars(Handle(h))

FairSpec == Spec /\ Fairness

-----------------------------------------------------------------------------
TypeOK ==
    /\ next \in 1 .. NSeg + 1
    /\ mode \in {"scan", "archive", "stream", "ended"}
    /\ caller \in Handlers \cup {NoHandler}
    /\ dest \in Files /\ spool \in [Segs -> Files] /\ eos \in BOOLEAN
    /\ avail \in [Archives -> SUBSET (1 .. NSeg)] /\ partial \in [Archives -> 0 .. NSeg]
    /\ cluster \in Clusters /\ parallel \in 1 .. MaxParallel
    /\ pc \in [Handlers -> Steps]
    /\ req \in [Handlers -> Segs \cup {History}]
    /\ conf \in [Handlers -> Clusters \cup {NoCluster}]
    /\ task \in [Handlers -> [Members -> TaskStates]]
    /\ faults \in 0 .. MaxFaults /\ crashes \in 0 .. MaxCrashes
    /\ changes \in 0 .. MaxChanges
    /\ abandoned \in BOOLEAN
    /\ missed \subseteq Segs \cup {History} /\ spoiled \in Nat /\ stale \in Nat

\* What a list holds beside the requested segment: those that follow it or, with
\* maxParallel 1 and a promotion token, the .partial that breaks the limit.
Prefetched == IF parallel = 1 /\ \E c \in Clusters : c.token THEN 1 ELSE parallel - 1

\* A file that PostgreSQL is told is restored and cannot use is the price of an
\* interrupted download, paid once: archive-get writes to the final name in the spool,
\* so a failure leaves one such file and a restart those of a whole list, and each is
\* taken out of the spool when it is delivered.
SpoiledOnce == ~abandoned => spoiled <= faults + crashes * Prefetched

\* The spool does not know which archive a segment came from: after a failover or a
\* promotion at most one list of segments is still restored from the old archive.
StaleIsOneList == ~abandoned /\ crashes = 0 => stale <= changes * parallel

\* "ErrEndOfWALStreamReached is returned when end of WAL is detected in the cloud
\* archive": in a quiet system the segment it refuses is one that archive-get was asked
\* for, when the flag was set, and did not find.
EndIsReal ==
    faults + crashes + changes = 0 =>
        \A h \in Handlers : pc[h] = "end" /\ req[h] # History => req[h] \in missed

\* Nothing but the end of the archive ends the recovery of a new cluster: the segment it
\* stopped at was itself not found, it was not the prefetch of a later one that failed.
RecoveryIsComplete ==
    faults + crashes + changes = 0 /\ mode = "ended" => next \in missed

\* Whatever restarts or overlaps, a standby restores or streams every segment of its
\* archive: the end-of-wal-stream flag stops a request once, not for good.
AllReplayed ==
    \A w \in 1 .. NSeg : (w \in avail[Source(cluster)]) ~> (next > w \/ w \notin avail[Source(cluster)])

\* "Last WAL file during a token-based promotion can be (always is?) a partial one": it
\* is restored in place of its segment.
PartialReplayed ==
    \A w \in 1 .. NSeg : (w = partial[Source(cluster)]) ~> (next > w \/ w # partial[Source(cluster)])

\* So it is with maxParallel 1, through a miss, the spool and a retry.
PartialReplayedAlone ==
    \A w \in 1 .. NSeg :
        (parallel = 1 /\ w = partial[Source(cluster)]) ~> (next > w \/ w # partial[Source(cluster)])
=============================================================================
