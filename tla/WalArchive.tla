----------------------------- MODULE WalArchive -----------------------------
(***************************************************************************)
(* WAL archiving: the Archive handler of the WAL service, the archiver and *)
(* the spool it uses, the parallel archive-push of a batch, and around     *)
(* them PostgreSQL's archiver process and the pgBackRest repository.       *)
(*                                                                         *)
(* A WAL file is the number of its place in the lexical order of names.    *)
(* A handler is one execution of Archive: pgbackrest is run with           *)
(* exec.Command, not bound to the request's context, so a handler whose    *)
(* caller died goes on, and a restarted PostgreSQL calls another one while *)
(* the first still runs.                                                   *)
(*                                                                         *)
(* The sidecar reads the Archive object through a client that keeps an     *)
(* answer for a few seconds (ClientCache): after a change of the object    *)
(* any number of handlers may still be given the old one.                  *)
(***************************************************************************)
EXTENDS Naturals, FiniteSets

CONSTANTS
    NWal,            \* bound: PostgreSQL produces WAL files 1..NWal
    History,         \* those of them that are timeline history files
    Unstorable,      \* those that archive-push may be unable to store
    MaxParallel,     \* Archive.spec.configuration.wal.maxParallel, at least 1
    CreateOnArchive, \* ShouldCreateStanzaOnArchive()
    Stanza,          \* the stanza of the plugin configuration
    SpecStanza,      \* Archive.spec.configuration.stanza, or NoStanza
    NoStanza,
    Repos,           \* the repositories an Archive object may point to
    NoRepo,
    FirstRepo,       \* the one it points to at first
    Foreign,         \* those whose stanza holds WAL of another cluster at first
    Handlers,        \* bound: executions of Archive in flight
    NoHandler,
    MaxFaults,       \* bound: transient failures of a command or a file operation
    MaxCrashes,      \* bound: restarts of PostgreSQL, of the sidecar, of the pod
    MaxEdits         \* bound: changes of the repository of the Archive object

ASSUME ArchiveAssumption ==
    /\ NWal \in Nat
    /\ MaxParallel \in Nat \ {0}
    /\ CreateOnArchive \in BOOLEAN
    /\ FirstRepo \in Repos
    /\ NoRepo \notin Repos
    /\ NoHandler \notin Handlers
    /\ MaxFaults \in Nat /\ MaxCrashes \in Nat /\ MaxEdits \in Nat

VARIABLES
    ready, done,  \* archive_status: WAL files marked .ready and .done
    granted,      \* WAL file PostgreSQL was told is archived and will mark .done, or 0
    caller,       \* the handler PostgreSQL waits for, or NoHandler
    marker,       \* WAL files with a marker in the spool directory
    emptyFlag,    \* PGDATA holds .check-empty-wal-archive
    target,       \* the repository of the Archive object
    cached,       \* the one in the entry of the sidecar's client, or NoRepo
    stanzas,      \* stanzas created in each repository
    archived,     \* WAL files archive-push stored in each repository
    pc, req, conf, task,  \* of each handler: where it is, the WAL file requested,
                          \* the repository it read, the state of each batch member
    faults, crashes, edits,  \* what is used of the bounds
    broken,       \* WAL files that archive-push can never store
    abandoned,    \* PostgreSQL restarted while a handler was running for it
    seen,         \* history: the client has answered with the present target
    before        \* history: WAL files acknowledged when it first did

pgVars    == <<ready, done, granted, caller>>
diskVars  == <<marker, emptyFlag>>
repoVars  == <<stanzas, archived>>
hVars     == <<pc, req, conf, task>>
cacheVars == <<cached, seen, before>>
envVars   == <<target, crashes, edits, broken, abandoned, cacheVars>>
vars == <<pgVars, diskVars, repoVars, hVars, envVars, faults>>

Wals == 1 .. NWal

\* archive-push goes to the stanza of the Archive object when it names one,
\* the other commands always to the stanza of the plugin configuration.
PushStanza == IF SpecStanza # NoStanza THEN SpecStanza ELSE Stanza

Steps == {"idle", "load", "spool", "remove", "info", "create", "gather", "push",
          "acked", "failed"}
TaskStates == {"none", "pushing", "pushed", "cleared", "ok", "err"}
NoTasks == [w \in Wals |-> "none"]

Batch(h) == {w \in Wals : task[h][w] # "none"}
Acknowledged == done \cup {w \in Wals : w = granted}
Stored == UNION {archived[r] : r \in Repos}

Init ==
    /\ ready = {} /\ done = {} /\ granted = 0 /\ caller = NoHandler
    /\ marker = {} /\ emptyFlag = TRUE
    /\ target = FirstRepo /\ cached = NoRepo /\ seen = FALSE
    /\ stanzas = [r \in Repos |-> IF r \in Foreign THEN {PushStanza} ELSE {}]
    /\ archived = [r \in Repos |-> {}]
    /\ pc = [h \in Handlers |-> "idle"]
    /\ req = [h \in Handlers |-> 0]
    /\ conf = [h \in Handlers |-> NoRepo]
    /\ task = [h \in Handlers |-> NoTasks]
    /\ faults = 0 /\ crashes = 0 /\ edits = 0
    /\ broken \in SUBSET Unstorable
    /\ abandoned = FALSE /\ before = {}

-----------------------------------------------------------------------------
(* PostgreSQL and its archiver process (outside the repository).           *)

\* PostgreSQL completes the next WAL file.
Produce ==
    /\ \E w \in Wals : /\ w \notin ready \cup done
                       /\ \A v \in Wals : v < w => v \in ready \cup done
                       /\ ready' = ready \cup {w}
    /\ UNCHANGED <<done, granted, caller, diskVars, repoVars, hVars, envVars, faults>>

\* The archiver takes history files first, then the oldest segment.
IsNext(w) ==
    /\ w \in ready
    /\ \A v \in ready \ {w} : \/ w \in History /\ v \notin History
                              \/ (v \in History => w \in History) /\ w < v

\* It asks the plugin to archive that file, one file at a time.
Request(h, w) ==
    /\ caller = NoHandler /\ granted = 0
    /\ IsNext(w)
    /\ pc[h] = "idle"
    /\ caller' = h
    /\ pc' = [pc EXCEPT ![h] = "load"]
    /\ req' = [req EXCEPT ![h] = w]
    /\ UNCHANGED <<ready, done, granted, diskVars, repoVars, conf, task, envVars, faults>>

\* Told that the file is archived, it renames .ready to .done.
MarkDone ==
    /\ granted # 0
    /\ ready' = ready \ {granted}
    /\ done' = done \cup {granted}
    /\ granted' = 0
    /\ UNCHANGED <<caller, diskVars, repoVars, hVars, envVars, faults>>

-----------------------------------------------------------------------------
(* The Archive handler.                                                    *)

Goto(h, step) == pc' = [pc EXCEPT ![h] = step]

\* A step of handler h that changes nothing but where the handler is.
Move(h, from, to) ==
    /\ pc[h] = from
    /\ Goto(h, to)
    /\ UNCHANGED <<pgVars, diskVars, repoVars, req, conf, task, envVars>>

\* A client call, a file operation or a pgbackrest command of the handler fails.
Fault == faults < MaxFaults /\ faults' = faults + 1

\* Decode the cluster, read the Archive object, which leaves an entry in the
\* client's cache, and its credentials.
Load(h, repo, entry) ==
    /\ pc[h] = "load"
    /\ conf' = [conf EXCEPT ![h] = repo]
    /\ cached' = entry
    /\ seen' = (seen \/ repo = target)
    /\ before' = IF ~seen /\ repo = target THEN Acknowledged ELSE before
    /\ Goto(h, "spool")
    /\ UNCHANGED <<pgVars, diskVars, repoVars, req, task, faults, target, crashes, edits,
                   broken, abandoned>>

\* What ExtendedClient.Get may answer: the entry until it expires (ClientCache bounds
\* how long that is), or the object as it is.
Answers == {target} \cup ({cached} \ {NoRepo})

\* Mutant: a fetched object is given to the caller and the old entry is kept.
LoadKeepsEntry(h) ==
    \E r \in Answers : Load(h, r, IF cached = NoRepo THEN r ELSE cached)

LoadConfiguration(h) == \E r \in Answers : Load(h, r, r)

\* Mutant: Remove is called without asking Contains.
SpoolSkipContains(h) == Move(h, "spool", "remove") /\ UNCHANGED faults

\* DeleteFromSpool, first half: is there a marker for the requested WAL file?
SpoolContains(h) ==
    Move(h, "spool", IF req[h] \in marker THEN "remove" ELSE "info") /\ UNCHANGED faults

\* DeleteFromSpool, second half: remove it and report the file as archived.
\* Remove returns ErrorNonExistentFile when another handler removed it first.
SpoolRemove(h) ==
    /\ pc[h] = "remove"
    /\ marker' = marker \ {req[h]}
    /\ Goto(h, IF req[h] \in marker THEN "acked" ELSE "failed")
    /\ UNCHANGED <<pgVars, emptyFlag, repoVars, req, conf, task, envVars, faults>>

\* Mutant: a missing stanza is left to the backup.
CheckOnly(h) == Move(h, "info", "gather") /\ UNCHANGED faults

\* CheckWalArchiveDestination: a missing stanza is created when the policy says
\* so, and ignored otherwise.
CheckDestination(h) ==
    /\ Move(h, "info", IF Stanza \notin stanzas[conf[h]] /\ CreateOnArchive
                       THEN "create" ELSE "gather")
    /\ UNCHANGED faults

\* Any of these steps returns its error to the caller; at "gather" it is the
\* making of the command's options that fails.
StepFails(h) ==
    Fault /\ \E step \in {"load", "spool", "remove", "info", "gather"} : Move(h, step, "failed")

\* CreatePgbackrestStanza; it is idempotent.
Create(h, stanza) ==
    /\ pc[h] = "create"
    /\ stanzas' = [stanzas EXCEPT ![conf[h]] = @ \cup {stanza}]
    /\ Goto(h, "gather")
    /\ UNCHANGED <<pgVars, diskVars, archived, req, conf, task, envVars, faults>>

\* Mutant: the repository is passed for the name of the stanza.
CreateMisnamed(h) == Create(h, conf[h])

CreateStanza(h) == Create(h, Stanza)

\* Its failure is logged and the handler goes on.
CreateStanzaFails(h) == Fault /\ Move(h, "create", "gather")

\* Mutant: the directory is not read in order.
GatherAny(h) ==
    /\ pc[h] = "gather"
    /\ \E more \in SUBSET (ready \ {req[h]}) :
         /\ Cardinality(more) < MaxParallel
         /\ task' = [task EXCEPT ![h] =
                       [w \in Wals |-> IF w \in more \cup {req[h]} THEN "pushing" ELSE "none"]]
    /\ Goto(h, "push")
    /\ UNCHANGED <<pgVars, diskVars, repoVars, req, conf, envVars, faults>>

\* GatherWALFilesToArchive: the requested file, then the first .ready files in
\* lexical order until the batch holds MaxParallel; ArchiveList starts a
\* goroutine for each.
Gather(h) ==
    /\ pc[h] = "gather"
    /\ LET others == ready \ {req[h]} IN
       \E more \in SUBSET others :
         /\ \A w \in more, v \in others \ more : w < v
         /\ Cardinality(more) < MaxParallel
         /\ more # others => Cardinality(more) = MaxParallel - 1
         /\ task' = [task EXCEPT ![h] =
                       [w \in Wals |-> IF w \in more \cup {req[h]} THEN "pushing" ELSE "none"]]
    /\ Goto(h, "push")
    /\ UNCHANGED <<pgVars, diskVars, repoVars, req, conf, envVars, faults>>

\* A step of the goroutine that archives batch member w.
Member(h, w, from, to) ==
    /\ pc[h] = "push" /\ task[h][w] = from
    /\ task' = [task EXCEPT ![h][w] = to]
    /\ UNCHANGED <<pgVars, pc, req, conf, envVars>>

\* archive-push of one batch member succeeds; pushing again what is already
\* stored succeeds too.
Push(h, w) ==
    /\ Member(h, w, "pushing", "pushed")
    /\ PushStanza \in stanzas[conf[h]]
    /\ w \notin broken
    /\ archived' = [archived EXCEPT ![conf[h]] = @ \cup {w}]
    /\ UNCHANGED <<diskVars, stanzas, faults>>

\* Mutant: the marker is created whatever archive-push returned.
PushFailsTouches(h, w) ==
    /\ Member(h, w, "pushing", "err")
    /\ Fault
    /\ marker' = IF w = req[h] THEN marker ELSE marker \cup {w}
    /\ UNCHANGED <<emptyFlag, repoVars>>

\* Mutant: the first failure cancels the other members of the batch.
PushFailsFast(h, w) ==
    /\ Member(h, w, "pushing", "err")
    /\ w \in broken \/ \E v \in Batch(h) : task[h][v] = "err"
    /\ UNCHANGED <<diskVars, repoVars, faults>>

\* It fails: the stanza is missing, the file cannot be stored, PostgreSQL has
\* already recycled it, or a transient fault.
PushFails(h, w) ==
    /\ Member(h, w, "pushing", "err")
    /\ \/ /\ \/ PushStanza \notin stanzas[conf[h]]
             \/ w \in broken
             \/ w \in done
          /\ UNCHANGED faults
       \/ Fault
    /\ UNCHANGED <<diskVars, repoVars>>

\* Mutant: the flag is left in PGDATA.
KeepEmptyFlag(h, w) == Member(h, w, "pushed", "cleared") /\ UNCHANGED <<diskVars, repoVars, faults>>

\* After a successful push the empty-archive flag is removed.
ClearEmptyFlag(h, w) ==
    /\ Member(h, w, "pushed", "cleared")
    /\ emptyFlag' = FALSE
    /\ UNCHANGED <<marker, repoVars, faults>>

TouchIf(h, w, condition) ==
    /\ Member(h, w, "cleared", "ok")
    /\ marker' = IF condition THEN marker \cup {w} ELSE marker
    /\ UNCHANGED <<emptyFlag, repoVars, faults>>

\* Mutants: the requested file gets a marker too; no file gets one.
TouchAll(h, w) == TouchIf(h, w, TRUE)
TouchNone(h, w) == TouchIf(h, w, FALSE)

\* Every member but the requested one (index 0) leaves a marker in the spool.
Touch(h, w) == TouchIf(h, w, w # req[h])

\* Removing the flag or creating the marker fails: an error of this member,
\* although its WAL file is stored.
AfterPushFails(h, w) ==
    /\ \/ Member(h, w, "pushed", "err")
       \/ Member(h, w, "cleared", "err") /\ w # req[h]
    /\ Fault
    /\ UNCHANGED <<diskVars, repoVars>>

\* When the goroutines have ended, the handler answers.
Ends(h, failed) ==
    /\ \A w \in Batch(h) : task[h][w] \in {"ok", "err"}
    /\ Move(h, "push", IF failed THEN "failed" ELSE "acked")
    /\ UNCHANGED faults

\* Mutant: a later success clears the error of an earlier member.
BatchForgetsErrors(h) == Ends(h, \A w \in Batch(h) : task[h][w] = "err")

\* One error of any member is the answer.
BatchEnds(h) == Ends(h, \E w \in Batch(h) : task[h][w] = "err")

\* The handler returns; its answer reaches the caller only if it still waits.
Reply(h) ==
    /\ pc[h] \in {"acked", "failed"}
    /\ caller' = IF caller = h THEN NoHandler ELSE caller
    /\ granted' = IF caller = h /\ pc[h] = "acked" THEN req[h] ELSE granted
    /\ Goto(h, "idle")
    /\ req' = [req EXCEPT ![h] = 0]
    /\ conf' = [conf EXCEPT ![h] = NoRepo]
    /\ task' = [task EXCEPT ![h] = NoTasks]
    /\ UNCHANGED <<ready, done, diskVars, repoVars, envVars, faults>>

-----------------------------------------------------------------------------
(* Crashes, and the other users of the repository.                         *)

Crash == crashes < MaxCrashes /\ crashes' = crashes + 1

\* PostgreSQL restarts and forgets what it waited for or was told.  The
\* handler it had called keeps running.
PgRestart ==
    /\ caller # NoHandler \/ granted # 0
    /\ Crash
    /\ caller' = NoHandler /\ granted' = 0
    /\ abandoned' = (abandoned \/ caller # NoHandler)
    /\ UNCHANGED <<ready, done, diskVars, repoVars, hVars, target, edits, broken, cacheVars, faults>>

AllHandlersStop ==
    /\ pc' = [h \in Handlers |-> "idle"]
    /\ req' = [h \in Handlers |-> 0]
    /\ conf' = [h \in Handlers |-> NoRepo]
    /\ task' = [h \in Handlers |-> NoTasks]
    /\ caller' = NoHandler

\* The sidecar container restarts; the spool directory is on a volume and stays.
SidecarRestart ==
    /\ \E h \in Handlers : pc[h] # "idle"
    /\ Crash
    /\ AllHandlersStop
    /\ cached' = NoRepo
    /\ UNCHANGED <<ready, done, granted, diskVars, repoVars, target, edits, broken, abandoned,
                   seen, before, faults>>

\* The pod is replaced: PGDATA survives, the spool's emptyDir does not.
PodReplaced ==
    /\ Crash
    /\ AllHandlersStop
    /\ granted' = 0
    /\ marker' = {}
    /\ cached' = NoRepo
    /\ UNCHANGED <<ready, done, emptyFlag, repoVars, target, edits, broken, abandoned,
                   seen, before, faults>>

\* A user points the Archive object to another repository.
EditArchive ==
    /\ edits < MaxEdits /\ edits' = edits + 1
    /\ \E r \in Repos \ {target} : target' = r
    /\ seen' = FALSE
    /\ UNCHANGED <<pgVars, diskVars, repoVars, hVars, crashes, broken, abandoned, cached,
                   before, faults>>

\* A backup, which reads the Archive through the same client, or the
\* administrator, creates the stanza.
BackupCreatesStanza ==
    /\ \E r \in Answers :
         /\ Stanza \notin stanzas[r]
         /\ stanzas' = [stanzas EXCEPT ![r] = @ \cup {Stanza}]
    /\ UNCHANGED <<pgVars, diskVars, archived, hVars, envVars, faults>>

-----------------------------------------------------------------------------
Pushing(h) ==
    \E w \in Wals : \/ Push(h, w) \/ PushFails(h, w) \/ ClearEmptyFlag(h, w)
                    \/ Touch(h, w) \/ AfterPushFails(h, w)

Handle(h) ==
    \/ LoadConfiguration(h) \/ SpoolContains(h) \/ SpoolRemove(h)
    \/ CheckDestination(h) \/ StepFails(h)
    \/ CreateStanza(h) \/ CreateStanzaFails(h)
    \/ Gather(h) \/ Pushing(h) \/ BatchEnds(h) \/ Reply(h)

Requesting == \E h \in Handlers, w \in Wals : Request(h, w)

Next ==
    \/ Produce \/ Requesting \/ MarkDone
    \/ \E h \in Handlers : Handle(h)
    \/ PgRestart \/ SidecarRestart \/ PodReplaced \/ EditArchive
    \/ BackupCreatesStanza

Spec == Init /\ [][Next]_vars

\* Goroutines of a handler are scheduled and commands return; PostgreSQL's
\* archiver retries while a .ready file is left.  No backup is assumed.
Fairness ==
    /\ WF_vars(Requesting) /\ WF_vars(MarkDone)
    /\ \A h \in Handlers : WF_vars(Handle(h))

FairSpec == Spec /\ Fairness

-----------------------------------------------------------------------------
TypeOK ==
    /\ ready \subseteq Wals /\ done \subseteq Wals /\ marker \subseteq Wals
    /\ before \subseteq Wals /\ broken \subseteq Unstorable
    /\ granted \in Wals \cup {0}
    /\ caller \in Handlers \cup {NoHandler}
    /\ emptyFlag \in BOOLEAN /\ abandoned \in BOOLEAN /\ seen \in BOOLEAN
    /\ target \in Repos /\ cached \in Repos \cup {NoRepo}
    /\ stanzas \in [Repos -> SUBSET {Stanza, PushStanza}]
    /\ archived \in [Repos -> SUBSET Wals]
    /\ pc \in [Handlers -> Steps]
    /\ req \in [Handlers -> Wals \cup {0}]
    /\ conf \in [Handlers -> Repos \cup {NoRepo}]
    /\ task \in [Handlers -> [Wals -> TaskStates]]
    /\ faults \in 0 .. MaxFaults /\ crashes \in 0 .. MaxCrashes /\ edits \in 0 .. MaxEdits

\* PostgreSQL is told that a WAL file is archived, and a marker promises it for
\* later, only when a repository holds the file: whatever handlers overlap,
\* fail half way or outlive their caller (Archive, ArchiveList, DeleteFromSpool).
AckedIsStored == Acknowledged \cup marker \subseteq Stored

\* The members of a batch are pushed at once and each may fail alone, so a repository
\* may hold a segment and not the one before it; but the archive is never ahead of its
\* first hole by a whole batch (GatherWALFilesToArchive takes the files in order and
\* ArchiveList waits for all), whatever handlers overlap or are cut off.
AheadByLessThanABatch ==
    \A w \in Stored \ History :
       Cardinality({v \in Wals \ (History \cup Stored) : v < w}) < MaxParallel

\* A change of the Archive object reaches the handlers when the client's entry has expired,
\* and the markers made until then never do.  From the first answer with the new repository
\* on, the files that are acknowledged without being in it are the marked ones: less than a
\* batch (Archive looks for a marker before it looks at the destination), and one more when
\* a timeline history file overtakes the files whose markers wait.
HoleIsBounded ==
    seen /\ ~abandoned =>
        Cardinality(Acknowledged \ (before \cup archived[target]))
            <= IF History = {} THEN MaxParallel - 1 ELSE MaxParallel

\* DeleteFromSpool asks and removes in two steps.  The file it found marked is stored
\* whoever removes the marker in between; and as long as no call was abandoned ("the
\* wal-archive command is run at most once at each instant") it is still there for Remove.
RemoveFindsMarker ==
    \A h \in Handlers : pc[h] = "remove" =>
        req[h] \in Stored /\ (~abandoned => req[h] \in marker)

\* As long as no call was abandoned no marker outlives its purpose: markers are
\* of files PostgreSQL still has to ask for, so the next request removes them
\* (the same directory serves restores, where an empty file would be delivered).
NoStaleMarker == ~abandoned => marker \subseteq ready

\* Undisturbed, no WAL file is pushed twice: what a batch pushed in advance is
\* acknowledged from its marker (GatherWALFilesToArchive does not look at markers).
NoDuplicatePush ==
    /\ faults + crashes + edits = 0
    /\ CreateOnArchive /\ PushStanza = Stanza /\ broken = {} /\ History = {}
    => \A h \in Handlers, w \in Wals :
          task[h][w] = "pushing" => w \notin archived[conf[h]]

\* .check-empty-wal-archive is removed after the first successful archival and
\* before it is reported: never earlier, and never later than the first answer.
EmptyFlagTracksArchival ==
    /\ ~emptyFlag => Stored # {}
    /\ Acknowledged \cup marker # {} => ~emptyFlag

\* The promise to PostgreSQL, under the mapping of the repositories to one store.
Promise == INSTANCE ArchivePromise WITH stored <- Stored
KeepsPromise == Promise!PSafety

\* Every WAL file PostgreSQL has ready is eventually archived, without a backup having
\* created the stanza (createStanza=OnFirstArchive), unless one cannot be stored.
AllArchived == \A w \in Wals : (w \in ready /\ broken = {}) ~> w \in done

\* A file that cannot be stored blocks the acknowledgement of its batch, never the
\* storing of the files before it.
PrefixStored ==
    \A w \in Wals : (w \in ready /\ \A b \in broken : w < b) ~> w \in Stored

\* "if present, requires the WAL archiver to check that the backup object store is
\* empty": no WAL file is added to a store in use while the flag is there.
EmptyCheckHonoured ==
    [][\A r \in Foreign : emptyFlag => archived'[r] = archived[r]]_vars
=============================================================================
