# A TLA+ model of the pgBackRest plugin for CloudNativePG

The plugin gives CloudNativePG clusters continuous archiving, backups and
recovery with pgBackRest. It runs in three places: the *operator* plugin
(reconciles permissions, injects sidecars), the *instance* sidecar in every
PostgreSQL pod (archives and restores WAL, takes backups) and the *restore*
sidecar of recovery jobs. This directory holds the model of it: TLA+ modules,
the configurations that TLC checks, and proofs that TLAPS checks.

    tlc -config MCArchiveSafety.cfg MCWalArchive.tla
    tlc -config MCRestoreLive.cfg MCWalRestore.tla
    tlc -config MCCache.cfg ClientCache.tla
    tlc -config MCBackups.cfg MCBackups.tla
    tlc -config MCRecovery.cfg MCRecovery.tla
    tlc -config MCOperator.cfg MCOperator.tla
    tlapm WalArchiveProofs.tla      (and WalRestoreProofs, ClientCacheProofs,
                                     RepositoryProofs, BackupsProofs,
                                     RecoveryProofs, OperatorProofs, NumberFacts)

## Inventory

Paths are below `src/internal/`.

| Component | State it keeps | Operations | Talks to |
|---|---|---|---|
| WAL archiving (`cnpgi/common/wal.go`, `pgbackrest/archiver`, `pgbackrest/walarchive`, `pgbackrest/spool`) | markers in the spool directory, `.check-empty-wal-archive` in PGDATA, the repository | `Archive` and what it calls: `DeleteFromSpool`, `CheckWalArchiveDestination`, `CreatePgbackrestStanza`, `GatherWALFilesToArchive`, `ArchiveList` | PostgreSQL's archiver (gRPC), `.ready` files, Archive object (Kubernetes API), pgbackrest |
| WAL restore (`cnpgi/common/wal.go`, `pgbackrest/restorer`) | prefetched segments and the `end-of-wal-stream` flag in the same spool directory | `Restore`: `RestoreFromSpool`, `checkEndOfWALStreamFlag`, `RestoreList`, `SetEndOfWALStream` | PostgreSQL's `restore_command`, status of the Cluster, pgbackrest |
| WAL status (`cnpgi/common/wal.go`) | none | `Status`; `SetFirstRequired` panics | pgbackrest info |
| WAL segment names (`cnpgi/common/wal_import.go`) | none | `SegmentFromName`, `Name`, `NextSegments`, name tests | WAL restore |
| Backup handler (`cnpgi/instance/backup.go`, `pgbackrest/backup`, `pgbackrest/command/backuplist.go`) | the repository's backups and stanza, its lock | `Backup`: `CreatePgbackrestStanza`, `Take`, `GetBackupByAnnotatedName` | operator (gRPC), pgbackrest |
| Backup catalog (`pgbackrest/catalog`) | none | `FindBackupInfo` by id, target time, LSN, name or latest; parsing of `info` | restore job, WAL status |
| Cached client (`cnpgi/instance/internal/client`) | list of cached Archives and Secrets with the time of each fill, a mutex | `Get`, `Update`, `Delete`, `Patch`: fill, expire, remove | every handler of the sidecars, concurrently |
| Operator reconciler (`cnpgi/operator/reconciler.go`, `specs`) | Role and RoleBinding of each cluster | `Pre`: read the plugin configuration and Archives, `ensureRole`, `ensureRoleBinding`; `Post` | Kubernetes API; the sidecars need the permissions |
| Lifecycle hooks (`cnpgi/operator/lifecycle.go`) | the pod or job template it is handed | sidecar, volumes, environment and certificates added to pods and jobs | operator |
| Plugin configuration (`cnpgi/operator/config`) | none | `NewFromCluster`, `Validate`, archive keys | all handlers |
| Restore job (`cnpgi/restore`, `pgbackrest/restorer/backup.go`) | PGDATA and the WAL directory | `Restore`: find the backup, `pgbackrest restore`, move the WAL directory, write the recovery settings | catalog, pgbackrest |
| Archive controller (`controller/archive_controller.go`) | none | an empty reconciliation | Kubernetes API |
| pgBackRest options and credentials (`pgbackrest/command`, `pgbackrest/api`, `pgbackrest/credentials`) | none | flags and environment from an Archive | all commands |
| Processes and glue (`cmd`, identities, managers, health) | none | start-up and registration | |

### What is hard, and what makes each component correct

* **WAL archiving.** `pgbackrest` is started with `exec.Command`, so a handler
  whose caller died runs on and overlaps the one a restarted PostgreSQL calls; a
  batch succeeds in part; the sidecar, PostgreSQL or the pod stop between any two
  file operations; the Archive object is pointed elsewhere while a batch runs or
  markers are left. Correct: a file is acknowledged only when it is stored, it is
  eventually acknowledged, a marker never outlives its purpose, and what a change of the
  Archive object costs the new repository has a bound.
* **WAL restore.** Prefetching into the directory of the archive markers, a flag
  that one request leaves for the next, requests for another timeline after a
  promotion, a crash during a download. Correct: the file delivered is the file
  asked for, and complete; recovery neither ends before the end of the archive
  nor alternates forever between the archive and streaming.
* **Backup handler.** `stanza-create` against a backup that holds pgBackRest's
  lock, retention that expires a backup between its end and its look-up, names
  with the granularity of a second. Correct: the answer describes the backup that
  was taken, or is an error.
* **Catalog.** Timelines, open backups, boundary instants. Correct: the backup
  chosen can reach the target by the history of timelines, and none as new is missed.
* **Cached client.** Concurrent fills and removals, writers outside the sidecar, one
  mutex held over requests to the API server. Correct: what a read answers is no staler
  than the time to live, answers do not go back in time, every call returns.
* **Reconciler.** Two writes with no transaction, concurrent reconciliations, no
  trigger when an Archive changes. Correct: permissions converge to those of the
  current Archives.
* **Lifecycle hooks.** Run again and again on their own output. Correct: a second
  run changes nothing, and the sidecar gets the environment of the plugin.
* **Restore job.** Moves, removes and links directories, and is retried from the
  start after a crash. Correct: no WAL is lost and a retry ends in the same state.

`PROJECT.json` lists each hazard with the line where it bites and the properties
that guard against it.

## Modules

| Module | Content |
|---|---|
| `ArchivePromise` | what archiving promises to PostgreSQL: a file leaves `.ready` only when stored, and nothing stored is lost |
| `WalArchive` | the `Archive` handler and all it calls, with its environment |
| `MCWalArchive` | instance of `WalArchive` for TLC |
| `WalArchiveProofs` | theorems about `WalArchive` |
| `WalRestore` | the `Restore` handler and all it calls, with a recovering PostgreSQL |
| `MCWalRestore` | instance of `WalRestore` for TLC, with the states of the cluster of each run |
| `WalRestoreProofs` | theorems about `WalRestore` |
| `ClientCache` | the cached Kubernetes client and the API server it asks; small enough to be checked without an MC module |
| `ClientCacheProofs` | theorems about `ClientCache` |
| `WalSegment` | names of WAL segments: what parses, what follows, and the list gathered for a restore; operators only |
| `Catalog` | look-ups in the catalog of backups; operators only |
| `Repository` | what one who recovers may find in a repository: the abstract specification of `Backups` |
| `RepositoryProofs` | the invariant of `Repository`, on which the proofs about its two sides rest |
| `Backups`, `MCBackups` | the `Backup` handler on several pods, and the stanza step of `Archive` |
| `BackupsProofs` | theorems about `Backups`, its refinement of `Repository` among them |
| `RestoreJob` | the restore hook of a recovery job; its actions take the catalog and the stored backups as parameters |
| `Recovery`, `MCRecovery` | `RestoreJob` composed with `Repository`, and what is promised of both |
| `RecoveryProofs` | theorems about `Recovery` |
| `PluginConfig` | what is read from a Cluster: Archives, stanzas, sources; operators only |
| `ArchiveAccess` | the rules of a role, and the secrets that the commands read; operators only |
| `PodSpec` | the lifecycle hook as a function of a pod or job; operators only |
| `Operator`, `MCOperator` | reconciliations of a cluster and the hook after them, over caches that run behind |
| `OperatorProofs` | theorems about `Operator` |
| `NumberFacts` | what the proofs need of numbers: least and greatest elements, ranks in a finite set, lists in order, division |

`Backups` and `Recovery` are checked in two runs and meet in `Repository`: the first run
shows that the handlers implement it, the second composes it with the job. A run of all
three would be too large.

### WalArchive

State and code:

| Variable | Code |
|---|---|
| `ready`, `done`, `granted`, `caller` | PostgreSQL: `pg_wal/archive_status` and what its archiver process waits for |
| `marker` | the empty files of the spool directory (`spool.go`) |
| `emptyFlag` | `.check-empty-wal-archive` in PGDATA |
| `target` | repository in `Archive.spec` |
| `broken` | files that `archive-push` can never store (unreadable, or refused by the repository), chosen at the start among `Unstorable` |
| `stanzas`, `archived` | each repository: created stanzas, stored WAL files |
| `cached` | the Archive in the list of the sidecar's client (`instance/internal/client`), which the handlers read it through |
| `pc`, `req`, `conf`, `task` | the running executions of `Archive`: where each is, its request, the configuration it read, the state of each goroutine of `ArchiveList` |
| `seen`, `before` | history, for the properties only: whether the client has answered with the present repository, and what was acknowledged when it first did |

`LoadConfiguration` reads the Archive as `ExtendedClient.Get` may answer (`Answers`): the
entry, however old it is, or the object at the server, which becomes the entry. How long an
entry lives is the subject of `ClientCache`; here it may be given to any number of requests
after an edit, so nothing is claimed of the time until it is gone.

Each step of the handler that another process can come between is an action:
`LoadConfiguration`, `SpoolContains`, `SpoolRemove`, `CheckDestination`,
`CreateStanza`, `Gather`, for each batch member `Push`, `ClearEmptyFlag` and
`Touch`, then `BatchEnds` and `Reply`. Their error returns are `StepFails`,
`CreateStanzaFails`, `PushFails` and `AfterPushFails`. A WAL file is the number of
its place in the order of names, a repository is a model value, and
configuration flags and logging are left out. A few operators (`Move`, `Load`,
`Create`, `Member`, `TouchIf`, `Ends`) give several actions one form; those marked
as mutants are wrong variants of a step, used to confirm that each property
notices the mistake.

Outside the repository, and modelled from how it is used: PostgreSQL's archiver
(history files first, then the oldest segment; one call at a time; retry until
acknowledged) and pgbackrest (`archive-push` of a stored file succeeds again,
needs its stanza, `stanza-create` is idempotent).

| Run | Shows | Bounds |
|---|---|---|
| `archive_safety` | types; nothing is acknowledged or marked before it is stored; the archive is never a batch or more ahead of a segment it misses (`AheadByLessThanABatch`); the file whose marker `DeleteFromSpool` saw is stored when it removes it, and the marker still there while calls are serial (`RemoveFindsMarker`); no marker is left over while calls are serial; the empty-archive flag goes with the first stored file; from the client's first answer with a new repository on, the files acknowledged without being in it are fewer than a batch, or one batch with history files (`HoleIsBounded`); without disturbances each file is pushed once; the model implements the safety of `ArchivePromise` | 4 files, `maxParallel` 2, 2 repositories, 2 handlers, 1 failure, 1 restart, 2 edits: a batch with untouched files behind it, two handlers on one marker, an edit in the middle of a batch, requests that still get the old Archive after it, and an edit there and back. Handlers are a symmetry set |
| `archive_live` | every file is eventually archived, with a history file, overlap, a failure, a restart and no backup; a file that can never be stored does not hold back the ones before it | 3 files of which one is a history file and one may be unstorable, `maxParallel` 2, 2 handlers |

Two runs find what the repository's text and its code disagree on (findings in
`PROJECT.json`): `archive_spec_stanza` (a stanza named in the Archive object is
pushed to and never created) and `archive_empty_check` (the empty-archive flag
is removed and never read). The statement of the repository's README (line 226) that
archiving waits for a first backup does not hold with the policy `OnFirstArchive`
either, with which the archive runs are made: `Archive` creates the stanza itself.

Why the bounds suffice: the handlers interact only through the marker of a single
file, the flag and the repository; two executions are enough for any two of their
steps to be in the wrong order, and a third file beyond a batch is enough for the
batch limit to matter. Deadlock is not checked: when all files are archived there
is nothing left to do.

**Fairness.** Weak fairness for each handler (goroutines are scheduled, commands
return), for PostgreSQL's requests (its archiver retries while a `.ready` file is
left) and for its renaming of an acknowledged file. None for failures, restarts,
edits, new files or backups.

### What is proved

`WalArchiveProofs` proves, for every number of files, handlers and repositories
and every bound, from `ArchiveAssumption` only:

* `TypeCorrect`: the type invariant.
* `AckedFilesAreStored`: the acknowledged and marked files are stored. The
  property says nothing about handlers in flight, so it is not inductive: the
  invariant `StorageInv` adds `HandlerInv` (each handler past its first step has a
  request and a repository, and its batch contains its request) and
  `SuccessIsStored` (a goroutine that got past its push, and a success about to be
  answered, are of stored files). Steps keep it because no step removes a file
  from a repository (`StoredGrows`).
* `ArchiveKeepsPromise`: `WalArchive` implements the safety of `ArchivePromise`
  under the mapping of all repositories to one store. Needs `CallInv`: what is
  requested, batched or acknowledged is a file PostgreSQL completed.
* `SerialCallsKeepSpoolExact`: as long as PostgreSQL abandons no call, the marker
  found by `Contains` is there for `Remove`, and markers are of `.ready` files
  only. The invariant `SerialInv` says that the one running handler is the
  one waited for, and what it has learnt about the marker of its request.

* `NeverABatchAhead` (`AheadByLessThanABatch`): a batch is pushed at once and may fail in part,
  so a repository can hold a segment and not the one before it. `AheadInv` adds that each
  member of a batch but the requested one has fewer than `maxParallel` `.ready` files
  before it (`Near`), for handlers left over from an abandoned call too, and that a
  segment is requested only when there is no older one waiting.
* `FlagGoesWithFirstPush` (`EmptyFlagTracksArchival`): the flag is only gone when a file
  is stored, and no file is acknowledged or marked before it is gone. `FlagInv` adds the
  goroutines and handlers that may report a success.
* `OrderInvariant`: PostgreSQL leaves no gap, markers and batches are among its
  `maxParallel` oldest files, and the requested file is the oldest one if there is no history file
  (`NoGap`, `OrderInv`).
* `ChangeCostsOneBatch` (`HoleIsBounded`): from the client's first answer with the new
  repository on, the files acknowledged without being in it are those with a marker from
  before, fewer than `maxParallel`. `HoleInv` counts what is acknowledged since or will be
  without another push (`Owed`), and says that the old repository is out of the client's list
  and of every handler; `FewMarkers` that a batch leaves a marker for each file but the
  requested one; `PushedInv` that what a goroutine has stored is in the repository of its
  handler. With history files the bound is one more: the archiver asks for a history file
  first, whose batch marks `maxParallel - 1` segments next to one that was marked before.
  What is pushed to the old repository while the client still answers with it is not
  bounded by a number of batches, only by the time to live (`BoundedStaleness`).
* `NothingPushedTwice` (`NoDuplicatePush`): undisturbed, no file is pushed twice. `TargetInv`
  says that without edits every handler works with the one repository, `QuietInv` says that
  markers are those of the batch in hand or all of the last one, that batches leave no file out
  (`InOrder`), and that a stored file which is not acknowledged is known to be stored: by a
  marker, a goroutine or a reply on its way (`StoredIsKnown`).
* `MarkerIsStillThere` (`RemoveFindsMarker`): the marker is there by the serial invariant; the
  file is stored, also for a handler left over from an abandoned call, because what
  `Contains` saw was stored (`MarkedIsStored`) and stays so.

Only model-checked: the liveness properties `AllArchived` and `PrefixStored`; fairness is out of
the prover's reach.

### WalRestore

| Variable | Code |
|---|---|
| `next`, `mode`, `caller` | PostgreSQL's startup process: the segment it needs, and whether it looks for it in the archive or in a stream |
| `dest` | the destination path `restore_command` is given (`pg_wal/RECOVERYXLOG`) |
| `spool`, `eos` | the spool directory: prefetched files and the `end-of-wal-stream` flag |
| `avail`, `partial` | the three archives a cluster can name: its own, the one it was recovered from, the source of a replica cluster |
| `parallel` | `maxParallel`, chosen at the start |
| `cluster` | the fields of the Cluster object that `Restore` and `isStreamingAvailable` read |
| `pc`, `req`, `conf`, `task` | the running executions of `Restore`: where each is, its request, the Cluster it came with, the state of each goroutine of `RestoreList` |
| `missed`, `spoiled`, `stale` | history, for the properties only |

The handler's steps are `RestoreFromSpool`, which copies a prefetched segment to its
destination, and `RemoveFromSpool`, which then removes it (`MoveOut` goes from one volume to
another), or `NotInSpool`; then `IsEndOfWALStream`,
`ResetEndOfWalStream`, `RestoreListStarts`, for each name of the list
`GetStarts`, `GetEnds`, `GetMisses` or `GetFails`, then `RestoreListEnds`,
`SetEndOfWALStream` and `Reply`. A download creates its file and then fills it,
because the destination the code gives to `archive-get` is the final name; a
restart in between leaves a file that is `"torn"`. Two executions that write to
one path (a caller that died and its successor) may leave anything of the two.

The model has one timeline: the history file of the next one is asked for, as
PostgreSQL does whenever it comes back from streaming, and never found. A segment
and its `.partial` do not coexist, as `restorer/wal.go` assumes. The names of a list are
consecutive, which holds with segments of the default size, and with another size up to the
end of a log (`GatheredFollow` in `Recovery` has the rest).

| Run | Shows | Bounds |
|---|---|---|
| `restore_safety` | types; PostgreSQL is given at most one unusable file for each failure, and the prefetched part of one list for each restart (`SpoiledOnce`); after a change of the cluster at most one list of segments still comes from the old archive (`StaleIsOneList`); the end of WAL is reported for segments that were really looked for (`EndIsReal`), with uploads between the downloads of a list; a missing prefetched segment does not end a recovery (`RecoveryIsComplete`) | 3 segments, `maxParallel` 1 and 2, 1 failure, 1 restart, 1 change; new cluster, standby, designated primary and primary with a promotion token, `.partial` segments included; one handler, since these properties are about calls that are not abandoned. `SpoiledOnce` and `StaleIsOneList` go on over a change of the cluster, `EndIsReal` and `RecoveryIsComplete` are about runs without one |
| `restore_live` | a standby gets every archived segment, by archive or stream; the `.partial` of a token-based promotion is restored when `maxParallel` is 1 (`PartialReplayedAlone`) | 2 segments, `maxParallel` 1 and 2, 2 handlers, 1 restart of anything, no change of the cluster. No transient failure: to PostgreSQL a failed `archive-get` is like a missing file, and it asks again |

The counts of `SpoiledOnce` and `StaleIsOneList` stop at the first call that is abandoned:
an abandoned handler goes on writing to the spool of its successor. Both bounds are
reached, with longer lists too: with one less TLC finds a counterexample. `EndIsReal` is
about a system without disturbances because a transient failure followed by a real
miss does make the code report an end at a segment that exists.

Two runs find mistakes of the code: `restore_partial_list` (with `maxParallel` above
1 the `.partial` is never asked for, `PartialReplayed`) and `restore_false_end` (with
`maxParallel` 1 its absence is taken for the end of the archive).

**Fairness.** Weak fairness for each handler, for PostgreSQL's requests (a standby
asks again for ever) and for a streaming attempt, which brings the next segment or
ends (`wal_receiver_timeout`). TLC may end every attempt: the properties do not
count on a stream.

`WalRestoreProofs` proves, for every number of segments and handlers, every length of
the lists and every bound:

* `TypeCorrect`: the type invariant. PostgreSQL moves to segment `NSeg + 1` at most
  because a call it waits for is for the segment it needs (`CallInv`), and no file is
  made for the history file (`NoHistoryFile`).
* `RecoveryEndsWithArchive`: when nothing fails, restarts or changes, the recovery of a
  new cluster ends at a segment that `archive-get` did not find. The property looks
  at one state and is far from inductive. `QuietInv` adds that one handler runs
  (`SerialInv`), what it has learnt at each step (`StepOf`), that what it found stays in
  the archive (`FoundOf`), that each download is at its own path, torn while it runs and
  whole afterwards (`DownloadOf`; two names of a list never share a path because an
  archive does not have a segment and its `.partial`, `ArchiveInv`), that the spool
  has under each name that segment, whole (`SpoolInv`), and so that what is reported
  restored is usable (`RestoredOf`) and "not found" is said of segments that were looked
  for (`NotFoundOf`).
* `EndOfWALIsReal`: the same for the end-of-wal-stream flag, if no promotion token is pending
  (`NoToken`; `restore_false_end` shows that it is needed). `EndInv` says that the flag
  stands behind a segment that was looked for and not found, with nothing but prefetched
  or missed segments before it (`EndAhead`), because a list is of consecutive segments
  (`ListOf`) and what was prefetched is in the archive (`SpoolIsArchived`).

* `LossesArePaid` (`SpoiledOnce`), whatever fails, restarts or changes, until a call is
  abandoned. `SoloInv` says that until then one handler runs, the one PostgreSQL
  waits for: its downloads are those of its list and no two have the same path
  (`DownloadsOf`), each is torn while it runs, and the requested segment is at the
  destination, whole, when its own download has ended (`GettingOf`, `Ready`). `Losses` adds up
  what was delivered and could not be used, what is in the hand of the handler and what
  lies torn in the spool with nobody to complete it (`Loose`); only a failure and a
  restart of the sidecar add to it, the latter at most the slots that were being filled
  (`FillingFew`). The proof needed a bound the first model did not have: with `maxParallel` 1
  and a promotion token the list is the segment and its `.partial`, two names, as the
  TODO at `internal/cnpgi/common/wal.go:500` says, so that a restart can leave one torn
  file where `maxParallel - 1` is none (`Prefetched`); TLC then confirmed it on an instance
  with a token, which `restore_safety` now includes.
* `StaleIsPaid` (`StaleIsOneList`). `Foreign` is the set of segments that may still be restored
  from another archive: those in the spool, all that the list of the running handler may
  reach when it reads another archive, and the one about to be delivered. They lie in the
  window of one list from the next segment on (`SpoolAhead`, `WindowIsOneList`), only a
  change of the Cluster adds to them, and each delivery takes one away (`Delivers`).

Assumptions: `RestoreAssumption`, and that `NoFile` is not a file. The liveness
properties are only model-checked.

### ClientCache

| Variable | Code |
|---|---|
| `cachedObjects`, `mux` | the fields of `ExtendedClient` |
| `proc` | the goroutines in `Get`, `Update`, `Patch` or `Delete`: where each is, the slot of the expired entry, the server's answer |
| `written`, `live` | the API server: when each version of an object was written, and whether the object exists |
| `now` | time, in ticks; an entry keeps the second of its fetch (`TicksPerSecond`) |
| `answer` | history: the version last answered for each object |

`Get` is `GetFromCache` in one step, because the mutex is held, or `GetMiss`, `Fetch`
or `FetchFails`, and `Store`, with the mutex held from the first to the last.
`Update`, `Patch` and `Delete` are `removeObject` under the mutex, then `Write` or
`WriteFails` without it. A key stands for kind, namespace and name.

| Run | Shows | Bounds |
|---|---|---|
| `cache` | no answer was replaced at the server more than the time to live and the way of one answer ago (`BoundedStaleness`); a `Get` never answers with a version older than an earlier `Get` did (`NeverBack`); an object has one entry (`OneEntry`); every call returns (`CallsReturn`) | 3 goroutines on 1 object, 2 writes, seconds of 2 ticks, a time to live of 1 second, answers that are 1 tick on their way, 5 ticks: a fetch in the middle of a second, its expiry, a fetch into the expired slot, and a goroutine that waits for the mutex while two others take it. Entries of different objects share the mutex alone, which one object shows as well |

A read right after an `Update` may answer with the old version: a `Get` between the
removal and the write fills the cache with it again. `BoundedStaleness` bounds how
long. The way of an answer from the server is bounded by an assumption of the environment
(`CallTicks`); without one nothing bounds the age of what a slow answer brings.
A hit copies the cached object without its maps; callers do not write to them, and
that is not modelled.

**Fairness.** Weak fairness of each request to the server (it is answered or fails) and
of what follows it; strong fairness of the two steps that take the mutex: Go's
`sync.Mutex` hands itself to a goroutine that has waited for a millisecond.

`ClientCacheProofs` proves, for any number of goroutines, objects and writes and any
times: `TypeCorrect`, `NoSecondEntry` (`OneEntry`), `AnswersInOrder` (`NeverBack`) and
`AnswersAreFresh` (`BoundedStaleness`). All follow from one inductive invariant, `Inv`:
the goroutine that asks the server holds the mutex (`MuxInv`), so its slot stays the only
entry of the object (`SlotInv`), and each entry and each answer on its way is at least as
new as the last answer and was current when it was fetched (`Recent`, in `EntryInv` and
`StoreInv`). Cutting the fetch to seconds moves it back (`CutToSeconds`), hence an entry
can only die early. Assumptions: `ClockAssumption` and `NoProcAssumption`. `CallsReturn`
is only model-checked.

### Backups, Catalog and Repository

| Variable | Code |
|---|---|
| `clock`, `primary`, `forks` | the second it is, the pod whose PostgreSQL is up, and the second and the LSN of each failover with the history of the timeline it began. The cluster writes one segment in a second; a failover may go back to any LSN of any timeline, since a standby may not have received all of it |
| `stanza`, `stored`, `info` | the repository: its stanza, the backups in it, and `backup.info`, the catalog that `pgbackrest info` reports |
| `lock` | the lock file of each pod (the lock path is in the pod), held by a command |
| `pc`, `pod`, `kind` | the running handlers: where each is, its pod, and whether it serves a `Backup` or an `Archive` |
| `name`, `mine`, `base`, `answer` | locals: the name of the second, the backup its command takes, the `backup.info` that command read, the backup its look-up found |
| `taken`, `met` | history, for the properties only |

`Request`, `CheckStanza`, `CreateStarts`, `CreateEnds`, `TakeStarts`, `TakeStops`,
`TakeSaves`, `TakeExpires`, `LookUpName`, `GetBackup` and `Reply` are the steps of the
handler; a command of pgbackrest is several steps because commands of two pods
overlap. How pgbackrest behaves is modelled from how the code relies on it: its lock is a
file, it reads `backup.info` when a backup starts and rewrites it when the backup
ends, and a backup ends with the expiry of old ones. `LookUpName` without a match leads
to the step `"panicked"`: `Backup` reads on in a catalog it was not given
(`backup.go:151`), and the panic ends the handler or its sidecar.

A backup in `Catalog` is a record of label, name (annotation), start, stop, LSN and first
WAL file; a look-up is the last backup, or the first, that passes the test of the loop in
the code.

| Run | Shows | Bounds |
|---|---|---|
| `backups` | a `Backup` reports the backup it took, unless another one got the same name in the same second (`ReportsOwn`); the missing look-up result is met only when the catalog was in other hands too: a command of another pod, with a lock file of its own, ran next to the handler's, or another handler was between its command and its look-up when the handler's wrote (`PanicNeedsOverlap`); where `stanza-create` is refused because of the lock, the stanza is there or being created, as the comment in `wal.go:151` claims (`RefusedIsHarmless`); the repository stays one of `RepositorySpec` (`KeepsRepository`) | 2 pods, 2 handlers, 2 backups, 1 archive request, 3 seconds, 2 failovers at any LSN, 1 failure or restart, retention of 1: two backups in one second, a failover under a running backup, there and back as well, an expiry between a backup and its look-up, a `backup.info` that forgets a backup. Handlers are interchangeable and the run has no liveness property, so they are a symmetry set |

A failover ends the session of a backup for good (`SessionIsUp`). An earlier form of the
model asked for the pod of the backup to be the primary when it stops; the proof of
`RepositoryIsKept` failed on a failover there and back during a backup, after which the backup
would have ended on a timeline it did not start on, and the session was made what it is.

`RepositoryProofs` proves the invariant of `Repository`, `RepositoryInv`: timelines begin in
their order, each with a history of earlier ones, and every backup that was stored starts and
stops on its timeline, with an ID in the order of the starts. The end of a backup may lie beyond
the LSN at which a later timeline left its own. `BackupsProofs` proves, from
`BackupsAssumption`, `RepositoryAssumption` and `SegmentAssumption`, for any number of pods,
handlers, requests, failovers and faults, one inductive invariant (`BackupsInvariant`) and from
it:

* `Typing` (`TypeOK`).
* `AnswersWithItsOwn` (`ReportsOwn`): what is looked up is a backup of the name that was
  given to the handler's own (`HandlerInv`), so it is another one only if two share a name.
* `PanicsInCompany` (`PanicNeedsOverlap`): as long as nobody else wrote the catalog since
  its command read it, the backup of a handler is the newest one, so no expiry takes it
  and the look-up finds it (`AloneInv`). "Nobody else" is meant of both pods' handlers: the
  end of a command gives its lock back, so a second backup on the same pod may expire the
  first before that one is looked up.
* `RefusalDoesNoHarm` (`RefusedIsHarmless`): the holder of a lock runs a command
  (`LockInv`), and one that takes a backup found a stanza (`StanzaInv`).
* `RepositoryIsKept` (`KeepsRepository`): every step of the handlers is one of `RepositorySpec`
  or a stutter. The backup a command stores has to fit between those that others stored
  meanwhile: `PlaceInv` says that of two running backups the one with the lower ID has stopped
  when the other starts, or never will stop because its session is over; `OwnInv` that a running
  backup lies on the timeline it began on; `RequestInv` counts the IDs that are left for
  requests that wait.

Nothing of `backups` is left to TLC alone.

### Recovery

| Variable | Code |
|---|---|
| `cluster` | the new cluster: its recovery target, and whether it has a WAL volume |
| `jpc`, `chosen` | the pod of the job: where it is, the backup it has chosen |
| `data`, `walDir`, `inData`, `inVolume`, `copying` | PGDATA, what `pg_wal` in it is, and the WAL files here and on the WAL volume |
| `attempts`, `failures` | what is used of the bounds |

The hook is `LoadBackup` (`FindBackupInfo`), `RestoreStarts`, `RestoreEnds`, `CheckLink`,
then for each file `CopyFile` and `FileMoved`, `RemovePgWal` and `Symlink`; `JobFails`
comes between any two. A file is copied and then removed because the two directories are
on two volumes. That CloudNativePG clears PGDATA and the WAL volume for each pod of the
job is outside the repository. The check of the destination of the new cluster's own WAL
is a read: the code does not refuse a stanza in use, and the model leaves it out.

`CanReach` asks whether PostgreSQL's recovery along a timeline comes through the end of a
backup, by the history of that timeline (`LeadsTo`), while the code compares the numbers of
timelines (`catalog.go:182,211,234`). A failover behind the end of a finished backup tells
the two apart: the code then takes a backup that no recovery along the new timeline comes
through, as the comment at `catalog.go:207` hints at when it speaks of backups that span a
timeline. `ChoosesNewest` allows such a choice (`OffTheWay`) and says that it is the only way
in which the code departs from the definition; TLC reaches it.

`GatheredFollow` takes the segments the recovery will ask for through
`gatherWALFilesToRestore` with integers of 3 bits in place of 32: it reaches the last
segment of a log, the greatest number that parses, and names beyond it. The server has a
segment size of its own (`SegmentSize`); the code counts with the default size
(`DefaultWALSegmentSize`), because `wal.go:493` passes none. The run gives the server smaller
segments than the default: the list is right up to the end of a log, and goes astray there.

| Run | Shows | Bounds |
|---|---|---|
| `recovery` | no backup that can reach the target, by the history of timelines and not by the test of the code, is newer than the one chosen, "none" is said only if there is none, and the one chosen can reach the target unless failovers left it behind (`ChoosesNewest`); no WAL file is lost (`NoFileLost`), and the job ends on a complete directory (`ReadyToRecover`), wherever its pods die; a list of segments starts with the one asked for, only goes forward, and is what the server asks for next up to the end of a log (`GatheredFollow`); the cluster is restored if a backup that fits is always in the repository (`EventuallyRestored`) | 2 backups with any start, stop and timeline, retention of 1, 1 failover at any LSN, 3 seconds, a server with segments of half the default size, targets of each kind (none, id, time, LSN on a timeline), 2 WAL files, 3 pods of the job, 1 failure. The cluster is created once the repository's clock has come to its end: changes of the repository meanwhile are further backups, expiries and failovers |

**Fairness.** Weak fairness of "a pod of the job begins, or takes its next step":
processes run, commands return, and CloudNativePG replaces a pod that failed. None
for the repository, for failures or for the creation of the cluster. Three attempts are
enough for a failure and for a backup that expires between its choice and its restore.

### Operator

| Variable | Code |
|---|---|
| `feed` | the Cluster, the Archives, the role and its binding: the versions of each from the one an informer cache still shows to the one the API server has |
| `pre` | each running reconciliation: where it is in `Pre`, and its locals |
| `edits`, `faults` | what is used of the bounds |

`Pre`, `GetArchive`, `GetRole`, `WriteRole`, `GetRoleBinding` and `createRoleBinding` are
the hook's calls to the API server in their order. Reads come from the cache (`Cached`),
writes go to the server (`Set`): a write may fail, take effect and lose its answer, or
be refused because the object exists by now. A reconciliation that gets past them is at
`"pods"`: CloudNativePG creates pods and jobs, and shows each to the `LifecycleHook`
(`Hook`), once or many times. An edit of an Archive starts nothing, because
`ArchiveReconciler.Reconcile` is empty.

`ArchiveAccess` has two sides that two files of the code keep apart: which secrets
the role covers (`specs/secrets.go`) and which ones the commands read
(`credentials/credentials.go`). `PluginConfig` keeps what the code does with entries of
other plugins and disabled ones: the entry that names the Archive need not be enabled,
the one that names the stanza has to be; the source of a replica cluster alone is no
reason to change a pod. A rule of a role that lists no names grants all of them
(`Grants`), as Kubernetes reads an empty `resourceNames` (`role.go:76-89`). `AccessConverges`
is therefore about two things: the names in the role are those of the current Archives and
no others, and what the role grants covers what the commands read.

| Run | Shows | Bounds |
|---|---|---|
| `operator` | pods are created only when the role and the binding are in the API server (`ContinueHasAccess`); once edits stop, the role is the one for the current Archives, covers what the commands read, and nothing takes that back (`AccessConverges`); however often the hook sees a pod there is one sidecar, one volume, and every mount of the main container in the sidecar (`OneSidecar`); an Archive cannot override the variables the plugin sets itself (`OwnVariables`) | 2 overlapping reconciliations, 2 Archives of 3 kinds, one of them without a secret, 2 clusters (one with a recovery and a replica source), 4 pods and jobs, 1 edit, 1 failure or restart, caches that run 1 version behind: a call that goes on with old Archives and writes last, a `Create` that meets the role of another call, a cache that still shows the role before the last write |

**Fairness.** Weak fairness of each step of a reconciliation, its beginning included
(CloudNativePG tries again and has a resync), and of the delivery of each watch. None
for edits, failures, restarts or the creation of pods. A role deleted by hand is left
out: it would be made again by the next reconciliation, after the pods.

### What is proved of Recovery and Operator

`RecoveryProofs`, from `RestoreJobAssumption`, `RecoveryAssumption` and the assumptions of
`Repository`, for any WAL files, clusters, backups and bounds:

* `Typing` (`TypeOK`), `NoFileIsLost` (`NoFileLost`) and `RecoveryIsReady`
  (`ReadyToRecover`). None is inductive: `FilesInv` adds that the file being copied is
  still where it is copied from, and `StepInv` what the job has at each step, so that
  `pg_wal` is empty when it is removed. They hold under any change of the repository
  (`RepositoryStep`).
* `NewestIsChosen` (`ChoosesNewest`), in every catalog that `RepositoryInv` allows, failovers
  behind the end of a backup included. Its lemmas: the look-up, which is written as the loops
  of `catalog.go`, takes the last backup that passes the test of the code (`TheNewestIsPicked`);
  what can reach the target passes (`AcceptsWhatReaches`, since the way to a timeline leads over
  earlier ones, `TheWayIsBack`), and what passes can reach it or is off the way.
* `GatheredInOrder` (`GatheredFollow`), for every segment size of the server and every default
  size: the list starts with the segment asked for and goes forward; it is the next
  segments of the server across logs and up to the last one if the sizes agree, and up to the
  end of a log if they do not; a name that is not a segment does not parse and is not restored.
  The arithmetic is that of `NumberFacts` (division, places in a log).

`OperatorProofs`, from `OperatorAssumption`, `HookAssumption` and `NoSecretAssumption`:

* `Typing` (`TypeOK`).
* `RoleCoversReads`: a role made by `BuildRole` for any Archives grants every read of a
  sidecar; the two sides of `ArchiveAccess` agree for every repository.
* `AccessBeforePods` (`ContinueHasAccess`), for any number of reconciliations and any lag.
  The invariant says that a cache which shows a role or a binding is not ahead of the
  server (`NotAhead`) and what each reconciliation has seen to at each step (`SeenTo`);
  every step lets the feeds grow only (`Grows`), so no call takes away what another
  has seen to (`OneCall`).
* `HookLeavesItsPods`: the hook changes nothing in a pod it has patched, though the
  environment it would give the sidecar differs by then.
* `OneSidecarPerPod` (`OneSidecar`) and `SidecarKeepsItsOwn` (`OwnVariables`), for pods,
  environments and lists of Archives of any length. A pod is fine (`PodFine`) before the
  hook and after it: the volume of the plugins is there and mounted once or not at all,
  and a sidecar comes with the volume, once, with the mounts of PostgreSQL and an environment that
  keeps the first variable of each name (`FirstOfEach`). What the fold over the
  variables makes is shown for a list of any length with the shortest counterexample.

Only model-checked: the liveness properties `EventuallyRestored` and `AccessConverges`.

### Assumptions and method of the proofs

The assumptions on constants are named ASSUMEs that TLC evaluates in the runs. Four are
more than types:

* `SegmentAssumption`: a segment, of the server's size and of the default one, divides a log,
  as `initdb` requires (powers of 2).
* `RepositoryAssumption`: the last position is within the last log that 8 hexadecimal digits
  can name; LSNs are 64 bits and end there.
* `RecoveryAssumption`: `maxParallel` is at most two more than the greatest integer. Beyond it the
  integer that counts the names of a list would wrap around.
* `HookAssumption`: pods come from CloudNativePG without a sidecar of this plugin, a plugin
  that injected the volume has mounted it, and a Cluster keeps its name.

The provers cannot use induction theorems that take a statement as a parameter. Where a
proof needs induction on a number, it takes the set of counterexamples and its least
element (`LeastNumber` in `NumberFacts`, from the library's theorem on well-founded orders).

## Plan

Done: all components that keep state, as the list of modules says, and a theorem for every
safety invariant that a passing run checks. Left, in this order:

1. `SharedSpool`: archive markers and prefetched segments in one spool directory, as a
   primary that becomes a standby and a designated primary that archives what it restores
   use it. To be shown: a marker never answers for a segment that was only prefetched,
   under the conditions that turn out to be necessary.
2. A restore over several timelines, with the history files and a `.partial` that
   coexists with its segment, on the forks that `Repository` has already.

## Not modelled

* The text of flags, environment variables, answers and log lines; certificates;
  resources, security context, probe and image of the sidecar.
* The CA file that every command writes anew (`credentials.go:257`): a command that reads
  half of it fails, as any command may in the models.
* `Status` (one query, one answer), `SetFirstRequired` (it panics), the empty Archive
  controller: there is no state to model.
* TLS and gRPC, process start-up, generated code, manifests, the end-to-end tests and
  build tools.
