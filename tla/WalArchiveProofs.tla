-------------------------- MODULE WalArchiveProofs --------------------------
(***************************************************************************)
(* Proofs about WalArchive, for any number of WAL files, handlers and      *)
(* repositories and any bound on faults, crashes and edits.                *)
(***************************************************************************)
EXTENDS WalArchive, NumberFacts

\* The step forms the handler's actions are written with.
USE DEF Goto, Move, Load, Answers, Create, Member, TouchIf, Ends

\* What a handler knows at each step.
HandlerInv ==
    /\ \A h \in Handlers : pc[h] # "idle" => req[h] \in Wals
    /\ \A h \in Handlers :
          pc[h] \in {"spool", "remove", "info", "create", "gather", "push"} => conf[h] \in Repos
    /\ \A h \in Handlers : pc[h] = "push" => task[h][req[h]] # "none"

\* A success recorded by a goroutine or about to be answered is of a stored file.
SuccessIsStored ==
    /\ \A h \in Handlers, w \in Wals : task[h][w] \in {"pushed", "cleared", "ok"} => w \in Stored
    /\ \A h \in Handlers : pc[h] = "acked" => req[h] \in Stored

StorageInv == TypeOK /\ HandlerInv /\ SuccessIsStored /\ AckedIsStored

-----------------------------------------------------------------------------
\* The types of the variables are kept by every step of the model.
THEOREM TypeCorrect == Spec => []TypeOK
<1> USE ArchiveAssumption DEF ArchiveAssumption, Steps, TaskStates, NoTasks
<1>1. Init => TypeOK
  <2> SUFFICES ASSUME Init PROVE TypeOK
    OBVIOUS
  <2>1. stanzas \in [Repos -> SUBSET {Stanza, PushStanza}]
    BY DEF Init
  <2>2. 0 \in 0 .. MaxFaults /\ 0 \in 0 .. MaxCrashes /\ 0 \in 0 .. MaxEdits
    OBVIOUS
  <2> QED
    BY <2>1, <2>2 DEF Init, TypeOK
<1>2. TypeOK /\ [Next]_vars => TypeOK'
  <2> SUFFICES ASSUME TypeOK, [Next]_vars PROVE TypeOK'
    OBVIOUS
  <2> USE DEF TypeOK, pgVars, diskVars, repoVars, hVars, envVars, cacheVars
  <2>1. CASE Produce
    BY <2>1 DEF Produce
  <2>2. CASE Requesting
    BY <2>2 DEF Requesting, Request
  <2>3. CASE MarkDone
    BY <2>3 DEF MarkDone
  <2>4. ASSUME NEW h \in Handlers, Handle(h) PROVE TypeOK'
    <3> USE DEF Fault
    <3>1. CASE LoadConfiguration(h)
      <4>1. PICK r \in Answers : Load(h, r, r)
        BY <3>1 DEF LoadConfiguration
      <4>2. r \in Repos /\ Acknowledged \subseteq Wals
        BY <4>1 DEF Acknowledged
      <4>3. seen' \in BOOLEAN /\ before' \subseteq Wals /\ cached' \in Repos
        BY <4>1, <4>2
      <4> QED
        BY <4>1, <4>2, <4>3
    <3>2. CASE SpoolContains(h)
      BY <3>2 DEF SpoolContains
    <3>3. CASE SpoolRemove(h)
      BY <3>3 DEF SpoolRemove
    <3>4. CASE CheckDestination(h)
      BY <3>4 DEF CheckDestination
    <3>5. CASE StepFails(h)
      BY <3>5 DEF StepFails
    <3>6. CASE CreateStanza(h)
      BY <3>6 DEF CreateStanza
    <3>7. CASE CreateStanzaFails(h)
      BY <3>7 DEF CreateStanzaFails
    <3>8. CASE Gather(h)
      BY <3>8 DEF Gather
    <3>9. CASE Pushing(h)
      <4>1. PICK w \in Wals : \/ Push(h, w) \/ PushFails(h, w) \/ ClearEmptyFlag(h, w)
                              \/ Touch(h, w) \/ AfterPushFails(h, w)
        BY <3>9 DEF Pushing
      <4>2. CASE Push(h, w)
        <5>1. conf[h] \in Repos => archived' \in [Repos -> SUBSET Wals]
          BY <4>2 DEF Push
        <5>2. conf[h] \notin Repos => archived' = archived
          BY <4>2 DEF Push
        <5> QED
          BY <4>2, <5>1, <5>2 DEF Push
      <4>3. CASE PushFails(h, w)
        BY <4>3 DEF PushFails
      <4>4. CASE ClearEmptyFlag(h, w)
        BY <4>4 DEF ClearEmptyFlag
      <4>5. CASE Touch(h, w)
        BY <4>5 DEF Touch
      <4>6. CASE AfterPushFails(h, w)
        <5>1. task' = [task EXCEPT ![h][w] = "err"]
          BY <4>6 DEF AfterPushFails
        <5> QED
          BY <4>6, <5>1 DEF AfterPushFails
      <4> QED
        BY <4>1, <4>2, <4>3, <4>4, <4>5, <4>6
    <3>10. CASE BatchEnds(h)
      BY <3>10 DEF BatchEnds
    <3>11. CASE Reply(h)
      BY <3>11 DEF Reply
    <3> QED
      BY <2>4, <3>1, <3>2, <3>3, <3>4, <3>5, <3>6, <3>7, <3>8, <3>9, <3>10, <3>11 DEF Handle
  <2>5. CASE PgRestart
    BY <2>5 DEF PgRestart, Crash
  <2>6. CASE SidecarRestart
    BY <2>6 DEF SidecarRestart, Crash, AllHandlersStop
  <2>7. CASE PodReplaced
    BY <2>7 DEF PodReplaced, Crash, AllHandlersStop
  <2>8. CASE EditArchive
    <3>1. target' \in Repos /\ edits' \in 0 .. MaxEdits
      BY <2>8 DEF EditArchive
    <3>2. seen' \in BOOLEAN
      BY <2>8, Zenon DEF EditArchive
    <3>3. UNCHANGED <<pgVars, diskVars, repoVars, hVars, crashes, broken, abandoned, cached,
                      before, faults>>
      BY <2>8 DEF EditArchive
    <3> QED
      BY <3>1, <3>2, <3>3
  <2>9. CASE BackupCreatesStanza
    BY <2>9 DEF BackupCreatesStanza
  <2>10. CASE UNCHANGED vars
    BY <2>10 DEF vars
  <2> QED
    BY <2>1, <2>2, <2>3, <2>4, <2>5, <2>6, <2>7, <2>8, <2>9, <2>10 DEF Next
<1> QED
  BY <1>1, <1>2, PTL DEF Spec

-----------------------------------------------------------------------------
\* Only archive-push changes a repository, and it only adds to it.
LEMMA StoredGrows ==
    ASSUME TypeOK, HandlerInv, [Next]_vars
    PROVE  Stored \subseteq Stored'
<1> USE DEF pgVars, diskVars, repoVars, hVars, envVars, cacheVars, Stored
<1>1. CASE \E h \in Handlers, w \in Wals : Push(h, w)
  BY <1>1 DEF Push, TypeOK
<1>2. CASE ~ \E h \in Handlers, w \in Wals : Push(h, w)
  <2>1. archived' = archived
    BY <1>2 DEF Next, vars, Produce, Requesting, Request, MarkDone, Handle, LoadConfiguration,
      SpoolContains, SpoolRemove, CheckDestination, StepFails, CreateStanza, CreateStanzaFails,
      Gather, Pushing, PushFails, ClearEmptyFlag, Touch, AfterPushFails, BatchEnds, Reply,
      PgRestart, SidecarRestart, PodReplaced, EditArchive, BackupCreatesStanza
  <2> QED
    BY <2>1
<1> QED
  BY <1>1, <1>2

\* A successful archive-push stores the file.
LEMMA PushStores ==
    ASSUME TypeOK, HandlerInv, NEW h \in Handlers, NEW w \in Wals, Push(h, w)
    PROVE  w \in Stored'
BY DEF Push, TypeOK, HandlerInv, Stored

\* What each handler step means is kept by every step of the model.
LEMMA HandlerInvStep ==
    ASSUME TypeOK, HandlerInv, [Next]_vars
    PROVE  HandlerInv'
<1> USE DEF TypeOK, HandlerInv, pgVars, diskVars, repoVars, hVars, envVars, cacheVars, TaskStates, Steps
<1>1. CASE UNCHANGED hVars
  BY <1>1
<1>2. ASSUME NEW h \in Handlers, NEW w \in Wals, Request(h, w) PROVE HandlerInv'
  BY <1>2 DEF Request
<1>3. ASSUME NEW h \in Handlers, Handle(h) PROVE HandlerInv'
  <2>1. CASE LoadConfiguration(h)
    BY <2>1 DEF LoadConfiguration
  <2>2. CASE SpoolContains(h) \/ SpoolRemove(h)
    BY <2>2 DEF SpoolContains, SpoolRemove
  <2>3. CASE CheckDestination(h) \/ StepFails(h)
    BY <2>3 DEF CheckDestination, StepFails
  <2>4. CASE CreateStanza(h) \/ CreateStanzaFails(h)
    BY <2>4 DEF CreateStanza, CreateStanzaFails
  <2>5. CASE Gather(h)
    <3>1. req[h] \in Wals /\ task'[h][req[h]] = "pushing"
      BY <2>5 DEF Gather
    <3>2. \A g \in Handlers \ {h} : task'[g] = task[g] /\ pc'[g] = pc[g]
      BY <2>5 DEF Gather
    <3>3. pc'[h] = "push" /\ conf[h] \in Repos /\ UNCHANGED <<req, conf>>
      BY <2>5 DEF Gather
    <3> QED
      BY <3>1, <3>2, <3>3
  <2>6. CASE Pushing(h)
    <3>1. \E w \in Wals, s \in TaskStates \ {"none"} : task' = [task EXCEPT ![h][w] = s]
      BY <2>6 DEF Pushing, Push, PushFails, ClearEmptyFlag, Touch, AfterPushFails
    <3>2. UNCHANGED <<pc, req, conf>>
      BY <2>6 DEF Pushing, Push, PushFails, ClearEmptyFlag, Touch, AfterPushFails
    <3> QED
      BY <3>1, <3>2
  <2>7. CASE BatchEnds(h)
    BY <2>7 DEF BatchEnds
  <2>8. CASE Reply(h)
    BY <2>8 DEF Reply
  <2> QED
    BY <1>3, <2>1, <2>2, <2>3, <2>4, <2>5, <2>6, <2>7, <2>8 DEF Handle
<1>4. CASE AllHandlersStop
  BY <1>4 DEF AllHandlersStop
<1> QED
  <2>1. CASE Produce \/ MarkDone \/ PgRestart \/ EditArchive \/ BackupCreatesStanza
        \/ UNCHANGED vars
    BY <2>1, <1>1 DEF Produce, MarkDone, PgRestart, EditArchive, BackupCreatesStanza, vars
  <2>2. CASE SidecarRestart \/ PodReplaced
    BY <2>2, <1>4 DEF SidecarRestart, PodReplaced
  <2> QED
    BY <2>1, <2>2, <1>2, <1>3 DEF Next, Requesting

-----------------------------------------------------------------------------
\* Successes and acknowledgements stay true because stored files stay stored.
LEMMA StorageStep ==
    ASSUME StorageInv, TypeOK', HandlerInv', [Next]_vars
    PROVE  SuccessIsStored' /\ AckedIsStored'
<1> USE DEF StorageInv
<1>1. Stored \subseteq Stored'
  BY StoredGrows
<1> USE DEF SuccessIsStored, AckedIsStored, Acknowledged, TypeOK, HandlerInv,
        pgVars, diskVars, repoVars, hVars, envVars, cacheVars, TaskStates, Steps
<1>2. CASE UNCHANGED hVars /\ Acknowledged' \cup marker' \subseteq Acknowledged \cup marker
  BY <1>1, <1>2
<1>3. ASSUME NEW h \in Handlers, NEW w \in Wals, Request(h, w)
      PROVE  SuccessIsStored' /\ AckedIsStored'
  BY <1>1, <1>3 DEF Request
<1>4. ASSUME NEW h \in Handlers, Handle(h) PROVE SuccessIsStored' /\ AckedIsStored'
  <2>1. CASE LoadConfiguration(h) \/ SpoolContains(h) \/ CheckDestination(h) \/ StepFails(h)
             \/ CreateStanza(h) \/ CreateStanzaFails(h)
    BY <1>1, <2>1 DEF LoadConfiguration, SpoolContains, CheckDestination, StepFails,
                      CreateStanza, CreateStanzaFails
  <2>2. CASE SpoolRemove(h)
    BY <1>1, <2>2 DEF SpoolRemove
  <2>3. CASE Gather(h)
    <3>1. \A w \in Wals : task'[h][w] \in {"pushing", "none"}
      BY <2>3 DEF Gather
    <3>2. \A g \in Handlers \ {h} : task'[g] = task[g] /\ pc'[g] = pc[g]
      BY <2>3 DEF Gather
    <3>3. pc'[h] = "push" /\ UNCHANGED <<req, granted, done, marker>>
      BY <2>3 DEF Gather
    <3> QED
      BY <1>1, <3>1, <3>2, <3>3
  <2>4. CASE Pushing(h)
    <3>1. PICK w \in Wals : \/ Push(h, w) \/ PushFails(h, w) \/ ClearEmptyFlag(h, w)
                            \/ Touch(h, w) \/ AfterPushFails(h, w)
      BY <2>4 DEF Pushing
    <3>2. CASE Push(h, w)
      <4>1. w \in Stored'
        BY <3>2, PushStores
      <4> QED
        BY <1>1, <3>2, <4>1 DEF Push
    <3>3. CASE PushFails(h, w)
      BY <1>1, <3>3 DEF PushFails
    <3>4. CASE ClearEmptyFlag(h, w)
      BY <1>1, <3>4 DEF ClearEmptyFlag
    <3>5. CASE AfterPushFails(h, w)
      <4>1. /\ task' = [task EXCEPT ![h][w] = "err"]
            /\ UNCHANGED <<pc, req, granted, done, marker>>
        BY <3>5 DEF AfterPushFails
      <4> QED
        BY <1>1, <4>1
    <3>6. CASE Touch(h, w)
      <4>1. w \in Stored /\ marker' \subseteq marker \cup {w}
        BY <3>6 DEF Touch
      <4>2. SuccessIsStored'
        BY <1>1, <3>6, <4>1 DEF Touch
      <4>3. AckedIsStored'
        BY <1>1, <3>6, <4>1 DEF Touch
      <4> QED
        BY <4>2, <4>3
    <3> QED
      BY <3>1, <3>2, <3>3, <3>4, <3>5, <3>6
  <2>5. CASE BatchEnds(h)
    <3>1. pc'[h] = "acked" => req[h] \in Stored
      BY <2>5 DEF BatchEnds, Batch
    <3> QED
      BY <1>1, <2>5, <3>1 DEF BatchEnds
  <2>6. CASE Reply(h)
    BY <1>1, <2>6 DEF Reply, NoTasks
  <2> QED
    BY <1>4, <2>1, <2>2, <2>3, <2>4, <2>5, <2>6 DEF Handle
<1>5. CASE SidecarRestart \/ PodReplaced
  <2>1. SuccessIsStored'
    BY <1>5 DEF SidecarRestart, PodReplaced, AllHandlersStop, NoTasks
  <2>2. Acknowledged' \cup marker' \subseteq Acknowledged \cup marker
    <3>1. CASE SidecarRestart
      BY <3>1 DEF SidecarRestart
    <3>2. CASE PodReplaced
      <4>1. done' = done /\ marker' = {} /\ {w \in Wals : w = granted'} = {}
        BY <3>2 DEF PodReplaced, Wals
      <4> QED
        BY <4>1
    <3> QED
      BY <1>5, <3>1, <3>2
  <2> QED
    BY <1>1, <2>1, <2>2
<1>6. CASE Produce \/ MarkDone \/ PgRestart \/ EditArchive \/ BackupCreatesStanza
      \/ UNCHANGED vars
  <2>1. UNCHANGED hVars
    BY <1>6 DEF Produce, MarkDone, PgRestart, EditArchive, BackupCreatesStanza, vars
  <2>2. marker' = marker
    BY <1>6 DEF Produce, MarkDone, PgRestart, EditArchive, BackupCreatesStanza, vars
  <2>3. CASE MarkDone
    BY <1>2, <2>1, <2>2, <2>3 DEF MarkDone, Wals
  <2>4. CASE PgRestart
    BY <1>2, <2>1, <2>2, <2>4 DEF PgRestart, Wals
  <2>5. CASE Produce \/ EditArchive \/ BackupCreatesStanza \/ UNCHANGED vars
    BY <1>2, <2>1, <2>2, <2>5 DEF Produce, EditArchive, BackupCreatesStanza, vars
  <2> QED
    BY <1>6, <2>3, <2>4, <2>5
<1> QED
  BY <1>3, <1>4, <1>5, <1>6 DEF Next, Requesting

\* The inductive invariant: types, what a handler knows at each step, and that
\* every success on its way to PostgreSQL is of a stored file.
THEOREM StorageInvariant == Spec => []StorageInv
<1>1. Init => HandlerInv /\ SuccessIsStored /\ AckedIsStored
  BY DEF Init, HandlerInv, SuccessIsStored, AckedIsStored, Acknowledged, Wals, NoTasks
<1>2. TypeOK' /\ StorageInv /\ [Next]_vars => StorageInv'
  BY HandlerInvStep, StorageStep DEF StorageInv
<1> QED
  BY <1>1, <1>2, TypeCorrect, PTL DEF Spec, StorageInv

\* PostgreSQL is never told that a WAL file is archived, nor promised it by a
\* marker, unless a repository holds it, whatever overlaps, fails or restarts.
THEOREM AckedFilesAreStored == Spec => []AckedIsStored
BY StorageInvariant, PTL DEF StorageInv

-----------------------------------------------------------------------------
\* Requests and batches are of files PostgreSQL completed; what it waits for or
\* was told is still .ready.
CallInv ==
    /\ granted # 0 => granted \in ready /\ caller = NoHandler
    /\ caller # NoHandler => pc[caller] # "idle" /\ req[caller] \in ready
    /\ \A h \in Handlers : pc[h] # "idle" => req[h] \in ready \cup done
    /\ \A h \in Handlers, w \in Wals : task[h][w] # "none" =>
          w \in ready \cup done /\ pc[h] \in {"push", "acked", "failed"}

\* The handler's steps up to the choice of a batch.
BeforeGather(h) ==
    \/ LoadConfiguration(h) \/ SpoolContains(h) \/ SpoolRemove(h) \/ CheckDestination(h)
    \/ StepFails(h) \/ CreateStanza(h) \/ CreateStanzaFails(h)

\* The handler's steps before the batch store no WAL file and leave PostgreSQL's state
\* and the batches alone.
LEMMA BeforeGatherFrame ==
    ASSUME TypeOK, NEW h \in Handlers, BeforeGather(h)
    PROVE  /\ UNCHANGED <<ready, done, granted, caller, req, task, abandoned, archived>>
           /\ pc[h] \notin {"idle", "push", "acked", "failed"}
           /\ \E s \in Steps \ {"idle", "push"} : pc' = [pc EXCEPT ![h] = s]
BY DEF BeforeGather, LoadConfiguration, SpoolContains, SpoolRemove, CheckDestination, StepFails,
       CreateStanza, CreateStanzaFails, pgVars, repoVars, hVars, envVars, cacheVars, Steps, TypeOK

\* The goroutines of a batch move one member forward, keep the batch and leave
\* PostgreSQL's state alone.
LEMMA PushingFrame ==
    ASSUME TypeOK, NEW h \in Handlers, Pushing(h)
    PROVE  /\ UNCHANGED <<ready, done, granted, caller, req, pc, abandoned>>
           /\ pc[h] = "push"
           /\ \E w \in Wals, s \in TaskStates \ {"none"} :
                task[h][w] # "none" /\ task' = [task EXCEPT ![h][w] = s]
BY DEF Pushing, Push, PushFails, ClearEmptyFlag, Touch, AfterPushFails,
       pgVars, hVars, envVars, cacheVars, TaskStates, TypeOK

\* Every step of the model keeps batches and markers to files PostgreSQL completed.
LEMMA CallInvStep ==
    ASSUME TypeOK, HandlerInv, CallInv, [Next]_vars
    PROVE  CallInv'
<1> USE ArchiveAssumption
    DEF ArchiveAssumption, TypeOK, CallInv, pgVars, diskVars, repoVars, hVars, envVars, cacheVars, Steps
<1>1. CASE Produce
  BY <1>1 DEF Produce
<1>2. ASSUME NEW h \in Handlers, NEW w \in Wals, Request(h, w) PROVE CallInv'
  BY <1>2 DEF Request, IsNext
<1>3. CASE MarkDone
  BY <1>3 DEF MarkDone
<1>4. ASSUME NEW h \in Handlers, BeforeGather(h) PROVE CallInv'
  BY <1>4, BeforeGatherFrame
<1>5. ASSUME NEW h \in Handlers, Gather(h) PROVE CallInv'
  <2>1. \A w \in Wals : task'[h][w] # "none" => w \in ready \cup {req[h]}
    BY <1>5 DEF Gather
  <2>2. \A g \in Handlers \ {h} : task'[g] = task[g] /\ pc'[g] = pc[g]
    BY <1>5 DEF Gather
  <2>3. pc[h] = "gather" /\ pc'[h] = "push"
        /\ UNCHANGED <<ready, done, granted, caller, req>>
    BY <1>5 DEF Gather
  <2> QED
    BY <2>1, <2>2, <2>3
<1>6. ASSUME NEW h \in Handlers, Pushing(h) PROVE CallInv'
  BY <1>6, PushingFrame
<1>7. ASSUME NEW h \in Handlers, BatchEnds(h) PROVE CallInv'
  BY <1>7 DEF BatchEnds
<1>8. ASSUME NEW h \in Handlers, Reply(h) PROVE CallInv'
  BY <1>8 DEF Reply, NoTasks
<1>9. CASE PgRestart \/ EditArchive \/ BackupCreatesStanza \/ UNCHANGED vars
  BY <1>9 DEF PgRestart, EditArchive, BackupCreatesStanza, vars
<1>10. CASE SidecarRestart \/ PodReplaced
  BY <1>10 DEF SidecarRestart, PodReplaced, AllHandlersStop, NoTasks
<1> QED
  BY <1>1, <1>2, <1>3, <1>4, <1>5, <1>6, <1>7, <1>8, <1>9, <1>10
     DEF Next, Requesting, Handle, BeforeGather

\* The archive never answers for a file that PostgreSQL did not complete.
THEOREM CallInvariant == Spec => []CallInv
<1>1. Init => CallInv
  BY ArchiveAssumption DEF ArchiveAssumption, Init, CallInv, NoTasks
<1>2. TypeOK /\ StorageInv /\ CallInv /\ [Next]_vars => CallInv'
  BY CallInvStep DEF StorageInv
<1> QED
  BY <1>1, <1>2, TypeCorrect, StorageInvariant, PTL DEF Spec

-----------------------------------------------------------------------------
\* WalArchive implements ArchivePromise: every step stores one WAL file,
\* acknowledges one that is stored, completes one, or changes nothing of them.
THEOREM ArchiveKeepsPromise == Spec => KeepsPromise
<1> USE DEF Promise!pvars, Promise!Files, Wals
<1>1. Init => Promise!PInit
  BY DEF Init, Promise!PInit, Stored
<1>2. StorageInv /\ CallInv /\ [Next]_vars => [Promise!PNext]_(Promise!pvars)
  <2> SUFFICES ASSUME StorageInv, CallInv, [Next]_vars
               PROVE  [Promise!PNext]_(Promise!pvars)
    OBVIOUS
  <2> USE DEF StorageInv, CallInv, TypeOK
  <2>1. CASE Produce
    <3>1. PICK w \in Wals : w \notin ready \cup done /\ ready' = ready \cup {w}
      BY <2>1 DEF Produce
    <3>2. Promise!PProduce(w)
      BY <2>1, <3>1 DEF Produce, Promise!PProduce, Stored, repoVars
    <3> QED
      BY <3>1, <3>2 DEF Promise!PNext
  <2>2. CASE MarkDone
    <3>1. granted \in Wals /\ granted \in Stored
      BY <2>2 DEF MarkDone, AckedIsStored, Acknowledged
    <3>2. Promise!PAcknowledge(granted)
      BY <2>2, <3>1 DEF MarkDone, Promise!PAcknowledge, Stored, repoVars
    <3> QED
      BY <3>1, <3>2 DEF Promise!PNext
  <2>3. ASSUME NEW h \in Handlers, NEW w \in Wals, Push(h, w)
        PROVE  [Promise!PNext]_(Promise!pvars)
    <3>1. w \in ready \cup done /\ UNCHANGED <<ready, done>>
      BY <2>3 DEF Push, pgVars
    <3>2. Stored' = Stored \cup {w}
      BY <2>3 DEF Push, Stored, HandlerInv
    <3>3. Promise!PStore(w)
      BY <3>1, <3>2 DEF Promise!PStore
    <3> QED
      BY <3>3 DEF Promise!PNext
  <2>4. CASE ~Produce /\ ~MarkDone /\ ~ \E h \in Handlers, w \in Wals : Push(h, w)
    <3>1. UNCHANGED <<ready, done, archived>>
      BY <2>4 DEF Next, vars, Requesting, Request, Handle, LoadConfiguration,
        SpoolContains, SpoolRemove, CheckDestination, StepFails, CreateStanza, CreateStanzaFails,
        Gather, Pushing, PushFails, ClearEmptyFlag, Touch, AfterPushFails, BatchEnds, Reply,
        PgRestart, SidecarRestart, PodReplaced, EditArchive, BackupCreatesStanza,
        pgVars, diskVars, repoVars, hVars, envVars, cacheVars
    <3> QED
      BY <3>1 DEF Stored
  <2> QED
    BY <2>1, <2>2, <2>3, <2>4
<1> QED
  BY <1>1, <1>2, StorageInvariant, CallInvariant, PTL DEF Spec, KeepsPromise, Promise!PSafety

-----------------------------------------------------------------------------
\* As long as no call was abandoned, only the handler PostgreSQL waits for runs; it
\* has seen whether the requested file had a marker, and that is still so.
SerialInv ==
    ~abandoned =>
      /\ \A h \in Handlers : pc[h] # "idle" => caller = h
      /\ \A h \in Handlers : pc[h] = "remove" => req[h] \in marker
      /\ \A h \in Handlers :
            pc[h] \in {"info", "create", "gather", "push", "acked"} => req[h] \notin marker
      /\ \A h \in Handlers, w \in Wals : task[h][w] # "none" => w \in ready
      /\ marker \subseteq ready \ {granted}

\* Every step keeps what a serial caller guarantees, or is the one that abandons a call.
LEMMA SerialStep ==
    ASSUME TypeOK, HandlerInv, CallInv, CallInv', SerialInv, [Next]_vars
    PROVE  SerialInv'
<1> SUFFICES ASSUME ~abandoned' PROVE SerialInv'
  BY DEF SerialInv
<1>1. ~abandoned
  BY DEF Next, vars, Produce, Requesting, Request, MarkDone, Handle, LoadConfiguration,
    SpoolContains, SpoolRemove, CheckDestination, StepFails, CreateStanza, CreateStanzaFails,
    Gather, Pushing, Push, PushFails, ClearEmptyFlag, Touch, AfterPushFails, BatchEnds, Reply,
    PgRestart, SidecarRestart, PodReplaced, EditArchive, BackupCreatesStanza, envVars, cacheVars, TypeOK
<1> USE <1>1 DEF TypeOK, SerialInv, CallInv, HandlerInv, pgVars, diskVars, repoVars, hVars,
        envVars, cacheVars, Steps
<1>2. CASE Produce
  BY <1>2 DEF Produce
<1>3. ASSUME NEW h \in Handlers, NEW w \in Wals, Request(h, w) PROVE SerialInv'
  BY <1>3, ArchiveAssumption DEF Request, IsNext, ArchiveAssumption
<1>4. CASE MarkDone
  <2>1. \A h \in Handlers : pc[h] = "idle"
    BY <1>4, ArchiveAssumption DEF MarkDone, ArchiveAssumption
  <2>2. marker \subseteq ready' \ {granted'}
    BY <1>4 DEF MarkDone, Wals
  <2> QED
    BY <1>4, <2>1, <2>2 DEF MarkDone
<1>5. ASSUME NEW h \in Handlers, Handle(h) PROVE SerialInv'
  <2>1. CASE LoadConfiguration(h)
    BY <2>1 DEF LoadConfiguration
  <2>2. CASE SpoolContains(h)
    BY <2>2 DEF SpoolContains
  <2>3. CASE SpoolRemove(h)
    BY <2>3 DEF SpoolRemove
  <2>4. CASE CheckDestination(h) \/ StepFails(h)
    BY <2>4 DEF CheckDestination, StepFails
  <2>5. CASE CreateStanza(h) \/ CreateStanzaFails(h)
    BY <2>5 DEF CreateStanza, CreateStanzaFails
  <2>6. CASE Gather(h)
    <3>1. req[h] \in ready
      BY <2>6, ArchiveAssumption DEF Gather, ArchiveAssumption
    <3>2. \A g \in Handlers, v \in Wals : task'[g][v] # "none" => v \in ready
      BY <2>6, <3>1 DEF Gather
    <3> QED
      BY <2>6, <3>2 DEF Gather
  <2>7. CASE Pushing(h)
    <3>1. PICK w \in Wals : \/ Push(h, w) \/ PushFails(h, w) \/ ClearEmptyFlag(h, w)
                            \/ Touch(h, w) \/ AfterPushFails(h, w)
      BY <2>7 DEF Pushing
    <3>2. CASE Touch(h, w)
      <4>1. caller = h /\ granted = 0 /\ w \in ready
        <5>1. task[h][w] # "none" /\ pc[h] = "push"
          BY <3>2 DEF Touch
        <5>2. caller = h /\ \A g \in Handlers : g # h => pc[g] = "idle"
          BY <5>1
        <5>3. granted = 0
          BY <5>2, ArchiveAssumption DEF ArchiveAssumption
        <5>4. w \in ready
          BY <5>1
        <5> QED
          BY <5>2, <5>3, <5>4
      <4>2. marker' \subseteq marker \cup {w} /\ req[h] \notin marker'
        BY <3>2 DEF Touch
      <4>3. UNCHANGED <<ready, granted, caller, pc, req>> /\ pc[h] = "push"
        BY <3>2 DEF Touch
      <4>4. \A g \in Handlers : g # h => pc'[g] = "idle"
        BY <4>1, <4>3
      <4>5. \A g \in Handlers, v \in Wals : task'[g][v] # "none" => v \in ready
        BY <3>2, <4>1 DEF Touch
      <4>6. marker' \subseteq ready' \ {granted'}
        <5>1. w # 0
          BY <3>1 DEF Wals
        <5>2. marker \subseteq ready \ {granted} /\ w \in ready \ {granted}
          BY <4>1, <5>1
        <5> QED
          BY <4>2, <4>3, <5>2
      <4> QED
        BY <4>1, <4>2, <4>3, <4>4, <4>5, <4>6
    <3>3. CASE ~Touch(h, w)
      <4>1. UNCHANGED <<ready, granted, caller, pc, req, marker>>
        BY <3>1, <3>3 DEF Push, PushFails, ClearEmptyFlag, AfterPushFails
      <4>2. task[h][w] # "none"
        BY <3>1, <3>3 DEF Push, PushFails, ClearEmptyFlag, AfterPushFails
      <4>3. \A g \in Handlers, v \in Wals : <<g, v>> # <<h, w>> => task'[g][v] = task[g][v]
        BY <3>1, <3>3 DEF Push, PushFails, ClearEmptyFlag, AfterPushFails
      <4>4. \A g \in Handlers, v \in Wals : task'[g][v] # "none" => v \in ready
        BY <4>2, <4>3
      <4> QED
        BY <4>1, <4>4
    <3> QED
      BY <3>2, <3>3
  <2>8. CASE BatchEnds(h)
    BY <2>8 DEF BatchEnds
  <2>9. CASE Reply(h)
    BY <2>9 DEF Reply
  <2> QED
    BY <1>5, <2>1, <2>2, <2>3, <2>4, <2>5, <2>6, <2>7, <2>8, <2>9 DEF Handle
<1>6. CASE EditArchive \/ BackupCreatesStanza \/ UNCHANGED vars
  BY <1>6 DEF EditArchive, BackupCreatesStanza, vars
<1>7. CASE PgRestart
  <2>1. \A h \in Handlers : pc[h] = "idle"
    <3>1. caller = NoHandler
      BY <1>7, Zenon DEF PgRestart
    <3> QED
      BY <3>1, ArchiveAssumption DEF ArchiveAssumption
  <2>2. marker \subseteq ready \ {granted'}
    BY <1>7 DEF PgRestart, Wals
  <2>3. UNCHANGED <<pc, req, task, marker, ready>>
    BY <1>7 DEF PgRestart
  <2>4. \A h \in Handlers, w \in Wals : task[h][w] = "none"
    BY <2>1
  <2> QED
    BY <2>1, <2>2, <2>3, <2>4
<1>8. CASE SidecarRestart \/ PodReplaced
  BY <1>8 DEF SidecarRestart, PodReplaced, AllHandlersStop, NoTasks
<1> QED
  BY <1>2, <1>3, <1>4, <1>5, <1>6, <1>7, <1>8 DEF Next, Requesting

\* Serial calls keep what the one running handler knows of the spool.
THEOREM SerialInvariant == Spec => []SerialInv
<1>1. Init => SerialInv
  BY DEF Init, SerialInv, NoTasks
<1>2. StorageInv /\ CallInv /\ CallInv' /\ SerialInv /\ [Next]_vars => SerialInv'
  BY SerialStep DEF StorageInv
<1> QED
  BY <1>1, <1>2, StorageInvariant, CallInvariant, PTL DEF Spec

\* A file that was found marked is stored, whatever happens to the marker.
MarkedIsStored == \A h \in Handlers : pc[h] = "remove" => req[h] \in Stored

\* The handler that found the marker found it of a stored file, and that stays.
LEMMA MarkedStep ==
    ASSUME StorageInv, MarkedIsStored, [Next]_vars
    PROVE  MarkedIsStored'
<1>1. Stored \subseteq Stored'
  BY StoredGrows DEF StorageInv
<1> SUFFICES ASSUME NEW h \in Handlers, pc'[h] = "remove" PROVE req'[h] \in Stored'
  BY DEF MarkedIsStored
<1>2. CASE pc[h] = "remove" /\ req'[h] = req[h]
  BY <1>1, <1>2 DEF MarkedIsStored
<1>3. CASE SpoolContains(h)
  BY <1>1, <1>3 DEF SpoolContains, StorageInv, AckedIsStored, TypeOK
<1>4. CASE ~SpoolContains(h)
  <2> USE DEF StorageInv, TypeOK, hVars
  <2>1. ASSUME NEW g \in Handlers, NEW w \in Wals, Request(g, w)
        PROVE  pc[h] = "remove" /\ req'[h] = req[h]
    BY <2>1 DEF Request
  <2>2. ASSUME NEW g \in Handlers, Handle(g) PROVE pc[h] = "remove" /\ req'[h] = req[h]
    BY <1>4, <2>2 DEF Handle, LoadConfiguration, SpoolContains, SpoolRemove, CheckDestination,
       StepFails, CreateStanza, CreateStanzaFails, Gather, Pushing, Push, PushFails,
       ClearEmptyFlag, Touch, AfterPushFails, BatchEnds, Reply
  <2>3. ~ (SidecarRestart \/ PodReplaced)
    BY DEF SidecarRestart, PodReplaced, AllHandlersStop
  <2>4. ASSUME Produce \/ MarkDone \/ PgRestart \/ EditArchive \/ BackupCreatesStanza
               \/ UNCHANGED vars
        PROVE  pc[h] = "remove" /\ req'[h] = req[h]
    <3>1. UNCHANGED <<pc, req>>
      BY <2>4 DEF Produce, MarkDone, PgRestart, EditArchive, BackupCreatesStanza, vars
    <3> QED
      BY <3>1
  <2> HIDE DEF StorageInv, TypeOK, hVars
  <2>5. pc[h] = "remove" /\ req'[h] = req[h]
    BY <2>1, <2>2, <2>3, <2>4 DEF Next, Requesting
  <2> QED
    BY <1>2, <2>5
<1> QED
  BY <1>3, <1>4

\* DeleteFromSpool answers truthfully for the file it found marked; and while PostgreSQL
\* calls "at most once at each instant" nobody else removes the marker before it.
THEOREM MarkerIsStillThere == Spec => []RemoveFindsMarker
<1>1. Init => MarkedIsStored
  BY DEF Init, MarkedIsStored
<1>2. StorageInv /\ MarkedIsStored /\ [Next]_vars => MarkedIsStored'
  BY MarkedStep
<1>3. SerialInv /\ MarkedIsStored => RemoveFindsMarker
  BY DEF SerialInv, MarkedIsStored, RemoveFindsMarker
<1> QED
  BY <1>1, <1>2, <1>3, StorageInvariant, SerialInvariant, PTL DEF Spec

\* While calls are serial no marker outlives the .ready status of its file.
THEOREM SerialCallsKeepSpoolExact == Spec => []NoStaleMarker
<1>1. SerialInv => NoStaleMarker
  BY DEF SerialInv, NoStaleMarker
<1> QED
  BY <1>1, SerialInvariant, PTL

-----------------------------------------------------------------------------
(* Where the files of a batch and their markers are, when the flag of the  *)
(* empty archive goes, what a change of the repository costs, and that     *)
(* nothing is pushed twice for no reason.                                  *)

\* Steps of which the batches, the markers and the repositories know nothing.
LEMMA OutsideFrame ==
    ASSUME TypeOK, Produce \/ MarkDone \/ PgRestart \/ EditArchive \/ BackupCreatesStanza
                   \/ UNCHANGED vars
    PROVE  /\ UNCHANGED <<hVars, marker, emptyFlag, archived>>
           /\ Acknowledged' \subseteq Acknowledged
<1> USE DEF pgVars, diskVars, repoVars, hVars, envVars, cacheVars
<1>1. UNCHANGED <<hVars, marker, emptyFlag, archived>>
  BY DEF Produce, MarkDone, PgRestart, EditArchive, BackupCreatesStanza, vars
<1>2. CASE MarkDone
  BY <1>1, <1>2 DEF MarkDone, Acknowledged, Wals, TypeOK
<1>3. CASE PgRestart
  BY <1>1, <1>3 DEF PgRestart, Acknowledged, Wals
<1>4. CASE Produce \/ EditArchive \/ BackupCreatesStanza \/ UNCHANGED vars
  BY <1>1, <1>4 DEF Produce, EditArchive, BackupCreatesStanza, vars, Acknowledged
<1> QED
  BY <1>1, <1>2, <1>3, <1>4

\* A restart leaves no handler and adds no marker.
LEMMA RestartFrame ==
    ASSUME TypeOK, SidecarRestart \/ PodReplaced
    PROVE  /\ AllHandlersStop
           /\ marker' \subseteq marker /\ Acknowledged' \subseteq Acknowledged
           /\ UNCHANGED <<ready, done, emptyFlag, archived, target, stanzas, edits, seen, before,
                          broken, abandoned, faults>>
           /\ crashes' = crashes + 1
<1> USE DEF diskVars, repoVars
<1>1. CASE SidecarRestart
  BY <1>1 DEF SidecarRestart, Acknowledged, Crash
<1>2. CASE PodReplaced
  BY <1>2 DEF PodReplaced, Acknowledged, Wals, Crash
<1> QED
  BY <1>1, <1>2

-----------------------------------------------------------------------------
(* While the Archive object keeps its repository.                          *)

\* Every handler works with that repository, and every success it has recorded is of a file
\* that is there.
TargetInv ==
    edits = 0 =>
      /\ cached \in {target, NoRepo}
      /\ \A h \in Handlers : conf[h] \in {target, NoRepo}
      /\ \A h \in Handlers, w \in Wals :
            task[h][w] \in {"pushed", "cleared", "ok"} => w \in archived[target]
      /\ \A h \in Handlers : pc[h] = "acked" => req[h] \in archived[target]
      /\ Acknowledged \cup marker \subseteq archived[target]

\* Each step of a handler keeps to the repository.
LEMMA TargetHandlerStep ==
    ASSUME TypeOK, HandlerInv, TargetInv, edits = 0, NEW h \in Handlers, Handle(h)
    PROVE  TargetInv'
<1> USE DEF TypeOK, HandlerInv, TargetInv, pgVars, diskVars, repoVars, hVars, envVars, cacheVars,
        TaskStates, Steps
<1>1. CASE LoadConfiguration(h)
  BY <1>1 DEF LoadConfiguration, Acknowledged
<1>2. CASE SpoolContains(h) \/ SpoolRemove(h) \/ CheckDestination(h) \/ StepFails(h)
           \/ CreateStanza(h) \/ CreateStanzaFails(h)
  BY <1>2 DEF SpoolContains, SpoolRemove, CheckDestination, StepFails, CreateStanza,
     CreateStanzaFails, Acknowledged
<1>3. CASE Gather(h)
  <2>1. \A w \in Wals : task'[h][w] \in {"pushing", "none"}
    BY <1>3 DEF Gather
  <2>2. \A g \in Handlers \ {h} : task'[g] = task[g] /\ pc'[g] = pc[g]
    BY <1>3 DEF Gather
  <2>3. pc'[h] = "push" /\ UNCHANGED <<req, conf, granted, done, marker, archived, target, cached, edits>>
    BY <1>3 DEF Gather
  <2> QED
    BY <2>1, <2>2, <2>3 DEF Acknowledged
<1>4. CASE Pushing(h)
  <2>1. PICK w \in Wals : \/ Push(h, w) \/ PushFails(h, w) \/ ClearEmptyFlag(h, w)
                          \/ Touch(h, w) \/ AfterPushFails(h, w)
    BY <1>4 DEF Pushing
  <2>2. CASE Push(h, w)
    <3>1. conf[h] = target
      BY <2>2, ArchiveAssumption DEF Push, ArchiveAssumption
    <3>2. archived'[target] = archived[target] \cup {w}
      BY <2>2, <3>1 DEF Push
    <3>3. \A g \in Handlers, v \in Wals : task'[g][v] = task[g][v] \/ v = w
      BY <2>2 DEF Push
    <3>4. UNCHANGED <<pc, req, conf, granted, done, marker, target, cached, edits>>
      BY <2>2 DEF Push
    <3> QED
      BY <3>2, <3>3, <3>4 DEF Acknowledged
  <2>3. CASE PushFails(h, w) \/ ClearEmptyFlag(h, w) \/ AfterPushFails(h, w)
    <3>1. \A g \in Handlers, v \in Wals : task'[g][v] \in {"pushed", "cleared", "ok"} =>
                                           task[g][v] \in {"pushed", "cleared", "ok"}
      <4>1. CASE task' = [task EXCEPT ![h][w] = "err"]
        BY <4>1
      <4>2. CASE ClearEmptyFlag(h, w)
        BY <4>2 DEF ClearEmptyFlag
      <4> QED
        BY <2>3, <4>1, <4>2 DEF PushFails, AfterPushFails
    <3>2. UNCHANGED <<pc, req, conf, granted, done, marker, target, cached, edits, archived>>
      BY <2>3 DEF PushFails, ClearEmptyFlag, AfterPushFails
    <3> QED
      BY <3>1, <3>2 DEF Acknowledged
  <2>4. CASE Touch(h, w)
    BY <2>4 DEF Touch, Acknowledged
  <2> QED
    BY <2>1, <2>2, <2>3, <2>4
<1>5. CASE BatchEnds(h)
  <2>1. pc'[h] = "acked" => req[h] \in archived[target]
    BY <1>5 DEF BatchEnds, Batch
  <2> QED
    BY <1>5, <2>1 DEF BatchEnds, Acknowledged
<1>6. CASE Reply(h)
  BY <1>6 DEF Reply, NoTasks, Acknowledged
<1> QED
  BY <1>1, <1>2, <1>3, <1>4, <1>5, <1>6 DEF Handle

\* So does every other step, unless it is the one that changes the repository.
LEMMA TargetStep ==
    ASSUME TypeOK, HandlerInv, TargetInv, [Next]_vars
    PROVE  TargetInv'
<1>1. edits' = 0 => edits = 0
  BY DEF Next, vars, Produce, Requesting, Request, MarkDone, Handle, LoadConfiguration,
    SpoolContains, SpoolRemove, CheckDestination, StepFails, CreateStanza, CreateStanzaFails,
    Gather, Pushing, Push, PushFails, ClearEmptyFlag, Touch, AfterPushFails, BatchEnds, Reply,
    PgRestart, SidecarRestart, PodReplaced, EditArchive, BackupCreatesStanza, envVars, cacheVars, TypeOK
<1> SUFFICES ASSUME edits' = 0 PROVE TargetInv'
  BY DEF TargetInv
<1>2. ASSUME NEW h \in Handlers, NEW w \in Wals, Request(h, w) PROVE TargetInv'
  BY <1>1, <1>2 DEF Request, TargetInv, TypeOK, Acknowledged, pgVars, diskVars, repoVars, envVars, cacheVars
<1>3. ASSUME NEW h \in Handlers, Handle(h) PROVE TargetInv'
  BY <1>1, <1>3, TargetHandlerStep
<1>4. CASE SidecarRestart \/ PodReplaced
  <2>1. cached' = NoRepo
    BY <1>4 DEF SidecarRestart, PodReplaced
  <2> QED
    BY <1>1, <1>4, <2>1, RestartFrame DEF TargetInv, TypeOK, AllHandlersStop, NoTasks
<1>5. CASE Produce \/ MarkDone \/ PgRestart \/ BackupCreatesStanza \/ UNCHANGED vars
  <2>1. target' = target /\ cached' = cached
    BY <1>5 DEF Produce, MarkDone, PgRestart, BackupCreatesStanza, vars, envVars, cacheVars
  <2> QED
    BY <1>1, <1>5, <2>1, OutsideFrame DEF TargetInv, hVars
<1>6. CASE EditArchive
  BY <1>1, <1>6 DEF EditArchive, TypeOK
<1> QED
  BY <1>2, <1>3, <1>4, <1>5, <1>6 DEF Next, Requesting

-----------------------------------------------------------------------------
(* The flag of the empty archive.                                          *)

\* Whoever may report a success has removed the flag before.
FlagInv ==
    /\ \A h \in Handlers, w \in Wals : task[h][w] \in {"cleared", "ok"} => ~emptyFlag
    /\ \A h \in Handlers : pc[h] = "acked" => ~emptyFlag
    /\ EmptyFlagTracksArchival

\* Each step of a handler keeps what the flag says.
LEMMA FlagHandlerStep ==
    ASSUME TypeOK, HandlerInv, SuccessIsStored, FlagInv, Stored \subseteq Stored',
           NEW h \in Handlers, Handle(h)
    PROVE  FlagInv'
<1> USE DEF TypeOK, HandlerInv, FlagInv, EmptyFlagTracksArchival, pgVars, diskVars, repoVars,
        hVars, envVars, cacheVars, TaskStates, Steps
<1>1. CASE LoadConfiguration(h) \/ SpoolContains(h) \/ CheckDestination(h) \/ StepFails(h)
           \/ CreateStanza(h) \/ CreateStanzaFails(h)
  BY <1>1 DEF LoadConfiguration, SpoolContains, CheckDestination, StepFails, CreateStanza,
     CreateStanzaFails, Acknowledged
<1>2. CASE SpoolRemove(h)
  BY <1>2 DEF SpoolRemove, Acknowledged
<1>3. CASE Gather(h)
  <2>1. \A w \in Wals : task'[h][w] \in {"pushing", "none"}
    BY <1>3 DEF Gather
  <2>2. \A g \in Handlers \ {h} : task'[g] = task[g] /\ pc'[g] = pc[g]
    BY <1>3 DEF Gather
  <2>3. pc'[h] = "push" /\ UNCHANGED <<granted, done, marker, emptyFlag>>
    BY <1>3 DEF Gather
  <2> QED
    BY <2>1, <2>2, <2>3 DEF Acknowledged
<1>4. CASE Pushing(h)
  <2>1. PICK w \in Wals : \/ Push(h, w) \/ PushFails(h, w) \/ ClearEmptyFlag(h, w)
                          \/ Touch(h, w) \/ AfterPushFails(h, w)
    BY <1>4 DEF Pushing
  <2>2. CASE Push(h, w) \/ PushFails(h, w) \/ AfterPushFails(h, w)
    <3>1. /\ \E s \in {"pushed", "err"} : task' = [task EXCEPT ![h][w] = s]
          /\ UNCHANGED <<pc, req, granted, done, marker, emptyFlag>>
      BY <2>2 DEF Push, PushFails, AfterPushFails
    <3> QED
      BY <3>1 DEF Acknowledged
  <2>3. CASE ClearEmptyFlag(h, w)
    <3>1. w \in Stored /\ emptyFlag' = FALSE
      BY <2>3 DEF ClearEmptyFlag, SuccessIsStored
    <3>2. UNCHANGED <<pc, marker, granted, done>>
      BY <2>3 DEF ClearEmptyFlag
    <3> QED
      BY <3>1, <3>2
  <2>4. CASE Touch(h, w)
    BY <2>4 DEF Touch, Acknowledged
  <2> QED
    BY <2>1, <2>2, <2>3, <2>4
<1>5. CASE BatchEnds(h)
  <2>1. pc'[h] = "acked" => ~emptyFlag
    BY <1>5 DEF BatchEnds, Batch
  <2> QED
    BY <1>5, <2>1 DEF BatchEnds, Acknowledged
<1>6. CASE Reply(h)
  BY <1>6 DEF Reply, NoTasks, Acknowledged
<1> QED
  BY <1>1, <1>2, <1>3, <1>4, <1>5, <1>6 DEF Handle

\* So does every other step.
LEMMA FlagStep ==
    ASSUME TypeOK, HandlerInv, SuccessIsStored, FlagInv, [Next]_vars
    PROVE  FlagInv'
<1>1. Stored \subseteq Stored'
  BY StoredGrows
<1> USE DEF FlagInv, EmptyFlagTracksArchival
<1>2. ASSUME NEW h \in Handlers, NEW w \in Wals, Request(h, w) PROVE FlagInv'
  BY <1>1, <1>2 DEF Request, TypeOK, Acknowledged, diskVars
<1>3. ASSUME NEW h \in Handlers, Handle(h) PROVE FlagInv'
  BY <1>1, <1>3, FlagHandlerStep
<1>4. CASE SidecarRestart \/ PodReplaced
  BY <1>1, <1>4, RestartFrame DEF TypeOK, AllHandlersStop, NoTasks
<1>5. CASE Produce \/ MarkDone \/ PgRestart \/ EditArchive \/ BackupCreatesStanza
           \/ UNCHANGED vars
  BY <1>1, <1>5, OutsideFrame DEF hVars
<1> QED
  BY <1>2, <1>3, <1>4, <1>5 DEF Next, Requesting

\* .check-empty-wal-archive goes with the first successful push: the check of an empty
\* repository stays until a file is stored, and is gone before PostgreSQL hears of one.
THEOREM FlagGoesWithFirstPush == Spec => []EmptyFlagTracksArchival
<1>1. Init => FlagInv
  BY DEF Init, FlagInv, EmptyFlagTracksArchival, Acknowledged, Wals, NoTasks
<1>2. StorageInv /\ FlagInv /\ [Next]_vars => FlagInv'
  BY FlagStep DEF StorageInv
<1>3. FlagInv => EmptyFlagTracksArchival
  BY DEF FlagInv
<1> QED
  BY <1>1, <1>2, <1>3, StorageInvariant, PTL DEF Spec

-----------------------------------------------------------------------------
(* Which files are taken in advance.                                       *)

Low(m) == {v \in ready : v < m}

\* Fewer files than a batch holds are waiting before this one.
Near(m) == Cardinality(Low(m)) < MaxParallel

\* PostgreSQL leaves no gap; markers and batches are of its oldest files; the requested one
\* is the oldest, unless it is a history file.
NoGap == \A v \in ready \cup done, w \in Wals : w < v => w \in ready \cup done
OrderInv ==
    ~abandoned =>
      /\ \A m \in marker : Near(m)
      /\ \A h \in Handlers, w \in Wals : task[h][w] # "none" /\ w # req[h] => Near(w)
      /\ History = {} => \A h \in Handlers : pc[h] # "idle" => \A v \in ready : req[h] <= v

\* Where what is new in a state comes from: a request, a batch, a marker.
LEMMA WhatIsNew ==
    ASSUME TypeOK, [Next]_vars
    PROVE  /\ \A h \in Handlers : pc'[h] # "idle" =>
                \/ pc[h] # "idle" /\ req'[h] = req[h]
                \/ Request(h, req'[h])
           /\ \A h \in Handlers, w \in Wals : task'[h][w] # "none" =>
                \/ task[h][w] # "none" /\ req'[h] = req[h]
                \/ pc[h] = "idle" /\ task[h][w] # "none"
                \/ Gather(h) /\ req'[h] = req[h]
           /\ \A m \in marker' \ marker : m \in Wals /\ \E h \in Handlers : Touch(h, m)
<1> DEFINE Goal ==
           /\ \A h \in Handlers : pc'[h] # "idle" =>
                \/ pc[h] # "idle" /\ req'[h] = req[h]
                \/ Request(h, req'[h])
           /\ \A h \in Handlers, w \in Wals : task'[h][w] # "none" =>
                \/ task[h][w] # "none" /\ req'[h] = req[h]
                \/ pc[h] = "idle" /\ task[h][w] # "none"
                \/ Gather(h) /\ req'[h] = req[h]
           /\ \A m \in marker' \ marker : m \in Wals /\ \E h \in Handlers : Touch(h, m)
<1> SUFFICES Goal
  OBVIOUS
<1> USE DEF TypeOK, Steps
<1>1. ASSUME NEW h \in Handlers, NEW w \in Wals, Request(h, w) PROVE Goal
  <2>1. marker' = marker /\ task' = task /\ pc[h] = "idle" /\ req'[h] = w
    BY <1>1 DEF Request, hVars, diskVars
  <2>2. \A g \in Handlers \ {h} : pc'[g] = pc[g] /\ req'[g] = req[g]
    BY <1>1 DEF Request
  <2> QED
    BY <1>1, <2>1, <2>2
<1>2. ASSUME NEW h \in Handlers, BeforeGather(h) PROVE Goal
  <2>1. marker' \subseteq marker
    BY <1>2 DEF BeforeGather, LoadConfiguration, SpoolContains, SpoolRemove, CheckDestination,
       StepFails, CreateStanza, CreateStanzaFails, diskVars
  <2> HIDE DEF TypeOK
  <2>2. UNCHANGED <<req, task>> /\ \E s \in Steps : pc' = [pc EXCEPT ![h] = s] /\ pc[h] # "idle"
    BY <1>2, BeforeGatherFrame
  <2> QED
    BY <2>1, <2>2 DEF TypeOK
<1>3. ASSUME NEW h \in Handlers, Gather(h) PROVE Goal
  <2>1. UNCHANGED <<marker, req>> /\ pc[h] = "gather"
    BY <1>3 DEF Gather, diskVars
  <2>2. \A g \in Handlers \ {h} : pc'[g] = pc[g] /\ task'[g] = task[g]
    BY <1>3 DEF Gather
  <2> QED
    BY <1>3, <2>1, <2>2
<1>4. ASSUME NEW h \in Handlers, Pushing(h) PROVE Goal
  <2>1. \A m \in marker' \ marker : m \in Wals /\ Touch(h, m)
    BY <1>4 DEF Pushing, Push, PushFails, ClearEmptyFlag, Touch, AfterPushFails, diskVars
  <2> HIDE DEF TypeOK
  <2>2. UNCHANGED <<req, pc>> /\ pc[h] = "push"
    BY <1>4, PushingFrame
  <2>3. PICK w \in Wals, s \in TaskStates \ {"none"} :
           task[h][w] # "none" /\ task' = [task EXCEPT ![h][w] = s]
    BY <1>4, PushingFrame
  <2>4. \A g \in Handlers, v \in Wals : task'[g][v] # "none" => task[g][v] # "none"
    BY <2>3 DEF TypeOK
  <2> QED
    BY <2>1, <2>2, <2>4
<1>5. ASSUME NEW h \in Handlers, BatchEnds(h) PROVE Goal
  BY <1>5 DEF BatchEnds, diskVars
<1>6. ASSUME NEW h \in Handlers, Reply(h) PROVE Goal
  BY <1>6 DEF Reply, diskVars, NoTasks
<1>7. CASE SidecarRestart \/ PodReplaced
  <2>1. AllHandlersStop /\ marker' \subseteq marker
    BY <1>7, RestartFrame
  <2> QED
    BY <2>1 DEF AllHandlersStop, NoTasks
<1>8. CASE Produce \/ MarkDone \/ PgRestart \/ EditArchive \/ BackupCreatesStanza
           \/ UNCHANGED vars
  BY <1>8, OutsideFrame DEF hVars
<1> QED
  <2> HIDE DEF Goal, TypeOK
  <2> QED
    BY <1>1, <1>2, <1>3, <1>4, <1>5, <1>6, <1>7, <1>8 DEF Next, Requesting, Handle, BeforeGather

\* PostgreSQL's files change by Produce and MarkDone only.
LEMMA FilesStep ==
    ASSUME TypeOK, CallInv, NoGap, [Next]_vars
    PROVE  /\ NoGap'
           /\ \A v \in ready' \ ready : v \in Wals /\ \A w \in ready \cup done : w < v
<1> USE DEF TypeOK, NoGap
<1>1. CASE Produce
  BY <1>1 DEF Produce, Wals
<1>2. CASE MarkDone
  <2>1. ready' \subseteq ready /\ ready' \cup done' = ready \cup done
    BY <1>2 DEF MarkDone, CallInv
  <2> QED
    BY <2>1
<1>3. CASE ~Produce /\ ~MarkDone
  <2>1. UNCHANGED <<ready, done>>
    BY <1>3 DEF Next, vars, Requesting, Request, Handle, LoadConfiguration,
      SpoolContains, SpoolRemove, CheckDestination, StepFails, CreateStanza, CreateStanzaFails,
      Gather, Pushing, Push, PushFails, ClearEmptyFlag, Touch, AfterPushFails, BatchEnds, Reply,
      PgRestart, SidecarRestart, PodReplaced, EditArchive, BackupCreatesStanza,
      pgVars, diskVars, repoVars, hVars, envVars, cacheVars
  <2> QED
    BY <2>1
<1> QED
  BY <1>1, <1>2, <1>3

\* Low is a part of 1 .. NWal, so it is counted by a number.
LEMMA LowIsFinite ==
    ASSUME TypeOK, NEW m
    PROVE  IsFiniteSet(ready) /\ IsFiniteSet(Low(m)) /\ Cardinality(Low(m)) \in Nat
<1>1. IsFiniteSet(Wals) /\ ready \in SUBSET Wals
  BY ArchiveAssumption, FS_Interval DEF ArchiveAssumption, Wals, TypeOK
<1>2. IsFiniteSet(ready) /\ Low(m) \in SUBSET ready
  BY <1>1, FS_Subset DEF Low
<1> QED
  BY <1>2, FS_Subset, FS_CardinalityType

\* No new file comes before one PostgreSQL has completed.
LEMMA StaysNear ==
    ASSUME TypeOK, CallInv, NoGap, [Next]_vars, NEW m \in ready \cup done, Near(m)
    PROVE  Near(m)'
<1>1. Low(m)' \in SUBSET Low(m)
  <2>1. m \in Nat
    BY ArchiveAssumption DEF ArchiveAssumption, TypeOK, Wals
  <2>2. \A v \in ready' \ ready : v \in Nat /\ m < v
    BY FilesStep, ArchiveAssumption DEF ArchiveAssumption, Wals
  <2> QED
    BY <2>1, <2>2 DEF Low
<1>2. IsFiniteSet(Low(m)) /\ Cardinality(Low(m)) \in Nat
  BY LowIsFinite
<1>3. Cardinality(Low(m)') <= Cardinality(Low(m)) /\ Cardinality(Low(m)') \in Nat
  BY <1>1, <1>2, FS_Subset, FS_CardinalityType
<1> QED
  BY <1>2, <1>3, ArchiveAssumption DEF Near, ArchiveAssumption

\* GatherWALFilesToArchive adds to the requested file the oldest of the others.
LEMMA GatherNear ==
    ASSUME TypeOK, NEW h \in Handlers, Gather(h), NEW w \in Wals,
           task'[h][w] # "none", w # req[h]
    PROVE  Near(w)
<1> DEFINE others == ready \ {req[h]}
<1>1. PICK more \in SUBSET others :
         /\ \A v \in more, u \in others \ more : v < u
         /\ Cardinality(more) < MaxParallel
         /\ \A v \in Wals : task'[h][v] # "none" => v \in more \cup {req[h]}
  BY DEF Gather, TypeOK
<1>2. IsFiniteSet(more) /\ Cardinality(more) \in Nat
  <2>1. more \in SUBSET ready /\ IsFiniteSet(ready)
    BY LowIsFinite
  <2> QED
    BY <2>1, FS_Subset, FS_CardinalityType
<1>3. w \in more
  BY <1>1
<1>4. Low(w) \subseteq (more \ {w}) \cup {req[h]}
  <2>1. ready \subseteq Nat /\ w \in Nat
    BY ArchiveAssumption DEF ArchiveAssumption, TypeOK, Wals
  <2>2. ASSUME NEW u \in ready, u < w, u # req[h] PROVE u \in more \ {w}
    <3>1. ~ (w < u) /\ u # w
      BY <2>1, <2>2
    <3> QED
      BY <1>1, <1>3, <2>2, <3>1
  <2> QED
    BY <2>2 DEF Low
<1>5. IsFiniteSet(more \ {w}) /\ Cardinality(more \ {w}) = Cardinality(more) - 1
  BY <1>2, <1>3, FS_RemoveElement
<1>6. /\ IsFiniteSet((more \ {w}) \cup {req[h]})
      /\ Cardinality((more \ {w}) \cup {req[h]}) <= Cardinality(more)
  <2>1. req[h] \notin more \ {w}
    OBVIOUS
  <2>2. Cardinality((more \ {w}) \cup {req[h]}) = Cardinality(more \ {w}) + 1
    BY <1>5, <2>1, FS_AddElement
  <2> QED
    BY <1>2, <1>5, <2>2, FS_AddElement
<1>7. Cardinality(Low(w)) <= Cardinality((more \ {w}) \cup {req[h]})
  BY <1>4, <1>6, FS_Subset
<1>8. Cardinality((more \ {w}) \cup {req[h]}) \in Nat /\ Cardinality(Low(w)) \in Nat
  BY <1>6, FS_CardinalityType, LowIsFinite
<1> QED
  BY <1>1, <1>2, <1>6, <1>7, <1>8, ArchiveAssumption DEF Near, ArchiveAssumption

\* Once a call was abandoned that stays on record.
LEMMA AbandonedStays == ASSUME TypeOK, [Next]_vars, ~abandoned' PROVE ~abandoned
BY DEF Next, vars, Produce, Requesting, Request, MarkDone, Handle, LoadConfiguration,
    SpoolContains, SpoolRemove, CheckDestination, StepFails, CreateStanza, CreateStanzaFails,
    Gather, Pushing, Push, PushFails, ClearEmptyFlag, Touch, AfterPushFails, BatchEnds, Reply,
    PgRestart, SidecarRestart, PodReplaced, EditArchive, BackupCreatesStanza, envVars, cacheVars, TypeOK

\* What is taken in advance is near when it is taken, and stays so.
LEMMA OrderStep ==
    ASSUME TypeOK, HandlerInv, CallInv, CallInv', SerialInv, NoGap, OrderInv, [Next]_vars
    PROVE  OrderInv'
<1> SUFFICES ASSUME ~abandoned' PROVE OrderInv'
  BY DEF OrderInv
<1>1. ~abandoned
  BY AbandonedStays
<1>2. ASSUME NEW m \in marker' PROVE Near(m)'
  <2>1. m \in ready /\ Near(m)
    <3>1. CASE m \in marker
      BY <1>1, <3>1 DEF SerialInv, OrderInv
    <3>2. CASE m \notin marker
      <4>1. PICK h \in Handlers : m \in Wals /\ Touch(h, m)
        BY <1>2, <3>2, WhatIsNew
      <4>2. task[h][m] = "cleared" /\ m # req[h]
        BY <1>2, <3>2, <4>1 DEF Touch
      <4> QED
        BY <1>1, <4>1, <4>2 DEF SerialInv, OrderInv
    <3> QED
      BY <3>1, <3>2
  <2> QED
    BY <2>1, StaysNear
<1>3. ASSUME NEW h \in Handlers, NEW w \in Wals, task'[h][w] # "none", w # req'[h]
      PROVE  Near(w)'
  <2>1. CASE task[h][w] # "none" /\ req'[h] = req[h]
    BY <1>1, <1>3, <2>1, StaysNear DEF SerialInv, OrderInv
  <2>2. CASE Gather(h) /\ req'[h] = req[h]
    <3>1. w \in ready \cup done
      BY <1>3, <2>2 DEF Gather, CallInv, pgVars
    <3> QED
      BY <1>3, <2>2, <3>1, GatherNear, StaysNear
  <2>3. ~ (pc[h] = "idle" /\ task[h][w] # "none")
    BY DEF CallInv
  <2> QED
    BY <1>3, <2>1, <2>2, <2>3, WhatIsNew
<1>4. ASSUME History = {}, NEW h \in Handlers, pc'[h] # "idle", NEW v \in ready'
      PROVE  req'[h] <= v
  <2>1. ready \cup done \cup ready' \subseteq Nat
    <3>1. \A u \in ready' : u \in ready \/ u \in Wals
      BY FilesStep
    <3>2. ready \subseteq Wals /\ done \subseteq Wals /\ Wals \subseteq Nat
      BY ArchiveAssumption DEF ArchiveAssumption, TypeOK, Wals
    <3> QED
      BY <3>1, <3>2
  <2>2. CASE pc[h] # "idle" /\ req'[h] = req[h]
    <3>1. CASE v \in ready
      BY <1>1, <1>4, <2>2, <3>1 DEF OrderInv
    <3>2. CASE v \notin ready
      <4>1. req[h] \in ready \cup done
        BY <2>2 DEF CallInv
      <4> QED
        BY <2>1, <2>2, <3>2, <4>1, FilesStep
    <3> QED
      BY <3>1, <3>2
  <2>3. CASE Request(h, req'[h])
    <3>1. ready' = ready /\ IsNext(req'[h])
      BY <2>3 DEF Request
    <3> QED
      BY <1>4, <2>1, <3>1 DEF IsNext
  <2> QED
    BY <1>4, <2>2, <2>3, WhatIsNew
<1> QED
  BY <1>2, <1>3, <1>4 DEF OrderInv

\* PostgreSQL completes its files in order.
THEOREM OrderInvariant == Spec => [](NoGap /\ OrderInv)
<1>1. Init => NoGap /\ OrderInv
  BY DEF Init, NoGap, OrderInv, NoTasks
<1>2. StorageInv /\ CallInv /\ CallInv' /\ SerialInv /\ NoGap /\ OrderInv /\ [Next]_vars
      => NoGap' /\ OrderInv'
  BY FilesStep, OrderStep DEF StorageInv
<1> QED
  BY <1>1, <1>2, StorageInvariant, CallInvariant, SerialInvariant, PTL DEF Spec

-----------------------------------------------------------------------------
(* What a change of the repository costs.                                  *)

Early == {"spool", "remove", "info", "create", "gather"}
Working == Early \cup {"push"}

\* What is acknowledged since the client first answered with the present repository, or
\* will be without another push.
Owed == UNION {Acknowledged \ before, marker,
               {req[h] : h \in {g \in Handlers : pc[g] = "acked"}}}

Bound == IF History = {} THEN MaxParallel - 1 ELSE MaxParallel

\* A batch leaves a marker for each file but the requested one.
FewMarkers == ~abandoned => Cardinality(marker) <= Bound

HoleInv ==
    seen /\ ~abandoned =>
      /\ cached \in {target, NoRepo}
      /\ \A h \in Handlers : pc[h] \in Working => conf[h] = target
      /\ Cardinality(Owed \ archived[target]) <= Bound

\* Every success a goroutine records is of a file in the repository of its handler.
PushedInv ==
    \A h \in Handlers, w \in Wals : task[h][w] \in {"pushed", "cleared", "ok"} =>
        conf[h] \in Repos /\ w \in archived[conf[h]]

\* Nothing is removed from a repository.
LEMMA ArchivedGrows ==
    ASSUME TypeOK, HandlerInv, [Next]_vars
    PROVE  \A r \in Repos : archived[r] \subseteq archived'[r]
<1> USE DEF pgVars, diskVars, repoVars, hVars, envVars, cacheVars
<1>1. CASE \E h \in Handlers, w \in Wals : Push(h, w)
  BY <1>1 DEF Push, TypeOK
<1>2. CASE ~ \E h \in Handlers, w \in Wals : Push(h, w)
  <2>1. archived' = archived
    BY <1>2 DEF Next, vars, Produce, Requesting, Request, MarkDone, Handle, LoadConfiguration,
      SpoolContains, SpoolRemove, CheckDestination, StepFails, CreateStanza, CreateStanzaFails,
      Gather, Pushing, PushFails, ClearEmptyFlag, Touch, AfterPushFails, BatchEnds, Reply,
      PgRestart, SidecarRestart, PodReplaced, EditArchive, BackupCreatesStanza
  <2> QED
    BY <2>1
<1> QED
  BY <1>1, <1>2

\* How a handler comes to work, to a success and to an acknowledgement.
LEMMA WhatFollows ==
    ASSUME TypeOK, HandlerInv, CallInv, [Next]_vars
    PROVE  /\ \A h \in Handlers : pc'[h] \in Working =>
                \/ LoadConfiguration(h) /\ conf'[h] = cached'
                \/ pc[h] \in Working /\ conf'[h] = conf[h]
           /\ \A h \in Handlers : pc'[h] = "acked" =>
                /\ req'[h] = req[h]
                /\ \/ pc[h] = "acked" \/ req[h] \in marker
                   \/ pc[h] = "push" /\ task[h][req[h]] = "ok"
           /\ \A w \in Acknowledged' \ Acknowledged :
                \E h \in Handlers : pc[h] = "acked" /\ w = req[h] /\ pc'[h] = "idle"
<1> DEFINE Goal ==
           /\ \A h \in Handlers : pc'[h] \in Working =>
                \/ LoadConfiguration(h) /\ conf'[h] = cached'
                \/ pc[h] \in Working /\ conf'[h] = conf[h]
           /\ \A h \in Handlers : pc'[h] = "acked" =>
                /\ req'[h] = req[h]
                /\ \/ pc[h] = "acked" \/ req[h] \in marker
                   \/ pc[h] = "push" /\ task[h][req[h]] = "ok"
           /\ \A w \in Acknowledged' \ Acknowledged :
                \E h \in Handlers : pc[h] = "acked" /\ w = req[h] /\ pc'[h] = "idle"
<1> SUFFICES Goal
  OBVIOUS
<1> USE DEF TypeOK, Working, Early, pgVars, envVars, cacheVars
<1>1. ASSUME NEW h \in Handlers, NEW w \in Wals, Request(h, w) PROVE Goal
  BY <1>1 DEF Request, Acknowledged
<1>2. ASSUME NEW h \in Handlers, LoadConfiguration(h) PROVE Goal
  BY <1>2 DEF LoadConfiguration, Acknowledged
<1>3. ASSUME NEW h \in Handlers, SpoolContains(h) \/ SpoolRemove(h) PROVE Goal
  BY <1>3 DEF SpoolContains, SpoolRemove, Acknowledged
<1>4. ASSUME NEW h \in Handlers,
             \/ CheckDestination(h) \/ StepFails(h) \/ CreateStanza(h) \/ CreateStanzaFails(h)
      PROVE  Goal
  BY <1>4 DEF CheckDestination, StepFails, CreateStanza, CreateStanzaFails, Acknowledged
<1>5. ASSUME NEW h \in Handlers, Gather(h) PROVE Goal
  BY <1>5 DEF Gather, Acknowledged
<1>6. ASSUME NEW h \in Handlers, Pushing(h) PROVE Goal
  <2>1. UNCHANGED <<granted, done, pc, req, conf>>
    BY <1>6 DEF Pushing, Push, PushFails, ClearEmptyFlag, Touch, AfterPushFails
  <2> QED
    BY <2>1 DEF Acknowledged
<1>7. ASSUME NEW h \in Handlers, BatchEnds(h) PROVE Goal
  <2>1. pc'[h] = "acked" => task[h][req[h]] = "ok"
    BY <1>7 DEF BatchEnds, Batch, HandlerInv
  <2> QED
    BY <1>7, <2>1 DEF BatchEnds, Acknowledged
<1>8. ASSUME NEW h \in Handlers, Reply(h) PROVE Goal
  <2>1. \A w \in Acknowledged' \ Acknowledged : pc[h] = "acked" /\ w = req[h]
    BY <1>8 DEF Reply, Acknowledged
  <2>2. pc' = [pc EXCEPT ![h] = "idle"]
    BY <1>8 DEF Reply
  <2>3. \A g \in Handlers \ {h} : req'[g] = req[g] /\ conf'[g] = conf[g]
    BY <1>8 DEF Reply
  <2> HIDE DEF Acknowledged
  <2> QED
    BY <2>1, <2>2, <2>3
<1>9. CASE SidecarRestart \/ PodReplaced
  BY <1>9, RestartFrame DEF AllHandlersStop
<1>10. CASE Produce \/ MarkDone \/ PgRestart \/ EditArchive \/ BackupCreatesStanza
            \/ UNCHANGED vars
  BY <1>10, OutsideFrame DEF hVars
<1> QED
  <2> HIDE DEF Goal, TypeOK
  <2> QED
    BY <1>1, <1>2, <1>3, <1>4, <1>5, <1>6, <1>7, <1>8, <1>9, <1>10 DEF Next, Requesting, Handle

\* A success is recorded after the push, and the handler keeps to its repository.
LEMMA PushedStep ==
    ASSUME TypeOK, HandlerInv, CallInv, PushedInv, [Next]_vars
    PROVE  PushedInv'
<1>1. \A r \in Repos : archived[r] \subseteq archived'[r]
  BY ArchivedGrows
<1> USE DEF TypeOK, HandlerInv, CallInv, PushedInv, hVars
<1>2. ASSUME NEW h \in Handlers, NEW w \in Wals, Request(h, w) PROVE PushedInv'
  BY <1>1, <1>2 DEF Request
<1>3. ASSUME NEW h \in Handlers, LoadConfiguration(h) PROVE PushedInv'
  BY <1>1, <1>3 DEF LoadConfiguration
<1>4. ASSUME NEW h \in Handlers,
             \/ SpoolContains(h) \/ SpoolRemove(h) \/ CheckDestination(h) \/ StepFails(h)
             \/ CreateStanza(h) \/ CreateStanzaFails(h) \/ BatchEnds(h)
      PROVE  PushedInv'
  <2>1. UNCHANGED <<conf, task>>
    BY <1>4 DEF SpoolContains, SpoolRemove, CheckDestination, StepFails, CreateStanza,
       CreateStanzaFails, BatchEnds
  <2> QED
    BY <1>1, <2>1
<1>5. ASSUME NEW h \in Handlers, Gather(h) PROVE PushedInv'
  <2>1. \A w \in Wals : task'[h][w] \in {"pushing", "none"}
    BY <1>5 DEF Gather
  <2>2. UNCHANGED conf /\ \A g \in Handlers \ {h} : task'[g] = task[g]
    BY <1>5 DEF Gather
  <2> QED
    BY <1>1, <2>1, <2>2
<1>6. ASSUME NEW h \in Handlers, Pushing(h) PROVE PushedInv'
  <2>1. PICK w \in Wals : \/ Push(h, w) \/ PushFails(h, w) \/ ClearEmptyFlag(h, w)
                          \/ Touch(h, w) \/ AfterPushFails(h, w)
    BY <1>6 DEF Pushing
  <2>2. CASE Push(h, w)
    <3>1. conf[h] \in Repos /\ w \in archived'[conf[h]] /\ UNCHANGED conf
      BY <2>2 DEF Push
    <3>2. /\ \A g \in Handlers \ {h} : task'[g] = task[g]
          /\ \A v \in Wals \ {w} : task'[h][v] = task[h][v]
      BY <2>2 DEF Push
    <3> QED
      BY <1>1, <3>1, <3>2
  <2>3. CASE ~Push(h, w)
    <3>1. \A g \in Handlers, v \in Wals : task'[g][v] \in {"pushed", "cleared", "ok"} =>
                                           task[g][v] \in {"pushed", "cleared", "ok"}
      <4>1. CASE task' = [task EXCEPT ![h][w] = "err"]
        BY <4>1
      <4>2. CASE ClearEmptyFlag(h, w)
        BY <4>2 DEF ClearEmptyFlag
      <4>3. CASE Touch(h, w)
        BY <4>3 DEF Touch
      <4> QED
        BY <2>1, <2>3, <4>1, <4>2, <4>3 DEF PushFails, AfterPushFails
    <3>2. UNCHANGED conf
      BY <2>1, <2>3 DEF PushFails, ClearEmptyFlag, Touch, AfterPushFails
    <3> QED
      BY <1>1, <3>1, <3>2
  <2> QED
    BY <2>2, <2>3
<1>7. ASSUME NEW h \in Handlers, Reply(h) PROVE PushedInv'
  BY <1>1, <1>7 DEF Reply, NoTasks
<1>8. CASE SidecarRestart \/ PodReplaced
  BY <1>8, RestartFrame DEF AllHandlersStop, NoTasks
<1>9. CASE Produce \/ MarkDone \/ PgRestart \/ EditArchive \/ BackupCreatesStanza
           \/ UNCHANGED vars
  BY <1>1, <1>9, OutsideFrame
<1> QED
  <2> HIDE DEF PushedInv
  <2> QED
    BY <1>2, <1>3, <1>4, <1>5, <1>6, <1>7, <1>8, <1>9 DEF Next, Requesting, Handle

\* The files of a set that is no greater are no more.
LEMMA NoMore ==
    ASSUME NEW X, NEW Y \in SUBSET X, IsFiniteSet(X), Cardinality(X) <= Bound
    PROVE  Cardinality(Y) <= Bound
<1>1. Cardinality(X) \in Nat /\ Cardinality(Y) \in Nat /\ Cardinality(Y) <= Cardinality(X)
  BY FS_Subset, FS_CardinalityType
<1>2. Bound \in Nat
  BY ArchiveAssumption DEF ArchiveAssumption, Bound
<1> QED
  BY <1>1, <1>2

\* At most a batch of files is near.
LEMMA FewNear ==
    ASSUME TypeOK, NEW X \in SUBSET ready, \A x \in X : Near(x)
    PROVE  IsFiniteSet(X) /\ Cardinality(X) \in Nat /\ Cardinality(X) <= MaxParallel
<1>1. NWal \in Nat /\ MaxParallel \in Nat \ {0} /\ ready \in SUBSET (1 .. NWal)
  BY ArchiveAssumption DEF ArchiveAssumption, TypeOK, Wals
<1>2. \A m \in X : Cardinality({v \in ready : v < m}) < MaxParallel
  BY DEF Near, Low
<1>3. IsFiniteSet(X) /\ Cardinality(X) <= MaxParallel
  BY <1>1, <1>2, FewBelow
<1> QED
  BY <1>3, FS_CardinalityType

\* Markers are of near files, and the requested one, the nearest, is not among them when a
\* marker is made.
LEMMA FewMarkersStep ==
    ASSUME TypeOK, HandlerInv, CallInv, SerialInv, OrderInv, FewMarkers, [Next]_vars
    PROVE  FewMarkers'
<1> SUFFICES ASSUME ~abandoned' PROVE Cardinality(marker') <= Bound
  BY DEF FewMarkers, Bound
<1>1. ~abandoned
  BY AbandonedStays
<1>2. marker \in SUBSET ready /\ \A m \in marker : Near(m)
  BY <1>1 DEF SerialInv, OrderInv
<1>3. CASE marker' \subseteq marker
  <2>1. IsFiniteSet(marker) /\ Cardinality(marker) <= Bound
    BY <1>1, <1>2, FewNear DEF FewMarkers
  <2> QED
    BY <1>3, <2>1, NoMore
<1>4. CASE ~ (marker' \subseteq marker)
  <2>1. PICK m \in marker' \ marker, h \in Handlers : m \in Wals /\ Touch(h, m)
    BY <1>4, WhatIsNew
  <2>2. /\ marker' = marker \cup {m} /\ m # req[h]
        /\ pc[h] = "push" /\ task[h][m] = "cleared"
    BY <2>1 DEF Touch
  <2>3. m \in ready /\ Near(m) /\ req[h] \notin marker'
    BY <1>1, <2>1, <2>2 DEF SerialInv, OrderInv
  <2>4. marker' \in SUBSET ready /\ \A x \in marker' : Near(x)
    BY <1>2, <2>2, <2>3
  <2>5. IsFiniteSet(marker') /\ Cardinality(marker') \in Nat /\ Cardinality(marker') <= MaxParallel
    BY <2>4, FewNear
  <2>6. CASE History = {}
    <3>1. req[h] \in ready
      BY <1>1, <2>2, ArchiveAssumption DEF CallInv, SerialInv, ArchiveAssumption
    <3>2. Near(req[h])
      <4>1. \A v \in ready : req[h] <= v
        BY <1>1, <2>2, <2>6 DEF OrderInv
      <4>2. ready \subseteq Nat
        BY ArchiveAssumption DEF ArchiveAssumption, TypeOK, Wals
      <4>3. ASSUME NEW v \in ready PROVE ~ (v < req[h])
        <5>1. req[h] <= v /\ v \in Nat /\ req[h] \in Nat
          BY <3>1, <4>1, <4>2
        <5> QED
          BY <5>1
      <4>4. Low(req[h]) = {}
        BY <4>3 DEF Low
      <4> QED
        BY <4>4, FS_EmptySet, ArchiveAssumption DEF Near, ArchiveAssumption
    <3>3. Cardinality(marker' \cup {req[h]}) <= MaxParallel
      <4>1. marker' \cup {req[h]} \in SUBSET ready /\ \A x \in marker' \cup {req[h]} : Near(x)
        BY <2>4, <3>1, <3>2
      <4> QED
        BY <4>1, FewNear
    <3>4. Cardinality(marker' \cup {req[h]}) = Cardinality(marker') + 1
      BY <2>3, <2>5, FS_AddElement
    <3> QED
      BY <2>5, <2>6, <3>3, <3>4, ArchiveAssumption DEF Bound, ArchiveAssumption
  <2>7. CASE History # {}
    BY <2>5, <2>7 DEF Bound
  <2> QED
    BY <2>6, <2>7
<1> QED
  BY <1>3, <1>4

\* What is owed are files of PostgreSQL.
LEMMA OwedIsFinite ==
    ASSUME TypeOK, HandlerInv
    PROVE  IsFiniteSet(Owed \ archived[target])
<1>1. Owed \ archived[target] \in SUBSET Wals
  BY DEF Owed, Acknowledged, TypeOK, HandlerInv
<1>2. IsFiniteSet(Wals)
  BY ArchiveAssumption, FS_Interval DEF ArchiveAssumption, Wals
<1> QED
  BY <1>1, <1>2, FS_Subset

\* While handlers work with the present repository no step adds to what is owed.
LEMMA OwedShrinks ==
    ASSUME TypeOK, HandlerInv, CallInv, PushedInv, [Next]_vars, UNCHANGED <<target, before>>,
           \A h \in Handlers : pc[h] \in Working => conf[h] = target
    PROVE  Owed' \ archived'[target'] \subseteq Owed \ archived[target]
<1> SUFFICES ASSUME NEW x \in Owed', x \notin archived'[target] PROVE x \in Owed
  <2>1. archived[target] \subseteq archived'[target]
    BY ArchivedGrows DEF TypeOK
  <2> QED
    BY <2>1
<1>1. x \notin archived[target]
  BY ArchivedGrows DEF TypeOK
<1>2. ASSUME NEW h \in Handlers, NEW w \in Wals, task[h][w] \in {"pushed", "cleared", "ok"},
             x = w, pc[h] = "push"
      PROVE  FALSE
  BY <1>1, <1>2 DEF PushedInv, Working
<1>3. CASE x \in Acknowledged' \ before'
  BY <1>3, WhatFollows DEF Owed
<1>4. CASE x \in marker'
  <2>1. CASE x \in marker
    BY <2>1 DEF Owed
  <2>2. CASE x \notin marker
    <3>1. PICK h \in Handlers : x \in Wals /\ Touch(h, x)
      BY <1>4, <2>2, WhatIsNew
    <3> QED
      BY <1>2, <3>1 DEF Touch
  <2> QED
    BY <2>1, <2>2
<1>5. ASSUME NEW h \in Handlers, pc'[h] = "acked", x = req'[h] PROVE x \in Owed
  <2>1. /\ req'[h] = req[h]
        /\ pc[h] = "acked" \/ req[h] \in marker \/ (pc[h] = "push" /\ task[h][req[h]] = "ok")
    BY <1>5, WhatFollows
  <2>2. CASE pc[h] = "acked" \/ req[h] \in marker
    BY <1>5, <2>1, <2>2 DEF Owed
  <2>3. CASE pc[h] = "push" /\ task[h][req[h]] = "ok"
    BY <1>2, <1>5, <2>1, <2>3 DEF HandlerInv
  <2> QED
    BY <2>1, <2>2, <2>3
<1> QED
  BY <1>3, <1>4, <1>5 DEF Owed

\* Only a user changes the repository of the Archive object; the entry of the client changes
\* by an answer and by a restart.
LEMMA EditFrame ==
    ASSUME TypeOK, [Next]_vars, ~EditArchive
    PROVE  /\ target' = target
           /\ \/ \E h \in Handlers : LoadConfiguration(h)
              \/ UNCHANGED <<seen, before>> /\ cached' \in {cached, NoRepo}
BY DEF Next, vars, Produce, Requesting, Request, MarkDone, Handle, LoadConfiguration,
    SpoolContains, SpoolRemove, CheckDestination, StepFails, CreateStanza, CreateStanzaFails,
    Gather, Pushing, Push, PushFails, ClearEmptyFlag, Touch, AfterPushFails, BatchEnds, Reply,
    PgRestart, SidecarRestart, PodReplaced, BackupCreatesStanza, envVars, cacheVars

\* At the first answer with the present repository only the markers are owed: the one handler
\* is that which got the answer.
LEMMA OwedAtFirstAnswer ==
    ASSUME TypeOK, HandlerInv, CallInv, SerialInv, OrderInv, FewMarkers, ~abandoned, ~seen,
           NEW h \in Handlers, LoadConfiguration(h), seen'
    PROVE  /\ cached' = target' /\ \A g \in Handlers : pc'[g] \in Working => conf'[g] = target'
           /\ Cardinality(Owed' \ archived'[target']) <= Bound
<1>1. /\ UNCHANGED <<marker, archived, target, req, done, granted>>
      /\ pc[h] = "load" /\ pc' = [pc EXCEPT ![h] = "spool"]
      /\ conf' = [conf EXCEPT ![h] = target] /\ cached' = target /\ before' = Acknowledged
  BY DEF LoadConfiguration, pgVars, diskVars, repoVars
<1>2. \A g \in Handlers \ {h} : pc[g] = "idle"
  BY <1>1 DEF SerialInv
<1>3. pc'[h] = "spool" /\ conf'[h] = target /\ \A g \in Handlers \ {h} : pc'[g] = "idle"
  BY <1>1, <1>2 DEF TypeOK
<1>4. Acknowledged' = Acknowledged
  BY <1>1 DEF Acknowledged
<1>5. Owed' \ archived'[target'] \subseteq marker
  BY <1>1, <1>3, <1>4 DEF Owed
<1>6. IsFiniteSet(marker) /\ Cardinality(marker) <= Bound
  <2>1. marker \in SUBSET ready /\ \A m \in marker : Near(m)
    BY DEF SerialInv, OrderInv
  <2> QED
    BY <2>1, FewNear DEF FewMarkers
<1>7. \A g \in Handlers : pc'[g] \in Working => conf'[g] = target'
  BY <1>1, <1>3 DEF Working, Early
<1> QED
  BY <1>1, <1>5, <1>6, <1>7, NoMore

\* The hole is never greater than at the first answer.
LEMMA HoleStep ==
    ASSUME TypeOK, HandlerInv, CallInv, SerialInv, OrderInv, FewMarkers, PushedInv, HoleInv,
           [Next]_vars
    PROVE  HoleInv'
<1> SUFFICES ASSUME seen', ~abandoned' PROVE HoleInv'
  BY DEF HoleInv
<1>1. ~abandoned
  BY AbandonedStays
<1>2. ~EditArchive
  BY DEF EditArchive
<1>3. target' = target
  BY <1>2, EditFrame
<1>4. CASE ~seen
  <2>1. PICK h \in Handlers : LoadConfiguration(h)
    BY <1>2, <1>4, EditFrame
  <2> QED
    BY <1>1, <1>4, <2>1, OwedAtFirstAnswer DEF HoleInv
<1>5. CASE seen
  <2>1. before' = before /\ cached' \in {target, NoRepo}
    <3>1. CASE \E h \in Handlers : LoadConfiguration(h)
      BY <1>1, <1>5, <3>1 DEF LoadConfiguration, HoleInv
    <3>2. CASE UNCHANGED <<seen, before>> /\ cached' \in {cached, NoRepo}
      BY <1>1, <1>5, <3>2 DEF HoleInv
    <3> QED
      BY <1>2, <3>1, <3>2, EditFrame
  <2>2. ASSUME NEW h \in Handlers, pc'[h] \in Working PROVE conf'[h] = target'
    <3>1. CASE LoadConfiguration(h) /\ conf'[h] = cached'
      <4>1. conf'[h] \in Repos
        BY <3>1, ArchiveAssumption DEF LoadConfiguration, TypeOK
      <4> QED
        BY <1>3, <2>1, <3>1, <4>1, ArchiveAssumption DEF ArchiveAssumption
    <3>2. CASE pc[h] \in Working /\ conf'[h] = conf[h]
      BY <1>1, <1>3, <1>5, <3>2 DEF HoleInv
    <3> QED
      BY <2>2, <3>1, <3>2, WhatFollows
  <2>3. Owed' \ archived'[target'] \subseteq Owed \ archived[target]
    BY <1>1, <1>3, <1>5, <2>1, OwedShrinks DEF HoleInv
  <2>4. Cardinality(Owed' \ archived'[target']) <= Bound
    BY <1>1, <1>5, <2>3, OwedIsFinite, NoMore DEF HoleInv
  <2> QED
    BY <1>3, <2>1, <2>2, <2>4 DEF HoleInv
<1> QED
  BY <1>4, <1>5

\* A success is of a file in the repository of the handler that reports it.
THEOREM PushedInvariant == Spec => []PushedInv
<1>1. Init => PushedInv
  BY DEF Init, PushedInv, NoTasks
<1>2. StorageInv /\ CallInv /\ PushedInv /\ [Next]_vars => PushedInv'
  BY PushedStep DEF StorageInv
<1> QED
  BY <1>1, <1>2, StorageInvariant, CallInvariant, PTL DEF Spec

\* Once the client has answered with the present repository of the Archive object, the files
\* PostgreSQL is told are archived and which are not there are those whose markers were made
\* before: less than a batch, and one more if history files overtake.
THEOREM ChangeCostsOneBatch == Spec => []HoleIsBounded
<1>1. Init => FewMarkers /\ HoleInv
  BY ArchiveAssumption, FS_EmptySet DEF ArchiveAssumption, Init, FewMarkers, Bound, HoleInv
<1>2. StorageInv /\ CallInv /\ SerialInv /\ OrderInv /\ PushedInv /\ FewMarkers /\ HoleInv
      /\ [Next]_vars => FewMarkers' /\ HoleInv'
  BY FewMarkersStep, HoleStep DEF StorageInv
<1>3. StorageInv /\ HoleInv => HoleIsBounded
  <2> SUFFICES ASSUME StorageInv, HoleInv, seen, ~abandoned
               PROVE  Cardinality(Acknowledged \ (before \cup archived[target])) <= Bound
    BY DEF HoleIsBounded, Bound
  <2>1. Acknowledged \ (before \cup archived[target]) \in SUBSET (Owed \ archived[target])
    BY DEF Owed
  <2> QED
    BY <2>1, OwedIsFinite, NoMore DEF StorageInv, HoleInv
<1> QED
  BY <1>1, <1>2, <1>3, StorageInvariant, CallInvariant, SerialInvariant, OrderInvariant,
     PushedInvariant, PTL DEF Spec

-----------------------------------------------------------------------------
(* How far the archive is ahead of what it lacks.                          *)

\* The files of a batch, the requested one apart, have less than a batch before them; a
\* requested segment has no other segment before it.
AheadInv ==
    /\ \A h \in Handlers, w \in Wals : task[h][w] # "none" /\ w # req[h] => Near(w)
    /\ \A h \in Handlers : pc[h] # "idle" /\ req[h] \notin History =>
          \A v \in ready \ History : req[h] <= v
    /\ AheadByLessThanABatch

\* Older segments are never completed later, and a batch is made of the oldest files.
LEMMA TakenInOrder ==
    ASSUME TypeOK, HandlerInv, CallInv, NoGap, AheadInv, [Next]_vars
    PROVE  /\ \A h \in Handlers, w \in Wals : task'[h][w] # "none" /\ w # req'[h] => Near(w)'
           /\ \A h \in Handlers : pc'[h] # "idle" /\ req'[h] \notin History =>
                 \A v \in ready' \ History : req'[h] <= v
<1>1. ASSUME NEW h \in Handlers, NEW w \in Wals, task'[h][w] # "none", w # req'[h]
      PROVE  Near(w)'
  <2>1. CASE task[h][w] # "none" /\ req'[h] = req[h]
    BY <1>1, <2>1, StaysNear DEF CallInv, AheadInv
  <2>2. CASE Gather(h) /\ req'[h] = req[h]
    <3>1. w \in ready \cup done
      BY <1>1, <2>2 DEF Gather, CallInv, pgVars, TypeOK
    <3> QED
      BY <1>1, <2>2, <3>1, GatherNear, StaysNear
  <2>3. ~ (pc[h] = "idle" /\ task[h][w] # "none")
    BY DEF CallInv
  <2> QED
    BY <1>1, <2>1, <2>2, <2>3, WhatIsNew
<1>2. ASSUME NEW h \in Handlers, pc'[h] # "idle", req'[h] \notin History,
             NEW v \in ready' \ History
      PROVE  req'[h] <= v
  <2>1. /\ ready \subseteq Nat /\ done \subseteq Nat
        /\ v \in ready \/ (v \in Nat /\ \A w \in ready \cup done : w < v)
    BY FilesStep, ArchiveAssumption DEF ArchiveAssumption, TypeOK, Wals
  <2>2. CASE pc[h] # "idle" /\ req'[h] = req[h]
    <3>1. req[h] \in ready \cup done
      BY <2>2 DEF CallInv
    <3>2. CASE v \in ready
      BY <1>2, <2>2, <3>2 DEF AheadInv
    <3>3. CASE v \notin ready
      <4>1. v \in Nat /\ req[h] < v /\ req[h] \in Nat
        BY <2>1, <3>1, <3>3
      <4> QED
        BY <2>2, <4>1
    <3> QED
      BY <3>2, <3>3
  <2>3. CASE Request(h, req'[h])
    <3>1. ready' = ready /\ IsNext(req'[h]) /\ req'[h] \in ready
      BY <2>3 DEF Request, IsNext
    <3>2. v = req'[h] \/ req'[h] < v
      BY <1>2, <3>1 DEF IsNext
    <3>3. v \in Nat /\ req'[h] \in Nat
      BY <1>2, <2>1, <3>1
    <3> QED
      BY <3>2, <3>3
  <2> QED
    BY <1>2, <2>2, <2>3, WhatIsNew
<1> QED
  BY <1>1, <1>2

\* Only archive-push stores a file, a member of a batch.
LEMMA StoredFromBatch ==
    ASSUME TypeOK, HandlerInv, [Next]_vars, NEW w \in Stored' \ Stored
    PROVE  w \in Wals /\ \E h \in Handlers : pc[h] = "push" /\ task[h][w] = "pushing"
<1> USE DEF pgVars, diskVars, repoVars, hVars, envVars, cacheVars, Stored
<1>1. CASE \E h \in Handlers, v \in Wals : Push(h, v)
  <2>1. PICK h \in Handlers, v \in Wals : Push(h, v)
    BY <1>1
  <2>2. w = v
    BY <2>1 DEF Push, TypeOK
  <2> QED
    BY <2>1, <2>2 DEF Push
<1>2. CASE ~ \E h \in Handlers, v \in Wals : Push(h, v)
  <2>1. archived' = archived
    BY <1>2 DEF Next, vars, Produce, Requesting, Request, MarkDone, Handle, LoadConfiguration,
      SpoolContains, SpoolRemove, CheckDestination, StepFails, CreateStanza, CreateStanzaFails,
      Gather, Pushing, PushFails, ClearEmptyFlag, Touch, AfterPushFails, BatchEnds, Reply,
      PgRestart, SidecarRestart, PodReplaced, EditArchive, BackupCreatesStanza
  <2> QED
    BY <2>1
<1> QED
  BY <1>1, <1>2

\* What is missing before a file that is stored now is a part of what was ready before it.
LEMMA AheadStep ==
    ASSUME StorageInv, CallInv, NoGap, AheadInv, [Next]_vars
    PROVE  AheadInv'
<1> DEFINE Missing(w) == {v \in Wals \ (History \cup Stored) : v < w}
           MissingThen(w) == {v \in Wals \ (History \cup Stored') : v < w}
<1>1. Stored \subseteq Stored'
  BY StoredGrows DEF StorageInv
<1>2. \A w \in Wals : /\ IsFiniteSet(Missing(w)) /\ Cardinality(Missing(w)) \in Nat
                      /\ Cardinality(MissingThen(w)) \in Nat
                      /\ Cardinality(MissingThen(w)) <= Cardinality(Missing(w))
  <2> SUFFICES ASSUME NEW w \in Wals
               PROVE  /\ IsFiniteSet(Missing(w)) /\ Cardinality(Missing(w)) \in Nat
                      /\ Cardinality(MissingThen(w)) \in Nat
                      /\ Cardinality(MissingThen(w)) <= Cardinality(Missing(w))
    OBVIOUS
  <2>1. IsFiniteSet(Wals)
    BY ArchiveAssumption, FS_Interval DEF ArchiveAssumption, Wals
  <2>2. Missing(w) \in SUBSET Wals /\ MissingThen(w) \in SUBSET Missing(w)
    BY <1>1
  <2> QED
    BY <2>1, <2>2, FS_Subset, FS_CardinalityType
<1>3. ASSUME NEW w \in Stored' \ History PROVE Cardinality(MissingThen(w)) < MaxParallel
  <2>1. w \in Wals
    BY <1>3, StoredFromBatch DEF Stored, StorageInv, TypeOK
  <2>2. Cardinality(Missing(w)) < MaxParallel
    <3>1. CASE w \in Stored
      BY <1>3, <3>1 DEF AheadInv, AheadByLessThanABatch
    <3>2. CASE w \notin Stored
      <4>1. PICK h \in Handlers : pc[h] = "push" /\ task[h][w] = "pushing"
        BY <1>3, <3>2, StoredFromBatch DEF StorageInv
      <4>2. w \in ready \cup done /\ ready \subseteq Nat /\ w \in Nat
        BY <2>1, <4>1, ArchiveAssumption DEF ArchiveAssumption, CallInv, StorageInv, TypeOK, Wals
      <4>3. Missing(w) \subseteq {v \in ready \ History : v < w}
        BY <4>2 DEF NoGap, StorageInv, AckedIsStored, Acknowledged
      <4>4. CASE w = req[h]
        <5>1. Missing(w) = {}
          <6>1. \A v \in ready \ History : w <= v
            BY <1>3, <4>1, <4>4 DEF AheadInv
          <6>2. \A v \in ready \ History : ~ (v < w)
            BY <4>2, <6>1
          <6> QED
            BY <4>3, <6>2
        <5> QED
          BY <5>1, FS_EmptySet, ArchiveAssumption DEF ArchiveAssumption
      <4>5. CASE w # req[h]
        <5>1. Cardinality(Low(w)) < MaxParallel
          BY <2>1, <4>1, <4>5 DEF AheadInv, Near
        <5>2. Missing(w) \in SUBSET Low(w)
          BY <4>3 DEF Low
        <5>3. IsFiniteSet(Low(w)) /\ Cardinality(Low(w)) \in Nat
          BY LowIsFinite DEF StorageInv
        <5>4. Cardinality(Missing(w)) <= Cardinality(Low(w))
          <6> HIDE DEF Missing
          <6> QED
            BY <5>2, <5>3, FS_Subset
        <5>5. Cardinality(Missing(w)) \in Nat
          BY <1>2, <2>1
        <5> HIDE DEF Missing
        <5> QED
          BY <5>1, <5>3, <5>4, <5>5, ArchiveAssumption DEF ArchiveAssumption
      <4> QED
        BY <4>4, <4>5
    <3> QED
      BY <3>1, <3>2
  <2> HIDE DEF Missing, MissingThen
  <2> QED
    BY <1>2, <2>1, <2>2, ArchiveAssumption DEF ArchiveAssumption
<1>4. AheadByLessThanABatch'
  BY <1>3 DEF AheadByLessThanABatch
<1> HIDE DEF Missing, MissingThen
<1> QED
  BY <1>4, TakenInOrder DEF AheadInv, StorageInv

\* The archive never runs ahead of the first segment it lacks by a whole batch, whatever
\* part of a batch fails and whatever handlers overlap or are cut off.
THEOREM NeverABatchAhead == Spec => []AheadByLessThanABatch
<1>1. Init => AheadInv
  BY DEF Init, AheadInv, AheadByLessThanABatch, Stored, NoTasks
<1>2. StorageInv /\ CallInv /\ NoGap /\ AheadInv /\ [Next]_vars => AheadInv'
  BY AheadStep
<1>3. AheadInv => AheadByLessThanABatch
  BY DEF AheadInv
<1> QED
  BY <1>1, <1>2, <1>3, StorageInvariant, CallInvariant, OrderInvariant, PTL DEF Spec

-----------------------------------------------------------------------------
(* Undisturbed, nothing is pushed twice.                                   *)

\* A file is done once, and only completed files are stored.
DoneInv ==
    /\ ready \cap done = {}
    /\ \A r \in Repos : archived[r] \subseteq ready \cup done

Undisturbed ==
    /\ faults + crashes + edits = 0
    /\ CreateOnArchive /\ PushStanza = Stanza /\ broken = {} /\ History = {}

\* The files the handler answers for at once.
InHand(h, v) == pc[h] \in {"push", "acked"} /\ (v = req[h] \/ task[h][v] # "none")

\* No handler fails, and each gets to its stanza.
NoFailure ==
    \A h \in Handlers :
      /\ pc[h] # "failed"
      /\ pc[h] \in {"gather", "push"} => Stanza \in stanzas[conf[h]]
      /\ \A w \in Wals : task[h][w] # "err"
      /\ pc[h] = "acked" => \A w \in Wals : task[h][w] \in {"none", "ok"}

\* The markers are those of the batch in hand, or all of the last one, of which the oldest
\* file is asked for next.
MarkersOfBatch ==
    /\ \A h \in Handlers : pc[h] \in {"info", "create", "gather"} => marker = {}
    /\ \A h \in Handlers : pc[h] = "push" => \A m \in marker : task[h][m] = "ok"
    /\ \A h \in Handlers, w \in Wals : task[h][w] = "ok" /\ w # req[h] => w \in marker

\* Batches and markers leave no file out.
InOrder ==
    /\ \A h \in Handlers, w \in Wals, v \in ready :
          task[h][w] # "none" /\ v < w => task[h][v] # "none"
    /\ \A m \in marker, v \in ready : v < m =>
          v \in marker \/ v = granted \/ \E h \in Handlers : InHand(h, v)

\* A file that is stored but not acknowledged is known to be so.
StoredIsKnown ==
    /\ \A w \in ready \cap archived[target] :
          \/ w \in marker \/ w = granted
          \/ \E h \in Handlers : task[h][w] \in {"pushed", "cleared", "ok"}
          \/ \E h \in Handlers : pc[h] = "acked" /\ w = req[h]
    /\ \A h \in Handlers, w \in Wals : task[h][w] = "pushing" => w \notin archived[target]

QuietInv ==
    Undisturbed => ~abandoned /\ NoFailure /\ MarkersOfBatch /\ InOrder /\ StoredIsKnown

\* Each step keeps PostgreSQL's files apart and stores only those.
LEMMA DoneStep ==
    ASSUME TypeOK, HandlerInv, CallInv, DoneInv, [Next]_vars
    PROVE  DoneInv'
<1> USE DEF TypeOK, DoneInv, CallInv, pgVars, diskVars, repoVars, hVars, envVars, cacheVars
<1>1. CASE Produce
  BY <1>1 DEF Produce
<1>2. CASE MarkDone
  BY <1>2, ArchiveAssumption DEF MarkDone, ArchiveAssumption
<1>3. ASSUME NEW h \in Handlers, NEW w \in Wals, Push(h, w) PROVE DoneInv'
  BY <1>3 DEF Push, HandlerInv
<1>4. CASE ~Produce /\ ~MarkDone /\ ~ \E h \in Handlers, w \in Wals : Push(h, w)
  <2>1. UNCHANGED <<ready, done, archived>>
    BY <1>4 DEF Next, vars, Requesting, Request, Handle, LoadConfiguration,
      SpoolContains, SpoolRemove, CheckDestination, StepFails, CreateStanza, CreateStanzaFails,
      Gather, Pushing, PushFails, ClearEmptyFlag, Touch, AfterPushFails, BatchEnds, Reply,
      PgRestart, SidecarRestart, PodReplaced, EditArchive, BackupCreatesStanza
  <2> QED
    BY <2>1
<1> QED
  BY <1>1, <1>2, <1>3, <1>4

\* A disturbance stays on record.
LEMMA StaysUndisturbed ==
    ASSUME TypeOK, [Next]_vars, Undisturbed'
    PROVE  Undisturbed /\ UNCHANGED <<faults, crashes, edits, broken>>
<1>1. /\ faults' = faults \/ faults' = faults + 1
      /\ crashes' = crashes \/ crashes' = crashes + 1
      /\ edits' = edits \/ edits' = edits + 1
      /\ broken' = broken
  BY DEF Next, vars, Produce, Requesting, Request, MarkDone, Handle, LoadConfiguration,
    SpoolContains, SpoolRemove, CheckDestination, StepFails, CreateStanza, CreateStanzaFails,
    Gather, Pushing, Push, PushFails, ClearEmptyFlag, Touch, AfterPushFails, BatchEnds, Reply,
    PgRestart, SidecarRestart, PodReplaced, EditArchive, BackupCreatesStanza, envVars, cacheVars,
    Fault, Crash
<1>2. faults \in Nat /\ crashes \in Nat /\ edits \in Nat
  BY ArchiveAssumption DEF ArchiveAssumption, TypeOK
<1> QED
  BY <1>1, <1>2 DEF Undisturbed

Known == TypeOK /\ HandlerInv /\ CallInv /\ SerialInv /\ NoGap /\ OrderInv /\ DoneInv /\ TargetInv
QuietParts == NoFailure /\ MarkersOfBatch /\ InOrder /\ StoredIsKnown

\* The one handler at work has the oldest file in hand, and the files of its batch are ready.
LEMMA OneAtWork ==
    ASSUME Known, Undisturbed, ~abandoned, NEW h \in Handlers, pc[h] # "idle"
    PROVE  /\ caller = h /\ granted = 0 /\ req[h] \in ready
           /\ \A g \in Handlers \ {h} : pc[g] = "idle" /\ \A w \in Wals : task[g][w] = "none"
           /\ \A w \in Wals : task[h][w] # "none" => w \in ready
           /\ \A v \in ready : req[h] <= v /\ ~ (v < req[h])
           /\ marker \subseteq ready /\ ready \subseteq Wals /\ Wals \subseteq Nat
           /\ pc[h] \in Working => conf[h] = target
<1>1. caller = h /\ granted = 0 /\ req[h] \in ready
  BY ArchiveAssumption DEF Known, SerialInv, CallInv, ArchiveAssumption
<1>2. \A g \in Handlers \ {h} : pc[g] = "idle" /\ \A w \in Wals : task[g][w] = "none"
  BY <1>1 DEF Known, SerialInv, CallInv
<1>3. \A w \in Wals : task[h][w] # "none" => w \in ready
  BY DEF Known, SerialInv
<1>4. marker \subseteq ready /\ ready \subseteq Wals /\ Wals \subseteq Nat
  BY ArchiveAssumption DEF ArchiveAssumption, Known, SerialInv, TypeOK, Wals
<1>5. \A v \in ready : req[h] <= v /\ ~ (v < req[h])
  <2>1. \A v \in ready : req[h] <= v
    BY DEF Known, OrderInv, Undisturbed
  <2>2. req[h] \in Nat /\ ready \subseteq Nat
    BY <1>1, <1>4
  <2> QED
    BY <2>1, <2>2
<1>6. pc[h] \in Working => conf[h] = target
  <2>1. edits = 0
    BY ArchiveAssumption DEF ArchiveAssumption, Undisturbed, Known, TypeOK
  <2> QED
    BY <2>1, ArchiveAssumption
       DEF ArchiveAssumption, Known, TargetInv, HandlerInv, Working, Early
<1> QED
  BY <1>1, <1>2, <1>3, <1>4, <1>5, <1>6

\* PostgreSQL's own steps.
LEMMA QuietOutside ==
    ASSUME Known, Undisturbed, ~abandoned, QuietParts,
           \/ Produce \/ MarkDone \/ BackupCreatesStanza \/ UNCHANGED vars
           \/ \E h \in Handlers, w \in Wals : Request(h, w)
    PROVE  QuietParts'
<1> USE DEF Known, QuietParts, NoFailure, MarkersOfBatch, InOrder, StoredIsKnown, InHand,
        pgVars, diskVars, repoVars, hVars, envVars, cacheVars
<1>1. CASE Produce
  <2>1. PICK n \in Wals : /\ n \notin ready \cup done /\ ready' = ready \cup {n}
                          /\ \A v \in ready : ~ (n < v)
    BY <1>1 DEF Produce, NoGap
  <2>2. UNCHANGED <<done, granted, marker, archived, stanzas, pc, req, conf, task, target>>
    BY <1>1 DEF Produce
  <2>3. marker \subseteq ready /\ \A h \in Handlers, w \in Wals : task[h][w] # "none" => w \in ready
    BY DEF SerialInv
  <2>4. n \notin archived[target]
    BY <2>1 DEF DoneInv, TypeOK
  <2>5. NoFailure' /\ MarkersOfBatch'
    BY <2>2
  <2>6. InOrder'
    BY <2>1, <2>2, <2>3
  <2>7. StoredIsKnown'
    BY <2>1, <2>2, <2>4
  <2> QED
    BY <2>5, <2>6, <2>7
<1>2. CASE MarkDone
  BY <1>2 DEF MarkDone
<1>3. CASE BackupCreatesStanza
  BY <1>3 DEF BackupCreatesStanza, TypeOK
<1>4. CASE UNCHANGED vars
  BY <1>4 DEF vars
<1>5. ASSUME NEW h \in Handlers, NEW w \in Wals, Request(h, w) PROVE QuietParts'
  <2>1. /\ UNCHANGED <<ready, granted, marker, archived, stanzas, conf, task, target>>
        /\ pc[h] = "idle" /\ pc' = [pc EXCEPT ![h] = "load"] /\ req' = [req EXCEPT ![h] = w]
    BY <1>5 DEF Request
  <2>2. \A v \in Wals : task[h][v] = "none"
    BY <2>1 DEF CallInv
  <2>3. \A g \in Handlers \ {h} : pc'[g] = pc[g] /\ req'[g] = req[g]
    BY <2>1 DEF TypeOK
  <2>4. pc'[h] = "load"
    BY <2>1 DEF TypeOK
  <2> HIDE DEF Known
  <2>5. NoFailure' /\ MarkersOfBatch'
    BY <2>1, <2>2, <2>3, <2>4
  <2>6. InOrder'
    BY <2>1, <2>2, <2>3, <2>4
  <2>7. StoredIsKnown'
    BY <2>1, <2>2, <2>3, <2>4
  <2> QED
    BY <2>5, <2>6, <2>7
<1> QED
  BY <1>1, <1>2, <1>3, <1>4, <1>5

\* The handler's steps before its batch.
LEMMA QuietBefore ==
    ASSUME Known, Undisturbed, ~abandoned, QuietParts, NEW h \in Handlers, BeforeGather(h),
           faults' = faults
    PROVE  QuietParts'
<1>1. /\ UNCHANGED <<ready, granted, req, task, archived>>
      /\ \E s \in Steps \ {"idle", "push"} : pc' = [pc EXCEPT ![h] = s]
      /\ pc[h] \notin {"idle", "push", "acked", "failed"}
  BY BeforeGatherFrame DEF Known
<1>2. /\ granted = 0 /\ req[h] \in ready /\ marker \subseteq ready
      /\ \A g \in Handlers \ {h} : pc[g] = "idle" /\ \A w \in Wals : task[g][w] = "none"
      /\ \A v \in ready : ~ (v < req[h])
  BY <1>1, OneAtWork
<1>3. \A v \in Wals : task[h][v] = "none"
  BY <1>1 DEF Known, CallInv
<1>4. ~StepFails(h) /\ ~CreateStanzaFails(h)
  BY ArchiveAssumption DEF ArchiveAssumption, StepFails, CreateStanzaFails, Fault, Known, TypeOK
<1>5. target' = target
  BY DEF BeforeGather, LoadConfiguration, SpoolContains, SpoolRemove, CheckDestination, StepFails,
         CreateStanza, CreateStanzaFails, envVars, cacheVars
<1> USE DEF Known, QuietParts, NoFailure, MarkersOfBatch, InOrder, StoredIsKnown, InHand,
        diskVars, repoVars, TypeOK
<1>6. CASE LoadConfiguration(h)
  <2>1. /\ pc' = [pc EXCEPT ![h] = "spool"]
        /\ UNCHANGED <<ready, granted, marker, stanzas, archived, req, task>>
        /\ \A g \in Handlers \ {h} : conf'[g] = conf[g]
    BY <1>1, <1>6 DEF LoadConfiguration, pgVars
  <2>2. pc[h] \notin {"push", "acked"} /\ pc'[h] = "spool"
        /\ \A g \in Handlers \ {h} : pc'[g] = pc[g]
    BY <1>1, <2>1
  <2>3. \A g \in Handlers, v \in Wals : InHand(g, v)' <=> InHand(g, v)
    BY <2>1, <2>2
  <2> HIDE DEF InHand
  <2>4. NoFailure'
    BY <2>1, <2>2
  <2>5. MarkersOfBatch'
    BY <2>1, <2>2
  <2>6. InOrder'
    BY <2>1, <2>3
  <2>7. StoredIsKnown'
    BY <1>5, <2>1, <2>2
  <2> QED
    BY <2>4, <2>5, <2>6, <2>7
<1>7. CASE SpoolContains(h)
  <2>1. req[h] \notin marker => marker = {}
    <3> SUFFICES ASSUME req[h] \notin marker, NEW m \in marker PROVE FALSE
      OBVIOUS
    <3>1. req[h] < m
      BY <1>2, ArchiveAssumption DEF ArchiveAssumption, Wals
    <3>2. req[h] \in marker \/ req[h] = granted \/ \E g \in Handlers : InHand(g, req[h])
      BY <1>2, <3>1
    <3>3. \A g \in Handlers : pc[g] \notin {"push", "acked"}
      BY <1>1, <1>2
    <3>4. req[h] # 0
      BY <1>2 DEF Wals
    <3> QED
      BY <1>2, <3>2, <3>3, <3>4
  <2> QED
    BY <1>1, <1>2, <1>3, <1>5, <1>7, <2>1 DEF SpoolContains
<1>8. CASE SpoolRemove(h)
  <2>1. req[h] \in marker /\ pc'[h] = "acked" /\ marker' = marker \ {req[h]}
    BY <1>8 DEF SpoolRemove, SerialInv
  <2> QED
    BY <1>1, <1>2, <1>3, <1>5, <1>8, <2>1 DEF SpoolRemove
<1>9. CASE CheckDestination(h)
  <2>1. pc'[h] = "gather" => Stanza \in stanzas[conf[h]]
    BY <1>9 DEF CheckDestination, Undisturbed
  <2> QED
    BY <1>1, <1>2, <1>3, <1>5, <1>9, <2>1 DEF CheckDestination
<1>10. CASE CreateStanza(h)
  <2>1. conf[h] \in Repos
    BY <1>10 DEF CreateStanza, HandlerInv
  <2> QED
    BY <1>1, <1>2, <1>3, <1>5, <1>10, <2>1 DEF CreateStanza
<1> QED
  BY <1>4, <1>6, <1>7, <1>8, <1>9, <1>10 DEF BeforeGather

\* No marker is left when a batch is chosen, so that none of its files is stored.
LEMMA QuietGather ==
    ASSUME Known, Undisturbed, ~abandoned, QuietParts, NEW h \in Handlers, Gather(h)
    PROVE  QuietParts'
<1>1. /\ UNCHANGED <<ready, granted, marker, archived, stanzas, req, conf, target>>
      /\ pc[h] = "gather" /\ pc' = [pc EXCEPT ![h] = "push"]
  BY DEF Gather, pgVars, diskVars, repoVars, envVars, cacheVars
<1>2. /\ granted = 0 /\ req[h] \in ready
      /\ \A g \in Handlers \ {h} : pc[g] = "idle" /\ \A w \in Wals : task[g][w] = "none"
      /\ \A v \in ready : ~ (v < req[h])
      /\ ready \subseteq Wals /\ Wals \subseteq Nat /\ conf[h] = target
  BY <1>1, OneAtWork DEF Working, Early
<1>3. PICK more \in SUBSET (ready \ {req[h]}) :
         /\ \A w \in more, v \in (ready \ {req[h]}) \ more : w < v
         /\ task' = [task EXCEPT ![h] =
                       [w \in Wals |-> IF w \in more \cup {req[h]} THEN "pushing" ELSE "none"]]
  BY DEF Gather
<1>4. /\ task'[h] = [w \in Wals |-> IF w \in more \cup {req[h]} THEN "pushing" ELSE "none"]
      /\ \A g \in Handlers \ {h} : task'[g] = task[g] /\ pc'[g] = pc[g]
      /\ pc'[h] = "push"
  BY <1>1, <1>3 DEF Known, TypeOK
<1>5. marker = {}
  BY <1>1 DEF QuietParts, MarkersOfBatch
<1>6. \A v \in Wals : task[h][v] = "none"
  BY <1>1 DEF Known, CallInv
<1>7. \A w \in ready : w \notin archived[target]
  <2>1. 0 \notin ready /\ \A g \in Handlers : pc[g] # "acked"
    BY <1>1, <1>2 DEF Wals
  <2>2. \A g \in Handlers, w \in ready : task[g][w] = "none"
    BY <1>2, <1>6
  <2> QED
    BY <1>2, <1>5, <2>1, <2>2 DEF QuietParts, StoredIsKnown
<1>8. ASSUME NEW w \in more \cup {req[h]}, NEW v \in ready, v < w PROVE v \in more \cup {req[h]}
  <2>1. w \in more
    BY <1>2, <1>8
  <2>2. w \in Nat /\ v \in Nat
    BY <1>2, <2>1
  <2>3. ~ (w < v)
    BY <1>8, <2>2
  <2> QED
    BY <1>3, <1>8, <2>1, <2>3
<1>9. NoFailure'
  BY <1>1, <1>2, <1>4 DEF QuietParts, NoFailure
<1>10. MarkersOfBatch'
  BY <1>1, <1>2, <1>4, <1>5 DEF MarkersOfBatch
<1>11. InOrder'
  <2>1. ASSUME NEW g \in Handlers, NEW w \in Wals, NEW v \in ready,
               task'[g][w] # "none", v < w
        PROVE  task'[g][v] # "none"
    <3>1. g = h /\ w \in more \cup {req[h]}
      BY <1>2, <1>4, <2>1
    <3>2. v \in more \cup {req[h]} /\ v \in Wals
      BY <1>2, <1>8, <2>1, <3>1
    <3> QED
      BY <1>4, <3>1, <3>2
  <2>2. marker' = {} /\ ready' = ready
    BY <1>1, <1>5
  <2> QED
    BY <2>1, <2>2 DEF InOrder
<1>12. StoredIsKnown'
  <2>1. \A w \in ready' : w \notin archived'[target']
    BY <1>1, <1>7
  <2>2. \A g \in Handlers, w \in Wals : task'[g][w] = "pushing" => w \in ready'
    BY <1>1, <1>2, <1>4
  <2> QED
    BY <2>1, <2>2 DEF StoredIsKnown
<1> QED
  BY <1>9, <1>10, <1>11, <1>12 DEF QuietParts

\* The goroutines of the batch: none fails, and each stores its own file.
LEMMA QuietPushing ==
    ASSUME Known, Undisturbed, ~abandoned, QuietParts, NEW h \in Handlers, Pushing(h),
           faults' = faults
    PROVE  QuietParts'
<1>1. PICK w \in Wals : \/ Push(h, w) \/ PushFails(h, w) \/ ClearEmptyFlag(h, w)
                        \/ Touch(h, w) \/ AfterPushFails(h, w)
  BY DEF Pushing
<1>2. /\ UNCHANGED <<ready, granted, req, pc, conf, target, stanzas>> /\ pc[h] = "push"
      /\ task[h][w] # "none"
  BY <1>1 DEF Push, PushFails, ClearEmptyFlag, Touch, AfterPushFails, pgVars, repoVars, envVars, cacheVars
<1>3. /\ granted = 0 /\ req[h] \in ready /\ w \in ready
      /\ \A g \in Handlers \ {h} : pc[g] = "idle" /\ \A v \in Wals : task[g][v] = "none"
      /\ ready \subseteq Wals /\ marker \subseteq ready /\ conf[h] = target
  BY <1>2, OneAtWork DEF Working, Early
<1>4. ~PushFails(h, w) /\ ~AfterPushFails(h, w)
  <2>1. ~Fault
    BY ArchiveAssumption DEF ArchiveAssumption, Fault, Known, TypeOK
  <2>2. w \notin done /\ w \notin broken /\ PushStanza \in stanzas[conf[h]]
    BY <1>2, <1>3 DEF Known, DoneInv, Undisturbed, QuietParts, NoFailure
  <2> QED
    BY <2>1, <2>2 DEF PushFails, AfterPushFails
<1>5. PICK from \in {"pushing", "pushed", "cleared"}, to \in {"pushed", "cleared", "ok"} :
         /\ task[h][w] = from /\ task' = [task EXCEPT ![h][w] = to]
         /\ from = "pushing" => Push(h, w) /\ to = "pushed"
         /\ from # "pushing" => archived' = archived
         /\ to = "ok" => from = "cleared" /\ Touch(h, w)
         /\ to # "ok" => marker' = marker
  BY <1>1, <1>4 DEF Push, ClearEmptyFlag, Touch, diskVars, repoVars
<1>6. /\ task'[h][w] = to
      /\ \A v \in Wals \ {w} : task'[h][v] = task[h][v]
      /\ \A g \in Handlers \ {h} : task'[g] = task[g]
  BY <1>5 DEF Known, TypeOK
<1>7. \A g \in Handlers, v \in Wals : (task'[g][v] # "none") = (task[g][v] # "none")
  BY <1>2, <1>5, <1>6
<1>8. marker' = IF to = "ok" /\ w # req[h] THEN marker \cup {w} ELSE marker
  BY <1>5 DEF Touch
<1>9. archived'[target] = IF from = "pushing" THEN archived[target] \cup {w} ELSE archived[target]
  <2>1. CASE from = "pushing"
    <3>1. archived' = [archived EXCEPT ![conf[h]] = @ \cup {w}]
      BY <1>5, <2>1 DEF Push
    <3> QED
      BY <1>3, <2>1, <3>1 DEF Known, TypeOK
  <2>2. CASE from # "pushing"
    BY <1>5, <2>2
  <2> QED
    BY <2>1, <2>2
<1>10. NoFailure'
  BY <1>2, <1>3, <1>6 DEF QuietParts, NoFailure
<1>11. MarkersOfBatch'
  BY <1>2, <1>3, <1>5, <1>6, <1>8 DEF QuietParts, MarkersOfBatch
<1>12. InOrder'
  <2>1. \A g \in Handlers, v \in ready : InHand(g, v)' = InHand(g, v)
    BY <1>2, <1>3, <1>7 DEF InHand
  <2> QED
    BY <1>2, <1>3, <1>7, <1>8, <2>1 DEF QuietParts, InOrder, InHand
<1>13. StoredIsKnown'
  <2>1. \A v \in ready : v \in archived'[target] => v = w \/ v \in archived[target]
    BY <1>9
  <2>2. task'[h][w] \in {"pushed", "cleared", "ok"}
    BY <1>6
  <2>3. marker \subseteq marker'
    BY <1>8
  <2>4. ASSUME NEW v \in ready, v \in archived[target], v # w
        PROVE  \/ v \in marker' \/ v = granted'
               \/ \E g \in Handlers : task'[g][v] \in {"pushed", "cleared", "ok"}
               \/ \E g \in Handlers : pc'[g] = "acked" /\ v = req'[g]
    BY <1>2, <1>3, <1>6, <2>3, <2>4 DEF QuietParts, StoredIsKnown
  <2>5. \A g \in Handlers, v \in Wals : task'[g][v] = "pushing" => v \notin archived'[target]
    BY <1>3, <1>6, <1>9, <2>2 DEF QuietParts, StoredIsKnown
  <2> QED
    BY <1>2, <2>1, <2>2, <2>4, <2>5 DEF StoredIsKnown
<1> QED
  BY <1>10, <1>11, <1>12, <1>13 DEF QuietParts

\* The end of the batch, and the answer.
LEMMA QuietAnswer ==
    ASSUME Known, Undisturbed, ~abandoned, QuietParts, NEW h \in Handlers, BatchEnds(h) \/ Reply(h)
    PROVE  QuietParts'
<1> USE DEF QuietParts, NoFailure, MarkersOfBatch, InOrder, StoredIsKnown, InHand
<1>1. pc[h] # "idle"
  BY DEF BatchEnds, Reply
<1>2. /\ caller = h /\ granted = 0 /\ req[h] \in ready
      /\ \A g \in Handlers \ {h} : pc[g] = "idle" /\ \A v \in Wals : task[g][v] = "none"
      /\ ready \subseteq Wals /\ marker \subseteq ready
  BY <1>1, OneAtWork
<1>3. CASE BatchEnds(h)
  <2>1. /\ UNCHANGED <<ready, granted, marker, archived, stanzas, req, conf, task, target>>
        /\ pc[h] = "push" /\ pc'[h] = "acked" /\ \A g \in Handlers \ {h} : pc'[g] = pc[g]
        /\ \A w \in Wals : task[h][w] \in {"none", "ok"}
    BY <1>3 DEF BatchEnds, Batch, pgVars, diskVars, repoVars, envVars, cacheVars, Known, TypeOK
  <2> QED
    BY <1>2, <2>1
<1>4. CASE Reply(h)
  <2>1. /\ UNCHANGED <<ready, marker, archived, stanzas, target>>
        /\ pc[h] = "acked" /\ granted' = req[h]
        /\ pc' = [pc EXCEPT ![h] = "idle"] /\ req' = [req EXCEPT ![h] = 0]
        /\ task' = [task EXCEPT ![h] = NoTasks] /\ conf' = [conf EXCEPT ![h] = NoRepo]
    BY <1>2, <1>4 DEF Reply, diskVars, repoVars, envVars, cacheVars
  <2>2. /\ \A g \in Handlers : pc'[g] = "idle"
        /\ \A g \in Handlers, w \in Wals : task'[g][w] = "none"
    BY <1>2, <2>1 DEF Known, TypeOK, NoTasks
  <2>3. \A w \in Wals : task[h][w] \in {"none", "ok"}
    BY <2>1
  <2>4. \A v \in ready : task[h][v] # "none" => v = req[h] \/ v \in marker
    BY <1>2, <2>3
  <2>5. InOrder'
    <3>1. ASSUME NEW m \in marker, NEW v \in ready, v < m PROVE v \in marker \/ v = req[h]
      <4>1. v # granted
        BY <1>2, <3>1 DEF Wals
      <4> QED
        BY <1>2, <2>4, <3>1, <4>1
    <3> QED
      BY <2>1, <2>2, <3>1
  <2>6. StoredIsKnown'
    <3>1. ASSUME NEW v \in ready, v \in archived[target] PROVE v \in marker \/ v = req[h]
      <4>1. v # granted
        BY <1>2, <3>1 DEF Wals
      <4> QED
        BY <1>2, <2>4, <3>1, <4>1
    <3> QED
      BY <2>1, <2>2, <3>1
  <2> QED
    BY <2>1, <2>2, <2>5, <2>6
<1> QED
  BY <1>3, <1>4

\* Every step of an undisturbed archiver keeps its batches and markers in order.
LEMMA QuietStep ==
    ASSUME Known, QuietInv, [Next]_vars
    PROVE  QuietInv'
<1> SUFFICES ASSUME Undisturbed' PROVE ~abandoned' /\ QuietParts'
  BY DEF QuietInv, QuietParts
<1>1. Undisturbed /\ UNCHANGED <<faults, crashes, edits>>
  BY StaysUndisturbed DEF Known
<1>2. ~abandoned /\ QuietParts
  BY <1>1 DEF QuietInv, QuietParts
<1>3. ~PgRestart /\ ~SidecarRestart /\ ~PodReplaced /\ ~EditArchive
  BY <1>1, ArchiveAssumption DEF ArchiveAssumption, PgRestart, SidecarRestart, PodReplaced,
     EditArchive, Crash, Known, TypeOK
<1>4. abandoned' = abandoned
  BY <1>3 DEF Next, vars, Produce, Requesting, Request, MarkDone, Handle, LoadConfiguration,
    SpoolContains, SpoolRemove, CheckDestination, StepFails, CreateStanza, CreateStanzaFails,
    Gather, Pushing, Push, PushFails, ClearEmptyFlag, Touch, AfterPushFails, BatchEnds, Reply,
    BackupCreatesStanza, envVars, cacheVars
<1>5. QuietParts'
  <2>1. CASE Produce \/ MarkDone \/ BackupCreatesStanza \/ UNCHANGED vars
             \/ \E h \in Handlers, w \in Wals : Request(h, w)
    BY <1>1, <1>2, <2>1, QuietOutside
  <2>2. ASSUME NEW h \in Handlers, Handle(h) PROVE QuietParts'
    <3>1. CASE BeforeGather(h)
      BY <1>1, <1>2, <3>1, QuietBefore
    <3>2. CASE Gather(h)
      BY <1>1, <1>2, <3>2, QuietGather
    <3>3. CASE Pushing(h)
      BY <1>1, <1>2, <3>3, QuietPushing
    <3>4. CASE BatchEnds(h) \/ Reply(h)
      BY <1>1, <1>2, <3>4, QuietAnswer
    <3> QED
      BY <2>2, <3>1, <3>2, <3>3, <3>4 DEF Handle, BeforeGather
  <2> QED
    BY <1>3, <2>1, <2>2 DEF Next, Requesting
<1> QED
  BY <1>2, <1>4, <1>5

\* GatherWALFilesToArchive takes a file whatever markers there are, and still, as long as
\* nothing fails, no file is in a second batch: those pushed in advance are asked for before
\* another batch is made.
THEOREM NothingPushedTwice == Spec => []NoDuplicatePush
<1>1. Init => DoneInv /\ TargetInv /\ QuietInv
  <2> SUFFICES ASSUME Init PROVE DoneInv /\ TargetInv /\ QuietInv
    OBVIOUS
  <2>1. DoneInv /\ TargetInv
    BY DEF Init, DoneInv, TargetInv, Acknowledged, Wals, NoTasks
  <2>2. NoFailure /\ MarkersOfBatch /\ InOrder /\ StoredIsKnown
    BY DEF Init, NoFailure, MarkersOfBatch, InOrder, StoredIsKnown, NoTasks
  <2> QED
    BY <2>1, <2>2 DEF QuietInv, Init
<1>2. StorageInv /\ CallInv /\ SerialInv /\ NoGap /\ OrderInv
      /\ DoneInv /\ TargetInv /\ QuietInv /\ [Next]_vars
      => DoneInv' /\ TargetInv' /\ QuietInv'
  BY DoneStep, TargetStep, QuietStep DEF Known, StorageInv
<1>3. StorageInv /\ CallInv /\ TargetInv /\ QuietInv => NoDuplicatePush
  <2> SUFFICES ASSUME StorageInv, CallInv, TargetInv, QuietInv, Undisturbed,
                      NEW h \in Handlers, NEW w \in Wals, task[h][w] = "pushing"
               PROVE  w \notin archived[conf[h]]
    BY DEF NoDuplicatePush, Undisturbed
  <2>1. w \notin archived[target]
    BY DEF QuietInv, StoredIsKnown
  <2>2. pc[h] = "push"
    BY DEF CallInv, QuietInv, NoFailure
  <2>3. edits = 0
    BY ArchiveAssumption DEF ArchiveAssumption, Undisturbed, StorageInv, TypeOK
  <2>4. conf[h] = target
    BY <2>2, <2>3, ArchiveAssumption
       DEF ArchiveAssumption, TargetInv, StorageInv, HandlerInv
  <2> QED
    BY <2>1, <2>4
<1> QED
  BY <1>1, <1>2, <1>3, StorageInvariant, CallInvariant, SerialInvariant, OrderInvariant,
     PTL DEF Spec

=============================================================================
