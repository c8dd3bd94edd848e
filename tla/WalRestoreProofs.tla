-------------------------- MODULE WalRestoreProofs --------------------------
(***************************************************************************)
(* Proofs about WalRestore, for any number of segments and handlers, any   *)
(* length of the lists and any bound on faults, crashes and changes.       *)
(***************************************************************************)
EXTENDS WalRestore, FiniteSetTheorems, TLAPS

\* The step forms the handler's actions are written with.
USE DEF Goto, Move, ResetTo, Start, Member

\* Types of what PostgreSQL's recovery keeps.
PgTypes ==
    /\ next \in 1 .. NSeg + 1 /\ mode \in {"scan", "archive", "stream", "ended"}
    /\ caller \in Handlers \cup {NoHandler} /\ spoiled \in Nat /\ stale \in Nat

\* Types of what the handlers keep.
HandlerTypes ==
    /\ pc \in [Handlers -> Steps]
    /\ req \in [Handlers -> Segs \cup {History}]
    /\ conf \in [Handlers -> Clusters \cup {NoCluster}]
    /\ task \in [Handlers -> [Members -> TaskStates]]

\* Types of the files and of the archives.
FileTypes ==
    /\ dest \in Files /\ spool \in [Segs -> Files] /\ eos \in BOOLEAN
    /\ avail \in [Archives -> SUBSET (1 .. NSeg)] /\ partial \in [Archives -> 0 .. NSeg]

\* Types of the rest.
EnvTypes ==
    /\ cluster \in Clusters /\ parallel \in 1 .. MaxParallel
    /\ faults \in 0 .. MaxFaults /\ crashes \in 0 .. MaxCrashes /\ changes \in 0 .. MaxChanges
    /\ abandoned \in BOOLEAN /\ missed \subseteq Segs \cup {History}

\* A call PostgreSQL waits for is one it made: for the history file while it looks for a
\* timeline, for the segment it needs otherwise.
CallInv ==
    caller # NoHandler =>
        /\ pc[caller] # "idle"
        /\ req[caller] = History => mode = "scan"
        /\ req[caller] # History => mode = "archive" /\ req[caller] = next /\ next <= NSeg

\* No file is ever made for the name of the history file.
NoHistoryFile == \A h \in Handlers : task[h][<<History, "full">>] \notin {"write", "ok"}

TypeInv == TypeOK /\ CallInv /\ NoHistoryFile

\* The type invariant is these four.
LEMMA TypeParts == TypeOK <=> PgTypes /\ HandlerTypes /\ FileTypes /\ EnvTypes
BY DEF TypeOK, PgTypes, HandlerTypes, FileTypes, EnvTypes

\* Whatever the state of the cluster, Restore chooses one of the three archives.
LEMMA SourceIsArchive == \A c : Source(c) \in Archives
BY DEF Source, Archives

\* Every name has the number of a segment but that of the history file.
LEMMA MembersAre ==
    /\ \A m \in Members : m = <<History, "full">> \/ (m[1] \in Segs /\ m[2] \in {"full", "partial"})
    /\ \A w \in Segs, k \in {"full", "partial"} : <<w, k>> \in Members
    /\ <<History, "full">> \in Members
    /\ History \notin Segs
BY DEF Members, History, Segs

\* A file written for a name other than the history file's has the type of files.
LEMMA FileIsFile ==
    ASSUME NEW h, NEW m \in Members, m # <<History, "full">>,
           NEW k \in {"full", "partial", "torn"}
    PROVE  File(h, m, k) \in Files
BY SourceIsArchive, MembersAre DEF File, Files, Contents, ArchiveOf

\* A download that writes keeps the types of the destination and of the spool.
LEMMA WriteKeepsTypes ==
    ASSUME TypeOK, NEW h \in Handlers, NEW m \in Members, NEW f \in Files, Write(h, m, f)
    PROVE  dest' \in Files /\ spool' \in [Segs -> Files]
<1>1. CASE m = First(h)
  BY <1>1 DEF Write, TypeOK
<1>2. CASE m # First(h)
  BY <1>2 DEF Write, TypeOK
<1> QED
  BY <1>1, <1>2

-----------------------------------------------------------------------------
\* Uploads, downloads and the spool keep the types of files and archives.
LEMMA FileTypesStep ==
    ASSUME TypeInv, [Next]_vars
    PROVE  FileTypes'
<1> USE TypeParts, RestoreAssumption, SourceIsArchive
    DEF RestoreAssumption, TypeInv, FileTypes, pgVars, fileVars, archVars, hVars, envVars, histVars
<1>1. CASE Upload
  <2>1. PICK a \in Archives, w \in 1 .. NSeg :
          \/ avail' = [avail EXCEPT ![a] = @ \cup {w}] /\ UNCHANGED partial
          \/ partial' = [partial EXCEPT ![a] = w] /\ UNCHANGED avail
    BY <1>1 DEF Upload
  <2>2. UNCHANGED fileVars
    BY <1>1 DEF Upload
  <2> QED
    BY <2>1, <2>2
<1>2. ASSUME NEW h \in Handlers, RestoreFromSpool(h) \/ RemoveFromSpool(h) PROVE FileTypes'
  <2>1. RestoreFromSpool(h) => req[h] \in Segs
    BY <1>2 DEF RestoreFromSpool, RemoveFromSpool, HandlerTypes
  <2> QED
    BY <1>2, <2>1 DEF RestoreFromSpool, RemoveFromSpool, Files
<1>3. ASSUME NEW h \in Handlers, NEW m \in Members, GetStarts(h, m) PROVE FileTypes'
  <2>1. m # <<History, "full">>
    BY <1>3 DEF GetStarts, Has, ArchiveOf, History
  <2> QED
    BY <1>3, <2>1, FileIsFile, WriteKeepsTypes DEF GetStarts
<1>4. ASSUME NEW h \in Handlers, NEW m \in Members, GetEnds(h, m) PROVE FileTypes'
  <2>1. m # <<History, "full">>
    BY <1>4 DEF GetEnds, NoHistoryFile
  <2>2. Current(h, m) \in Files /\ NoFile \in Files
    BY <2>1, MembersAre DEF Current, Files
  <2>3. m[2] \in {"full", "partial", "torn"}
    BY <2>1, MembersAre
  <2>4. Filled(h, m) \subseteq Files
    BY <2>1, <2>2, <2>3, FileIsFile DEF Filled
  <2> QED
    BY <1>4, <2>4, WriteKeepsTypes DEF GetEnds
<1>5. ASSUME NEW h \in Handlers, Request(h) PROVE FileTypes'
  BY <1>5 DEF Request, Files
<1>6. CASE PodReplaced
  <2>1. NoFile \in Files
    BY DEF Files
  <2> QED
    BY <1>6, <2>1 DEF PodReplaced
<1>7. ASSUME NEW h \in Handlers, ResetEndOfWalStream(h) \/ SetEndOfWALStream(h) PROVE FileTypes'
  BY <1>7 DEF ResetEndOfWalStream, SetEndOfWALStream
<1>8. CASE UNCHANGED <<fileVars, archVars>>
  BY <1>8
<1>9. Next => \/ Upload \/ PodReplaced \/ UNCHANGED <<fileVars, archVars>>
              \/ \E h \in Handlers :
                    \/ RestoreFromSpool(h) \/ RemoveFromSpool(h) \/ Request(h)
                    \/ ResetEndOfWalStream(h) \/ SetEndOfWALStream(h)
              \/ \E h \in Handlers, m \in Members : GetStarts(h, m) \/ GetEnds(h, m)
  BY DEF Next, Requesting, Stream, Streamed, StreamEnds, Handle, NotInSpool, IsEndOfWALStream,
         StepFails, RestoreListStarts, Downloading, GetMisses, GetFails, RestoreListEnds, Reply,
         PgRestart, SidecarRestart, ChangeCluster
<1>10. UNCHANGED vars => UNCHANGED <<fileVars, archVars>>
  BY DEF vars
<1> QED
  BY <1>1, <1>2, <1>3, <1>4, <1>5, <1>6, <1>7, <1>8, <1>9, <1>10

\* Every step of a handler is to a step of the handler.
LEMMA HandlerTypesStep ==
    ASSUME TypeInv, [Next]_vars
    PROVE  HandlerTypes'
<1> USE TypeParts, MembersAre
    DEF TypeInv, HandlerTypes, pgVars, fileVars, archVars, hVars, envVars, histVars, Steps, TaskStates,
        NoTasks
<1>1. ASSUME NEW h \in Handlers, Request(h) PROVE HandlerTypes'
  <2>1. mode # "scan" => next \in Segs
    BY <1>1, RestoreAssumption DEF Request, PgTypes, Segs, Last, RestoreAssumption
  <2>2. cluster \in Clusters
    BY DEF EnvTypes
  <2> QED
    BY <1>1, <2>1, <2>2 DEF Request
<1>2. ASSUME NEW h \in Handlers, Handle(h) PROVE HandlerTypes'
  <2>1. CASE RestoreFromSpool(h) \/ RemoveFromSpool(h) \/ NotInSpool(h)
    BY <2>1 DEF RestoreFromSpool, RemoveFromSpool, NotInSpool, AfterSpool
  <2>2. CASE IsEndOfWALStream(h) \/ ResetEndOfWalStream(h) \/ SetEndOfWALStream(h)
    BY <2>2 DEF IsEndOfWALStream, ResetEndOfWalStream, SetEndOfWALStream
  <2>3. CASE StepFails(h)
    BY <2>3 DEF StepFails
  <2>4. CASE RestoreListStarts(h)
    <3>1. pc' = [pc EXCEPT ![h] = "get"] /\ UNCHANGED <<req, conf>>
      BY <2>4 DEF RestoreListStarts
    <3>2. task' \in [Handlers -> [Members -> TaskStates]]
      BY <2>4 DEF RestoreListStarts
    <3> QED
      BY <3>1, <3>2
  <2>5. CASE Downloading(h)
    <3>1. PICK m \in Members : \E to \in {"write", "ok", "missing", "err"} :
            task' = [task EXCEPT ![h][m] = to] /\ UNCHANGED <<pc, req, conf>>
      BY <2>5 DEF Downloading, GetStarts, GetEnds, GetMisses, GetFails
    <3> QED
      BY <3>1
  <2>6. CASE RestoreListEnds(h)
    BY <2>6 DEF RestoreListEnds
  <2>7. CASE Reply(h)
    BY <2>7 DEF Reply
  <2> QED
    BY <1>2, <2>1, <2>2, <2>3, <2>4, <2>5, <2>6, <2>7 DEF Handle
<1>3. CASE SidecarRestart \/ PodReplaced
  BY <1>3 DEF SidecarRestart, PodReplaced, AllHandlersStop
<1>4. CASE UNCHANGED hVars
  BY <1>4
<1>5. Upload \/ Stream \/ PgRestart \/ ChangeCluster => UNCHANGED hVars
  BY DEF Upload, Stream, Streamed, StreamEnds, PgRestart, ChangeCluster
<1>6. UNCHANGED vars => UNCHANGED hVars
  BY DEF vars
<1> QED
  BY <1>1, <1>2, <1>3, <1>4, <1>5, <1>6 DEF Next, Requesting

\* PostgreSQL moves to the next segment only when there is one.
LEMMA PgTypesStep ==
    ASSUME TypeInv, [Next]_vars
    PROVE  PgTypes'
<1> USE TypeParts, RestoreAssumption
    DEF RestoreAssumption, TypeInv, PgTypes, pgVars, fileVars, archVars, hVars, envVars, histVars
<1>1. CASE Requesting
  BY <1>1 DEF Requesting, Request
<1>2. CASE Stream
  BY <1>2 DEF Stream, Streamed, StreamEnds
<1>3. ASSUME NEW h \in Handlers, Reply(h) PROVE PgTypes'
  <2>1. CASE caller # h
    BY <1>3, <2>1 DEF Reply
  <2>2. CASE caller = h
    <3>1. caller' = NoHandler
      BY <1>3, <2>2 DEF Reply
    <3>2. mode' \in {"scan", "archive", "stream", "ended"}
      BY <1>3, <2>2 DEF Reply, Fallback
    <3>3. next' = next \/ (req[h] # History /\ next' = next + 1)
      BY <1>3, <2>2 DEF Reply
    <3>4. next' \in 1 .. NSeg + 1
      BY <2>2, <3>3 DEF CallInv
    <3>5. spoiled' \in Nat /\ stale' \in Nat
      BY <1>3, <2>2 DEF Reply
    <3> QED
      BY <3>1, <3>2, <3>4, <3>5
  <2> QED
    BY <2>1, <2>2
<1>4. CASE PgRestart \/ PodReplaced
  BY <1>4 DEF PgRestart, PodReplaced, PgRestarts
<1>5. CASE SidecarRestart
  BY <1>5 DEF SidecarRestart, Fallback
<1>6. CASE UNCHANGED <<pgVars, spoiled, stale>>
  BY <1>6
<1>7. Upload \/ ChangeCluster \/ UNCHANGED vars => UNCHANGED <<pgVars, spoiled, stale>>
  BY DEF Upload, ChangeCluster, vars
<1>8. ASSUME NEW h \in Handlers, Handle(h)
      PROVE  Reply(h) \/ UNCHANGED <<pgVars, spoiled, stale>>
  BY <1>8 DEF Handle, RestoreFromSpool, RemoveFromSpool, NotInSpool, IsEndOfWALStream,
         ResetEndOfWalStream, StepFails,
       RestoreListStarts, Downloading, GetStarts, GetEnds, GetMisses, GetFails, RestoreListEnds,
       SetEndOfWALStream
<1> QED
  BY <1>1, <1>2, <1>3, <1>4, <1>5, <1>6, <1>7, <1>8 DEF Next

\* The bounds on faults, crashes and changes are kept.
LEMMA EnvTypesStep ==
    ASSUME TypeInv, [Next]_vars
    PROVE  EnvTypes'
<1> USE TypeParts, RestoreAssumption, MembersAre
    DEF RestoreAssumption, TypeInv, EnvTypes, pgVars, fileVars, archVars, hVars, envVars, histVars,
        Fault, Crash
<1>1. CASE Upload \/ Requesting \/ Stream \/ UNCHANGED vars
  BY <1>1 DEF Upload, Requesting, Request, Stream, Streamed, StreamEnds, vars
<1>2. ASSUME NEW h \in Handlers, RestoreListEnds(h) PROVE EnvTypes'
  <2>1. missed' \subseteq Segs \cup {History}
    BY <1>2 DEF RestoreListEnds
  <2> QED
    BY <1>2, <2>1 DEF RestoreListEnds
<1>3. ASSUME NEW h \in Handlers, Handle(h), ~RestoreListEnds(h) PROVE EnvTypes'
  <2>1. UNCHANGED <<envVars, missed>>
    BY <1>3 DEF Handle, RestoreFromSpool, RemoveFromSpool, NotInSpool, IsEndOfWALStream,
       ResetEndOfWalStream, StepFails, RestoreListStarts, Downloading, GetStarts, GetEnds,
       GetMisses, GetFails, SetEndOfWALStream, Reply
  <2>2. UNCHANGED faults \/ Fault
    BY <1>3 DEF Handle, RestoreFromSpool, RemoveFromSpool, NotInSpool, IsEndOfWALStream,
       ResetEndOfWalStream, StepFails, RestoreListStarts, Downloading, GetStarts, GetEnds,
       GetMisses, GetFails, SetEndOfWALStream, Reply
  <2> QED
    BY <2>1, <2>2
<1>4. CASE PgRestart
  BY <1>4 DEF PgRestart
<1>5. CASE SidecarRestart
  BY <1>5 DEF SidecarRestart
<1>6. CASE PodReplaced
  BY <1>6 DEF PodReplaced
<1>7. CASE ChangeCluster
  BY <1>7 DEF ChangeCluster
<1> QED
  BY <1>1, <1>2, <1>3, <1>4, <1>5, <1>6, <1>7 DEF Next

\* PostgreSQL waits for one call at a time, and moves only when it is answered.
LEMMA CallInvStep ==
    ASSUME TypeInv, [Next]_vars
    PROVE  CallInv'
<1> USE TypeParts
    DEF TypeInv, CallInv, pgVars, fileVars, archVars, hVars, envVars, histVars
<1>1. ASSUME NEW h \in Handlers, Request(h) PROVE CallInv'
  <2>1. next # History
    BY RestoreAssumption DEF PgTypes, History, RestoreAssumption
  <2> QED
    BY <1>1, <2>1 DEF Request, HandlerTypes
<1>2. CASE Stream
  BY <1>2 DEF Stream, Streamed, StreamEnds
<1>3. ASSUME NEW h \in Handlers, Reply(h) PROVE CallInv'
  <2>1. CASE caller = h
    BY <1>3, <2>1 DEF Reply
  <2>2. CASE caller # h
    BY <1>3, <2>2 DEF Reply, HandlerTypes, PgTypes
  <2> QED
    BY <2>1, <2>2
<1>4. ASSUME NEW h \in Handlers, Handle(h), ~Reply(h) PROVE CallInv'
  <2>1. UNCHANGED <<pgVars, req>>
    BY <1>4 DEF Handle, RestoreFromSpool, RemoveFromSpool, NotInSpool, IsEndOfWALStream,
       ResetEndOfWalStream, StepFails, RestoreListStarts, Downloading, GetStarts, GetEnds,
       GetMisses, GetFails, SetEndOfWALStream, RestoreListEnds
  <2>2. pc' = pc \/ \E to \in Steps \ {"idle"} : pc' = [pc EXCEPT ![h] = to]
    BY <1>4 DEF Handle, RestoreFromSpool, RemoveFromSpool, NotInSpool, AfterSpool,
       IsEndOfWALStream, ResetEndOfWalStream, StepFails, RestoreListStarts, Downloading, GetStarts,
       GetEnds, GetMisses, GetFails, SetEndOfWALStream, RestoreListEnds, Steps
  <2> QED
    BY <2>1, <2>2 DEF HandlerTypes, PgTypes
<1>5. CASE PgRestart \/ SidecarRestart \/ PodReplaced
  BY <1>5 DEF PgRestart, SidecarRestart, PodReplaced, PgRestarts
<1>6. CASE UNCHANGED <<pgVars, hVars>>
  BY <1>6
<1>7. Upload \/ ChangeCluster \/ UNCHANGED vars => UNCHANGED <<pgVars, hVars>>
  BY DEF Upload, ChangeCluster, vars
<1> QED
  BY <1>1, <1>2, <1>3, <1>4, <1>5, <1>6, <1>7 DEF Next, Requesting

\* No archive has the history file.
LEMMA NoHistoryFileStep ==
    ASSUME TypeInv, [Next]_vars
    PROVE  NoHistoryFile'
<1> USE TypeParts, MembersAre
    DEF TypeInv, NoHistoryFile, HandlerTypes, pgVars, fileVars, archVars, hVars, envVars, histVars
<1>1. ASSUME NEW h \in Handlers, NEW m \in Members, GetStarts(h, m) PROVE NoHistoryFile'
  <2>1. m # <<History, "full">>
    BY <1>1, RestoreAssumption, SourceIsArchive
       DEF GetStarts, Has, ArchiveOf, History, FileTypes, RestoreAssumption
  <2> QED
    BY <1>1, <2>1 DEF GetStarts
<1>2. ASSUME NEW h \in Handlers, NEW m \in Members,
             GetEnds(h, m) \/ GetMisses(h, m) \/ GetFails(h, m)
      PROVE  NoHistoryFile'
  <2>1. CASE GetEnds(h, m)
    BY <2>1 DEF GetEnds
  <2>2. CASE GetMisses(h, m)
    BY <2>2 DEF GetMisses
  <2>3. CASE GetFails(h, m)
    <3>1. task' = [task EXCEPT ![h][m] = "err"]
      BY <2>3 DEF GetFails
    <3> QED
      BY <3>1
  <2> QED
    BY <1>2, <2>1, <2>2, <2>3
<1>3. ASSUME NEW h \in Handlers, RestoreListStarts(h) PROVE NoHistoryFile'
  BY <1>3 DEF RestoreListStarts
<1>4. ASSUME NEW h \in Handlers, Reply(h) PROVE NoHistoryFile'
  BY <1>4 DEF Reply, NoTasks
<1>5. CASE SidecarRestart \/ PodReplaced
  BY <1>5 DEF SidecarRestart, PodReplaced, AllHandlersStop, NoTasks
<1>6. CASE UNCHANGED task
  BY <1>6
<1>7. Next => \/ SidecarRestart \/ PodReplaced \/ UNCHANGED task
              \/ \E h \in Handlers : RestoreListStarts(h) \/ Reply(h)
              \/ \E h \in Handlers, m \in Members :
                    GetStarts(h, m) \/ GetEnds(h, m) \/ GetMisses(h, m) \/ GetFails(h, m)
  BY DEF Next, Upload, Requesting, Request, Stream, Streamed, StreamEnds, Handle, RestoreFromSpool,
     RemoveFromSpool, NotInSpool, IsEndOfWALStream, ResetEndOfWalStream, StepFails, Downloading,
     RestoreListEnds, SetEndOfWALStream, PgRestart, ChangeCluster
<1>8. UNCHANGED vars => UNCHANGED task
  BY DEF vars
<1> QED
  BY <1>1, <1>2, <1>3, <1>4, <1>5, <1>6, <1>7, <1>8

-----------------------------------------------------------------------------
\* The types hold of the initial states.
LEMMA InitTypes == Init => TypeInv
<1> SUFFICES ASSUME Init PROVE TypeInv
  OBVIOUS
<1> USE RestoreAssumption DEF RestoreAssumption, Init
<1>1. PgTypes /\ CallInv
  BY DEF PgTypes, CallInv
<1>2. HandlerTypes /\ NoHistoryFile
  BY MembersAre DEF HandlerTypes, NoHistoryFile, NoTasks, Steps, TaskStates
<1>3. FileTypes
  <2>1. dest \in Files /\ spool \in [Segs -> Files]
    BY DEF Files
  <2>2. avail \in [Archives -> SUBSET (1 .. NSeg)] /\ partial \in [Archives -> 0 .. NSeg]
    OBVIOUS
  <2> QED
    BY <2>1, <2>2 DEF FileTypes
<1>4. EnvTypes
  <2>1. 0 \in 0 .. MaxFaults /\ 0 \in 0 .. MaxCrashes /\ 0 \in 0 .. MaxChanges
    OBVIOUS
  <2> QED
    BY <2>1 DEF EnvTypes
<1> QED
  BY <1>1, <1>2, <1>3, <1>4, TypeParts DEF TypeInv

\* Every step keeps the types, what a call asks for, and that there is no history file.
LEMMA TypeInvStep ==
    ASSUME TypeInv, [Next]_vars
    PROVE  TypeInv'
<1>1. TypeOK'
  BY FileTypesStep, HandlerTypesStep, PgTypesStep, EnvTypesStep
     DEF TypeOK, PgTypes, HandlerTypes, FileTypes, EnvTypes
<1> QED
  BY <1>1, CallInvStep, NoHistoryFileStep DEF TypeInv

\* The types of the variables are kept by every step of the model.
THEOREM TypeCorrect == Spec => []TypeOK
<1>1. Init => TypeInv
  BY InitTypes
<1>2. TypeInv /\ [Next]_vars => TypeInv'
  BY TypeInvStep
<1>3. TypeInv => TypeOK
  BY DEF TypeInv
<1> QED
  BY <1>1, <1>2, <1>3, PTL DEF Spec

-----------------------------------------------------------------------------
(* A quiet system: nothing has failed, restarted or changed.               *)

Quiet == faults + crashes + changes = 0

\* The handler PostgreSQL waits for is the only one, and it knows the present Cluster.
SerialInv == \A h \in Handlers : pc[h] # "idle" => caller = h /\ conf[h] = cluster

\* The requested segment is at the destination, and still in the spool.
Taken(h) == req[h] \in Segs /\ spool[req[h]] # NoFile /\ dest = spool[req[h]]

\* What a handler has started and learnt at each step.
StepOf(h) ==
    /\ \A m \in Members :
          /\ task[h][m] # "none" => pc[h] \in {"get", "set", "restored", "notfound"}
          /\ task[h][m] \in {"get", "write"} => pc[h] = "get"
          /\ task[h][m] # "err"
    /\ pc[h] = "take" => Taken(h)
    /\ pc[h] = "get" => task[h][First(h)] # "none"
    /\ pc[h] # "failed"
    /\ pc[h] = "reset" => eos
    /\ pc[h] \in {"flag", "reset", "end"} => Streaming(cluster)
    /\ pc[h] \in {"set", "restored"} => req[h] # History

\* What was found in the archive stays there.
FoundOf(h) == \A m \in Members : task[h][m] \in {"write", "ok"} => Has(Source(cluster), m)

\* Each download is at its path: torn while it runs, whole when it has ended.
DownloadOf(h) ==
    \A m \in Members : /\ task[h][m] = "write" => Current(h, m) = File(h, m, "torn")
                       /\ task[h][m] = "ok" => Current(h, m) = File(h, m, m[2])

\* A segment that is about to be delivered is at the destination.
RestoredOf(h) == pc[h] \in {"set", "restored"} => Usable(dest, req[h])

\* "Not found" is said of a segment that was looked for.
NotFoundOf(h) == pc[h] = "notfound" => req[h] \in missed

HandlerInv ==
    \A h \in Handlers : StepOf(h) /\ FoundOf(h) /\ DownloadOf(h) /\ RestoredOf(h) /\ NotFoundOf(h)

\* An archive has a segment or its .partial, not both.
ArchiveInv == \A a \in Archives : partial[a] \notin avail[a]

\* Under the name of a segment the spool has that segment, and it is whole unless it is
\* being downloaded.
SpoolInv ==
    \A w \in Segs : spool[w] # NoFile =>
        /\ spool[w].seg = w
        /\ spool[w].kind = "torn" =>
              \E h \in Handlers, m \in Members : task[h][m] = "write" /\ m # First(h) /\ m[1] = w

\* Recovery ended at a segment that was looked for.
EndedInv == mode = "ended" => next \in missed

QuietInv == SerialInv /\ HandlerInv /\ ArchiveInv /\ SpoolInv /\ EndedInv

\* The steps of a handler that do not fail.
QuietHandle(h) ==
    \/ RestoreFromSpool(h) \/ RemoveFromSpool(h) \/ NotInSpool(h)
    \/ IsEndOfWALStream(h) \/ ResetEndOfWalStream(h)
    \/ RestoreListStarts(h)
    \/ \E m \in Members : GetStarts(h, m) \/ GetEnds(h, m) \/ GetMisses(h, m)
    \/ RestoreListEnds(h) \/ SetEndOfWALStream(h) \/ Reply(h)

\* Counters whose sum is zero are zero.
LEMMA NoneCounted == \A a, b, c \in Nat : a + b + c = 0 => a = 0 /\ b = 0 /\ c = 0
OBVIOUS

\* In a quiet system the environment is fixed and the steps are these.
LEMMA QuietStep ==
    ASSUME TypeInv, Next, Quiet'
    PROVE  /\ Quiet /\ UNCHANGED envVars
           /\ Upload \/ Requesting \/ Stream \/ \E h \in Handlers : QuietHandle(h)
<1> USE TypeParts, RestoreAssumption DEF TypeInv, EnvTypes, RestoreAssumption, Quiet, envVars
<1>1. faults \in Nat /\ crashes \in Nat /\ changes \in Nat
  OBVIOUS
<1>2. EnvTypes'
  BY EnvTypesStep
<1>3. faults' = 0 /\ crashes' = 0 /\ changes' = 0
  <2>1. faults' \in Nat /\ crashes' \in Nat /\ changes' \in Nat
    BY <1>2
  <2>2. faults' + crashes' + changes' = 0
    BY DEF Quiet
  <2> QED
    BY ONLY <2>1, <2>2, NoneCounted
<1>4. ~Crash /\ ~Fault /\ ~ChangeCluster
  <2>1. crashes' # crashes + 1 /\ faults' # faults + 1 /\ changes' # changes + 1
    BY <1>1, <1>3
  <2> QED
    BY <2>1 DEF Crash, Fault, ChangeCluster
<1>5. ~PgRestart /\ ~SidecarRestart /\ ~PodReplaced
  BY <1>4 DEF PgRestart, SidecarRestart, PodReplaced
<1>6. \A h \in Handlers : ~StepFails(h) /\ \A m \in Members : ~GetFails(h, m)
  BY <1>4 DEF StepFails, GetFails
<1>7. Upload \/ Requesting \/ Stream \/ \E h \in Handlers : QuietHandle(h)
  BY <1>4, <1>5, <1>6 DEF Next, Handle, Downloading, QuietHandle
<1>8. UNCHANGED <<envVars, faults>>
  <2>1. Upload \/ Requesting \/ Stream => UNCHANGED <<envVars, faults>>
    BY DEF Upload, Requesting, Request, Stream, Streamed, StreamEnds
  <2>2. ASSUME NEW h \in Handlers, QuietHandle(h) PROVE UNCHANGED <<envVars, faults>>
    BY <2>2 DEF QuietHandle, RestoreFromSpool, RemoveFromSpool, NotInSpool, IsEndOfWALStream,
       ResetEndOfWalStream, RestoreListStarts, GetStarts, GetEnds, GetMisses, RestoreListEnds,
       SetEndOfWALStream, Reply
  <2> QED
    BY <1>7, <2>1, <2>2
<1> QED
  BY <1>1, <1>3, <1>7, <1>8

\* While a handler runs in a quiet system, the others are idle and download nothing.
LEMMA OthersIdle ==
    ASSUME TypeInv, SerialInv, HandlerInv, NEW h \in Handlers, QuietHandle(h)
    PROVE  /\ pc[h] # "idle" /\ caller = h /\ conf[h] = cluster
           /\ \A g \in Handlers \ {h} : pc'[g] = "idle" /\ \A m \in Members : task'[g][m] = "none"
           /\ \A g \in Handlers \ {h} : pc[g] = "idle" /\ \A m \in Members : task[g][m] = "none"
<1> USE TypeParts DEF TypeInv, HandlerTypes, SerialInv, HandlerInv, StepOf
<1>1. pc[h] # "idle"
  BY DEF QuietHandle, RestoreFromSpool, RemoveFromSpool, NotInSpool, IsEndOfWALStream,
     ResetEndOfWalStream, RestoreListStarts, GetStarts, GetEnds, GetMisses, RestoreListEnds,
     SetEndOfWALStream, Reply
<1>2. \A g \in Handlers \ {h} : pc'[g] = pc[g] /\ task'[g] = task[g]
  BY DEF QuietHandle, RestoreFromSpool, RemoveFromSpool, NotInSpool, IsEndOfWALStream,
     ResetEndOfWalStream, RestoreListStarts, GetStarts, GetEnds, GetMisses, RestoreListEnds,
     SetEndOfWALStream, Reply, hVars
<1>3. \A g \in Handlers \ {h} : pc[g] = "idle" /\ \A m \in Members : task[g][m] = "none"
  BY <1>1
<1> QED
  BY <1>1, <1>2, <1>3

\* A handler that is idle has nothing to keep.
LEMMA IdleKeeps ==
    ASSUME NEW g \in Handlers, pc'[g] = "idle", \A m \in Members : task'[g][m] = "none"
    PROVE  (StepOf(g) /\ FoundOf(g) /\ DownloadOf(g) /\ RestoredOf(g) /\ NotFoundOf(g))'
BY DEF StepOf, FoundOf, DownloadOf, RestoredOf, NotFoundOf

\* In a quiet system one handler runs.
LEMMA SerialStep ==
    ASSUME TypeInv, Quiet, SerialInv, HandlerInv, Next, Quiet'
    PROVE  SerialInv'
<1> USE TypeParts, QuietStep
    DEF TypeInv, HandlerTypes, SerialInv, pgVars, fileVars, archVars, hVars, envVars, histVars
<1>1. CASE Upload \/ Stream
  BY <1>1 DEF Upload, Stream, Streamed, StreamEnds
<1>2. ASSUME NEW h \in Handlers, Request(h) PROVE SerialInv'
  <2>1. \A g \in Handlers : pc[g] = "idle"
    BY <1>2, RestoreAssumption DEF Request, RestoreAssumption
  <2> QED
    BY <1>2, <2>1 DEF Request
<1>3. ASSUME NEW h \in Handlers, QuietHandle(h) PROVE SerialInv'
  <2>1. caller = h /\ conf[h] = cluster /\ \A g \in Handlers \ {h} : pc'[g] = "idle"
    BY <1>3, OthersIdle
  <2>2. CASE Reply(h)
    BY <2>1, <2>2 DEF Reply
  <2>3. ~Reply(h) => UNCHANGED <<caller, conf, cluster>>
    BY <1>3 DEF QuietHandle, RestoreFromSpool, RemoveFromSpool, NotInSpool, IsEndOfWALStream,
       ResetEndOfWalStream, RestoreListStarts, GetStarts, GetEnds, GetMisses, RestoreListEnds,
       SetEndOfWALStream
  <2> QED
    BY <2>1, <2>2, <2>3
<1> QED
  BY <1>1, <1>2, <1>3 DEF Requesting

\* Of a segment and its .partial an archive never has both.
LEMMA ArchiveStep ==
    ASSUME TypeInv, ArchiveInv, Next
    PROVE  ArchiveInv'
<1> USE TypeParts DEF TypeInv, FileTypes, ArchiveInv
<1>1. CASE Upload
  <2>1. PICK a \in Archives, w \in 1 .. NSeg :
          /\ partial[a] = 0 /\ w \notin avail[a]
          /\ \/ avail' = [avail EXCEPT ![a] = @ \cup {w}] /\ UNCHANGED partial
             \/ partial' = [partial EXCEPT ![a] = w] /\ UNCHANGED avail
    BY <1>1, SourceIsArchive DEF Upload
  <2> QED
    BY <2>1, RestoreAssumption DEF RestoreAssumption
<1>2. CASE UNCHANGED archVars
  BY <1>2 DEF archVars
<1>3. Next => Upload \/ UNCHANGED archVars
  BY DEF Next, Requesting, Request, Stream, Streamed, StreamEnds, Handle, RestoreFromSpool,
     RemoveFromSpool, NotInSpool, IsEndOfWALStream, ResetEndOfWalStream, StepFails,
     RestoreListStarts, Downloading, GetStarts, GetEnds, GetMisses, GetFails, RestoreListEnds,
     SetEndOfWALStream, Reply, PgRestart, SidecarRestart, PodReplaced, ChangeCluster, hVars,
     fileVars
<1> QED
  BY <1>1, <1>2, <1>3

\* What an archive has, it keeps.
LEMMA ArchivesGrow ==
    ASSUME TypeInv, Next, NEW a \in Archives, NEW m \in Members, Has(a, m), m[1] # History
    PROVE  Has(a, m)'
<1> USE TypeParts DEF TypeInv, FileTypes, Has, History
<1>1. CASE Upload
  <2>1. PICK b \in Archives, w \in 1 .. NSeg :
          /\ partial[b] = 0
          /\ \/ avail' = [avail EXCEPT ![b] = @ \cup {w}] /\ UNCHANGED partial
             \/ partial' = [partial EXCEPT ![b] = w] /\ UNCHANGED avail
    BY <1>1, SourceIsArchive DEF Upload
  <2> QED
    BY <2>1
<1>2. CASE UNCHANGED archVars
  BY <1>2 DEF archVars
<1>3. Next => Upload \/ UNCHANGED archVars
  BY DEF Next, Requesting, Request, Stream, Streamed, StreamEnds, Handle, RestoreFromSpool,
     RemoveFromSpool, NotInSpool, IsEndOfWALStream, ResetEndOfWalStream, StepFails,
     RestoreListStarts, Downloading, GetStarts, GetEnds, GetMisses, GetFails, RestoreListEnds,
     SetEndOfWALStream, Reply, PgRestart, SidecarRestart, PodReplaced, ChangeCluster, hVars,
     fileVars
<1> QED
  BY <1>1, <1>2, <1>3

\* The handler that runs keeps what each of its steps means.
LEMMA StepOfStep ==
    ASSUME TypeInv, Quiet, QuietInv, NEW h \in Handlers, QuietHandle(h), UNCHANGED envVars
    PROVE  StepOf(h)'
<1> USE TypeParts, MembersAre
    DEF TypeInv, HandlerTypes, QuietInv, HandlerInv, SerialInv, StepOf, pgVars, fileVars, archVars,
        hVars, envVars, histVars, First
<1>1. caller = h /\ conf[h] = cluster /\ pc[h] # "idle"
  BY OthersIdle
<1>2. CASE RestoreFromSpool(h)
  <2>1. /\ pc[h] = "spool" /\ pc'[h] = "take" /\ UNCHANGED <<task, req, spool, eos>>
        /\ req[h] \in Segs /\ spool[req[h]] # NoFile /\ dest' = spool[req[h]]
    BY <1>2 DEF RestoreFromSpool
  <2>2. Taken(h)'
    BY <2>1 DEF Taken
  <2>3. \A m \in Members : task'[h][m] = "none"
    BY <2>1
  <2> HIDE DEF TypeInv, HandlerTypes, QuietInv, HandlerInv, SerialInv
  <2> QED
    BY <2>1, <2>2, <2>3
<1>11. CASE RemoveFromSpool(h)
  <2>1. req[h] \in Segs /\ spool[req[h]] # NoFile
    BY <1>11 DEF RemoveFromSpool, Taken
  <2> QED
    BY <1>11, <2>1 DEF RemoveFromSpool, Segs, History
<1>3. CASE NotInSpool(h)
  <2>1. pc[h] = "spool" /\ pc'[h] \in {"flag", "gather"} /\ UNCHANGED <<task, req, eos, cluster>>
    BY <1>3 DEF NotInSpool, AfterSpool
  <2>2. pc'[h] = "flag" => Streaming(cluster)
    BY <1>1, <1>3 DEF NotInSpool, AfterSpool
  <2> QED
    BY <2>1, <2>2 DEF Streaming
<1>4. CASE IsEndOfWALStream(h)
  <2>1. pc[h] = "flag" /\ pc'[h] = (IF eos THEN "reset" ELSE "gather") /\ UNCHANGED <<task, req, eos, cluster>>
    BY <1>4 DEF IsEndOfWALStream
  <2> QED
    BY <2>1 DEF Streaming
<1>5. CASE ResetEndOfWalStream(h)
  <2>1. pc[h] = "reset" /\ pc'[h] = "end" /\ UNCHANGED <<task, req, cluster>>
    BY <1>5 DEF ResetEndOfWalStream
  <2> QED
    BY <2>1 DEF Streaming
<1>6. CASE RestoreListStarts(h)
  <2>1. First(h) \in ListFor(conf[h], req[h])
    <3>1. parallel \in Nat /\ parallel > 0
      BY RestoreAssumption DEF EnvTypes, RestoreAssumption
    <3>2. CASE req[h] = History
      BY <3>2 DEF ListFor
    <3>3. CASE req[h] # History
      <4>1. req[h] \in {v \in Segs : req[h] <= v /\ v < req[h] + parallel}
        BY <3>1, <3>3 DEF Segs
      <4> QED
        BY <3>3, <4>1 DEF ListFor
    <3> QED
      BY <3>2, <3>3
  <2>2. First(h) \in Members
    OBVIOUS
  <2>3. /\ pc'[h] = "get" /\ req' = req
        /\ task'[h] = [m \in Members |-> IF m \in ListFor(conf[h], req[h]) THEN "get" ELSE "none"]
    BY <1>6 DEF RestoreListStarts
  <2> QED
    BY <2>1, <2>2, <2>3
<1>7. ASSUME NEW m \in Members, GetStarts(h, m) \/ GetEnds(h, m) \/ GetMisses(h, m)
      PROVE  StepOf(h)'
  <2>1. pc[h] = "get" /\ UNCHANGED <<pc, req>>
    BY <1>7 DEF GetStarts, GetEnds, GetMisses
  <2>2. \E to \in {"write", "ok", "missing"} : task' = [task EXCEPT ![h][m] = to]
    BY <1>7 DEF GetStarts, GetEnds, GetMisses
  <2> QED
    BY <2>1, <2>2
<1>8. CASE RestoreListEnds(h)
  <2>1. First(h) \in Members
    OBVIOUS
  <2>2. pc[h] = "get" /\ UNCHANGED <<req, task>>
    BY <1>8 DEF RestoreListEnds
  <2>3. Result(h) \in {"ok", "missing"}
    <3>1. task[h][First(h)] \in {"none", "ok", "missing", "err"}
      BY <1>8, <2>1 DEF RestoreListEnds
    <3>2. task[h][First(h)] \notin {"none", "err"}
      BY <2>1, <2>2
    <3> QED
      BY <3>1, <3>2 DEF Result
  <2>4. pc'[h] \in {"notfound", "set", "restored"} /\ (pc'[h] # "notfound" => Result(h) = "ok")
    BY <1>8, <2>3 DEF RestoreListEnds
  <2>5. Result(h) = "ok" => req[h] # History
    BY DEF Result, NoHistoryFile
  <2>6. \A m \in Members : task[h][m] \notin {"get", "write"}
    BY <1>8 DEF RestoreListEnds
  <2> QED
    BY <2>2, <2>4, <2>5, <2>6
<1>9. CASE SetEndOfWALStream(h)
  BY <1>9 DEF SetEndOfWALStream
<1>10. CASE Reply(h)
  BY <1>10 DEF Reply, NoTasks
<1> QED
  BY <1>2, <1>3, <1>4, <1>5, <1>6, <1>7, <1>8, <1>9, <1>10, <1>11 DEF QuietHandle

\* What the running handler found stays in the archive.
LEMMA FoundStep ==
    ASSUME TypeInv, Quiet, QuietInv, Next, NEW h \in Handlers, QuietHandle(h) \/ UNCHANGED hVars,
           UNCHANGED envVars
    PROVE  FoundOf(h)'
<1> USE TypeParts, MembersAre
    DEF TypeInv, HandlerTypes, QuietInv, HandlerInv, FoundOf, NoHistoryFile, hVars, envVars
<1>0. Source(cluster)' = Source(cluster)
  BY DEF Source
<1>1. ASSUME NEW m \in Members, Has(Source(cluster), m), m # <<History, "full">>
      PROVE  Has(Source(cluster), m)'
  BY <1>0, <1>1, ArchivesGrow, SourceIsArchive
<1>2. ASSUME NEW m \in Members, task'[h][m] \in {"write", "ok"},
             task[h][m] \notin {"write", "ok"}
      PROVE  GetStarts(h, m)
  BY <1>2 DEF QuietHandle, RestoreFromSpool, RemoveFromSpool, NotInSpool, IsEndOfWALStream,
     ResetEndOfWalStream, RestoreListStarts, GetStarts, GetEnds, GetMisses, RestoreListEnds,
     SetEndOfWALStream, Reply, NoTasks
<1>3. ASSUME NEW m \in Members, GetStarts(h, m) PROVE Has(Source(cluster), m) /\ m # <<History, "full">>
  <2>1. Has(ArchiveOf(h), m) /\ pc[h] = "get"
    BY <1>3 DEF GetStarts
  <2>2. conf[h] = cluster
    BY <2>1 DEF SerialInv
  <2> QED
    BY <2>1, <2>2, SourceIsArchive DEF ArchiveOf, Has, FileTypes, History
<1>4. ASSUME NEW m \in Members, task'[h][m] \in {"write", "ok"} PROVE Has(Source(cluster), m)'
  BY <1>1, <1>2, <1>3, <1>4
<1> QED
  BY <1>4

\* Two names that an archive has are of two segments.
LEMMA FoundAreDistinct ==
    ASSUME TypeInv, ArchiveInv, NEW a \in Archives, NEW m \in Members, NEW n \in Members, m # n,
           Has(a, m), Has(a, n)
    PROVE  m[1] # n[1]
<1>1. m[1] = n[1] => m[2] # n[2]
  BY DEF Members
<1>2. m[2] \in {"full", "partial"} /\ n[2] \in {"full", "partial"}
  BY DEF Members
<1> QED
  BY <1>1, <1>2 DEF Has, ArchiveInv

\* A download writes to its own path.
LEMMA WritesItsPath ==
    ASSUME TypeInv, ArchiveInv, NEW h \in Handlers, NEW m \in Members, NEW f,
           m # <<History, "full">>, Write(h, m, f), UNCHANGED req
    PROVE  /\ Current(h, m)' = f
           /\ \A n \in Members, a \in Archives :
                 n # m /\ Has(a, m) /\ Has(a, n) => Current(h, n)' = Current(h, n)
<1> USE DEF TypeInv
<1>1. m[1] \in Segs
  BY MembersAre
<1>2. Current(h, m)' = f
  BY <1>1 DEF Write, Current, First, TypeOK
<1>3. ASSUME NEW n \in Members, NEW a \in Archives, n # m, Has(a, m), Has(a, n)
      PROVE  Current(h, n)' = Current(h, n)
  <2>1. m[1] # n[1]
    BY <1>3, FoundAreDistinct
  <2>2. CASE m = First(h)
    <3>1. n # First(h) /\ UNCHANGED spool
      BY <1>3, <2>2 DEF Write
    <3> QED
      BY <3>1 DEF Current, First
  <2>3. CASE m # First(h)
    <3>1. spool' = [spool EXCEPT ![m[1]] = f] /\ UNCHANGED dest
      BY <2>3 DEF Write
    <3>2. spool'[n[1]] = spool[n[1]]
      BY <2>1, <3>1 DEF TypeOK
    <3> QED
      BY <3>1, <3>2 DEF Current, First
  <2> QED
    BY <2>2, <2>3
<1> QED
  BY <1>2, <1>3

\* In a quiet system archive-get leaves the whole file at its path.
LEMMA FilledWhole ==
    ASSUME TypeInv, Quiet, QuietInv, NEW h \in Handlers, NEW m \in Members, GetEnds(h, m)
    PROVE  Filled(h, m) = {File(h, m, m[2])}
<1>1. task[h][m] = "write" /\ pc[h] = "get"
  BY DEF GetEnds
<1>2. Current(h, m) = File(h, m, "torn")
  BY <1>1 DEF QuietInv, HandlerInv, DownloadOf
<1>3. File(h, m, "torn") # NoFile
  <2>1. m # <<History, "full">>
    BY <1>1 DEF TypeInv, NoHistoryFile
  <2>2. File(h, m, "torn") \in Contents
    BY <2>1, MembersAre, SourceIsArchive DEF File, Contents, ArchiveOf
  <2> QED
    BY <2>2, NoFileAssumption
<1>4. ~Shared(h, m)
  BY <1>1 DEF QuietInv, SerialInv, Shared
<1> QED
  BY <1>2, <1>3, <1>4 DEF Filled

\* Each download of the running handler is at its path.
LEMMA DownloadStep ==
    ASSUME TypeInv, Quiet, QuietInv, NEW h \in Handlers, QuietHandle(h)
    PROVE  DownloadOf(h)'
<1> USE DEF DownloadOf, Member, hVars, fileVars
<1>1. CASE NotInSpool(h) \/ IsEndOfWALStream(h) \/ ResetEndOfWalStream(h) \/ RestoreListEnds(h)
           \/ SetEndOfWALStream(h)
  <2>1. UNCHANGED <<task, dest, spool, req, conf>>
    BY <1>1 DEF NotInSpool, IsEndOfWALStream, ResetEndOfWalStream, RestoreListEnds,
       SetEndOfWALStream
  <2> QED
    BY <2>1 DEF QuietInv, HandlerInv, Current, First, File, ArchiveOf
<1>2. CASE RestoreFromSpool(h) \/ RemoveFromSpool(h) \/ RestoreListStarts(h) \/ Reply(h)
  <2>1. \A m \in Members : task'[h][m] \notin {"write", "ok"}
    BY <1>2 DEF RestoreFromSpool, RemoveFromSpool, RestoreListStarts, Reply, NoTasks, QuietInv,
       HandlerInv, StepOf, TypeInv, TypeOK
  <2> QED
    BY <2>1
<1>3. ASSUME NEW m \in Members, GetStarts(h, m) \/ GetEnds(h, m) PROVE DownloadOf(h)'
  <2>1. PICK k \in {"torn", m[2]}, to \in {"write", "ok"} :
          /\ Write(h, m, File(h, m, k)) /\ task' = [task EXCEPT ![h][m] = to] /\ UNCHANGED <<req, conf>>
          /\ to = "write" => k = "torn"
          /\ to = "ok" => k = m[2]
    <3>1. CASE GetStarts(h, m)
      <4>1. /\ Write(h, m, File(h, m, "torn")) /\ task' = [task EXCEPT ![h][m] = "write"]
            /\ UNCHANGED <<req, conf>>
        BY <3>1 DEF GetStarts
      <4> QED
        BY <4>1
    <3>2. CASE GetEnds(h, m)
      <4>1. /\ Write(h, m, File(h, m, m[2])) /\ task' = [task EXCEPT ![h][m] = "ok"]
            /\ UNCHANGED <<req, conf>>
        BY <3>2, FilledWhole DEF GetEnds
      <4> QED
        BY <4>1
    <3> QED
      BY <1>3, <3>1, <3>2
  <2>2. Has(Source(cluster), m) /\ m # <<History, "full">>
    <3>1. conf[h] = cluster
      BY <1>3, OthersIdle DEF QuietInv
    <3>2. CASE GetStarts(h, m)
      BY <3>1, <3>2, SourceIsArchive DEF GetStarts, ArchiveOf, Has, History, TypeInv, TypeOK
    <3>3. CASE GetEnds(h, m)
      BY <3>3 DEF GetEnds, QuietInv, HandlerInv, FoundOf, TypeInv, NoHistoryFile
    <3> QED
      BY <1>3, <3>2, <3>3
  <2>3. Current(h, m)' = File(h, m, k) /\ task'[h][m] = to
    BY <2>1, <2>2, WritesItsPath DEF QuietInv, TypeInv, TypeOK
  <2>4. ASSUME NEW n \in Members, n # m, task[h][n] \in {"write", "ok"}
        PROVE  Current(h, n)' = Current(h, n)
    <3>1. Has(Source(cluster), n)
      BY <2>4 DEF QuietInv, HandlerInv, FoundOf
    <3> QED
      BY <2>1, <2>2, <2>4, <3>1, WritesItsPath, SourceIsArchive DEF QuietInv
  <2>5. \A n \in Members : n # m => task'[h][n] = task[h][n]
    BY <2>1 DEF TypeInv, TypeOK
  <2>6. \A n, kind : File(h, n, kind)' = File(h, n, kind)
    BY <2>1 DEF File, ArchiveOf
  <2>7. \A n \in Members : n # m =>
           /\ task'[h][n] = "write" => Current(h, n)' = File(h, n, "torn")'
           /\ task'[h][n] = "ok" => Current(h, n)' = File(h, n, n[2])'
    BY <2>4, <2>5, <2>6 DEF QuietInv, HandlerInv
  <2>8. /\ task'[h][m] = "write" => Current(h, m)' = File(h, m, "torn")'
        /\ task'[h][m] = "ok" => Current(h, m)' = File(h, m, m[2])'
    BY <2>1, <2>3, <2>6
  <2> QED
    BY <2>7, <2>8
<1>4. ASSUME NEW m \in Members, GetMisses(h, m) PROVE DownloadOf(h)'
  <2>1. task' = [task EXCEPT ![h][m] = "missing"] /\ UNCHANGED <<dest, spool, req, conf>>
    BY <1>4 DEF GetMisses
  <2>2. \A n \in Members : task'[h][n] = task[h][n] \/ task'[h][n] = "missing"
    BY <2>1 DEF TypeInv, TypeOK
  <2> QED
    BY <2>1, <2>2 DEF QuietInv, HandlerInv, Current, First, File, ArchiveOf
<1> QED
  BY <1>1, <1>2, <1>3, <1>4 DEF QuietHandle

\* What is prefetched goes under its own name, and is whole when the downloads have ended.
LEMMA SpoolStep ==
    ASSUME TypeInv, Quiet, QuietInv, NEW h \in Handlers, QuietHandle(h)
    PROVE  SpoolInv'
<1> USE DEF SpoolInv, hVars, fileVars
<1>0. \A g \in Handlers, m \in Members : task[g][m] = "write" => g = h /\ pc[h] = "get"
  BY OthersIdle DEF QuietInv, HandlerInv, StepOf
<1>1. CASE NotInSpool(h) \/ IsEndOfWALStream(h) \/ ResetEndOfWalStream(h) \/ RestoreListEnds(h)
           \/ SetEndOfWALStream(h)
  <2>1. UNCHANGED <<task, spool, req>>
    BY <1>1 DEF NotInSpool, IsEndOfWALStream, ResetEndOfWalStream, RestoreListEnds,
       SetEndOfWALStream
  <2> QED
    BY <2>1 DEF QuietInv, First
<1>2. CASE RestoreFromSpool(h) \/ RemoveFromSpool(h)
  <2>1. \A w \in Segs : spool'[w] = NoFile \/ spool'[w] = spool[w]
    BY <1>2 DEF RestoreFromSpool, RemoveFromSpool, TypeInv, TypeOK
  <2>2. UNCHANGED <<task, req>>
    BY <1>2 DEF RestoreFromSpool, RemoveFromSpool
  <2> QED
    BY <2>1, <2>2 DEF QuietInv, First
<1>3. CASE RestoreListStarts(h) \/ Reply(h)
  <2>1. pc[h] # "get" /\ UNCHANGED spool
    BY <1>3 DEF RestoreListStarts, Reply
  <2> QED
    BY <1>0, <2>1 DEF QuietInv
<1>4. ASSUME NEW m \in Members, GetStarts(h, m) \/ GetEnds(h, m) PROVE SpoolInv'
  <2>1. PICK k \in {"full", "partial", "torn"}, to \in {"write", "ok"} :
          /\ Write(h, m, File(h, m, k)) /\ task' = [task EXCEPT ![h][m] = to] /\ req' = req
          /\ k = "torn" => to = "write"
    <3>1. CASE GetStarts(h, m)
      BY <3>1 DEF GetStarts
    <3>2. CASE GetEnds(h, m)
      <4>1. Write(h, m, File(h, m, m[2])) /\ task' = [task EXCEPT ![h][m] = "ok"] /\ req' = req
        BY <3>2, FilledWhole DEF GetEnds
      <4>2. m[2] \in {"full", "partial"}
        BY DEF Members
      <4> QED
        BY <4>1, <4>2
    <3> QED
      BY <1>4, <3>1, <3>2
  <2>2. \A n \in Members : task[h][n] = "write" /\ n # m => task'[h][n] = "write"
    BY <2>1 DEF TypeInv, TypeOK
  <2>3. task'[h][m] = to
    BY <2>1 DEF TypeInv, TypeOK
  <2>4. First(h)' = First(h)
    BY <2>1 DEF First
  <2>5. ASSUME NEW w \in Segs, spool'[w] # NoFile
        PROVE  /\ spool'[w].seg = w
               /\ spool'[w].kind = "torn" =>
                     \E n \in Members : task'[h][n] = "write" /\ n # First(h) /\ n[1] = w
    <3>1. CASE m # First(h) /\ w = m[1]
      <4>1. spool'[w] = File(h, m, k)
        BY <2>1, <3>1 DEF Write, TypeInv, TypeOK
      <4> QED
        BY <2>1, <2>3, <3>1, <4>1 DEF File
    <3>2. CASE m = First(h) \/ w # m[1]
      <4>1. spool'[w] = spool[w]
        BY <2>1, <3>2 DEF Write, TypeInv, TypeOK
      <4>2. spool[w].kind = "torn" =>
               \E n \in Members : task[h][n] = "write" /\ n # First(h) /\ n[1] = w
        BY <1>0, <2>5, <4>1 DEF QuietInv
      <4>3. ASSUME NEW n \in Members, task[h][n] = "write", n # First(h), n[1] = w
            PROVE  n # m
        BY <3>2, <4>3
      <4> QED
        BY <2>2, <2>5, <4>1, <4>2, <4>3 DEF QuietInv
    <3> QED
      BY <3>1, <3>2
  <2> QED
    BY <2>4, <2>5
<1>5. ASSUME NEW m \in Members, GetMisses(h, m) PROVE SpoolInv'
  <2>1. task[h][m] = "get" /\ task' = [task EXCEPT ![h][m] = "missing"] /\ UNCHANGED <<spool, req>>
    BY <1>5 DEF GetMisses
  <2>2. \A n \in Members : task[h][n] = "write" => task'[h][n] = "write"
    BY <2>1 DEF TypeInv, TypeOK
  <2> QED
    BY <1>0, <2>1, <2>2 DEF QuietInv, First
<1> QED
  BY <1>1, <1>2, <1>3, <1>4, <1>5 DEF QuietHandle

\* What the handler says is restored is the segment it was asked for, whole.
LEMMA RestoredStep ==
    ASSUME TypeInv, Quiet, QuietInv, NEW h \in Handlers, QuietHandle(h)
    PROVE  RestoredOf(h)'
<1> USE TypeParts DEF TypeInv, HandlerTypes, RestoredOf, hVars, fileVars
<1>0. StepOf(h) /\ RestoredOf(h)
  BY DEF QuietInv, HandlerInv
<1>1. CASE RemoveFromSpool(h)
  <2>1. \A g \in Handlers, m \in Members : task[g][m] # "write"
    BY <1>1, OthersIdle DEF RemoveFromSpool, QuietInv, HandlerInv, StepOf
  <2>2. req[h] \in Segs /\ spool[req[h]] # NoFile /\ dest' = spool[req[h]] /\ req' = req
    BY <1>0, <1>1 DEF RemoveFromSpool, StepOf, Taken
  <2> QED
    BY <2>1, <2>2 DEF QuietInv, SpoolInv, Usable
<1>2. CASE RestoreListEnds(h)
  <2>1. First(h) \in Members /\ pc[h] = "get" /\ UNCHANGED <<dest, req>>
    BY <1>2, MembersAre DEF RestoreListEnds, First
  <2>2. pc'[h] \in {"set", "restored"} => Result(h) \in {"none", "ok"}
    <3>1. Result(h) \in {"none", "ok", "missing", "err"}
      BY <1>2, <2>1 DEF RestoreListEnds, Result
    <3>2. Result(h) \in {"missing", "err"} => pc'[h] \notin {"set", "restored"}
      BY <1>2 DEF RestoreListEnds
    <3> QED
      BY <3>1, <3>2
  <2>3. Result(h) # "none"
    BY <1>0, <2>1 DEF StepOf, Result
  <2>4. ASSUME Result(h) = "ok" PROVE Usable(dest, req[h])
    <3>1. dest = File(h, First(h), "full")
      BY <2>1, <2>4 DEF QuietInv, HandlerInv, DownloadOf, Result, Current, First
    <3>2. First(h) # <<History, "full">>
      BY <2>4 DEF Result, NoHistoryFile
    <3>3. dest \in Contents
      BY <2>1, <3>1, <3>2, MembersAre, SourceIsArchive DEF File, Contents, ArchiveOf
    <3>4. dest.seg = req[h] /\ dest.kind = "full"
      BY <3>1 DEF File, First
    <3> QED
      BY <3>3, <3>4, NoFileAssumption DEF Usable
  <2> QED
    BY <2>1, <2>2, <2>3, <2>4 DEF Usable
<1>3. CASE SetEndOfWALStream(h)
  BY <1>0, <1>3 DEF SetEndOfWALStream, Usable
<1>4. CASE RestoreFromSpool(h) \/ NotInSpool(h) \/ IsEndOfWALStream(h) \/ ResetEndOfWalStream(h)
           \/ RestoreListStarts(h) \/ Reply(h)
           \/ \E m \in Members : GetStarts(h, m) \/ GetEnds(h, m) \/ GetMisses(h, m)
  <2>1. pc'[h] \notin {"set", "restored"}
    BY <1>4 DEF RestoreFromSpool, NotInSpool, AfterSpool, IsEndOfWALStream, ResetEndOfWalStream,
       RestoreListStarts, Reply, GetStarts, GetEnds, GetMisses
  <2> QED
    BY <2>1
<1> QED
  BY <1>1, <1>2, <1>3, <1>4 DEF QuietHandle

\* What the handler says is not found was looked for.
LEMMA NotFoundStep ==
    ASSUME TypeInv, Quiet, QuietInv, NEW h \in Handlers, QuietHandle(h)
    PROVE  NotFoundOf(h)'
<1> USE TypeParts DEF TypeInv, HandlerTypes, NotFoundOf, hVars
<1>1. CASE RestoreListEnds(h)
  <2>1. First(h) \in Members /\ req' = req
    BY <1>1, MembersAre DEF RestoreListEnds, First
  <2>2. Result(h) = "missing" => First(h)[1] \in missed'
    BY <1>1, <2>1 DEF RestoreListEnds, Result
  <2>3. pc'[h] = "notfound" => Result(h) = "missing"
    BY <1>1 DEF RestoreListEnds
  <2> QED
    BY <2>1, <2>2, <2>3 DEF First
<1>2. CASE ~RestoreListEnds(h)
  <2>1. pc'[h] # "notfound"
    BY <1>2 DEF QuietHandle, RestoreFromSpool, RemoveFromSpool, NotInSpool, AfterSpool,
       IsEndOfWALStream, ResetEndOfWalStream, RestoreListStarts, Reply, GetStarts, GetEnds,
       GetMisses, SetEndOfWALStream
  <2> QED
    BY <2>1
<1> QED
  BY <1>1, <1>2

\* Recovery ends at a segment that was looked for.
LEMMA EndedStep ==
    ASSUME TypeInv, Quiet, QuietInv, NEW h \in Handlers, QuietHandle(h)
    PROVE  EndedInv'
<1> USE DEF EndedInv
<1>1. caller = h /\ mode # "ended"
  <2>1. caller = h
    BY OthersIdle DEF QuietInv
  <2> QED
    BY <2>1, RestoreAssumption DEF TypeInv, CallInv, RestoreAssumption
<1>2. CASE ~Reply(h)
  <2>1. mode' = mode
    BY <1>2 DEF QuietHandle, RestoreFromSpool, RemoveFromSpool, NotInSpool, IsEndOfWALStream,
       ResetEndOfWalStream, RestoreListStarts, GetStarts, GetEnds, GetMisses, RestoreListEnds,
       SetEndOfWALStream, pgVars
  <2> QED
    BY <1>1, <2>1
<1>3. CASE Reply(h)
  <2>1. CASE mode' # "ended"
    BY <2>1
  <2>2. CASE mode' = "ended"
    <3>1. /\ req[h] # History /\ ~(pc[h] = "restored" /\ Usable(dest, next)) /\ ~Standby(cluster)
          /\ pc[h] \in {"restored", "notfound", "end", "failed"} /\ UNCHANGED <<next, missed>>
      BY <1>1, <1>3, <2>2 DEF Reply, Fallback
    <3>2. req[h] = next
      BY <1>1, <3>1, RestoreAssumption DEF TypeInv, CallInv, RestoreAssumption
    <3>3. pc[h] \notin {"restored", "failed"}
      BY <3>1, <3>2 DEF QuietInv, HandlerInv, RestoredOf, StepOf
    <3>4. pc[h] # "end"
      BY <3>1 DEF QuietInv, HandlerInv, StepOf, Streaming, Standby
    <3> QED
      BY <3>1, <3>2, <3>3, <3>4 DEF QuietInv, HandlerInv, NotFoundOf
  <2> QED
    BY <2>1, <2>2
<1> QED
  BY <1>2, <1>3

\* Every step of a quiet system keeps its invariant.
LEMMA QuietInvStep ==
    ASSUME TypeInv, Quiet => QuietInv, [Next]_vars
    PROVE  (Quiet => QuietInv)'
<1> SUFFICES ASSUME Quiet' PROVE QuietInv'
  OBVIOUS
<1>1. CASE Next
  <2>1. Quiet /\ UNCHANGED envVars /\ QuietInv
    BY <1>1, QuietStep
  <2>2. SerialInv' /\ ArchiveInv'
    BY <1>1, <2>1, SerialStep, ArchiveStep DEF QuietInv
  <2>3. CASE Upload \/ Stream
    <3>1. UNCHANGED <<hVars, fileVars, missed, cluster>>
      BY <2>1, <2>3 DEF Upload, Stream, Streamed, StreamEnds, envVars, histVars
    <3>2. HandlerInv'
      <4>1. ASSUME NEW h \in Handlers PROVE FoundOf(h)'
        BY <1>1, <2>1, <3>1, FoundStep
      <4>2. ASSUME NEW h \in Handlers PROVE (StepOf(h) /\ DownloadOf(h) /\ RestoredOf(h) /\ NotFoundOf(h))'
        BY <2>1, <3>1 DEF QuietInv, HandlerInv, StepOf, Taken, DownloadOf, RestoredOf, NotFoundOf,
           hVars, fileVars, Current, First, File, ArchiveOf, Usable, Streaming
      <4> QED
        BY <4>1, <4>2 DEF HandlerInv
    <3>3. SpoolInv'
      BY <2>1, <3>1 DEF QuietInv, SpoolInv, hVars, fileVars, First
    <3>4. EndedInv'
      BY <2>1, <2>3, <3>1 DEF QuietInv, EndedInv, Upload, Stream, Streamed, StreamEnds, pgVars
    <3> QED
      BY <2>2, <3>2, <3>3, <3>4 DEF QuietInv
  <2>4. ASSUME NEW h \in Handlers, Request(h) PROVE QuietInv'
    <3>1. \A g \in Handlers : pc[g] = "idle"
      BY <2>1, <2>4, RestoreAssumption DEF Request, QuietInv, SerialInv, RestoreAssumption
    <3>2. \A g \in Handlers, m \in Members : task[g][m] = "none"
      BY <2>1, <3>1 DEF QuietInv, HandlerInv, StepOf
    <3>3. pc' = [pc EXCEPT ![h] = "spool"] /\ UNCHANGED <<task, mode, next, spool, missed>>
      BY <2>4 DEF Request, histVars
    <3>4. \A g \in Handlers : pc'[g] \in {"idle", "spool"} /\ \A m \in Members : task'[g][m] = "none"
      BY <3>1, <3>2, <3>3 DEF TypeInv, TypeOK
    <3>5. HandlerInv'
      BY <3>4 DEF HandlerInv, StepOf, FoundOf, DownloadOf, RestoredOf, NotFoundOf
    <3>6. SpoolInv'
      BY <2>1, <3>2, <3>3 DEF QuietInv, SpoolInv
    <3>7. EndedInv'
      BY <2>1, <3>3 DEF QuietInv, EndedInv
    <3> QED
      BY <2>2, <3>5, <3>6, <3>7 DEF QuietInv
  <2>5. ASSUME NEW h \in Handlers, QuietHandle(h) PROVE QuietInv'
    <3>1. (StepOf(h) /\ FoundOf(h) /\ DownloadOf(h) /\ RestoredOf(h) /\ NotFoundOf(h))'
      BY <1>1, <2>1, <2>5, StepOfStep, FoundStep, DownloadStep, RestoredStep, NotFoundStep
    <3>2. ASSUME NEW g \in Handlers, g # h
          PROVE  (StepOf(g) /\ FoundOf(g) /\ DownloadOf(g) /\ RestoredOf(g) /\ NotFoundOf(g))'
      <4>1. pc'[g] = "idle" /\ \A m \in Members : task'[g][m] = "none"
        BY <2>1, <2>5, <3>2, OthersIdle DEF QuietInv
      <4> QED
        BY <4>1, IdleKeeps
    <3>3. HandlerInv'
      BY <3>1, <3>2 DEF HandlerInv
    <3>4. SpoolInv' /\ EndedInv'
      BY <2>1, <2>5, SpoolStep, EndedStep
    <3> QED
      BY <2>2, <3>3, <3>4 DEF QuietInv
  <2> QED
    BY <1>1, <2>3, <2>4, <2>5, QuietStep DEF Requesting
<1>2. CASE UNCHANGED vars
  <2> USE DEF vars, pgVars, fileVars, archVars, hVars, envVars, histVars
  <2>1. QuietInv
    BY <1>2 DEF Quiet
  <2>2. SerialInv' /\ ArchiveInv' /\ SpoolInv' /\ EndedInv'
    BY <1>2, <2>1 DEF QuietInv, SerialInv, ArchiveInv, SpoolInv, EndedInv, First
  <2>3. ASSUME NEW h \in Handlers PROVE (StepOf(h) /\ DownloadOf(h) /\ RestoredOf(h) /\ NotFoundOf(h))'
    BY <1>2, <2>1 DEF QuietInv, HandlerInv, StepOf, Taken, DownloadOf, RestoredOf, NotFoundOf,
       Current, First, File, ArchiveOf, Usable, Streaming
  <2>4. ASSUME NEW h \in Handlers PROVE FoundOf(h)'
    BY <1>2, <2>1 DEF QuietInv, HandlerInv, FoundOf, Has, Source
  <2> QED
    BY <2>2, <2>3, <2>4 DEF QuietInv, HandlerInv
<1> QED
  BY <1>1, <1>2

\* The invariant holds of the initial states.
LEMMA InitQuiet == Init => TypeInv /\ QuietInv
<1> SUFFICES ASSUME Init PROVE TypeInv /\ QuietInv
  OBVIOUS
<1>1. TypeInv
  BY InitTypes
<1>2. \A h \in Handlers : pc[h] = "idle" /\ \A m \in Members : task[h][m] = "none"
  BY DEF Init, NoTasks
<1>3. SerialInv /\ HandlerInv
  BY <1>2 DEF SerialInv, HandlerInv, StepOf, FoundOf, DownloadOf, RestoredOf, NotFoundOf
<1>4. ArchiveInv /\ SpoolInv /\ EndedInv
  BY DEF Init, ArchiveInv, SpoolInv, EndedInv
<1> QED
  BY <1>1, <1>3, <1>4 DEF QuietInv

\* When nothing fails, restarts or changes, the recovery of a new cluster ends at a segment
\* that archive-get was asked for and did not find: neither a missing prefetch nor the
\* end-of-wal-stream flag ends it.
THEOREM RecoveryEndsWithArchive == Spec => []RecoveryIsComplete
<1>1. Init => TypeInv /\ (Quiet => QuietInv)
  BY InitQuiet
<1>2. TypeInv /\ (Quiet => QuietInv) /\ [Next]_vars => TypeInv' /\ (Quiet => QuietInv)'
  BY TypeInvStep, QuietInvStep
<1>3. TypeInv /\ (Quiet => QuietInv) => RecoveryIsComplete
  BY DEF Quiet, QuietInv, EndedInv, RecoveryIsComplete
<1> QED
  BY <1>1, <1>2, <1>3, PTL DEF Spec

-----------------------------------------------------------------------------
(* The same without a promotion token, when no list has a .partial.        *)

NoToken == \A c \in Clusters : ~c.token

\* The first segment PostgreSQL has not been given.
After == IF caller # NoHandler /\ pc[caller] = "restored" THEN next + 1 ELSE next

\* A segment that was looked for and not found, and before it none that was not looked for.
EndAhead ==
    \E v \in Segs : /\ v \in missed /\ After <= v /\ spool[v] = NoFile
                    /\ \A u \in Segs : After <= u /\ u < v => spool[u] # NoFile \/ u \in missed

\* The flag is set behind such a segment.
EosInv == eos => mode = "archive" /\ Streaming(cluster) /\ EndAhead

\* The list is of consecutive segments, and those of its names not found are not spooled.
ListOf(h) ==
    pc[h] \in {"get", "set"} =>
        /\ \A m \in Members : task[h][m] # "none" => m[2] = "full"
        /\ req[h] # History => \A m \in Members :
              (task[h][m] # "none") = (m[2] = "full" /\ m[1] \in Segs /\ req[h] <= m[1] /\ m[1] < req[h] + parallel)
        /\ \A w \in Segs : task[h][<<w, "full">>] = "missing" => spool[w] = NoFile

\* The flag is gone when a segment is asked of the archive, and reported for one that is not
\* in the spool.
FlagOf(h) ==
    /\ pc[h] \in {"gather", "get", "set", "notfound", "end"} => ~eos
    /\ pc[h] \in {"flag", "reset"} /\ req[h] # History => spool[req[h]] = NoFile
    /\ pc[h] = "end" /\ req[h] # History => req[h] \in missed

\* The flag is to be set because of a name of the list that is not the requested one.
SetOf(h) ==
    pc[h] = "set" => /\ Streaming(cluster) /\ task[h][First(h)] = "ok"
                     /\ \E m \in Members : task[h][m] = "missing"
                     /\ \A m \in Members : task[h][m] = "missing" => m[1] \in missed

\* What is in the spool is in the archive.
SpoolIsArchived == \A w \in Segs : spool[w] # NoFile => w \in avail[Source(cluster)]

EndInv ==
    /\ \A h \in Handlers : ListOf(h) /\ FlagOf(h) /\ SetOf(h)
    /\ EosInv /\ SpoolIsArchived

\* A handler that is idle has nothing to keep.
LEMMA IdleKeepsFlag ==
    ASSUME NEW g \in Handlers, pc'[g] = "idle"
    PROVE  (ListOf(g) /\ FlagOf(g) /\ SetOf(g))'
BY DEF ListOf, FlagOf, SetOf

\* A download, in an archive that has it, is not of a .partial.
LEMMA FullDownload ==
    ASSUME TypeInv, Quiet, QuietInv, EndInv, NEW h \in Handlers, NEW m \in Members,
           GetStarts(h, m) \/ GetEnds(h, m)
    PROVE  m[2] = "full" /\ m[1] \in Segs /\ m[1] \in avail[Source(cluster)]
<1>1. pc[h] = "get" /\ task[h][m] \in {"get", "write"} /\ (task[h][m] = "get" => Has(ArchiveOf(h), m))
  BY DEF GetStarts, GetEnds
<1>2. m[2] = "full"
  BY <1>1 DEF EndInv, ListOf
<1>3. conf[h] = cluster
  BY <1>1 DEF QuietInv, SerialInv
<1>4. Has(Source(cluster), m)
  BY <1>1, <1>3 DEF ArchiveOf, QuietInv, HandlerInv, FoundOf
<1>5. m[1] \in avail[Source(cluster)]
  BY <1>2, <1>4 DEF Has
<1> QED
  BY <1>2, <1>5, SourceIsArchive, MembersAre DEF TypeInv, TypeOK, History

\* The list of the running handler is of consecutive segments.
LEMMA ListStep ==
    ASSUME NoToken, TypeInv, Quiet, QuietInv, EndInv, NEW h \in Handlers, QuietHandle(h), UNCHANGED envVars
    PROVE  ListOf(h)'
<1> USE TypeParts, MembersAre DEF TypeInv, HandlerTypes, EndInv, ListOf, envVars
<1>1. conf[h] = cluster /\ ~cluster.token
  BY OthersIdle DEF NoToken, EnvTypes, QuietInv
<1>2. CASE RestoreListStarts(h)
  <2>1. /\ req' = req /\ spool' = spool
        /\ task'[h] = [m \in Members |-> IF m \in ListFor(conf[h], req[h]) THEN "get" ELSE "none"]
    BY <1>2 DEF RestoreListStarts, fileVars
  <2>2. CASE req[h] = History
    <3>1. ListFor(conf[h], req[h]) = {<<History, "full">>}
      BY <2>2 DEF ListFor
    <3>2. \A m \in Members : /\ task'[h][m] # "none" => m[2] = "full"
                             /\ task'[h][m] # "missing"
      BY <2>1, <3>1
    <3>3. \A w \in Segs : task'[h][<<w, "full">>] # "missing"
      BY <3>2
    <3> QED
      BY <2>1, <2>2, <3>2, <3>3
  <2>3. CASE req[h] # History
    <3>1. ListFor(conf[h], req[h]) = {v \in Segs : req[h] <= v /\ v < req[h] + parallel} \X {"full"}
      BY <1>1, <2>3 DEF ListFor
    <3>2. \A m \in Members : m \in ListFor(conf[h], req[h]) <=>
             m[2] = "full" /\ m[1] \in Segs /\ req[h] <= m[1] /\ m[1] < req[h] + parallel
      BY <3>1 DEF Members
    <3>3. \A m \in Members : /\ task'[h][m] # "none" <=> m \in ListFor(conf[h], req[h])
                             /\ task'[h][m] # "missing"
      BY <2>1
    <3>4. \A w \in Segs : task'[h][<<w, "full">>] # "missing"
      BY <3>3
    <3> QED
      BY <2>1, <2>3, <3>2, <3>3, <3>4
  <2> QED
    BY <2>2, <2>3
<1>3. ASSUME NEW m \in Members, GetStarts(h, m) \/ GetEnds(h, m) PROVE ListOf(h)'
  <2>1. PICK to \in {"write", "ok"} :
          pc[h] = "get" /\ task[h][m] # "none" /\ task' = [task EXCEPT ![h][m] = to] /\ UNCHANGED <<pc, req>>
    BY <1>3 DEF GetStarts, GetEnds
  <2>2. \A n \in Members : /\ (task'[h][n] # "none") = (task[h][n] # "none")
                           /\ task'[h][n] = "missing" => task[h][n] = "missing" /\ n # m
    BY <2>1
  <2>3. ASSUME NEW w \in Segs, w # m[1] PROVE spool'[w] = spool[w]
    BY <1>3, <2>3 DEF GetStarts, GetEnds, Write, FileTypes
  <2>4. ASSUME NEW w \in Segs, task'[h][<<w, "full">>] = "missing" PROVE spool'[w] = NoFile
    <3>1. <<w, "full">> # m /\ task[h][<<w, "full">>] = "missing"
      BY <2>2, <2>4
    <3>2. w # m[1]
      BY <1>3, <3>1, FullDownload DEF Members
    <3> QED
      BY <2>1, <2>3, <3>1, <3>2
  <2>5. parallel' = parallel
    OBVIOUS
  <2> QED
    BY <2>1, <2>2, <2>4, <2>5
<1>4. ASSUME NEW m \in Members, GetMisses(h, m) PROVE ListOf(h)'
  <2>1. /\ pc[h] = "get" /\ task[h][m] # "none" /\ task' = [task EXCEPT ![h][m] = "missing"]
        /\ UNCHANGED <<pc, req, spool>> /\ ~Has(Source(cluster), m)
    BY <1>1, <1>4 DEF GetMisses, ArchiveOf
  <2>2. \A n \in Members : /\ (task'[h][n] # "none") = (task[h][n] # "none")
                           /\ task'[h][n] = "missing" => task[h][n] = "missing" \/ n = m
    BY <2>1
  <2>3. ASSUME NEW w \in Segs, task'[h][<<w, "full">>] = "missing" PROVE spool'[w] = NoFile
    <3>1. CASE m = <<w, "full">>
      BY <2>1, <3>1 DEF Has, SpoolIsArchived
    <3>2. CASE m # <<w, "full">>
      BY <2>1, <2>2, <2>3, <3>2
    <3> QED
      BY <3>1, <3>2
  <2> QED
    BY <2>1, <2>2, <2>3
<1>5. CASE RestoreListEnds(h)
  <2>1. pc[h] = "get" /\ UNCHANGED <<req, task, spool>>
    BY <1>5 DEF RestoreListEnds, fileVars
  <2> QED
    BY <2>1
<1>6. CASE RestoreFromSpool(h) \/ RemoveFromSpool(h) \/ NotInSpool(h) \/ IsEndOfWALStream(h) \/ ResetEndOfWalStream(h)
           \/ SetEndOfWALStream(h) \/ Reply(h)
  <2>1. pc'[h] \notin {"get", "set"}
    BY <1>6 DEF RestoreFromSpool, RemoveFromSpool, NotInSpool, AfterSpool, IsEndOfWALStream,
       ResetEndOfWalStream, SetEndOfWALStream, Reply
  <2> QED
    BY <2>1
<1> QED
  BY <1>2, <1>3, <1>4, <1>5, <1>6 DEF QuietHandle

\* The flag is reported for a segment that was looked for.
LEMMA FlagStep ==
    ASSUME TypeInv, Quiet, QuietInv, EndInv, NEW h \in Handlers, QuietHandle(h)
    PROVE  FlagOf(h)'
<1> USE TypeParts DEF TypeInv, HandlerTypes, FlagOf, hVars, fileVars, histVars
<1>0. caller = h /\ conf[h] = cluster /\ FlagOf(h)
  BY OthersIdle DEF QuietInv, EndInv
<1>1. CASE NotInSpool(h)
  <2>1. eos => Streaming(conf[h])
    BY <1>0 DEF EndInv, EosInv
  <2> QED
    BY <1>1, <2>1 DEF NotInSpool, AfterSpool
<1>2. CASE IsEndOfWALStream(h)
  BY <1>0, <1>2 DEF IsEndOfWALStream
<1>3. CASE ResetEndOfWalStream(h)
  <2>1. pc[h] = "reset" /\ eos' = FALSE /\ UNCHANGED <<req, missed>>
    BY <1>3 DEF ResetEndOfWalStream
  <2>2. eos /\ EndAhead
    BY <2>1 DEF QuietInv, HandlerInv, StepOf, EndInv, EosInv
  <2>3. After = next
    BY <1>0, <2>1 DEF After
  <2>4. ASSUME req[h] # History PROVE req[h] \in missed
    <3>1. req[h] = next /\ next \in Segs /\ spool[next] = NoFile
      BY <1>0, <2>1, <2>4, RestoreAssumption DEF CallInv, RestoreAssumption
    <3>2. PICK v \in Segs : /\ v \in missed /\ next <= v
                            /\ \A u \in Segs : next <= u /\ u < v => spool[u] # NoFile \/ u \in missed
      BY <2>2, <2>3 DEF EndAhead
    <3>3. next = v \/ next < v
      BY <3>1, <3>2 DEF Segs
    <3> QED
      BY <3>1, <3>2, <3>3 DEF Segs
  <2> QED
    BY <1>3, <2>1, <2>4 DEF ResetEndOfWalStream
<1>4. CASE RestoreListStarts(h) \/ RestoreListEnds(h)
           \/ \E m \in Members : GetStarts(h, m) \/ GetEnds(h, m) \/ GetMisses(h, m)
  <2>1. ~eos /\ eos' = eos
    BY <1>0, <1>4 DEF RestoreListStarts, RestoreListEnds, GetStarts, GetEnds, GetMisses
  <2>2. pc'[h] \notin {"flag", "reset", "end"}
    BY <1>4 DEF RestoreListStarts, RestoreListEnds, GetStarts, GetEnds, GetMisses
  <2> QED
    BY <2>1, <2>2
<1>5. CASE RestoreFromSpool(h) \/ RemoveFromSpool(h) \/ SetEndOfWALStream(h) \/ Reply(h)
  <2>1. RemoveFromSpool(h) => spool[req[h]] # NoFile
    BY DEF RemoveFromSpool, QuietInv, HandlerInv, StepOf, Taken
  <2>2. pc'[h] \in {"take", "restored", "idle"}
    BY <1>5, <2>1 DEF RestoreFromSpool, RemoveFromSpool, SetEndOfWALStream, Reply
  <2> QED
    BY <2>2
<1> QED
  BY <1>1, <1>2, <1>3, <1>4, <1>5 DEF QuietHandle

\* The flag is to be set when the requested name was found and another one was not.
LEMMA SetStep ==
    ASSUME TypeInv, Quiet, QuietInv, EndInv, NEW h \in Handlers, QuietHandle(h), UNCHANGED envVars
    PROVE  SetOf(h)'
<1> USE TypeParts DEF TypeInv, HandlerTypes, SetOf, hVars, envVars
<1>1. CASE RestoreListEnds(h)
  <2>1. /\ conf[h] = cluster /\ First(h) \in Members /\ UNCHANGED <<req, task, cluster>>
        /\ missed' = {m[1] : m \in {n \in Members : task[h][n] = "missing"}}
    <3>1. conf[h] = cluster
      BY <1>1, OthersIdle DEF QuietInv
    <3>2. First(h) \in Members
      BY MembersAre DEF First
    <3>3. missed' = {m[1] : m \in {n \in Members : task[h][n] = "missing"}} /\ UNCHANGED <<req, task>>
      BY <1>1 DEF RestoreListEnds
    <3> QED
      BY <3>1, <3>2, <3>3
  <2>2. ASSUME pc'[h] = "set"
        PROVE  Streaming(conf[h]) /\ Missing(h) # {} /\ Result(h) \notin {"missing", "err"}
    BY <1>1, <2>2 DEF RestoreListEnds
  <2>3. Result(h) \in {"ok", "missing", "err"}
    <3>1. task[h][First(h)] # "none"
      BY <1>1 DEF QuietInv, HandlerInv, StepOf, RestoreListEnds
    <3> QED
      BY <1>1, <2>1, <3>1 DEF RestoreListEnds, Result
  <2>4. pc'[h] = "set" => Streaming(cluster)' /\ task'[h][First(h)'] = "ok"
    BY <2>1, <2>2, <2>3 DEF Result, First, Streaming
  <2>5. pc'[h] = "set" => \E m \in Members : task'[h][m] = "missing"
    BY <2>1, <2>2 DEF Missing
  <2>6. \A m \in Members : task'[h][m] = "missing" => m[1] \in missed'
    BY <2>1
  <2> QED
    BY <2>4, <2>5, <2>6
<1>2. CASE ~RestoreListEnds(h)
  <2>1. pc'[h] # "set"
    BY <1>2 DEF QuietHandle, RestoreFromSpool, RemoveFromSpool, NotInSpool, AfterSpool,
       IsEndOfWALStream, ResetEndOfWalStream, RestoreListStarts, Reply, GetStarts, GetEnds,
       GetMisses, SetEndOfWALStream
  <2> QED
    BY <2>1
<1> QED
  BY <1>1, <1>2

\* What a download puts into the spool is in the archive.
LEMMA SpoolArchivedStep ==
    ASSUME TypeInv, Quiet, QuietInv, EndInv, Next, UNCHANGED envVars,
           Upload \/ Requesting \/ Stream \/ \E h \in Handlers : QuietHandle(h)
    PROVE  SpoolIsArchived'
<1> USE DEF SpoolIsArchived, envVars, fileVars
<1>1. ASSUME NEW w \in Segs, w \in avail[Source(cluster)] PROVE (w \in avail[Source(cluster)])'
  <2>1. <<w, "full">> \in Members /\ Has(Source(cluster), <<w, "full">>) /\ w # History
    BY <1>1, MembersAre DEF Has
  <2>2. Has(Source(cluster), <<w, "full">>)'
    BY <2>1, ArchivesGrow, SourceIsArchive DEF Source
  <2> QED
    BY <2>2 DEF Has
<1>2. ASSUME NEW w \in Segs, spool'[w] # NoFile, spool[w] = NoFile
      PROVE  w \in avail[Source(cluster)]
  <2>1. PICK h \in Handlers, m \in Members : GetStarts(h, m) \/ GetEnds(h, m)
    BY <1>2 DEF Upload, Requesting, Request, Stream, Streamed, StreamEnds, QuietHandle,
       RestoreFromSpool, RemoveFromSpool, NotInSpool, IsEndOfWALStream, ResetEndOfWalStream,
       RestoreListStarts, GetMisses, RestoreListEnds, SetEndOfWALStream, Reply, TypeInv, TypeOK
  <2>2. w = m[1]
    BY <1>2, <2>1 DEF GetStarts, GetEnds, Write, TypeInv, TypeOK
  <2> QED
    BY <2>1, <2>2, FullDownload
<1>3. ASSUME NEW w \in Segs, spool'[w] # NoFile PROVE w \in avail[Source(cluster)]
  BY <1>2, <1>3 DEF EndInv
<1> QED
  BY <1>1, <1>3

\* Of two different segments one is at least the next of the other.
LEMMA NextIsLeast == \A v, w \in Segs : v <= w /\ v # w => v + 1 <= w
BY DEF Segs

\* Setting the flag: what follows the delivered segment was prefetched or not found.
LEMMA FlagIsSetAhead ==
    ASSUME TypeInv, Quiet, QuietInv, EndInv, NEW h \in Handlers, QuietHandle(h), SetEndOfWALStream(h)
    PROVE  EosInv'
<1> USE TypeParts, MembersAre DEF TypeInv, HandlerTypes, pgVars, envVars, histVars, hVars
<1>1. /\ pc[h] = "set" /\ pc'[h] = "restored" /\ caller = h
      /\ UNCHANGED <<next, mode, caller, cluster, spool, missed>>
  BY OthersIdle DEF SetEndOfWALStream, QuietInv
<1>2. /\ req[h] # History /\ task[h][First(h)] = "ok"
      /\ \A m \in Members : task[h][m] \in {"none", "ok", "missing"}
  BY <1>1 DEF EndInv, SetOf, QuietInv, HandlerInv, StepOf, TaskStates
<1>3. req[h] = next /\ mode = "archive" /\ next \in Segs
  BY <1>1, <1>2, RestoreAssumption DEF CallInv, RestoreAssumption
<1>4. PICK m \in Members : task[h][m] = "missing" /\ m[1] \in missed
  BY <1>1 DEF EndInv, SetOf
<1>5. \A n \in Members : (task[h][n] # "none") =
         (n[2] = "full" /\ n[1] \in Segs /\ next <= n[1] /\ n[1] < next + parallel)
  BY <1>1, <1>2, <1>3 DEF EndInv, ListOf
<1>6. m[2] = "full" /\ m[1] \in Segs /\ next <= m[1] /\ m[1] < next + parallel
  BY <1>4, <1>5
<1>7. m[1] # next
  BY <1>2, <1>3, <1>4, <1>6 DEF First, Members
<1>8. next + 1 <= m[1]
  BY <1>3, <1>6, <1>7, NextIsLeast
<1>9. spool[m[1]] = NoFile
  <2>1. m = <<m[1], "full">>
    BY <1>6 DEF Members
  <2> QED
    BY <1>1, <1>4, <1>6, <2>1 DEF EndInv, ListOf
<1>10. ASSUME NEW u \in Segs, next + 1 <= u, u < m[1]
       PROVE  spool[u] # NoFile \/ u \in missed
  <2>1. next <= u /\ u < next + parallel /\ u # next
    <3>1. m[1] \in Nat /\ next \in Nat /\ u \in Nat /\ parallel \in Nat
      BY <1>3, <1>6 DEF Segs, EnvTypes
    <3> QED
      BY <1>6, <1>10, <3>1
  <2>2. <<u, "full">> \in Members /\ task[h][<<u, "full">>] # "none"
    BY <1>5, <2>1
  <2>3. CASE task[h][<<u, "full">>] = "missing"
    BY <1>1, <2>2, <2>3 DEF EndInv, SetOf
  <2>4. CASE task[h][<<u, "full">>] = "ok"
    <3>1. Current(h, <<u, "full">>) = File(h, <<u, "full">>, "full")
      BY <2>2, <2>4 DEF QuietInv, HandlerInv, DownloadOf
    <3>2. <<u, "full">> # First(h) /\ <<u, "full">> # <<History, "full">>
      BY <1>3, <2>1 DEF First
    <3>3. File(h, <<u, "full">>, "full") \in Contents
      BY <2>2, <3>2, SourceIsArchive DEF File, Contents, ArchiveOf
    <3> QED
      BY <3>1, <3>2, <3>3, NoFileAssumption DEF Current
  <2> QED
    BY <1>2, <2>2, <2>3, <2>4
<1>11. After' = next + 1
  BY <1>1, RestoreAssumption DEF After, RestoreAssumption
<1>12. EndAhead'
  BY <1>1, <1>4, <1>6, <1>8, <1>9, <1>10, <1>11 DEF EndAhead
<1>13. Streaming(cluster)'
  BY <1>1 DEF EndInv, SetOf, Streaming
<1> QED
  BY <1>1, <1>3, <1>12, <1>13 DEF EosInv

\* Taking a file out of the spool leaves the flag behind a segment not found.
LEMMA FlagStaysAhead ==
    ASSUME TypeInv, Quiet, QuietInv, EndInv, NEW h \in Handlers, QuietHandle(h), RemoveFromSpool(h)
    PROVE  EosInv'
<1> USE TypeParts DEF TypeInv, HandlerTypes, pgVars, envVars, histVars
<1>0. pc[h] = "take" /\ caller = h /\ UNCHANGED <<next, mode, caller, cluster, eos, missed>>
  BY OthersIdle DEF RemoveFromSpool, QuietInv
<1>1. req[h] # History /\ spool[req[h]] # NoFile /\ pc'[h] = "restored"
  <2>1. req[h] \in Segs /\ spool[req[h]] # NoFile
    BY <1>0 DEF QuietInv, HandlerInv, StepOf, Taken
  <2> QED
    BY <2>1 DEF RemoveFromSpool, Segs, History
<1>2. req[h] = next /\ next \in Segs
  BY <1>0, <1>1, RestoreAssumption DEF CallInv, RestoreAssumption
<1>3. spool[next] # NoFile /\ \A u \in Segs : u # next => spool'[u] = spool[u]
  BY <1>1, <1>2 DEF RemoveFromSpool, FileTypes
<1>4. After = next /\ After' = next + 1
  BY <1>0, <1>1, RestoreAssumption DEF After, RestoreAssumption
<1>5. ASSUME EndAhead PROVE EndAhead'
  <2>1. PICK v \in Segs : /\ v \in missed /\ next <= v /\ spool[v] = NoFile
                          /\ \A u \in Segs : next <= u /\ u < v => spool[u] # NoFile \/ u \in missed
    BY <1>4, <1>5 DEF EndAhead
  <2>2. v # next /\ next + 1 <= v
    BY <1>2, <1>3, <2>1, NextIsLeast
  <2>3. ASSUME NEW u \in Segs, next + 1 <= u, u < v PROVE spool'[u] # NoFile \/ u \in missed
    <3>1. next <= u /\ u # next
      BY <1>2, <2>3 DEF Segs
    <3> QED
      BY <1>3, <2>1, <2>3, <3>1
  <2> QED
    BY <1>0, <1>3, <1>4, <2>1, <2>2, <2>3 DEF EndAhead
<1> QED
  BY <1>0, <1>5 DEF EndInv, EosInv, Streaming

\* A reply leaves the flag only behind a segment not found.
LEMMA FlagSurvivesReply ==
    ASSUME TypeInv, Quiet, QuietInv, EndInv, NEW h \in Handlers, QuietHandle(h), Reply(h)
    PROVE  EosInv'
<1> USE TypeParts DEF TypeInv, HandlerTypes
<1>1. caller = h /\ pc[h] \in {"restored", "notfound", "end", "failed"}
      /\ UNCHANGED <<eos, cluster, spool, missed>>
  BY OthersIdle DEF Reply, QuietInv, fileVars, envVars
<1>2. CASE eos
  <2>1. pc[h] = "restored"
    BY <1>1, <1>2 DEF EndInv, FlagOf, QuietInv, HandlerInv, StepOf
  <2>2. req[h] # History
    BY <2>1 DEF QuietInv, HandlerInv, StepOf
  <2>3. req[h] = next
    BY <1>1, <2>2, RestoreAssumption DEF CallInv, RestoreAssumption
  <2>4. Usable(dest, next)
    BY <2>1, <2>3 DEF QuietInv, HandlerInv, RestoredOf
  <2>5. next' = next + 1 /\ mode' = mode /\ caller' = NoHandler
    BY <1>1, <2>1, <2>2, <2>4 DEF Reply
  <2>6. After = next + 1 /\ After' = next + 1
    BY <1>1, <2>1, <2>5, RestoreAssumption DEF After, RestoreAssumption
  <2>7. EndAhead => EndAhead'
    BY <1>1, <2>6 DEF EndAhead
  <2> QED
    BY <1>1, <2>5, <2>7 DEF EndInv, EosInv, Streaming
<1>3. CASE ~eos
  BY <1>1, <1>3 DEF EosInv
<1> QED
  BY <1>2, <1>3

\* The steps that set no flag, take no file and answer no call leave what is ahead.
LEMMA AheadUnchanged ==
    ASSUME EosInv, UNCHANGED <<eos, mode, cluster, missed, spool, After>>
    PROVE  EosInv'
BY DEF EosInv, EndAhead, Streaming

\* The flag stays behind a segment that was not found.
LEMMA EosStep ==
    ASSUME TypeInv, Quiet, QuietInv, EndInv, NEW h \in Handlers, QuietHandle(h)
    PROVE  EosInv'
<1> USE DEF pgVars, fileVars, envVars, histVars, hVars
<1>1. caller = h /\ EosInv /\ FlagOf(h)
  BY OthersIdle DEF QuietInv, EndInv
<1>2. CASE RestoreFromSpool(h) \/ NotInSpool(h) \/ IsEndOfWALStream(h)
  <2>1. /\ pc'[h] # "restored" /\ pc[h] # "restored"
        /\ UNCHANGED <<eos, mode, cluster, missed, spool, next, caller>>
    BY <1>2 DEF RestoreFromSpool, NotInSpool, IsEndOfWALStream, AfterSpool, TypeInv, TypeOK
  <2>2. UNCHANGED After
    BY <1>1, <2>1 DEF After
  <2> QED
    BY <1>1, <2>1, <2>2, AheadUnchanged
<1>3. CASE ResetEndOfWalStream(h)
  BY <1>3 DEF ResetEndOfWalStream, EosInv
<1>4. CASE RestoreListStarts(h) \/ RestoreListEnds(h)
           \/ \E m \in Members : GetStarts(h, m) \/ GetEnds(h, m) \/ GetMisses(h, m)
  <2>1. ~eos /\ eos' = eos
    BY <1>1, <1>4 DEF FlagOf, RestoreListStarts, RestoreListEnds, GetStarts, GetEnds, GetMisses
  <2> QED
    BY <2>1 DEF EosInv
<1> QED
  BY <1>2, <1>3, <1>4, FlagIsSetAhead, FlagStaysAhead, FlagSurvivesReply DEF QuietHandle

\* Every step of a quiet system without a token keeps where the flag is.
LEMMA EndInvStep ==
    ASSUME NoToken, TypeInv, Quiet => QuietInv /\ EndInv, [Next]_vars
    PROVE  (Quiet => EndInv)'
<1> SUFFICES ASSUME Quiet' PROVE EndInv'
  OBVIOUS
<1>1. CASE Next
  <2>1. Quiet /\ UNCHANGED envVars /\ QuietInv /\ EndInv
    BY <1>1, QuietStep
  <2>2. SpoolIsArchived'
    BY <1>1, <2>1, SpoolArchivedStep, QuietStep
  <2>3. CASE Upload \/ Stream
    <3>1. /\ UNCHANGED <<hVars, fileVars, missed, cluster, parallel, caller>>
          /\ UNCHANGED <<next, mode>> \/ mode = "stream"
      BY <2>1, <2>3 DEF Upload, Stream, Streamed, StreamEnds, envVars, histVars, pgVars
    <3>2. ASSUME NEW h \in Handlers PROVE (ListOf(h) /\ FlagOf(h) /\ SetOf(h))'
      BY <2>1, <3>1 DEF EndInv, ListOf, FlagOf, SetOf, hVars, fileVars, First, Streaming
    <3>3. EosInv'
      BY <2>1, <3>1 DEF EndInv, EosInv, EndAhead, After, Streaming, hVars, fileVars
    <3> QED
      BY <2>2, <3>2, <3>3 DEF EndInv
  <2>4. ASSUME NEW h \in Handlers, Request(h) PROVE EndInv'
    <3>1. \A g \in Handlers : pc[g] = "idle"
      BY <2>1, <2>4, RestoreAssumption DEF Request, QuietInv, SerialInv, RestoreAssumption
    <3>2. \A g \in Handlers : pc'[g] \in {"idle", "spool"}
      BY <2>4, <3>1 DEF Request, TypeInv, TypeOK
    <3>3. ASSUME NEW g \in Handlers PROVE (ListOf(g) /\ FlagOf(g) /\ SetOf(g))'
      BY <3>2 DEF ListOf, FlagOf, SetOf
    <3>4. UNCHANGED <<eos, mode, cluster, missed, spool, After>>
      <4>1. caller = NoHandler /\ caller' = h /\ UNCHANGED <<eos, mode, cluster, missed, spool, next>>
        BY <2>1, <2>4 DEF Request, envVars, histVars
      <4> QED
        BY <3>2, <4>1 DEF After
    <3>5. EosInv'
      BY <2>1, <3>4, AheadUnchanged DEF EndInv
    <3> QED
      BY <2>2, <3>3, <3>5 DEF EndInv
  <2>5. ASSUME NEW h \in Handlers, QuietHandle(h) PROVE EndInv'
    <3>1. (ListOf(h) /\ FlagOf(h) /\ SetOf(h))'
      BY <2>1, <2>5, ListStep, FlagStep, SetStep
    <3>2. ASSUME NEW g \in Handlers, g # h PROVE (ListOf(g) /\ FlagOf(g) /\ SetOf(g))'
      <4>1. pc'[g] = "idle"
        BY <2>1, <2>5, <3>2, OthersIdle DEF QuietInv
      <4> QED
        BY <4>1, IdleKeepsFlag
    <3>3. EosInv'
      BY <2>1, <2>5, EosStep
    <3> QED
      BY <2>2, <3>1, <3>2, <3>3 DEF EndInv
  <2> QED
    BY <1>1, <2>3, <2>4, <2>5, QuietStep DEF Requesting
<1>2. CASE UNCHANGED vars
  <2> USE DEF vars, pgVars, fileVars, archVars, hVars, envVars, histVars
  <2>1. EndInv
    BY <1>2 DEF Quiet
  <2>2. ASSUME NEW h \in Handlers PROVE (ListOf(h) /\ FlagOf(h) /\ SetOf(h))'
    BY <1>2, <2>1 DEF EndInv, ListOf, FlagOf, SetOf, First, Streaming
  <2>3. EosInv'
    BY <1>2, <2>1 DEF EndInv, EosInv, EndAhead, After, Streaming
  <2>4. SpoolIsArchived'
    BY <1>2, <2>1 DEF EndInv, SpoolIsArchived, Source
  <2> QED
    BY <2>2, <2>3, <2>4 DEF EndInv
<1> QED
  BY <1>1, <1>2

\* When nothing fails, restarts or changes, and no promotion token asks for a .partial, a
\* segment refused as the end of WAL is one that archive-get was asked for and did not find.
THEOREM EndOfWALIsReal ==
    ASSUME NoToken
    PROVE  Spec => []EndIsReal
<1>1. Init => TypeInv /\ (Quiet => QuietInv /\ EndInv)
  <2> SUFFICES ASSUME Init PROVE TypeInv /\ QuietInv /\ EndInv
    OBVIOUS
  <2>1. TypeInv /\ QuietInv
    BY InitQuiet
  <2>2. \A h \in Handlers : ListOf(h) /\ FlagOf(h) /\ SetOf(h)
    BY DEF Init, ListOf, FlagOf, SetOf
  <2>3. EosInv /\ SpoolIsArchived
    BY DEF Init, EosInv, SpoolIsArchived
  <2> QED
    BY <2>1, <2>2, <2>3 DEF EndInv
<1>2. TypeInv /\ (Quiet => QuietInv /\ EndInv) /\ [Next]_vars
         => TypeInv' /\ (Quiet => QuietInv /\ EndInv)'
  BY TypeInvStep, QuietInvStep, EndInvStep
<1>3. TypeInv /\ (Quiet => QuietInv /\ EndInv) => EndIsReal
  BY DEF Quiet, EndInv, FlagOf, EndIsReal
<1> QED
  BY <1>1, <1>2, <1>3, PTL DEF Spec

-----------------------------------------------------------------------------
(* A handler that PostgreSQL has not abandoned: it runs alone, whatever    *)
(* fails, restarts or changes.                                             *)

\* The requested segment is at the destination, whole.
Ready(h) == dest = File(h, First(h), "full")

\* The downloads are those of the list: each is torn at its path while it runs, and the
\* requested segment is at the destination when its own has ended.
GettingOf(h) ==
    /\ task[h][First(h)] # "none"
    /\ \A m \in Members : task[h][m] # "none" => m \in ListFor(conf[h], req[h])
    /\ \A m \in Members : task[h][m] = "write" => Current(h, m) = File(h, m, "torn")
    /\ task[h][First(h)] = "ok" => Ready(h)

SoloOf(h) ==
    /\ pc[h] # "idle" => caller = h /\ conf[h] \in Clusters
    /\ pc[h] = "take" => Taken(h)
    /\ pc[h] = "get" => GettingOf(h)
    /\ pc[h] = "set" => req[h] # History /\ Ready(h)

\* Under the name of a segment the spool has a file of that segment.
NamedInv == \A w \in Segs : spool[w] # NoFile => spool[w].seg = w

SoloInv == ~abandoned => NamedInv /\ \A h \in Handlers : SoloOf(h)

\* A list is of the segments from the requested one on; it has the .partial only if it has
\* one segment and a promotion token is pending.
LEMMA ListIs ==
    ASSUME TypeInv, NEW c, NEW w \in 1 .. NSeg, NEW m \in ListFor(c, w)
    PROVE  /\ m \in Members /\ m[1] \in Segs /\ w <= m[1] /\ m[1] < w + parallel
           /\ m[2] = "partial" => parallel = 1 /\ c.token
<1> USE TypeParts, RestoreAssumption DEF TypeInv, EnvTypes, RestoreAssumption
<1> DEFINE full == {v \in Segs : w <= v /\ v < w + parallel}
<1>1. parallel \in Nat \ {0} /\ w # History
  BY DEF History
<1>2. m \in (full \X {"full"}) \cup
             (IF c.token /\ (Cardinality(full) < parallel \/ parallel = 1)
              THEN {n \in full \X {"partial"} : \A v \in full : v <= n[1]} ELSE {})
  BY <1>1 DEF ListFor
<1>3. full = w .. w + parallel - 1
  BY <1>1 DEF Segs, Last
<1>4. Cardinality(full) = parallel
  <2>1. Cardinality(w .. w + parallel - 1) = parallel
    <3> DEFINE e == w + parallel - 1
    <3>1. e \in Int /\ w \in Int /\ w <= e /\ e - w + 1 = parallel
      BY <1>1
    <3> HIDE DEF e
    <3>2. Cardinality(w .. e) = e - w + 1
      BY <3>1, FS_Interval
    <3> QED
      BY <3>1, <3>2 DEF e
  <2> QED
    BY <1>3, <2>1
<1>5. m[1] \in full /\ (m[2] = "partial" => parallel = 1 /\ c.token)
  <2> HIDE DEF full
  <2>1. ~ (Cardinality(full) < parallel)
    BY <1>1, <1>4
  <2> QED
    BY <1>2, <2>1
<1>6. m \in Members
  BY <1>2 DEF Members
<1> QED
  BY <1>5, <1>6

\* The list holds the requested name.
LEMMA ListHasFirst ==
    ASSUME TypeInv, NEW c, NEW w \in 0 .. NSeg
    PROVE  <<w, "full">> \in ListFor(c, w)
<1> USE TypeParts, RestoreAssumption DEF TypeInv, EnvTypes, RestoreAssumption
<1>1. CASE w = History
  BY <1>1 DEF ListFor
<1>2. CASE w # History
  <2>1. parallel \in Nat \ {0}
    OBVIOUS
  <2>2. w \in {v \in Segs : w <= v /\ v < w + parallel}
    BY <1>2, <2>1 DEF Segs, Last, History
  <2> QED
    BY <1>2, <2>2 DEF ListFor
<1> QED
  BY <1>1, <1>2

\* A handler that runs is the one PostgreSQL waits for; it asked for the history file or for
\* the segment recovery needs.
LEMMA RunsAlone ==
    ASSUME TypeInv, SoloInv, ~abandoned, NEW h \in Handlers, pc[h] # "idle"
    PROVE  /\ caller = h /\ conf[h] \in Clusters
           /\ \A g \in Handlers \ {h} : pc[g] = "idle"
           /\ req[h] = History \/ (req[h] = next /\ next \in 1 .. NSeg)
           /\ req[h] \in 0 .. NSeg
<1>1. caller = h /\ conf[h] \in Clusters /\ \A g \in Handlers \ {h} : pc[g] = "idle"
  BY DEF SoloInv, SoloOf
<1>2. h # NoHandler /\ NSeg \in Nat
  BY RestoreAssumption DEF RestoreAssumption
<1>3. req[h] = History \/ (req[h] = next /\ next \in 1 .. NSeg)
  BY <1>1, <1>2, TypeParts DEF TypeInv, CallInv, PgTypes
<1> QED
  BY <1>1, <1>2, <1>3 DEF History

\* Its downloads are of segments, and no two have the same path.
LEMMA DownloadsOf ==
    ASSUME TypeInv, SoloInv, ~abandoned, NEW h \in Handlers, pc[h] = "get",
           NEW m \in Members, m # <<History, "full">>, task[h][m] # "none"
    PROVE  /\ req[h] = next /\ next \in 1 .. NSeg
           /\ m[1] \in Segs /\ next <= m[1] /\ m[1] < next + parallel
           /\ m[2] = "partial" => parallel = 1 /\ conf[h].token
           /\ m # First(h) /\ parallel > 1 => next < m[1]
           /\ m # First(h) /\ parallel = 1 => m[1] = next /\ m[2] = "partial"
           /\ \A n \in Members :
                 n # m /\ m # First(h) /\ n # First(h) /\ task[h][n] # "none" => n[1] # m[1]
<1>1. m \in ListFor(conf[h], req[h])
  BY DEF SoloInv, SoloOf, GettingOf
<1>2. req[h] # History
  BY <1>1 DEF ListFor
<1>3. req[h] = next /\ next \in 1 .. NSeg
  BY <1>2, RunsAlone
<1>4. parallel \in Nat \ {0} /\ next \in Nat /\ Segs \subseteq Nat
  BY <1>3, TypeParts, RestoreAssumption DEF TypeInv, EnvTypes, RestoreAssumption, Segs
<1>5. ASSUME NEW n \in Members, task[h][n] # "none"
      PROVE  /\ n[1] \in Segs /\ next <= n[1] /\ n[1] < next + parallel
             /\ n[2] = "partial" => parallel = 1 /\ conf[h].token
             /\ n = <<n[1], "full">> \/ n = <<n[1], "partial">>
  <2>1. n \in ListFor(conf[h], next)
    BY <1>3, <1>5 DEF SoloInv, SoloOf, GettingOf
  <2>2. n = <<n[1], "full">> \/ n = <<n[1], "partial">>
    BY <1>5 DEF Members
  <2> QED
    BY <1>3, <2>1, <2>2, ListIs
<1>6. ASSUME NEW n \in Members, task[h][n] # "none", n # First(h)
      PROVE  \/ parallel > 1 /\ next < n[1] /\ n = <<n[1], "full">>
             \/ parallel = 1 /\ n[1] = next /\ n = <<n[1], "partial">>
  <2>1. n[1] \in Nat /\ next <= n[1] /\ n[1] < next + parallel
    BY <1>4, <1>5, <1>6
  <2>2. CASE parallel = 1
    BY <1>3, <1>4, <1>5, <1>6, <2>1, <2>2 DEF First
  <2>3. CASE parallel > 1
    <3>1. n = <<n[1], "full">>
      BY <1>5, <1>6, <2>3
    <3>2. n[1] # next
      BY <1>3, <1>6, <3>1 DEF First
    <3> QED
      BY <1>4, <2>1, <2>3, <3>1, <3>2
  <2> QED
    BY <1>4, <2>2, <2>3
<1>7. m # First(h) /\ parallel > 1 => next < m[1]
  BY <1>4, <1>6
<1>8. m # First(h) /\ parallel = 1 => m[1] = next /\ m[2] = "partial"
  BY <1>4, <1>6
<1>9. ASSUME NEW n \in Members, n # m, m # First(h), n # First(h), task[h][n] # "none"
      PROVE  n[1] # m[1]
  BY <1>4, <1>6, <1>9
<1> QED
  BY <1>3, <1>5, <1>7, <1>8, <1>9

\* What a write changes.
LEMMA WriteIs ==
    ASSUME TypeInv, NEW h \in Handlers, NEW m \in Members, m # <<History, "full">>, NEW f, Write(h, m, f)
    PROVE  /\ m = First(h) => dest' = f /\ spool' = spool
           /\ m # First(h) => /\ dest' = dest /\ m[1] \in Segs /\ spool'[m[1]] = f
                              /\ \A w \in Segs : w # m[1] => spool'[w] = spool[w]
BY MembersAre DEF TypeInv, TypeOK, Write

\* Without another execution archive-get leaves the whole file.
LEMMA FilledAlone ==
    ASSUME TypeInv, SoloInv, ~abandoned, NEW h \in Handlers, NEW m \in Members, GetEnds(h, m)
    PROVE  m # <<History, "full">> /\ Write(h, m, File(h, m, m[2]))
<1>1. task[h][m] = "write" /\ pc[h] = "get"
  BY DEF GetEnds
<1>2. Current(h, m) = File(h, m, "torn")
  BY <1>1 DEF SoloInv, SoloOf, GettingOf
<1>3. m # <<History, "full">>
  BY <1>1 DEF TypeInv, NoHistoryFile
<1>4. File(h, m, "torn") # NoFile
  <2>1. File(h, m, "torn") \in Contents
    BY <1>3, MembersAre, SourceIsArchive DEF File, Contents, ArchiveOf
  <2> QED
    BY <2>1, NoFileAssumption
<1>5. ~Shared(h, m)
  BY <1>1, RunsAlone DEF Shared
<1>6. Filled(h, m) = {File(h, m, m[2])}
  BY <1>2, <1>4, <1>5 DEF Filled
<1> QED
  BY <1>3, <1>6 DEF GetEnds

\* Only segments are found in an archive.
LEMMA FoundIsSegment ==
    ASSUME TypeInv, NEW h \in Handlers, NEW m \in Members, GetStarts(h, m)
    PROVE  m # <<History, "full">>
BY TypeParts, SourceIsArchive, RestoreAssumption
   DEF GetStarts, Has, ArchiveOf, History, TypeInv, FileTypes, RestoreAssumption

\* The steps of one handler leave the others where they are.
LEMMA OthersStay ==
    ASSUME TypeInv, NEW h \in Handlers, Handle(h)
    PROVE  /\ pc[h] # "idle" /\ UNCHANGED <<cluster, parallel, crashes, changes, abandoned>>
           /\ \A g \in Handlers \ {h} : pc'[g] = pc[g]
           /\ pc'[h] = "idle" \/ UNCHANGED <<pgVars, req, conf>>
<1> USE TypeParts DEF TypeInv, HandlerTypes, envVars, pgVars
<1>1. CASE RestoreFromSpool(h) \/ RemoveFromSpool(h) \/ NotInSpool(h) \/ IsEndOfWALStream(h) \/ ResetEndOfWalStream(h)
  BY <1>1 DEF RestoreFromSpool, RemoveFromSpool, NotInSpool, IsEndOfWALStream, ResetEndOfWalStream
<1>2. CASE StepFails(h)
  BY <1>2 DEF StepFails
<1>3. CASE RestoreListStarts(h) \/ RestoreListEnds(h) \/ SetEndOfWALStream(h)
  BY <1>3 DEF RestoreListStarts, RestoreListEnds, SetEndOfWALStream
<1>4. CASE Downloading(h)
  BY <1>4 DEF Downloading, GetStarts, GetEnds, GetMisses, GetFails
<1>5. CASE Reply(h)
  BY <1>5 DEF Reply
<1> QED
  BY <1>1, <1>2, <1>3, <1>4, <1>5 DEF Handle

\* The running handler keeps what it has started, found and put at the destination.
LEMMA SoloOfStep ==
    ASSUME TypeInv, SoloInv, ~abandoned, NEW h \in Handlers, Handle(h)
    PROVE  SoloOf(h)'
<1> USE TypeParts DEF TypeInv, HandlerTypes
<1>1. /\ pc[h] # "idle" /\ caller = h /\ conf[h] \in Clusters /\ SoloOf(h)
      /\ req[h] \in 0 .. NSeg /\ (pc'[h] = "idle" \/ UNCHANGED <<pgVars, req, conf, parallel>>)
  BY OthersStay, RunsAlone DEF SoloInv
<1>2. CASE pc'[h] \notin {"take", "get", "set"}
  BY <1>1, <1>2 DEF SoloOf, pgVars
<1>3. ASSUME UNCHANGED <<pgVars, req, conf, parallel>>
      PROVE  First(h)' = First(h) /\ ListFor(conf[h], req[h])' = ListFor(conf[h], req[h])
             /\ \A m, k : File(h, m, k)' = File(h, m, k)
  BY <1>3 DEF First, ListFor, File, ArchiveOf
<1>4. CASE RestoreListStarts(h)
  <2>1. UNCHANGED <<pgVars, req, conf, parallel>> /\ pc'[h] = "get"
    BY <1>4 DEF RestoreListStarts, envVars
  <2>2. \A m \in Members : task'[h][m] = IF m \in ListFor(conf[h], req[h]) THEN "get" ELSE "none"
    BY <1>4 DEF RestoreListStarts
  <2>3. First(h) \in Members /\ First(h) \in ListFor(conf[h], req[h])
    BY <1>1, ListHasFirst, MembersAre DEF First
  <2>4. GettingOf(h)'
    BY <1>3, <2>1, <2>2, <2>3 DEF GettingOf
  <2> QED
    BY <1>1, <2>1, <2>4 DEF SoloOf, pgVars
<1>5. ASSUME NEW m \in Members, GetStarts(h, m) \/ GetEnds(h, m) PROVE SoloOf(h)'
  <2>1. UNCHANGED <<pgVars, req, conf, parallel, pc>> /\ pc[h] = "get" /\ pc'[h] = "get"
    BY <1>5 DEF GetStarts, GetEnds, envVars
  <2>2. m # <<History, "full">> /\ task[h][m] # "none"
    BY <1>5, FoundIsSegment, FilledAlone DEF GetStarts, GetEnds
  <2>3. PICK k \in {"torn", m[2]} :
          /\ Write(h, m, File(h, m, k))
          /\ \/ k = "torn" /\ task' = [task EXCEPT ![h][m] = "write"]
             \/ k = m[2] /\ task' = [task EXCEPT ![h][m] = "ok"]
    BY <1>5, FilledAlone DEF GetStarts, GetEnds
  <2>4. ASSUME NEW n \in Members, n # m, task[h][n] # "none" PROVE Current(h, n)' = Current(h, n)
    <3>1. CASE m = First(h) \/ n = First(h)
      BY <1>3, <2>1, <2>2, <2>3, <2>4, <3>1, WriteIs DEF Current
    <3>2. CASE m # First(h) /\ n # First(h)
      <4>1. n[1] # m[1]
        BY <2>1, <2>2, <2>4, <3>2, DownloadsOf
      <4>2. n[1] \in Segs
        <5>1. req[h] = next /\ next \in 1 .. NSeg
          BY <2>1, <2>2, DownloadsOf
        <5>2. n \in ListFor(conf[h], next)
          BY <1>1, <2>1, <2>4, <5>1 DEF SoloOf, GettingOf
        <5> QED
          BY <5>1, <5>2, ListIs
      <4> QED
        BY <1>3, <2>1, <2>2, <2>3, <3>2, <4>1, <4>2, WriteIs DEF Current
    <3> QED
      BY <3>1, <3>2
  <2>5. Current(h, m)' = File(h, m, k)
    BY <1>3, <2>1, <2>2, <2>3, WriteIs DEF Current
  <2>6. \A n \in Members : n # m => task'[h][n] = task[h][n]
    BY <2>3
  <2>7. task'[h][m] = IF k = "torn" /\ task' = [task EXCEPT ![h][m] = "write"] THEN "write" ELSE "ok"
    BY <2>3
  <2>8. First(h) \in Members /\ GettingOf(h)
    BY <1>1, <2>1, MembersAre DEF First, SoloOf, Segs
  <2>9. ASSUME NEW n \in Members, task'[h][n] = "write" PROVE Current(h, n)' = File(h, n, "torn")
    BY <2>3, <2>4, <2>5, <2>6, <2>8, <2>9 DEF GettingOf
  <2>10. ASSUME task'[h][First(h)] = "ok" PROVE Ready(h)'
    <3>1. CASE m = First(h)
      <4>1. dest' = File(h, m, k) /\ m[2] = "full"
        BY <2>2, <2>3, <3>1, WriteIs DEF First
      <4>2. k = "full"
        BY <2>3, <2>10, <3>1, <4>1
      <4> QED
        BY <1>3, <2>1, <3>1, <4>1, <4>2 DEF Ready
    <3>2. CASE m # First(h)
      BY <1>3, <2>1, <2>2, <2>3, <2>6, <2>8, <2>10, <3>2, WriteIs DEF Ready, GettingOf
    <3> QED
      BY <3>1, <3>2
  <2>11. \A n \in Members : task'[h][n] # "none" => n \in ListFor(conf[h], req[h])
    BY <2>2, <2>6, <2>8 DEF GettingOf
  <2>12. task'[h][First(h)] # "none"
    BY <2>3, <2>6, <2>8 DEF GettingOf
  <2>13. GettingOf(h)'
    BY <1>3, <2>1, <2>9, <2>10, <2>11, <2>12 DEF GettingOf
  <2> QED
    BY <1>1, <2>1, <2>13 DEF SoloOf, pgVars
<1>6. ASSUME NEW m \in Members, GetMisses(h, m) \/ GetFails(h, m) PROVE SoloOf(h)'
  <2>1. PICK to \in {"missing", "err"} : task' = [task EXCEPT ![h][m] = to]
    BY <1>6 DEF GetMisses, GetFails
  <2>2. UNCHANGED <<pgVars, req, conf, parallel, pc, dest, spool>> /\ pc[h] = "get" /\ task[h][m] # "none"
    BY <1>6 DEF GetMisses, GetFails, envVars
  <2>3. \A n \in Members : task'[h][n] = IF n = m THEN to ELSE task[h][n]
    BY <2>1
  <2>4. First(h) \in Members /\ GettingOf(h)
    BY <1>1, <2>2, MembersAre DEF First, SoloOf, Segs
  <2>5. \A n : Current(h, n)' = Current(h, n)
    BY <1>3, <2>2 DEF Current
  <2>6. GettingOf(h)'
    BY <1>3, <2>2, <2>3, <2>4, <2>5 DEF GettingOf, Ready
  <2> QED
    BY <1>1, <2>2, <2>6 DEF SoloOf, pgVars
<1>7. CASE RestoreListEnds(h)
  <2>1. UNCHANGED <<pgVars, req, conf, parallel, dest, task>> /\ pc[h] = "get"
        /\ pc'[h] \notin {"take", "get"}
    BY <1>7 DEF RestoreListEnds, envVars, fileVars
  <2>2. First(h) \in Members /\ GettingOf(h)
    BY <1>1, <2>1, MembersAre DEF First, SoloOf, Segs
  <2>3. ASSUME pc'[h] = "set" PROVE Result(h) \notin {"missing", "err"}
    BY <1>7, <2>3 DEF RestoreListEnds
  <2>4. task[h][First(h)] \in {"ok", "missing", "err"}
    BY <1>7, <2>2 DEF RestoreListEnds, GettingOf
  <2>5. pc'[h] = "set" => task[h][First(h)] = "ok"
    BY <2>3, <2>4 DEF Result
  <2>6. task[h][First(h)] = "ok" => req[h] # History /\ Ready(h)
    BY <2>2 DEF GettingOf, NoHistoryFile, First
  <2> QED
    BY <1>1, <1>3, <2>1, <2>5, <2>6 DEF SoloOf, pgVars, Ready
<1>9. CASE RestoreFromSpool(h)
  <2>1. UNCHANGED <<pgVars, req, conf, spool>> /\ pc'[h] = "take"
    BY <1>9 DEF RestoreFromSpool
  <2>2. req[h] \in Segs /\ spool[req[h]] # NoFile /\ dest' = spool[req[h]]
    BY <1>9 DEF RestoreFromSpool
  <2> QED
    BY <1>1, <2>1, <2>2 DEF SoloOf, Taken, pgVars
<1>8. CASE ~ (\/ RestoreFromSpool(h) \/ RestoreListStarts(h) \/ RestoreListEnds(h)
              \/ \E m \in Members : \/ GetStarts(h, m) \/ GetEnds(h, m)
                                   \/ GetMisses(h, m) \/ GetFails(h, m))
  <2>1. \/ RemoveFromSpool(h) \/ NotInSpool(h) \/ IsEndOfWALStream(h) \/ ResetEndOfWalStream(h)
        \/ StepFails(h) \/ SetEndOfWALStream(h) \/ Reply(h)
    BY <1>8 DEF Handle, Downloading
  <2>2. pc'[h] \notin {"take", "get", "set"}
    BY <2>1 DEF RemoveFromSpool, NotInSpool, AfterSpool, IsEndOfWALStream, ResetEndOfWalStream,
       StepFails, SetEndOfWALStream, Reply
  <2> QED
    BY <1>2, <2>2
<1> QED
  BY <1>4, <1>5, <1>6, <1>7, <1>8, <1>9

\* The file a download writes carries the number of the segment.
LEMMA NamedStep ==
    ASSUME TypeInv, SoloInv, ~abandoned, Next
    PROVE  NamedInv'
<1> USE TypeParts DEF TypeInv, FileTypes, NamedInv
<1>1. NamedInv
  BY DEF SoloInv
<1>2. ASSUME NEW h \in Handlers, NEW m \in Members, GetStarts(h, m) \/ GetEnds(h, m) PROVE NamedInv'
  <2>1. PICK k : m # <<History, "full">> /\ Write(h, m, File(h, m, k))
    BY <1>2, FoundIsSegment, FilledAlone DEF GetStarts
  <2>2. File(h, m, k).seg = m[1]
    BY DEF File
  <2> QED
    BY <1>1, <2>1, <2>2, WriteIs
<1>3. ASSUME NEW h \in Handlers, RemoveFromSpool(h) PROVE NamedInv'
  BY <1>1, <1>3 DEF RemoveFromSpool
<1>4. CASE PodReplaced
  BY <1>4 DEF PodReplaced
<1>5. CASE UNCHANGED spool
  BY <1>1, <1>5
<1>6. \/ PodReplaced \/ UNCHANGED spool
      \/ \E h \in Handlers : RemoveFromSpool(h) \/ \E m \in Members : GetStarts(h, m) \/ GetEnds(h, m)
  BY DEF Next, Upload, Requesting, Request, Stream, Streamed, StreamEnds, Handle, NotInSpool,
     RestoreFromSpool, IsEndOfWALStream, ResetEndOfWalStream, StepFails, RestoreListStarts,
     Downloading, GetMisses, GetFails, RestoreListEnds, SetEndOfWALStream, Reply, PgRestart,
     SidecarRestart, ChangeCluster, fileVars
<1> QED
  BY <1>2, <1>3, <1>4, <1>5, <1>6

\* Until a call is abandoned, one handler runs.
LEMMA SoloInvStep ==
    ASSUME TypeInv, SoloInv, [Next]_vars
    PROVE  SoloInv'
<1> SUFFICES ASSUME ~abandoned' PROVE NamedInv' /\ \A h \in Handlers : SoloOf(h)'
  BY DEF SoloInv
<1> USE TypeParts DEF TypeInv, HandlerTypes
<1>1. ASSUME NEW h \in Handlers, Handle(h), ~abandoned PROVE \A g \in Handlers : SoloOf(g)'
  <2>1. \A g \in Handlers \ {h} : pc'[g] = "idle"
    BY <1>1, OthersStay, RunsAlone
  <2> QED
    BY <1>1, <2>1, SoloOfStep DEF SoloOf
<1>2. ASSUME NEW h \in Handlers, Request(h), ~abandoned PROVE \A g \in Handlers : SoloOf(g)'
  <2>1. caller = NoHandler /\ \A g \in Handlers : pc[g] = "idle"
    BY <1>2, RunsAlone, RestoreAssumption DEF Request, RestoreAssumption
  <2>2. caller' = h /\ conf' = [conf EXCEPT ![h] = cluster] /\ pc' = [pc EXCEPT ![h] = "spool"]
    BY <1>2 DEF Request
  <2> QED
    BY <2>1, <2>2 DEF SoloOf, EnvTypes
<1>3. ASSUME Upload \/ Stream \/ ChangeCluster \/ UNCHANGED vars, ~abandoned
      PROVE  \A g \in Handlers : SoloOf(g)'
  <2>1. UNCHANGED <<hVars, dest, spool, caller, parallel>>
    BY <1>3 DEF Upload, Stream, Streamed, StreamEnds, ChangeCluster, vars, fileVars, pgVars,
       envVars
  <2> TAKE g \in Handlers
  <2>2. First(g)' = First(g) /\ ListFor(conf[g], req[g])' = ListFor(conf[g], req[g])
        /\ \A m, k : File(g, m, k)' = File(g, m, k) /\ Current(g, m)' = Current(g, m)
    BY <2>1 DEF First, ListFor, File, ArchiveOf, Current, hVars
  <2>3. GettingOf(g) => GettingOf(g)'
    BY <2>1, <2>2 DEF GettingOf, Ready, hVars
  <2>4. SoloOf(g)
    BY <1>3 DEF SoloInv
  <2> QED
    BY <2>1, <2>2, <2>3, <2>4 DEF SoloOf, Ready, Taken, hVars
<1>4. ASSUME PgRestart, ~abandoned PROVE \A g \in Handlers : SoloOf(g)'
  <2>1. caller = NoHandler /\ UNCHANGED pc
    BY <1>4 DEF PgRestart, hVars
  <2>2. \A g \in Handlers : pc[g] = "idle"
    BY <1>4, <2>1, RunsAlone, RestoreAssumption DEF RestoreAssumption
  <2> QED
    BY <2>1, <2>2 DEF SoloOf
<1>5. ASSUME SidecarRestart \/ PodReplaced PROVE \A g \in Handlers : SoloOf(g)'
  BY <1>5 DEF SidecarRestart, PodReplaced, AllHandlersStop, SoloOf
<1>6. ~abandoned
  <2>1. Upload \/ Requesting \/ Stream \/ SidecarRestart \/ PodReplaced \/ ChangeCluster
          \/ UNCHANGED vars => UNCHANGED abandoned
    BY DEF Upload, Requesting, Request, Stream, Streamed, StreamEnds, SidecarRestart, PodReplaced,
       ChangeCluster, vars, envVars
  <2>2. PgRestart => abandoned \in BOOLEAN /\ abandoned' = (abandoned \/ caller # NoHandler)
    BY DEF PgRestart, EnvTypes
  <2> QED
    BY <2>1, <2>2, OthersStay DEF Next
<1>7. NamedInv'
  <2>1. UNCHANGED vars => UNCHANGED spool
    BY DEF vars, fileVars
  <2> QED
    BY <1>6, <2>1, NamedStep DEF SoloInv, NamedInv
<1> QED
  BY <1>1, <1>2, <1>3, <1>4, <1>5, <1>6, <1>7 DEF Next, Requesting

-----------------------------------------------------------------------------
(* What an interrupted download costs.                                     *)

\* The spool slots that a running download fills, those that hold a torn file, and those
\* whose torn file nobody will complete.
Fills(h, m, w) == pc[h] = "get" /\ task[h][m] = "write" /\ m # First(h) /\ m[1] = w
Filling == {w \in Segs : \E h \in Handlers, m \in Members : Fills(h, m, w)}
Torn == {w \in Segs : spool[w] # NoFile /\ spool[w].kind = "torn"}
Loose == Torn \ Filling

\* A file that cannot be used is about to be delivered.
Unusable(h) == pc[h] = "restored" /\ req[h] # History /\ ~Usable(dest, req[h])
InHand == IF \E h \in Handlers : Unusable(h) THEN 1 ELSE 0

\* Files delivered, about to be delivered, and left in the spool that cannot be used.
Losses == spoiled + Cardinality(Loose) + InHand

SpoilInv == ~abandoned => Losses <= faults + crashes * Prefetched

\* Sets of segments are finite.
LEMMA SegmentSets ==
    /\ \A S \in SUBSET Segs : IsFiniteSet(S) /\ Cardinality(S) \in Nat
    /\ \A S, T \in SUBSET Segs : S \subseteq T => Cardinality(S) <= Cardinality(T)
    /\ \A S \in SUBSET Segs, w \in Segs : Cardinality(S \cup {w}) <= Cardinality(S) + 1
    /\ \A S \in SUBSET Segs : \A w \in S : Cardinality(S \ {w}) = Cardinality(S) - 1
<1>1. IsFiniteSet(Segs)
  BY RestoreAssumption, FS_Interval DEF Segs, Last, RestoreAssumption
<1>2. \A S \in SUBSET Segs : IsFiniteSet(S) /\ Cardinality(S) \in Nat
  BY <1>1, FS_Subset, FS_CardinalityType
<1>3. \A S, T \in SUBSET Segs : S \subseteq T => Cardinality(S) <= Cardinality(T)
  BY <1>2, FS_Subset
<1>4. \A S \in SUBSET Segs, w \in Segs : Cardinality(S \cup {w}) <= Cardinality(S) + 1
  <2> TAKE S \in SUBSET Segs, w \in Segs
  <2>1. IsFiniteSet(S) /\ Cardinality(S) \in Nat
    BY <1>2
  <2>2. CASE w \in S
    <3>1. S \cup {w} = S
      BY <2>2
    <3>2. Cardinality(S \cup {w}) = Cardinality(S)
      BY <3>1
    <3> QED
      BY <2>1, <3>2
  <2>3. CASE w \notin S
    <3>1. Cardinality(S \cup {w}) = Cardinality(S) + 1
      BY <2>1, <2>3, FS_AddElement
    <3> QED
      BY <2>1, <3>1
  <2> QED
    BY <2>2, <2>3
<1>5. \A S \in SUBSET Segs : \A w \in S : Cardinality(S \ {w}) = Cardinality(S) - 1
  BY <1>2, FS_RemoveElement
<1> QED
  BY <1>2, <1>3, <1>4, <1>5

\* A list of downloads fills at most the slots that are prefetched.
LEMMA FillingFew ==
    ASSUME TypeInv, SoloInv, ~abandoned
    PROVE  Prefetched \in Nat /\ Cardinality(Filling) <= Prefetched
<1>1. parallel \in Nat \ {0} /\ Segs \subseteq Nat
  BY TypeParts, RestoreAssumption DEF TypeInv, EnvTypes, RestoreAssumption, Segs
<1>2. Prefetched \in Nat /\ (parallel > 1 => Prefetched = parallel - 1)
  BY <1>1 DEF Prefetched
<1>3. CASE Filling = {}
  BY <1>2, <1>3, FS_EmptySet
<1>4. CASE Filling # {}
  <2>1. PICK h \in Handlers, m \in Members : pc[h] = "get" /\ task[h][m] = "write" /\ m # First(h)
    BY <1>4 DEF Filling, Fills
  <2>2. \A n \in Members : task[h][n] = "write" => n # <<History, "full">>
    BY DEF TypeInv, NoHistoryFile
  <2>3. next \in 1 .. NSeg
    BY <2>1, <2>2, DownloadsOf
  <2>4. ASSUME NEW w \in Filling
        PROVE  /\ w \in Segs /\ next <= w /\ w < next + parallel
               /\ parallel > 1 => next < w
               /\ parallel = 1 => w = next /\ conf[h].token
    <3>1. PICK n \in Members : task[h][n] = "write" /\ n # First(h) /\ n[1] = w
      BY <2>1, RunsAlone DEF Filling, Fills
    <3> QED
      BY <2>1, <2>2, <3>1, DownloadsOf
  <2>5. CASE parallel > 1
    <3> DEFINE e == next + parallel - 1
               s == next + 1
    <3>1. s \in Int /\ e \in Int /\ s <= e /\ e - s + 1 = parallel - 1
      BY <1>1, <2>3, <2>5
    <3>2. ASSUME NEW w \in Filling PROVE w \in s .. e
      <4>1. w \in Nat /\ next < w /\ w < next + parallel
        BY <1>1, <2>4, <2>5
      <4> QED
        BY <1>1, <2>3, <4>1
    <3> HIDE DEF s, e
    <3>3. IsFiniteSet(s .. e) /\ Cardinality(s .. e) = parallel - 1
      BY <3>1, FS_Interval
    <3>4. Cardinality(Filling) <= Cardinality(s .. e)
      <4>1. Filling \subseteq s .. e
        BY <3>2
      <4> QED
        BY <3>3, <4>1, FS_Subset
    <3> QED
      BY <1>2, <2>5, <3>3, <3>4
  <2>6. CASE parallel = 1
    <3>1. Filling \subseteq {next}
      BY <2>4, <2>6
    <3>2. IsFiniteSet({next}) /\ Cardinality({next}) = 1
      BY FS_Singleton
    <3>3. Cardinality(Filling) <= Cardinality({next})
      BY <3>1, <3>2, FS_Subset
    <3>4. conf[h].token /\ conf[h] \in Clusters
      BY <1>4, <2>1, <2>4, <2>6, RunsAlone
    <3>5. Prefetched = 1
      BY <2>6, <3>4 DEF Prefetched
    <3> QED
      BY <1>2, <3>2, <3>3, <3>5
  <2> QED
    BY <1>1, <2>5, <2>6
<1> QED
  BY <1>3, <1>4

\* Where nobody downloads, no slot is being filled.
LEMMA NobodyFills ==
    ASSUME TypeInv, SoloInv, ~abandoned, NEW h \in Handlers, pc[h] # "idle",
           pc[h] # "get" \/ \A m \in Members : task[h][m] # "write"
    PROVE  Filling = {}
BY RunsAlone DEF Filling, Fills

\* Whole files are usable.
LEMMA ReadyIsUsable ==
    ASSUME TypeInv, NEW h \in Handlers, req[h] # History, Ready(h)
    PROVE  Usable(dest, req[h])
<1>1. File(h, First(h), "full") \in Contents
  BY TypeParts, SourceIsArchive DEF File, First, Contents, ArchiveOf, TypeInv, HandlerTypes
<1> QED
  BY <1>1, NoFileAssumption DEF Ready, Usable, File, First

\* What a step of the handler does to the losses: it may leave more only by a failure.
SpendsOn(h) == Losses' <= Losses + (faults' - faults)

\* A download that starts takes over the file of its slot, and one that ends leaves no torn
\* file; only one that fails leaves another.
LEMMA DownloadLosses ==
    ASSUME TypeInv, SoloInv, ~abandoned, NEW h \in Handlers, NEW m \in Members,
           GetStarts(h, m) \/ GetEnds(h, m) \/ GetMisses(h, m) \/ GetFails(h, m)
    PROVE  \/ faults' \in {faults, faults + 1} /\ Loose' \subseteq Loose
           \/ faults' = faults + 1 /\ \E w \in Segs : Loose' \subseteq Loose \cup {w}
<1> USE TypeParts DEF TypeInv, HandlerTypes
<1>1. /\ pc[h] = "get" /\ UNCHANGED <<pc, req>> /\ task[h][m] \in {"get", "write"}
      /\ \E to \in {"write", "ok", "missing", "err"} : task' = [task EXCEPT ![h][m] = to]
  BY DEF GetStarts, GetEnds, GetMisses, GetFails
<1>2. \A n \in Members : n # m => task'[h][n] = task[h][n]
  BY <1>1
<1>3. \A w : \A n \in Members : n # m /\ Fills(h, n, w) => Fills(h, n, w)'
  BY <1>1, <1>2 DEF Fills, First
<1>4. \A w : \A g \in Handlers, n \in Members : Fills(g, n, w) => g = h
  BY <1>1, RunsAlone DEF Fills
<1>5. ASSUME NEW w \in Filling, w # m[1] \/ m = First(h) PROVE w \in Filling'
  <2>1. PICK n \in Members : Fills(h, n, w)
    BY <1>4 DEF Filling
  <2>2. n # m
    BY <1>5, <2>1 DEF Fills
  <2> QED
    BY <1>3, <1>5, <2>1, <2>2 DEF Filling
<1>6. m # <<History, "full">> => m[1] \in Segs
  BY MembersAre
<1>7. CASE GetStarts(h, m)
  <2>1. m # <<History, "full">> /\ Write(h, m, File(h, m, "torn")) /\ UNCHANGED faults
        /\ task' = [task EXCEPT ![h][m] = "write"]
    BY <1>7, FoundIsSegment DEF GetStarts
  <2>2. task'[h][m] = "write"
    BY <2>1
  <2>3. CASE m = First(h)
    BY <1>5, <2>1, <2>3, WriteIs DEF Loose, Torn
  <2>4. CASE m # First(h)
    <3>1. m[1] \in Filling'
      BY <1>1, <1>6, <2>1, <2>2, <2>4 DEF Filling, Fills, First
    <3> QED
      BY <1>5, <2>1, <2>4, <3>1, WriteIs DEF Loose, Torn
  <2> QED
    BY <2>1, <2>3, <2>4
<1>8. CASE GetEnds(h, m)
  <2>1. m # <<History, "full">> /\ Write(h, m, File(h, m, m[2])) /\ UNCHANGED faults
    BY <1>8, FilledAlone DEF GetEnds
  <2>2. CASE m = First(h)
    BY <1>5, <2>1, <2>2, WriteIs DEF Loose, Torn
  <2>3. CASE m # First(h)
    <3>1. File(h, m, m[2]).kind # "torn"
      BY <2>1, MembersAre DEF File
    <3> QED
      BY <1>5, <2>1, <2>3, <3>1, WriteIs DEF Loose, Torn
  <2> QED
    BY <2>1, <2>2, <2>3
<1>9. CASE GetMisses(h, m)
  <2>1. UNCHANGED <<spool, faults>> /\ task[h][m] = "get"
    BY <1>9 DEF GetMisses
  <2>2. \A w : \A n \in Members : Fills(h, n, w) => n # m
    BY <2>1 DEF Fills
  <2>3. \A w \in Filling : w \in Filling'
    BY <1>3, <1>4, <2>2 DEF Filling
  <2> QED
    BY <2>1, <2>3 DEF Loose, Torn
<1>10. CASE GetFails(h, m)
  <2>1. UNCHANGED spool /\ faults' = faults + 1 /\ faults \in Nat
    BY <1>10, RestoreAssumption DEF GetFails, Fault, EnvTypes, RestoreAssumption
  <2>2. Loose' \subseteq Loose \cup {m[1]}
    BY <1>5, <2>1 DEF Loose, Torn
  <2>3. Loose' \in SUBSET Segs
    BY DEF Loose, Torn, Segs, Last
  <2>4. CASE m[1] \in Segs
    BY <2>1, <2>2, <2>4
  <2>5. CASE m[1] \notin Segs
    BY <2>1, <2>2, <2>3, <2>5
  <2> QED
    BY <2>4, <2>5
<1> QED
  BY <1>7, <1>8, <1>9, <1>10

\* The other steps of a handler: what is taken out of the spool is in the hand, and what is
\* delivered leaves it.
LEMMA HandLosses ==
    ASSUME TypeInv, SoloInv, ~abandoned, NEW h \in Handlers, Handle(h), ~Downloading(h)
    PROVE  /\ faults' \in {faults, faults + 1}
           /\ \/ Loose' \subseteq Loose /\ spoiled' + InHand' <= spoiled + InHand
              \/ \E w \in Loose : Loose' \subseteq Loose \ {w} /\ spoiled' = spoiled /\ InHand' <= InHand + 1
<1> USE TypeParts DEF TypeInv, HandlerTypes, PgTypes, EnvTypes
<1>1. /\ pc[h] # "idle" /\ caller = h /\ SoloOf(h)
      /\ \A g \in Handlers \ {h} : pc[g] = "idle" /\ pc'[g] = "idle"
      /\ req[h] # History => req[h] = next
  BY OthersStay, RunsAlone DEF SoloInv
<1>2. InHand \in {0, 1} /\ InHand' \in {0, 1} /\ spoiled \in Nat
  BY DEF InHand
<1>3. (Unusable(h) <=> InHand = 1) /\ (Unusable(h)' <=> InHand' = 1)
  <2>1. \A g \in Handlers : Unusable(g) => g = h
    BY <1>1 DEF Unusable
  <2>2. \A g \in Handlers : Unusable(g)' => g = h
    BY <1>1 DEF Unusable
  <2> QED
    BY <2>1, <2>2 DEF InHand
<1>4. Filling = {}
  <2>1. pc[h] = "get" => RestoreListEnds(h)
    BY DEF Handle, RestoreFromSpool, RemoveFromSpool, NotInSpool, IsEndOfWALStream,
           ResetEndOfWalStream, StepFails,
       RestoreListStarts, SetEndOfWALStream, Reply
  <2>2. RestoreListEnds(h) => \A m \in Members : task[h][m] # "write"
    BY DEF RestoreListEnds
  <2> QED
    BY <1>1, <2>1, <2>2, NobodyFills
<1>5. spool' = spool => Loose' \subseteq Loose
  BY <1>4 DEF Loose, Torn
<1>6. CASE RemoveFromSpool(h)
  <2>0. pc[h] = "take" /\ Taken(h)
    BY <1>1, <1>6 DEF RemoveFromSpool, SoloOf
  <2>1. /\ req[h] \in Segs /\ spool[req[h]] # NoFile /\ dest' = spool[req[h]]
        /\ spool' = [spool EXCEPT ![req[h]] = NoFile]
        /\ pc[h] = "take" /\ pc'[h] = "restored" /\ UNCHANGED <<req, spoiled, faults>>
    BY <1>6, <2>0 DEF RemoveFromSpool, Taken, histVars
  <2>2. Loose' \subseteq Loose \ {req[h]}
    BY <1>4, <2>1 DEF Loose, Torn, FileTypes
  <2>3. InHand = 0
    BY <1>2, <1>3, <2>1 DEF Unusable
  <2>4. CASE spool[req[h]].kind = "torn"
    <3>1. req[h] \in Loose
      BY <1>4, <2>1, <2>4 DEF Loose, Torn
    <3>2. InHand' <= InHand + 1 /\ spoiled' = spoiled /\ faults' = faults
      BY <1>2, <2>1, <2>3
    <3> QED
      BY <2>2, <3>1, <3>2
  <2>5. CASE spool[req[h]].kind # "torn"
    <3>1. Usable(dest, req[h])'
      BY <2>1, <2>5 DEF Usable, SoloInv, NamedInv
    <3>2. InHand' = 0
      BY <1>2, <1>3, <3>1 DEF Unusable
    <3> QED
      BY <1>2, <2>1, <2>2, <2>3, <3>2
  <2> QED
    BY <2>4, <2>5
<1>7. CASE RestoreFromSpool(h) \/ NotInSpool(h) \/ IsEndOfWALStream(h) \/ ResetEndOfWalStream(h)
           \/ StepFails(h) \/ RestoreListStarts(h)
  <2>1. /\ pc'[h] # "restored" /\ UNCHANGED <<spool, spoiled>> /\ faults' \in {faults, faults + 1}
    BY <1>7 DEF RestoreFromSpool, NotInSpool, AfterSpool, IsEndOfWALStream, ResetEndOfWalStream,
       StepFails, Fault, RestoreListStarts, fileVars, histVars
  <2>2. InHand' = 0
    BY <1>2, <1>3, <2>1 DEF Unusable
  <2> QED
    BY <1>2, <1>5, <2>1, <2>2
<1>8. CASE RestoreListEnds(h) \/ SetEndOfWALStream(h)
  <2>1. UNCHANGED <<spool, dest, req, conf, spoiled, faults>>
    BY <1>8 DEF RestoreListEnds, SetEndOfWALStream, fileVars, histVars
  <2>2. ASSUME pc'[h] = "restored", req[h] # History PROVE Usable(dest, req[h])
    <3>1. CASE RestoreListEnds(h)
      <4>1. First(h) \in Members /\ pc[h] = "get"
        BY <3>1, MembersAre DEF First, RestoreListEnds
      <4>2. task[h][First(h)] \in {"none", "ok", "missing", "err"}
        BY <3>1, <4>1 DEF RestoreListEnds
      <4>3. task[h][First(h)] \notin {"none", "missing", "err"}
        BY <1>1, <2>2, <3>1, <4>1 DEF RestoreListEnds, Result, SoloOf, GettingOf
      <4>4. Ready(h)
        BY <1>1, <4>1, <4>2, <4>3 DEF SoloOf, GettingOf
      <4> QED
        BY <2>2, <4>4, ReadyIsUsable
    <3>2. CASE SetEndOfWALStream(h)
      <4>1. Ready(h)
        BY <1>1, <3>2 DEF SetEndOfWALStream, SoloOf
      <4> QED
        BY <2>2, <4>1, ReadyIsUsable
    <3> QED
      BY <1>8, <3>1, <3>2
  <2>3. InHand' = 0
    BY <1>2, <1>3, <2>1, <2>2 DEF Unusable
  <2> QED
    BY <1>2, <1>5, <2>1, <2>3
<1>9. CASE Reply(h)
  <2>1. pc'[h] = "idle" /\ UNCHANGED <<spool, faults>>
    BY <1>9 DEF Reply, fileVars
  <2>2. InHand' = 0
    BY <1>2, <1>3, <2>1 DEF Unusable
  <2>3. spoiled' = spoiled \/ (spoiled' = spoiled + 1 /\ Unusable(h))
    BY <1>1, <1>9 DEF Reply, Unusable
  <2>4. spoiled' + InHand' <= spoiled + InHand
    BY <1>2, <1>3, <2>2, <2>3
  <2> QED
    BY <1>5, <2>1, <2>4
<1> QED
  BY <1>6, <1>7, <1>8, <1>9 DEF Handle

\* A loss that changes hands is not another one.
LEMMA LossesAdd ==
    \A s1, l1, i1, s2, l2, i2, p \in Int :
        /\ l2 <= l1 /\ s2 + i2 <= s1 + i1 => s2 + l2 + i2 <= s1 + l1 + i1
        /\ l2 <= l1 - 1 /\ s2 = s1 /\ i2 <= i1 + 1 => s2 + l2 + i2 <= s1 + l1 + i1
        /\ l2 <= l1 + p /\ s2 = s1 /\ i2 <= i1 => s2 + l2 + i2 <= s1 + l1 + i1 + p
OBVIOUS

\* What has been lost is paid for by the failures and the restarts.
LEMMA SpoilInvStep ==
    ASSUME TypeInv, SoloInv, SpoilInv, [Next]_vars
    PROVE  SpoilInv'
<1> USE TypeParts, RestoreAssumption DEF TypeInv, PgTypes, EnvTypes, RestoreAssumption
<1> DEFINE L == Cardinality(Loose)
           P == Prefetched
<1>1. ~abandoned' => ~abandoned
  <2>1. abandoned \in BOOLEAN
    OBVIOUS
  <2>2. Upload \/ Requesting \/ Stream \/ SidecarRestart \/ PodReplaced \/ ChangeCluster
          \/ UNCHANGED vars => UNCHANGED abandoned
    BY DEF Upload, Requesting, Request, Stream, Streamed, StreamEnds, SidecarRestart, PodReplaced,
       ChangeCluster, vars, envVars
  <2>3. PgRestart => abandoned' = (abandoned \/ caller # NoHandler)
    BY DEF PgRestart
  <2> QED
    BY <2>1, <2>2, <2>3, OthersStay DEF Next
<1> SUFFICES ASSUME ~abandoned, ~abandoned' PROVE Losses' <= faults' + crashes' * P'
  BY <1>1 DEF SpoilInv
<1>2. parallel' = parallel /\ P' = P
  <2>1. parallel' = parallel
    BY OthersStay DEF Next, Upload, Requesting, Request, Stream, Streamed, StreamEnds,
       SidecarRestart, PodReplaced, PgRestart, ChangeCluster, vars, envVars
  <2> QED
    BY <2>1 DEF Prefetched
<1>3. /\ P \in Nat /\ crashes \in Nat /\ faults \in Nat
      /\ spoiled \in Nat /\ InHand \in {0, 1} /\ Loose \in SUBSET Segs /\ L \in Nat
  BY SegmentSets, FillingFew DEF InHand, Loose, Torn
<1>4. Loose' \in SUBSET Segs /\ L' \in Nat /\ spoiled' \in Nat /\ InHand' \in {0, 1}
  <2>1. Loose' \in SUBSET Segs
    BY DEF Loose, Torn
  <2>2. spoiled' \in Nat /\ InHand' \in {0, 1}
    BY PgTypesStep DEF InHand
  <2> QED
    BY <2>1, <2>2, SegmentSets
<1>5. \A S \in SUBSET Segs : Loose' \subseteq S => L' <= Cardinality(S)
  BY <1>4, SegmentSets
<1>6. PICK C \in Nat : C = crashes * P
  BY <1>3
<1> DEFINE C2 == crashes' * P'
<1>11. (crashes' = crashes => C2 = C) /\ (crashes' = crashes + 1 => C2 = C + P) /\ Losses <= faults + C
      /\ Losses = spoiled + L + InHand /\ Losses' = spoiled' + L' + InHand'
  <2>1. (crashes' = crashes => C2 = C) /\ (crashes' = crashes + 1 => C2 = C + P)
    BY <1>2, <1>3, <1>6
  <2>2. Losses <= faults + C
    BY <1>6 DEF SpoilInv
  <2> QED
    BY <1>3, <1>6, <2>1, <2>2 DEF Losses
<1> HIDE DEF L, P, C2
<1> SUFFICES Losses' <= faults' + C2
  BY DEF C2
<1>12. /\ Losses \in Int /\ Losses' \in Int /\ C \in Int /\ P \in Int /\ faults \in Int
       /\ Losses <= faults + C
  BY <1>3, <1>4, <1>6, <1>11
<1>13. /\ spoiled \in Int /\ L \in Int /\ InHand \in Int /\ Losses = spoiled + L + InHand
       /\ spoiled' \in Int /\ L' \in Int /\ InHand' \in Int /\ Losses' = spoiled' + L' + InHand'
       /\ InHand >= 0
  BY <1>3, <1>4, <1>11
<1>7. ASSUME NEW h \in Handlers, Handle(h) PROVE Losses' <= faults' + C2
  <2>1. crashes' = crashes
    BY <1>7, OthersStay
  <2>2. CASE Downloading(h)
    <3>1. PICK m \in Members : GetStarts(h, m) \/ GetEnds(h, m) \/ GetMisses(h, m) \/ GetFails(h, m)
      BY <2>2 DEF Downloading
    <3>2. pc' = pc /\ pc[h] = "get" /\ spoiled' = spoiled
      BY <3>1 DEF GetStarts, GetEnds, GetMisses, GetFails, histVars
    <3>3. \A g \in Handlers : pc'[g] # "restored"
      BY <3>2, RunsAlone
    <3>4. InHand' = 0
      BY <3>3 DEF InHand, Unusable
    <3>5. \/ faults' \in {faults, faults + 1} /\ L' <= L
          \/ faults' = faults + 1 /\ L' <= L + 1
      <4>1. CASE faults' \in {faults, faults + 1} /\ Loose' \subseteq Loose
        BY <1>3, <1>5, <4>1 DEF L
      <4>2. CASE faults' = faults + 1 /\ \E w \in Segs : Loose' \subseteq Loose \cup {w}
        <5>1. PICK w \in Segs : Loose' \subseteq Loose \cup {w}
          BY <4>2
        <5>2. L' <= Cardinality(Loose \cup {w}) /\ Cardinality(Loose \cup {w}) <= L + 1
              /\ Cardinality(Loose \cup {w}) \in Nat
          BY <1>3, <1>5, <5>1, SegmentSets DEF L
        <5> QED
          BY <1>3, <1>4, <4>2, <5>2
      <4> QED
        BY <3>1, <4>1, <4>2, DownloadLosses
    <3>6. /\ faults' = faults \/ faults' = faults + 1
          /\ Losses' <= Losses + (faults' - faults)
      BY <1>3, <1>4, <1>11, <3>2, <3>4, <3>5
    <3>7. C2 = C
      BY <1>11, <2>1
    <3> QED
      BY ONLY <1>12, <3>6, <3>7
  <2>3. CASE ~Downloading(h)
    <3>1. /\ faults' \in {faults, faults + 1}
          /\ \/ L' <= L /\ spoiled' + InHand' <= spoiled + InHand
             \/ L' <= L - 1 /\ spoiled' = spoiled /\ InHand' <= InHand + 1
      <4>1. CASE Loose' \subseteq Loose /\ spoiled' + InHand' <= spoiled + InHand
        BY <1>3, <1>5, <1>7, <2>3, <4>1, HandLosses DEF L
      <4>2. ASSUME NEW w \in Loose, Loose' \subseteq Loose \ {w}, spoiled' = spoiled, InHand' <= InHand + 1
            PROVE  L' <= L - 1
        <5>1. Cardinality(Loose \ {w}) = L - 1 /\ L' <= Cardinality(Loose \ {w})
          BY <1>3, <1>5, <4>2, SegmentSets DEF L
        <5> QED
          BY <5>1
      <4> QED
        BY <1>7, <2>3, <4>1, <4>2, HandLosses
    <3>2. faults' = faults \/ faults' = faults + 1
      BY <3>1
    <3>3. Losses' <= Losses
      BY ONLY <1>12, <1>13, <3>1, LossesAdd
    <3>4. C2 = C
      BY <1>11, <2>1
    <3> QED
      BY ONLY <1>12, <3>2, <3>3, <3>4
  <2> QED
    BY <2>2, <2>3
<1>8. ASSUME Upload \/ Stream \/ ChangeCluster \/ PgRestart \/ UNCHANGED vars
      PROVE  Losses' <= faults' + C2
  <2>1. UNCHANGED <<hVars, dest, spool, spoiled, faults>> /\ crashes' \in {crashes, crashes + 1}
    BY <1>8 DEF Upload, Stream, Streamed, StreamEnds, ChangeCluster, PgRestart, Crash, vars,
       fileVars, histVars, envVars
  <2>2. Loose' = Loose /\ InHand' = InHand
    BY <2>1 DEF Loose, Torn, Filling, Fills, First, InHand, Unusable, Usable, hVars
  <2>3. Losses' = Losses
    BY <2>1, <2>2 DEF Losses
  <2>4. faults' = faults /\ (C2 = C \/ C2 = C + P)
    BY <1>11, <2>1
  <2>5. P >= 0
    BY <1>3
  <2> QED
    BY ONLY <1>12, <2>3, <2>4, <2>5
<1>9. ASSUME Requesting PROVE Losses' <= faults' + C2
  <2>1. PICK h \in Handlers : Request(h)
    BY <1>9 DEF Requesting
  <2>2. \A g \in Handlers : pc[g] = "idle" /\ pc'[g] \in {"idle", "spool"}
    BY <2>1, RunsAlone DEF Request, HandlerTypes
  <2>3. UNCHANGED <<spool, spoiled, faults, crashes>>
    BY <2>1 DEF Request, envVars, histVars
  <2>4. Loose' = Loose /\ InHand' = 0
    BY <2>2, <2>3 DEF Loose, Torn, Filling, Fills, InHand, Unusable
  <2>5. L' = L
    BY <2>4 DEF L
  <2>6. Losses' <= Losses
    BY <1>3, <1>4, <1>11, <2>3, <2>4, <2>5
  <2>7. faults' = faults /\ C2 = C
    BY <1>11, <2>3
  <2> QED
    BY ONLY <1>12, <2>6, <2>7
<1>10. ASSUME SidecarRestart \/ PodReplaced PROVE Losses' <= faults' + C2
  <2>1. /\ \A g \in Handlers : pc'[g] = "idle"
        /\ crashes' = crashes + 1 /\ UNCHANGED <<faults, spoiled>>
        /\ \A w \in Segs : spool'[w] = spool[w] \/ spool'[w] = NoFile
    BY <1>10 DEF SidecarRestart, PodReplaced, AllHandlersStop, Crash, fileVars, histVars
  <2>2. InHand' = 0
    BY <2>1 DEF InHand, Unusable
  <2>3. Loose' \subseteq Loose \cup Filling
    BY <2>1 DEF Loose, Torn
  <2>4. L' <= L + P
    <3>1. Filling \in SUBSET Segs /\ IsFiniteSet(Filling) /\ IsFiniteSet(Loose)
      BY <1>3, SegmentSets DEF Filling
    <3>2. Cardinality(Filling) \in Nat /\ Cardinality(Filling) <= P /\ Cardinality(Loose \cap Filling) \in Nat
      <4>1. Loose \cap Filling \in SUBSET Segs
        BY <3>1
      <4> QED
        BY <3>1, <4>1, SegmentSets, FillingFew DEF P
    <3>3. Cardinality(Loose \cup Filling) = L + Cardinality(Filling) - Cardinality(Loose \cap Filling)
      BY <3>1, FS_Union DEF L
    <3>4. L' <= Cardinality(Loose \cup Filling)
      <4>1. Loose \cup Filling \in SUBSET Segs
        BY <1>3, <3>1
      <4> QED
        BY <1>5, <2>3, <4>1
    <3> QED
      BY <1>3, <1>4, <3>2, <3>3, <3>4
  <2>5. Losses' <= Losses + P
    BY ONLY <1>12, <1>13, <2>1, <2>2, <2>4, LossesAdd
  <2>6. faults' = faults /\ C2 = C + P
    BY <1>11, <2>1
  <2> QED
    BY ONLY <1>12, <2>5, <2>6
<1> QED
  BY <1>7, <1>8, <1>9, <1>10 DEF Next

\* At the start no handler runs and the spool is empty.
LEMMA InitSolo == Init => SoloInv /\ SpoilInv
<1> SUFFICES ASSUME Init PROVE SoloInv /\ SpoilInv
  OBVIOUS
<1>1. SoloInv
  BY DEF Init, SoloInv, NamedInv, SoloOf
<1>2. Loose = {} /\ InHand = 0 /\ spoiled = 0
  BY DEF Init, Loose, Torn, InHand, Unusable
<1>3. Losses = 0
  <2>1. Cardinality(Loose) = 0
    BY <1>2, FS_EmptySet
  <2> QED
    BY <1>2, <2>1 DEF Losses
<1>4. Prefetched \in Nat
  BY RestoreAssumption DEF Init, Prefetched, RestoreAssumption
<1>5. faults + crashes * Prefetched = 0
  BY <1>4 DEF Init
<1> QED
  BY <1>1, <1>3, <1>5 DEF SpoilInv

\* Until a call is abandoned, PostgreSQL is given no more unusable files than one for each
\* failure and the prefetched part of one list for each restart.
THEOREM LossesArePaid == Spec => []SpoiledOnce
<1>1. Init => TypeInv /\ SoloInv /\ SpoilInv
  BY InitTypes, InitSolo
<1>2. TypeInv /\ SoloInv /\ SpoilInv /\ [Next]_vars => TypeInv' /\ SoloInv' /\ SpoilInv'
  BY TypeInvStep, SoloInvStep, SpoilInvStep
<1>3. TypeInv /\ SoloInv /\ SpoilInv => SpoiledOnce
  <2> SUFFICES ASSUME TypeInv, SoloInv, SpoilInv, ~abandoned
               PROVE  spoiled <= faults + crashes * Prefetched
    BY DEF SpoiledOnce
  <2>1. Prefetched \in Nat /\ crashes \in Nat /\ faults \in Nat /\ spoiled \in Nat
    BY FillingFew, TypeParts, RestoreAssumption DEF TypeInv, PgTypes, EnvTypes, RestoreAssumption
  <2>2. Cardinality(Loose) \in Nat /\ InHand \in Nat
    BY SegmentSets DEF Loose, Torn, InHand
  <2>3. spoiled <= Losses /\ Losses \in Nat
    <3> DEFINE L == Cardinality(Loose)
    <3>1. \A s, l, i \in Nat : s <= s + l + i /\ s + l + i \in Nat
      OBVIOUS
    <3> QED
      BY <2>1, <2>2, <3>1 DEF Losses
  <2>4. PICK B \in Nat : B = faults + crashes * Prefetched
    BY <2>1
  <2>5. Losses <= B
    BY <2>4 DEF SpoilInv
  <2>6. \A x, y, z \in Nat : x <= y /\ y <= z => x <= z
    OBVIOUS
  <2>7. spoiled <= B
    BY ONLY <2>1, <2>3, <2>5, <2>6, B \in Nat
  <2> QED
    BY <2>4, <2>7
<1> QED
  BY <1>1, <1>2, <1>3, PTL DEF Spec

-----------------------------------------------------------------------------
(* What a change of the archive costs.                                     *)

\* The segments that one list may reach from here.
Window == {w \in Segs : next <= w /\ w < next + parallel}

\* A file of another archive than the one the instance restores from now.
Old(f) == f # NoFile /\ f.from # Source(cluster)

\* The running handler reads another archive; a file of another archive is about to be
\* delivered.
ReadsOld == \E h \in Handlers : pc[h] # "idle" /\ req[h] # History /\ Source(conf[h]) # Source(cluster)
OldInHand == Old(dest) /\ \E h \in Handlers : pc[h] = "restored" /\ req[h] # History

\* The segments that may still be restored from another archive.
Foreign == {w \in Window : Old(spool[w]) \/ ReadsOld \/ (w = next /\ OldInHand)}

\* The spool holds nothing beyond the list that starts here.
SpoolAhead == \A w \in Segs : spool[w] # NoFile => w < next + parallel

\* Without a restart, and until a call is abandoned, the segments restored from another
\* archive and those that may still be are what the changes cost.
StaleInv ==
    ~abandoned /\ crashes = 0 =>
        SpoolAhead /\ stale + Cardinality(Foreign) <= changes * parallel

\* No step but a change of the Cluster makes another segment foreign.
Delivers ==
    \/ Foreign' \subseteq Foreign /\ stale' = stale
    \/ stale' = stale + 1 /\ \E w \in Foreign : Foreign' \subseteq Foreign \ {w}

\* The spool is filled no further than the list of the running handler.
LEMMA SpoolAheadStep ==
    ASSUME TypeInv, SoloInv, ~abandoned, SpoolAhead, [Next]_vars, UNCHANGED crashes
    PROVE  SpoolAhead' /\ next <= next' /\ parallel' = parallel
<1> USE TypeParts, RestoreAssumption DEF TypeInv, PgTypes, EnvTypes, RestoreAssumption
<1>1. next \in Nat /\ next' \in Nat /\ parallel \in Nat /\ Segs \subseteq Nat
  BY PgTypesStep DEF Segs
<1>2. parallel' = parallel
  BY OthersStay DEF Next, Upload, Requesting, Request, Stream, Streamed, StreamEnds,
     SidecarRestart, PodReplaced, PgRestart, ChangeCluster, vars, envVars
<1>3. next' = next \/ next' = next + 1
  <2>1. ~PgRestart /\ ~SidecarRestart /\ ~PodReplaced
    BY DEF PgRestart, SidecarRestart, PodReplaced, Crash
  <2>2. Upload \/ Requesting \/ ChangeCluster \/ UNCHANGED vars => next' = next
    BY DEF Upload, Requesting, Request, ChangeCluster, vars, pgVars
  <2>3. Stream => next' = next \/ next' = next + 1
    BY DEF Stream, Streamed, StreamEnds
  <2>4. ASSUME NEW h \in Handlers, Handle(h) PROVE next' = next \/ next' = next + 1
    <3>1. CASE Reply(h)
      BY <3>1 DEF Reply
    <3>2. CASE ~Reply(h)
      BY <2>4, <3>2 DEF Handle, RestoreFromSpool, RemoveFromSpool, NotInSpool, IsEndOfWALStream,
             ResetEndOfWalStream, StepFails,
         RestoreListStarts, Downloading, GetStarts, GetEnds, GetMisses, GetFails, RestoreListEnds,
         SetEndOfWALStream, pgVars
    <3> QED
      BY <3>1, <3>2
  <2> QED
    BY <2>1, <2>2, <2>3, <2>4 DEF Next
<1>4. ASSUME NEW w \in Segs, spool'[w] # NoFile PROVE spool[w] # NoFile \/ w < next + parallel
  <2>1. CASE \E h \in Handlers, m \in Members : GetStarts(h, m) \/ GetEnds(h, m)
    <3>1. PICK h \in Handlers, m \in Members : GetStarts(h, m) \/ GetEnds(h, m)
      BY <2>1
    <3>2. m # <<History, "full">> /\ pc[h] = "get" /\ task[h][m] # "none"
          /\ \E f : Write(h, m, f)
      BY <3>1, FoundIsSegment, FilledAlone DEF GetStarts, GetEnds
    <3>3. m[1] < next + parallel
      BY <3>2, DownloadsOf
    <3>4. w # m[1] => spool'[w] = spool[w]
      BY <3>2, WriteIs
    <3> QED
      BY <1>4, <3>3, <3>4
  <2>2. ASSUME NEW h \in Handlers, RemoveFromSpool(h) PROVE spool[w] # NoFile
    BY <1>4, <2>2 DEF RemoveFromSpool, FileTypes
  <2>3. \/ UNCHANGED spool \/ \E h \in Handlers : RemoveFromSpool(h)
        \/ \E h \in Handlers, m \in Members : GetStarts(h, m) \/ GetEnds(h, m)
    BY DEF Next, Upload, Requesting, Request, Stream, Streamed, StreamEnds, Handle, NotInSpool,
       RestoreFromSpool, IsEndOfWALStream, ResetEndOfWalStream, StepFails, RestoreListStarts,
       Downloading, GetMisses, GetFails, RestoreListEnds, SetEndOfWALStream, Reply, PgRestart,
       SidecarRestart, PodReplaced, ChangeCluster, Crash, fileVars, vars
  <2> QED
    BY <1>4, <2>1, <2>2, <2>3
<1>5. ASSUME NEW w \in Segs, spool'[w] # NoFile PROVE w < next' + parallel'
  <2>1. w < next + parallel
    BY <1>4, <1>5 DEF SpoolAhead
  <2>2. \A v, n, p \in Nat : v < n + p => v < n + 1 + p
    OBVIOUS
  <2>3. w < next + 1 + parallel
    BY ONLY <1>1, <2>1, <2>2, w \in Segs
  <2> QED
    BY <1>2, <1>3, <2>1, <2>3
<1>6. next <= next'
  <2>1. next <= next /\ next <= next + 1
    BY <1>1
  <2> QED
    BY <1>3, <2>1
<1> QED
  BY <1>2, <1>5, <1>6 DEF SpoolAhead

\* While a handler works, what it writes is of the archive it reads; when it replies, the
\* segment it delivers is behind.
LEMMA HandleDelivers ==
    ASSUME TypeInv, SoloInv, ~abandoned, SpoolAhead, NEW h \in Handlers, Handle(h)
    PROVE  Delivers
<1> USE TypeParts DEF TypeInv, HandlerTypes, EnvTypes
<1>1. /\ pc[h] # "idle" /\ caller = h /\ SoloOf(h) /\ UNCHANGED <<cluster, parallel>>
      /\ \A g \in Handlers \ {h} : pc[g] = "idle" /\ pc'[g] = "idle"
      /\ req[h] = History \/ (req[h] = next /\ next \in 1 .. NSeg)
  BY OthersStay, RunsAlone DEF SoloInv
<1>2. \A f : Old(f)' = Old(f')
  BY <1>1 DEF Old, Source
<1>3. (ReadsOld <=> req[h] # History /\ Source(conf[h]) # Source(cluster))
      /\ (OldInHand <=> Old(dest) /\ pc[h] = "restored" /\ req[h] # History)
  BY <1>1 DEF ReadsOld, OldInHand
<1>4. CASE Reply(h)
  <2>1. \A g \in Handlers : pc'[g] = "idle"
    BY <1>1, <1>4 DEF Reply
  <2>2. ~ReadsOld' /\ ~OldInHand' /\ spool' = spool
    BY <1>4, <2>1 DEF ReadsOld, OldInHand, Reply, fileVars
  <2>3. Foreign' = {w \in Window' : Old(spool[w])}
    BY <1>1, <2>2 DEF Foreign, Old, Source
  <2>4. CASE next' = next /\ stale' = stale
    BY <1>1, <2>3, <2>4 DEF Foreign, Window, Delivers
  <2>5. CASE ~ (next' = next /\ stale' = stale)
    <3>1. /\ req[h] # History /\ pc[h] = "restored" /\ Usable(dest, next) /\ next' = next + 1
          /\ stale' = stale + (IF dest.from # Source(cluster) THEN 1 ELSE 0)
      BY <1>1, <1>4, <2>5 DEF Reply
    <3>2. next \in 1 .. NSeg /\ parallel \in Nat \ {0} /\ NSeg \in Nat /\ Segs \subseteq Nat
      BY <1>1, <3>1, RestoreAssumption DEF RestoreAssumption, Segs
    <3>3. Foreign' \subseteq Foreign \ {next}
      <4> SUFFICES ASSUME NEW w \in Segs, next + 1 <= w, Old(spool[w]) PROVE w \in Foreign /\ w # next
        BY <1>1, <2>3, <3>1 DEF Window
      <4>1. w < next + parallel
        BY DEF Old, SpoolAhead
      <4>2. next <= w /\ w # next
        BY <3>2
      <4> QED
        BY <4>1, <4>2 DEF Foreign, Window
    <3>4. CASE dest.from # Source(cluster)
      <4>1. OldInHand
        BY <1>3, <3>1, <3>4 DEF Old, Usable
      <4>2. next \in Window
        BY <3>2, RestoreAssumption DEF Window, Segs, Last, RestoreAssumption
      <4>3. next \in Foreign /\ stale' = stale + 1
        BY <3>1, <3>4, <4>1, <4>2 DEF Foreign
      <4> QED
        BY <3>3, <4>3 DEF Delivers
    <3>5. CASE dest.from = Source(cluster)
      <4>1. stale' = stale
        BY <3>1, <3>5 DEF PgTypes
      <4> QED
        BY <3>3, <4>1 DEF Delivers
    <3> QED
      BY <3>4, <3>5
  <2> QED
    BY <2>4, <2>5
<1>5. CASE ~Reply(h)
  <2>1. UNCHANGED <<next, req, conf, stale>> /\ Window' = Window
    <3>1. UNCHANGED <<next, req, conf, stale>>
      BY <1>5 DEF Handle, RestoreFromSpool, RemoveFromSpool, NotInSpool, IsEndOfWALStream,
             ResetEndOfWalStream, StepFails,
         RestoreListStarts, Downloading, GetStarts, GetEnds, GetMisses, GetFails, RestoreListEnds,
         SetEndOfWALStream, pgVars, histVars
    <3> QED
      BY <1>1, <3>1 DEF Window
  <2>2. (ReadsOld' => ReadsOld) /\ (OldInHand' => Old(dest') /\ pc'[h] = "restored" /\ req[h] # History)
    BY <1>1, <1>2, <1>3, <2>1 DEF ReadsOld, OldInHand, Source
  <2>3. SUFFICES ASSUME ~ReadsOld PROVE Foreign' \subseteq Foreign
    BY <2>1 DEF Foreign, Delivers
  <2>4. ASSUME \A w \in Segs : Old(spool'[w]) => Old(spool[w]), OldInHand' => next \in Foreign
        PROVE  Foreign' \subseteq Foreign
    BY <1>2, <2>1, <2>2, <2>3, <2>4 DEF Foreign, Window
  <2>5. req[h] # History => ArchiveOf(h) = Source(cluster)
    BY <1>3, <2>3 DEF ArchiveOf
  <2>6. CASE RemoveFromSpool(h)
    <3>0. Taken(h) /\ req[h] # History
      BY <1>1, <2>6 DEF RemoveFromSpool, SoloOf, Taken, Segs, History
    <3>1. req[h] = next /\ next \in Segs /\ next \in Window
      BY <1>1, <3>0, RestoreAssumption DEF Taken, Window, Segs, Last, RestoreAssumption
    <3>2. dest' = spool[next] /\ \A w \in Segs : spool'[w] = IF w = next THEN NoFile ELSE spool[w]
      BY <2>6, <3>0, <3>1 DEF RemoveFromSpool, Taken, FileTypes
    <3>3. Old(spool[next]) => next \in Foreign
      BY <3>1 DEF Foreign
    <3>4. \A w \in Segs : Old(spool'[w]) => Old(spool[w])
      BY <3>2 DEF Old
    <3> QED
      BY <2>2, <2>4, <3>2, <3>3, <3>4
  <2>7. ASSUME NEW m \in Members, GetStarts(h, m) \/ GetEnds(h, m) PROVE Foreign' \subseteq Foreign
    <3>1. PICK k : Write(h, m, File(h, m, k))
      BY <2>7, FilledAlone DEF GetStarts
    <3>2. m # <<History, "full">> /\ pc[h] = "get" /\ task[h][m] # "none" /\ pc' = pc
      BY <2>7, FoundIsSegment, FilledAlone DEF GetStarts, GetEnds
    <3>3. req[h] # History
      BY <3>2, DownloadsOf DEF History
    <3>4. ~Old(File(h, m, k))
      BY <2>5, <3>3 DEF Old, File
    <3>5. \A w \in Segs : spool'[w] = spool[w] \/ spool'[w] = File(h, m, k)
      BY <3>1, <3>2, WriteIs
    <3>6. ~OldInHand'
      BY <2>2, <3>2
    <3>7. \A w \in Segs : Old(spool'[w]) => Old(spool[w])
      BY <3>4, <3>5
    <3> QED
      BY <2>4, <3>6, <3>7
  <2>8. CASE RestoreListEnds(h) \/ SetEndOfWALStream(h)
    <3>1. UNCHANGED <<spool, dest>>
      BY <2>8 DEF RestoreListEnds, SetEndOfWALStream, fileVars
    <3>2. ASSUME pc'[h] = "restored", req[h] # History PROVE Ready(h)
      <4>1. CASE RestoreListEnds(h)
        <5>1. First(h) \in Members /\ pc[h] = "get"
          BY <4>1, MembersAre DEF First, RestoreListEnds
        <5>2. task[h][First(h)] \in {"none", "ok", "missing", "err"}
          BY <4>1, <5>1 DEF RestoreListEnds
        <5>3. task[h][First(h)] \notin {"none", "missing", "err"}
          BY <1>1, <3>2, <4>1, <5>1 DEF RestoreListEnds, Result, SoloOf, GettingOf
        <5> QED
          BY <1>1, <5>1, <5>2, <5>3 DEF SoloOf, GettingOf
      <4>2. CASE SetEndOfWALStream(h)
        BY <1>1, <4>2 DEF SetEndOfWALStream, SoloOf
      <4> QED
        BY <2>8, <4>1, <4>2
    <3>3. ~OldInHand'
      BY <2>2, <2>5, <3>1, <3>2 DEF Ready, Old, File
    <3> QED
      BY <2>4, <3>1, <3>3
  <2>9. CASE \/ RestoreFromSpool(h) \/ NotInSpool(h) \/ IsEndOfWALStream(h) \/ ResetEndOfWalStream(h) \/ StepFails(h)
             \/ RestoreListStarts(h) \/ \E m \in Members : GetMisses(h, m) \/ GetFails(h, m)
    <3>1. spool' = spool /\ pc'[h] # "restored"
      BY <2>9 DEF RestoreFromSpool, NotInSpool, AfterSpool, IsEndOfWALStream, ResetEndOfWalStream,
         StepFails, RestoreListStarts, GetMisses, GetFails, fileVars
    <3> QED
      BY <2>2, <2>4, <3>1
  <2> QED
    BY <1>5, <2>6, <2>7, <2>8, <2>9 DEF Handle, Downloading
<1> QED
  BY <1>4, <1>5

\* The other steps without a restart: a change of the Cluster may make every segment of the
\* window foreign, nothing else makes one so.
LEMMA OthersDeliver ==
    ASSUME TypeInv, SoloInv, ~abandoned, SpoolAhead, [Next]_vars, UNCHANGED crashes,
           ~ChangeCluster
    PROVE  Delivers /\ changes' = changes
<1> USE TypeParts DEF TypeInv, HandlerTypes, EnvTypes
<1>1. ~PgRestart /\ ~SidecarRestart /\ ~PodReplaced
  BY RestoreAssumption DEF PgRestart, SidecarRestart, PodReplaced, Crash, RestoreAssumption
<1>2. ASSUME NEW h \in Handlers, Handle(h) PROVE Delivers /\ changes' = changes
  BY <1>2, HandleDelivers, OthersStay
<1>3. CASE Upload \/ UNCHANGED vars
  <2>1. UNCHANGED <<next, hVars, dest, spool, cluster, parallel, stale, changes>>
    BY <1>3 DEF Upload, vars, pgVars, fileVars, envVars, histVars
  <2>2. Foreign' = Foreign
    BY <2>1 DEF Foreign, Window, Old, Source, ReadsOld, OldInHand, hVars
  <2> QED
    BY <2>1, <2>2 DEF Delivers
<1>4. ASSUME \A g \in Handlers : pc'[g] \in {"idle", "spool"},
             \A g \in Handlers : pc'[g] = "spool" => conf'[g] = cluster,
             \A w \in Window' : Old(spool[w]) => w \in Window,
             UNCHANGED <<spool, cluster, stale>>
      PROVE  Delivers
  <2>1. ~ReadsOld' /\ ~OldInHand'
    BY <1>4 DEF ReadsOld, OldInHand, Source
  <2>2. Foreign' \subseteq Foreign
    BY <1>4, <2>1 DEF Foreign, Old, Source
  <2> QED
    BY <1>4, <2>2 DEF Delivers
<1>5. CASE Requesting
  <2>1. PICK h \in Handlers : Request(h)
    BY <1>5 DEF Requesting
  <2>2. \A g \in Handlers : pc[g] = "idle"
    BY <2>1, RunsAlone, RestoreAssumption DEF Request, RestoreAssumption
  <2>3. \A g \in Handlers : pc'[g] \in {"idle", "spool"} /\ (pc'[g] = "spool" => conf'[g] = cluster)
    BY <2>1, <2>2 DEF Request
  <2>4. Window' = Window /\ UNCHANGED <<spool, cluster, stale, changes>>
    BY <2>1 DEF Request, Window, envVars, histVars
  <2> QED
    BY <1>4, <2>3, <2>4
<1>6. CASE Stream
  <2>1. mode = "stream" /\ pc' = pc /\ UNCHANGED <<spool, cluster, parallel, stale, changes>>
        /\ (next' = next \/ next' = next + 1)
    BY <1>6 DEF Stream, Streamed, StreamEnds, fileVars, hVars, envVars, histVars
  <2>2. \A g \in Handlers : pc[g] = "idle"
    <3> SUFFICES ASSUME NEW g \in Handlers, pc[g] # "idle" PROVE FALSE
      OBVIOUS
    <3>1. caller = g /\ g # NoHandler
      BY RunsAlone, RestoreAssumption DEF RestoreAssumption
    <3> QED
      BY <2>1, <3>1 DEF CallInv
  <2>3. ASSUME NEW w \in Window', Old(spool[w]) PROVE w \in Window
    <3>1. w \in Segs /\ next' <= w /\ w < next + parallel
      BY <2>3 DEF Window, Old, SpoolAhead
    <3>2. w \in Nat /\ next \in Nat
      BY <3>1, RestoreAssumption DEF Segs, PgTypes
    <3>3. next <= w
      BY <2>1, <3>1, <3>2
    <3> QED
      BY <3>1, <3>3 DEF Window
  <2> QED
    BY <1>4, <2>1, <2>2, <2>3
<1> QED
  BY <1>1, <1>2, <1>3, <1>5, <1>6 DEF Next

\* A window has at most as many segments as a list.
LEMMA WindowIsOneList ==
    ASSUME TypeInv, NEW S \in SUBSET Window
    PROVE  S \in SUBSET Segs /\ Cardinality(S) \in Nat /\ Cardinality(S) <= parallel
<1> USE TypeParts, RestoreAssumption DEF TypeInv, PgTypes, EnvTypes, RestoreAssumption
<1>1. PICK a, b \in Int : a = next /\ b = next + parallel - 1 /\ a <= b /\ b - a + 1 = parallel
  OBVIOUS
<1>2. S \in SUBSET Segs
  BY DEF Window
<1>3. S \subseteq a .. b
  <2> SUFFICES ASSUME NEW w \in Segs, next <= w, w < next + parallel PROVE w \in a .. b
    BY DEF Window
  <2> QED
    BY <1>1 DEF Segs
<1>4. IsFiniteSet(a .. b) /\ Cardinality(a .. b) = b - a + 1
  BY <1>1, FS_Interval
<1>5. Cardinality(S) <= Cardinality(a .. b)
  BY <1>3, <1>4, FS_Subset
<1> QED
  BY <1>1, <1>2, <1>4, <1>5, SegmentSets

\* What one delivery or one change of the Cluster adds.
LEMMA StaleAdds ==
    \A s1, f1, s2, f2, b, p \in Nat :
        /\ s1 + f1 <= b /\ f2 <= f1 /\ s2 = s1 => s2 + f2 <= b
        /\ s1 + f1 <= b /\ f2 <= f1 - 1 /\ s2 = s1 + 1 => s2 + f2 <= b
        /\ s1 + f1 <= b /\ f2 <= p /\ s2 = s1 => s2 + f2 <= b + p
OBVIOUS

\* The changes pay for what is restored from another archive.
LEMMA StaleInvStep ==
    ASSUME TypeInv, SoloInv, StaleInv, [Next]_vars
    PROVE  StaleInv'
<1> USE TypeParts, RestoreAssumption DEF TypeInv, PgTypes, EnvTypes, RestoreAssumption
<1> SUFFICES ASSUME ~abandoned', crashes' = 0
             PROVE  SpoolAhead' /\ stale' + Cardinality(Foreign)' <= changes' * parallel'
  BY DEF StaleInv
<1>1. ~PgRestart /\ ~SidecarRestart /\ ~PodReplaced
  BY DEF PgRestart, SidecarRestart, PodReplaced, Crash
<1>2. ~abandoned /\ crashes' = crashes
  BY <1>1, OthersStay DEF Next, Upload, Requesting, Request, Stream, Streamed, StreamEnds,
     ChangeCluster, vars, envVars
<1>3. SpoolAhead /\ stale + Cardinality(Foreign) <= changes * parallel
  BY <1>2 DEF StaleInv
<1>4. SpoolAhead' /\ parallel' = parallel
  BY <1>2, <1>3, SpoolAheadStep
<1>5. /\ stale \in Nat /\ parallel \in Nat /\ changes \in Nat /\ stale' \in Nat
      /\ Foreign \in SUBSET Segs /\ Foreign' \in SUBSET Segs
  BY PgTypesStep DEF Foreign, Window
<1>6. Cardinality(Foreign) \in Nat /\ Cardinality(Foreign') \in Nat
  BY <1>5, SegmentSets
<1>7. PICK B \in Nat : B = changes * parallel
  BY <1>5
<1>8. CASE ChangeCluster
  <2>1. stale' = stale /\ changes' = changes + 1 /\ Window' = Window
    BY <1>4, <1>8 DEF ChangeCluster, Window, histVars, pgVars
  <2>2. Foreign' \in SUBSET Window
    BY <2>1 DEF Foreign
  <2>3. Cardinality(Foreign') <= parallel
    BY <2>2, WindowIsOneList
  <2>4. stale' + Cardinality(Foreign') <= B + parallel
    BY ONLY <1>3, <1>5, <1>6, <1>7, <2>1, <2>3, StaleAdds
  <2>5. changes' * parallel' = B + parallel
    BY <1>4, <1>5, <1>7, <2>1
  <2> QED
    BY <1>4, <2>4, <2>5
<1>9. CASE ~ChangeCluster
  <2>1. Delivers /\ changes' = changes
    BY <1>2, <1>3, <1>9, OthersDeliver
  <2>2. stale' + Cardinality(Foreign') <= B
    <3>1. CASE Foreign' \subseteq Foreign /\ stale' = stale
      <4>1. Cardinality(Foreign') <= Cardinality(Foreign)
        BY <1>5, <3>1, SegmentSets
      <4> QED
        BY ONLY <1>3, <1>5, <1>6, <1>7, <3>1, <4>1, StaleAdds
    <3>2. ASSUME NEW w \in Foreign, Foreign' \subseteq Foreign \ {w}, stale' = stale + 1
          PROVE  stale' + Cardinality(Foreign') <= B
      <4>1. Cardinality(Foreign \ {w}) = Cardinality(Foreign) - 1 /\ Foreign \ {w} \in SUBSET Segs
        BY <1>5, SegmentSets
      <4>2. Cardinality(Foreign') <= Cardinality(Foreign \ {w})
        BY <1>5, <3>2, <4>1, SegmentSets
      <4>3. Cardinality(Foreign') <= Cardinality(Foreign) - 1
        BY <4>1, <4>2
      <4> QED
        BY ONLY <1>3, <1>5, <1>6, <1>7, <3>2, <4>3, StaleAdds
    <3> QED
      BY <2>1, <3>1, <3>2 DEF Delivers
  <2>3. changes' * parallel' = B
    BY <1>4, <1>7, <2>1
  <2> QED
    BY <1>4, <2>2, <2>3
<1> QED
  BY <1>8, <1>9

\* Until a call is abandoned, and without a restart, at most one list of segments is restored
\* from the old archive for each change of the Cluster.
THEOREM StaleIsPaid == Spec => []StaleIsOneList
<1>1. Init => TypeInv /\ SoloInv /\ StaleInv
  <2> SUFFICES ASSUME Init PROVE StaleInv
    BY InitTypes, InitSolo
  <2>1. \A w \in Segs : ~Old(spool[w])
    BY DEF Init, Old
  <2>2. ~ReadsOld /\ ~OldInHand
    BY DEF Init, ReadsOld, OldInHand
  <2>3. Foreign = {}
    BY <2>1, <2>2 DEF Foreign, Window
  <2>4. Cardinality(Foreign) = 0
    BY <2>3, FS_EmptySet
  <2>5. stale + Cardinality(Foreign) = 0 /\ changes * parallel = 0
    <3>1. stale = 0 /\ changes = 0 /\ parallel \in Int
      BY RestoreAssumption DEF Init, RestoreAssumption
    <3> QED
      BY <2>4, <3>1
  <2>6. SpoolAhead
    BY DEF Init, SpoolAhead
  <2> QED
    BY <2>5, <2>6 DEF StaleInv
<1>2. TypeInv /\ SoloInv /\ StaleInv /\ [Next]_vars => TypeInv' /\ SoloInv' /\ StaleInv'
  BY TypeInvStep, SoloInvStep, StaleInvStep
<1>3. TypeInv /\ SoloInv /\ StaleInv => StaleIsOneList
  <2> SUFFICES ASSUME TypeInv, StaleInv, ~abandoned, crashes = 0 PROVE stale <= changes * parallel
    BY DEF StaleIsOneList
  <2>1. stale \in Nat /\ changes \in Nat /\ parallel \in Nat /\ Foreign \in SUBSET Segs
    BY TypeParts, RestoreAssumption
       DEF TypeInv, PgTypes, EnvTypes, RestoreAssumption, Foreign, Window
  <2>2. Cardinality(Foreign) \in Nat
    BY <2>1, SegmentSets
  <2>3. PICK B \in Nat : B = changes * parallel
    BY <2>1
  <2>4. stale + Cardinality(Foreign) <= B
    BY <2>3 DEF StaleInv
  <2>5. \A s, f, b \in Nat : s + f <= b => s <= b
    OBVIOUS
  <2>6. stale <= B
    BY ONLY <2>1, <2>2, <2>4, <2>5, B \in Nat
  <2> QED
    BY <2>3, <2>6
<1> QED
  BY <1>1, <1>2, <1>3, PTL DEF Spec
=============================================================================
