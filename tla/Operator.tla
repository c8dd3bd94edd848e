----------------------------- MODULE Operator -----------------------------
(***************************************************************************)
(* The plugin in the operator's pod, for one Cluster: the Pre hook, which  *)
(* keeps the role and the role binding of the cluster's sidecars, and the  *)
(* lifecycle hook, which adds the sidecar to the pods and to the recovery  *)
(* job CloudNativePG creates once Pre has let it go on.                    *)
(*                                                                         *)
(* Every Get of the plugin is answered by an informer cache that runs      *)
(* behind the API server, and CloudNativePG passes the Cluster from a      *)
(* cache of its own: a feed holds the versions of an object from the one   *)
(* the cache still shows to the one the server has.  Writes go to the      *)
(* server; each may fail, or lose its answer.  CloudNativePG reconciles a  *)
(* cluster in one call at a time, but a call it gave up goes on here.      *)
(* Pre and Post change nothing for a Backup, and Post nothing at all; an   *)
(* edit of an Archive starts nothing (ArchiveReconciler is empty).         *)
(***************************************************************************)
EXTENDS ArchiveAccess, PodSpec

CONSTANTS
    ArchiveNames, Definitions,  \* the Archives, and what an Archive may be
    NoArchive,                  \* ... when there is none of that name
    Clusters,                   \* what the Cluster may be
    Pods, NoPod,                \* what CloudNativePG creates, before the hook
    Calls,                      \* the reconciliations that run at a time
    NoCluster, NoRole,
    Texts,                      \* the names and values in a pod
    MaxEdits,                   \* bound: edits of the Cluster and of the Archives
    MaxFaults,                  \* bound: failed calls and restarts of the plugin
    MaxLag                      \* bound: versions a cache runs behind

ASSUME OperatorAssumption ==
    /\ MaxEdits \in Nat /\ MaxFaults \in Nat /\ MaxLag \in Nat
    /\ \A definition \in Definitions : definition.repositories \subseteq Repositories
    /\ NoRole \notin Roles(ArchiveNames)
    /\ \A cluster \in Clusters :
         GetReferredArchiveObjectsKey(NewFromCluster(cluster)) \subseteq ArchiveNames

Environments == Seq(EnvVars(Texts))

Count(s, x) == Cardinality({i \in DOMAIN s : s[i] = x})

\* What CloudNativePG creates has no sidecar of the plugin; who injected the volume of the
\* plugins has mounted it.  Edits do not give a Cluster another name.
ASSUME HookAssumption ==
    /\ {Sidecar, pluginVolumeName, "NAMESPACE", "namespace", "CLUSTER_NAME",
        "SPOOL_DIRECTORY", "/controller/wal-restore-spool"} \subseteq Texts
    /\ \A pod \in Pods :
         /\ pod \in PodSpecs(Texts, Environments) /\ ~HasSidecar(pod)
         /\ Count(pod.volumes, pluginVolumeName) = Count(pod.mounts, pluginVolumeName)
         /\ Count(pod.volumes, pluginVolumeName) \in {0, 1}
    /\ \A definition \in Definitions : definition.env \in Environments
    /\ \A cluster, other \in Clusters : cluster.name \in Texts /\ cluster.name = other.name

VARIABLES
    feed,   \* the versions of each object, the cached one first
    pre,    \* each reconciliation: where it is, and its locals
    edits, faults

vars == <<feed, pre, edits, faults>>

Kinds == {"cluster", "archives", "role", "binding"}
Owned == {"archives", "role", "binding"}  \* those the plugin caches

Cached(kind) == Head(feed[kind])
Current(kind) == Last(feed[kind])

\* A write of what is there already makes no new version.
Set(kind, value) ==
    IF value = Current(kind) THEN UNCHANGED feed
    ELSE /\ Len(feed[kind]) <= MaxLag
         /\ feed' = [feed EXCEPT ![kind] = Append(@, value)]

Referred(cluster) == GetReferredArchiveObjectsKey(NewFromCluster(cluster))

Object(name, definition) == [name |-> name, repositories |-> definition.repositories]

Points == {"idle", "archives", "role", "binding", "bind", "pods"}

Idle == [at |-> "idle", cluster |-> NoCluster, left |-> {}, objects |-> {},
         rules |-> NoRole, creates |-> FALSE, pod |-> NoPod]

Init ==
    /\ \E cluster \in Clusters, archives \in [ArchiveNames -> Definitions \cup {NoArchive}] :
         feed = [kind \in Kinds |-> << CASE kind = "cluster"  -> cluster
                                         [] kind = "archives" -> archives
                                         [] kind = "role"     -> NoRole
                                         [] kind = "binding"  -> FALSE >>]
    /\ pre = [p \in Calls |-> Idle]
    /\ edits = 0 /\ faults = 0

-----------------------------------------------------------------------------
(* One reconciliation: Pre, and the pods of the cluster after it.          *)

\* Mutant: the locals of the call are kept for the next one.
KeepsLocals(p) == pre' = [pre EXCEPT ![p].at = "idle"]

\* The hook returns: an error or a requeue, after which CloudNativePG tries again.
Return(p) == pre' = [pre EXCEPT ![p] = Idle]

GoTo(p, point) ==
    pre' = [pre EXCEPT ![p] = [Idle EXCEPT !.at = point, !.cluster = pre[p].cluster]]

\* How a call to the API server ends: it takes effect or not, and is answered or not.
Ends == [effect : BOOLEAN, answer : BOOLEAN]
Fine(end) == end.effect /\ end.answer

Fault(happens) ==
    /\ happens => faults < MaxFaults
    /\ faults' = IF happens THEN faults + 1 ELSE faults

Pre(p) ==
    /\ pre[p].at = "idle"
    /\ pre' = [pre EXCEPT ![p] = [Idle EXCEPT !.at = "archives",
                                              !.cluster = Cached("cluster"),
                                              !.left = Referred(Cached("cluster"))]]
    /\ UNCHANGED <<feed, edits, faults>>

GetArchive(p) ==
    /\ pre[p].at = "archives"
    /\ \E name \in pre[p].left :
         LET definition == Cached("archives")[name]
         IN  IF definition = NoArchive THEN Return(p)
             ELSE pre' = [pre EXCEPT ![p].left = @ \ {name},
                                     ![p].objects = @ \cup {Object(name, definition)}]
    /\ UNCHANGED <<feed, edits, faults>>

\* Mutant: the secrets of the two roles are not compared.
ComparesTheNames(p) ==
    LET newRole == BuildRole(pre[p].objects)
        role == Cached("role")
    IN  /\ pre[p].at = "archives" /\ pre[p].left = {}
        /\ IF role # NoRole /\ newRole.archives = role.archives THEN GoTo(p, "binding")
           ELSE pre' = [pre EXCEPT ![p] = [Idle EXCEPT !.at = "role",
                                            !.cluster = pre[p].cluster,
                                            !.rules = newRole, !.creates = role = NoRole]]
        /\ UNCHANGED <<feed, edits, faults>>

GetRole(p) ==
    LET newRole == BuildRole(pre[p].objects)
        role == Cached("role")
    IN  /\ pre[p].at = "archives" /\ pre[p].left = {}
        /\ IF newRole = role THEN GoTo(p, "binding")
           ELSE pre' = [pre EXCEPT ![p] = [Idle EXCEPT !.at = "role",
                                            !.cluster = pre[p].cluster,
                                            !.rules = newRole, !.creates = role = NoRole]]
        /\ UNCHANGED <<feed, edits, faults>>

\* Mutant: the error of the write is not returned.
GoesOn(p) ==
    /\ pre[p].at = "role"
    /\ \E end \in Ends :
         /\ Fault(~Fine(end))
         /\ IF end.effect /\ (pre[p].creates => Current("role") = NoRole)
            THEN Set("role", pre[p].rules) ELSE UNCHANGED feed
    /\ GoTo(p, "binding")
    /\ UNCHANGED edits

\* Create fails when there is a role by now; a patch sets all the rules of the role.
WriteRole(p) ==
    LET accepted == pre[p].creates => Current("role") = NoRole
    IN  /\ pre[p].at = "role"
        /\ \E end \in Ends :
             /\ Fault(~Fine(end))
             /\ IF end.effect /\ accepted THEN Set("role", pre[p].rules) ELSE UNCHANGED feed
             /\ IF Fine(end) /\ accepted THEN GoTo(p, "binding") ELSE Return(p)
        /\ UNCHANGED edits

GetRoleBinding(p) ==
    /\ pre[p].at = "binding"
    /\ GoTo(p, IF Cached("binding") THEN "pods" ELSE "bind")
    /\ UNCHANGED <<feed, edits, faults>>

createRoleBinding(p) ==
    LET accepted == ~Current("binding")
    IN  /\ pre[p].at = "bind"
        /\ \E end \in Ends :
             /\ Fault(~Fine(end))
             /\ IF end.effect THEN Set("binding", TRUE) ELSE UNCHANGED feed
             /\ IF Fine(end) /\ accepted THEN GoTo(p, "pods") ELSE Return(p)
        /\ UNCHANGED edits

\* A pod or job to create, or the one in hand once more to be evaluated.
Hook(p) ==
    LET archives == Cached("archives")
        found == {name \in ArchiveNames : archives[name] # NoArchive}
    IN  /\ pre[p].at = "pods"
        /\ \E pod \in IF pre[p].pod = NoPod THEN Pods ELSE {pre[p].pod} :
             LET answer == LifecycleHook(pre[p].cluster, pod,
                                         [name \in found |-> archives[name].env])
             IN  IF answer.outcome = "error" THEN Return(p)
                 ELSE pre' = [pre EXCEPT ![p].pod = answer.pod]
        /\ UNCHANGED <<feed, edits, faults>>

Post(p) ==
    /\ pre[p].at = "pods"
    /\ Return(p)
    /\ UNCHANGED <<feed, edits, faults>>

\* Post is the end of a reconciliation, with a pod to create or without.
Step(p) ==
    \/ Pre(p) \/ GetArchive(p)
    \/ GetRole(p) \/ WriteRole(p)
    \/ GetRoleBinding(p) \/ createRoleBinding(p)
    \/ Post(p)

-----------------------------------------------------------------------------
(* The API server, its watches, and the people who edit.                   *)

Deliver(kind) ==
    /\ Len(feed[kind]) > 1
    /\ feed' = [feed EXCEPT ![kind] = Tail(@)]
    /\ UNCHANGED <<pre, edits, faults>>

Edit(kind, value) ==
    /\ edits < MaxEdits /\ value # Current(kind)
    /\ Set(kind, value)
    /\ edits' = edits + 1
    /\ UNCHANGED <<pre, faults>>

EditCluster == \E cluster \in Clusters : Edit("cluster", cluster)

EditArchive ==
    \E name \in ArchiveNames, definition \in Definitions \cup {NoArchive} :
        Edit("archives", [Current("archives") EXCEPT ![name] = definition])

\* The plugin starts again: no call goes on, and its caches list everything anew.
Restart ==
    /\ Fault(TRUE)
    /\ pre' = [p \in Calls |-> Idle]
    /\ feed' = [kind \in Kinds |-> IF kind \in Owned THEN <<Current(kind)>> ELSE feed[kind]]
    /\ UNCHANGED edits

Next ==
    \/ \E p \in Calls : Step(p) \/ Hook(p)
    \/ \E kind \in Kinds : Deliver(kind)
    \/ EditCluster \/ EditArchive \/ Restart

Spec == Init /\ [][Next]_vars

\* CloudNativePG reconciles every cluster again and again, if only at its resync; a watch
\* delivers what happened.
FairSpec ==
    /\ Spec
    /\ \A p \in Calls : WF_vars(Step(p))
    /\ \A kind \in Kinds : WF_vars(Deliver(kind))

-----------------------------------------------------------------------------
(* Properties.                                                             *)

\* The types of the variables; a cache always has a version to show.
TypeOK ==
    /\ \A kind \in Kinds : Len(feed[kind]) \in 1 .. MaxLag + 1
    /\ Range(feed.cluster) \subseteq Clusters
    /\ Range(feed.archives) \subseteq [ArchiveNames -> Definitions \cup {NoArchive}]
    /\ Range(feed.role) \subseteq Roles(ArchiveNames) \cup {NoRole}
    /\ Range(feed.binding) \subseteq BOOLEAN
    /\ \A p \in Calls :
         /\ pre[p].at \in Points
         /\ pre[p].cluster \in IF pre[p].at = "idle" THEN {NoCluster} ELSE Clusters
         /\ pre[p].left \subseteq ArchiveNames
         /\ {object.name : object \in pre[p].objects} \subseteq ArchiveNames
         /\ pre[p].rules \in Roles(ArchiveNames) \cup {NoRole}
         /\ pre[p].creates \in BOOLEAN
         /\ pre[p].pod = NoPod \/ pre[p].pod \in PodSpecs(Texts, Environments)
    /\ edits \in 0 .. MaxEdits /\ faults \in 0 .. MaxFaults

\* CloudNativePG gets to create pods only when the role and its binding are both there,
\* whatever failed and whoever else wrote meanwhile.
ContinueHasAccess ==
    \A p \in Calls : pre[p].at = "pods" => Current("role") # NoRole /\ Current("binding")

\* If all the Archives the Cluster names exist, the sidecars may read these and every secret
\* a command needs, and the role lists no name that is no longer referred to.  (That is not
\* to say that it grants no other: with no secret to list it grants them all.)
AccessSettled ==
    LET archives == Current("archives")
        names == Referred(Current("cluster"))
        objects == {Object(name, archives[name]) : name \in names}
    IN  (\A name \in names : archives[name] # NoArchive) =>
          /\ Current("binding") /\ Current("role") = BuildRole(objects)
          /\ \A object \in objects : Allows(Current("role"), object)

\* Once the edits stop, the access of the sidecars is settled for good: no call that went on
\* with old Archives, no cache that ran behind has the last word.
AccessConverges == <>[]AccessSettled

HookedPods == {pre[p].pod : p \in {q \in Calls : pre[q].pod # NoPod /\ HasSidecar(pre[q].pod)}}

SidecarOf(pod) == LET i == CHOOSE i \in DOMAIN pod.sidecars : pod.sidecars[i].name = Sidecar
                  IN  pod.sidecars[i]

\* However often the hook sees a pod and whatever another plugin has put there before, there
\* is one sidecar and one plugin volume, and the sidecar mounts all that PostgreSQL mounts,
\* the volume with the socket of the plugins included.
OneSidecar ==
    \A pod \in HookedPods :
        /\ Cardinality({i \in DOMAIN pod.sidecars : pod.sidecars[i].name = Sidecar}) = 1
        /\ Count(pod.volumes, pluginVolumeName) = 1
        /\ Count(pod.mounts, pluginVolumeName) = 1
        /\ SidecarOf(pod).mounts = pod.mounts

\* No name is set twice in the sidecar, and an Archive cannot move its spool directory or
\* give it another cluster: that is left to the variables of the main container.
OwnVariables ==
    \A pod \in HookedPods :
        LET env == SidecarOf(pod).env
            Names(s) == {s[i].name : i \in DOMAIN s}
        IN  /\ Cardinality(Names(env)) = Len(env)
            /\ \A cluster \in Clusters : \A i \in DOMAIN Defaults(cluster) :
                 LET default == Defaults(cluster)[i]
                 IN  \/ default.name \in Names(pod.env) \/ Contains(env, default)
=============================================================================
