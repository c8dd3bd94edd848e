--------------------------- MODULE OperatorProofs ---------------------------
(***************************************************************************)
(* Proofs about Operator, for any Archives, Clusters, pods and number of   *)
(* reconciliations: what the operator writes in the role is enough for     *)
(* what the sidecars read, no pod is created before the role and its       *)
(* binding, and the hook adds one sidecar with its own variables, however  *)
(* often it is shown a pod, and leaves alone what it has changed before.   *)
(***************************************************************************)
EXTENDS Operator, NumberFacts

USE OperatorAssumption, NoSecretAssumption

\* The role made for some Archives lets the sidecar read each of them and all the secrets
\* its commands need: role.go and secrets.go collect what credentials.go reads.
THEOREM RoleCoversReads ==
    ASSUME NEW objects, NEW object \in objects
    PROVE  Allows(BuildRole(objects), object)
<1> DEFINE role == BuildRole(objects)
<1>1. object.name \in role.archives BY DEF BuildRole
<1>2. ASSUME NEW secret \in CredentialReads(object) PROVE secret \in role.secrets
  <2>1. PICK repo \in object.repositories :
          secret \in ({repo.endpointCA} \cup AWSReads(repo) \cup EncryptionReads(repo)) \ {NoSecret}
    BY <1>2 DEF CredentialReads
  <2>2. secret \in CollectSecretNamesFromCredentials(repo)
                     \cup CollectSecretNamesFromRepository(repo)
    BY <2>1 DEF AWSReads, EncryptionReads, CollectSecretNamesFromCredentials,
                CollectSecretNamesFromRepository
  <2> QED BY <2>2 DEF BuildRole
<1> QED BY <1>1, <1>2 DEF Allows, Grants

-----------------------------------------------------------------------------
(* Role and binding before the pods.                                       *)

Objects == [name : ArchiveNames, repositories : SUBSET Repositories]

Versions(kind) ==
    CASE kind = "cluster"  -> Clusters
      [] kind = "archives" -> [ArchiveNames -> Definitions \cup {NoArchive}]
      [] kind = "role"     -> Roles(ArchiveNames) \cup {NoRole}
      [] kind = "binding"  -> BOOLEAN

Reconciliation(r) ==
    r \in [at : Points, cluster : {r.cluster}, left : SUBSET ArchiveNames,
           objects : SUBSET Objects, rules : Roles(ArchiveNames) \cup {NoRole},
           creates : BOOLEAN, pod : {r.pod}]

FeedInv ==
    /\ feed = [kind \in Kinds |-> feed[kind]]
    /\ \A kind \in Kinds : feed[kind] \in Seq(Versions(kind)) /\ feed[kind] # <<>>

PreInv ==
    /\ pre = [p \in Calls |-> pre[p]]
    /\ \A p \in Calls : Reconciliation(pre[p])

\* A cache that shows a role, or a binding, is not ahead of the server: neither is deleted.
NotAhead ==
    /\ \A i \in DOMAIN feed["role"] : feed["role"][i] # NoRole => Current("role") # NoRole
    /\ \A i \in DOMAIN feed["binding"] : feed["binding"][i] => Current("binding")

\* What a reconciliation has seen to at each of its steps.
SeenTo(r) ==
    /\ r.at = "archives" => r.cluster \in Clusters
    /\ r.at = "role" => r.rules # NoRole
    /\ r.at \in {"binding", "bind", "pods"} => Current("role") # NoRole
    /\ r.at = "pods" => Current("binding")

Inv == FeedInv /\ PreInv /\ NotAhead /\ \A p \in Calls : SeenTo(pre[p])

\* A step of the feeds that takes no role and no binding away.
Grows ==
    /\ FeedInv' /\ NotAhead'
    /\ Current("role") # NoRole => Current("role")' # NoRole
    /\ Current("binding") => Current("binding")'

LEMMA RoleIsARole ==
    ASSUME NEW objects \in SUBSET Objects
    PROVE  BuildRole(objects) \in Roles(ArchiveNames) /\ BuildRole(objects) # NoRole
<1>1. ASSUME NEW object \in objects, NEW repo \in object.repositories
      PROVE  CollectSecretNamesFromCredentials(repo)
               \cup CollectSecretNamesFromRepository(repo) \subseteq Secrets
  <2>1. repo \in Repositories BY DEF Objects
  <2> QED BY <2>1 DEF Repositories, References, CollectSecretNamesFromCredentials,
                     CollectSecretNamesFromRepository
<1>2. \A object \in objects : object.name \in ArchiveNames BY DEF Objects
<1> QED BY <1>1, <1>2 DEF BuildRole, Roles

\* What the next lemmas need of sequences.
LEMMA AppendKeeps ==
    ASSUME NEW S, NEW s \in Seq(S), NEW v \in S
    PROVE  /\ Append(s, v) \in Seq(S) /\ Append(s, v) # <<>>
           /\ Last(Append(s, v)) = v
BY DEF Last

LEMMA TailKeeps ==
    ASSUME NEW S, NEW s \in Seq(S), Len(s) > 1
    PROVE  /\ Tail(s) \in Seq(S) /\ Tail(s) # <<>>
           /\ Last(Tail(s)) = Last(s)
           /\ \A i \in DOMAIN Tail(s) : i + 1 \in DOMAIN s /\ Tail(s)[i] = s[i + 1]
BY DEF Last

\* A write adds a version, and never the absence of a role or of a binding.
LEMMA SetGrows ==
    ASSUME FeedInv, NotAhead, NEW kind \in Kinds, NEW value \in Versions(kind),
           Set(kind, value),
           kind = "role" => value # NoRole, kind = "binding" => value = TRUE
    PROVE  Grows /\ Current(kind)' = value
<1>1. CASE value = Current(kind)
  <2>1. feed' = feed BY <1>1 DEF Set
  <2> QED BY <1>1, <2>1 DEF Grows, FeedInv, NotAhead, Current
<1>2. CASE value # Current(kind)
  <2>1. feed' = [feed EXCEPT ![kind] = Append(@, value)] BY <1>2 DEF Set
  <2>2. feed'[kind] = Append(feed[kind], value) /\ \A k \in Kinds \ {kind} : feed'[k] = feed[k]
    BY <2>1 DEF FeedInv
  <2>3. /\ feed'[kind] \in Seq(Versions(kind)) /\ feed'[kind] # <<>>
        /\ Last(feed'[kind]) = value
    BY <2>2, AppendKeeps DEF FeedInv
  <2>4. FeedInv'
    <3>1. feed' = [k \in Kinds |-> feed'[k]] BY <2>1 DEF FeedInv
    <3>2. \A k \in Kinds : feed'[k] \in Seq(Versions(k)) /\ feed'[k] # <<>>
      BY <2>2, <2>3 DEF FeedInv
    <3> QED BY <3>1, <3>2 DEF FeedInv, Versions
  <2>5. NotAhead'
    <3>1. CASE kind = "role"
      BY <2>2, <2>3, <3>1 DEF NotAhead, Current, Kinds
    <3>2. CASE kind = "binding"
      BY <2>2, <2>3, <3>2 DEF NotAhead, Current, Kinds
    <3>3. CASE kind \notin {"role", "binding"}
      BY <2>2, <3>3 DEF NotAhead, Current, Kinds
    <3> QED BY <3>1, <3>2, <3>3
  <2>6. /\ Current("role") # NoRole => Current("role")' # NoRole
        /\ Current("binding") => Current("binding")'
        /\ Current(kind)' = value
    BY <2>2, <2>3 DEF Current, Kinds
  <2> QED BY <2>4, <2>5, <2>6 DEF Grows
<1> QED BY <1>1, <1>2

\* A delivery forgets the oldest version.
LEMMA DeliverGrows ==
    ASSUME FeedInv, NotAhead, NEW kind \in Kinds, Deliver(kind)
    PROVE  Grows
<1>1. feed' = [feed EXCEPT ![kind] = Tail(@)] BY DEF Deliver
<1>2. feed'[kind] = Tail(feed[kind]) /\ \A k \in Kinds \ {kind} : feed'[k] = feed[k]
  BY <1>1 DEF FeedInv
<1>3. /\ feed'[kind] \in Seq(Versions(kind)) /\ feed'[kind] # <<>>
      /\ Last(feed'[kind]) = Last(feed[kind])
      /\ \A i \in DOMAIN feed'[kind] : i + 1 \in DOMAIN feed[kind]
                                       /\ feed'[kind][i] = feed[kind][i + 1]
  BY <1>2, TailKeeps DEF FeedInv, Deliver
<1>4. FeedInv'
  <2>1. feed' = [k \in Kinds |-> feed'[k]] BY <1>1 DEF FeedInv
  <2>2. \A k \in Kinds : feed'[k] \in Seq(Versions(k)) /\ feed'[k] # <<>>
    BY <1>2, <1>3 DEF FeedInv
  <2> QED BY <2>1, <2>2 DEF FeedInv, Versions
<1>5. \A k \in Kinds : Current(k)' = Current(k) BY <1>2, <1>3 DEF Current
<1>6. NotAhead'
  <2>1. CASE kind = "role" BY <1>2, <1>3, <1>5, <2>1 DEF NotAhead, Kinds
  <2>2. CASE kind = "binding" BY <1>2, <1>3, <1>5, <2>2 DEF NotAhead, Kinds
  <2>3. CASE kind \notin {"role", "binding"} BY <1>2, <1>5, <2>3 DEF NotAhead, Kinds
  <2> QED BY <2>1, <2>2, <2>3
<1> QED BY <1>4, <1>5, <1>6 DEF Grows, Kinds

\* A cache shows a version the server has had, and no role or binding it has not.
LEMMA CacheShowsVersions ==
    ASSUME FeedInv, NotAhead
    PROVE  /\ \A kind \in Kinds : Cached(kind) \in Versions(kind) /\ Current(kind) \in Versions(kind)
           /\ Cached("role") # NoRole => Current("role") # NoRole
           /\ Cached("binding") => Current("binding")
<1>1. ASSUME NEW kind \in Kinds
      PROVE  /\ Cached(kind) = feed[kind][1] /\ 1 \in DOMAIN feed[kind]
             /\ Cached(kind) \in Versions(kind) /\ Current(kind) \in Versions(kind)
  <2>1. feed[kind] \in Seq(Versions(kind)) /\ feed[kind] # <<>> BY DEF FeedInv
  <2> QED BY <2>1 DEF Cached, Current, Last
<1> QED BY <1>1 DEF NotAhead, Kinds

LEMMA UnchangedGrows == ASSUME Inv, UNCHANGED feed PROVE Grows
BY DEF Inv, Grows, FeedInv, NotAhead, Current

\* The caches of a plugin that starts again are up to date.
LEMMA RestartGrows == ASSUME FeedInv, NotAhead, Restart PROVE Grows
<1>1. feed' = [kind \in Kinds |-> IF kind \in Owned THEN <<Current(kind)>> ELSE feed[kind]]
  BY DEF Restart
<1>2. \A kind \in Kinds : Current(kind) \in Versions(kind) BY CacheShowsVersions
<1>3. ASSUME NEW kind \in Kinds
      PROVE  /\ feed'[kind] \in Seq(Versions(kind)) /\ feed'[kind] # <<>>
             /\ Current(kind)' = Current(kind)
  <2>1. CASE kind \in Owned
    <3>1. feed'[kind] = <<Current(kind)>> BY <1>1, <2>1
    <3> QED BY <1>2, <3>1 DEF Current, Last
  <2>2. CASE kind \notin Owned BY <1>1, <2>2 DEF FeedInv, Current
  <2> QED BY <2>1, <2>2
<1>4. FeedInv'
  <2>1. feed' = [kind \in Kinds |-> feed'[kind]] BY <1>1
  <2> QED BY <1>3, <2>1 DEF FeedInv, Versions
<1>5. NotAhead'
  <2>1. feed'["role"] = <<Current("role")>> /\ feed'["binding"] = <<Current("binding")>>
    BY <1>1 DEF Kinds, Owned
  <2>2. Current("role")' = Current("role") /\ Current("binding")' = Current("binding")
    BY <1>3 DEF Kinds
  <2> QED BY <2>1, <2>2 DEF NotAhead
<1> QED BY <1>3, <1>4, <1>5 DEF Grows, Kinds

\* A step of one reconciliation leaves the others what they have seen to.
LEMMA OneCall ==
    ASSUME Inv, Grows, NEW p \in Calls,
           pre' = [q \in Calls |-> pre'[q]], \A q \in Calls \ {p} : pre'[q] = pre[q],
           Reconciliation(pre[p])', SeenTo(pre[p])'
    PROVE  Inv'
<1>1. PreInv' BY DEF Inv, PreInv, Reconciliation
<1>2. ASSUME NEW q \in Calls \ {p} PROVE SeenTo(pre[q])'
  <2>1. SeenTo(pre[q]) /\ pre'[q] = pre[q] BY DEF Inv
  <2> QED BY <2>1 DEF SeenTo, Grows
<1> QED BY <1>1, <1>2 DEF Inv, Grows

LEMMA IdleIsFine == Reconciliation(Idle)
BY DEF Reconciliation, Idle, Points

LEMMA Returned ==
    ASSUME Inv, Grows, NEW p \in Calls, Return(p)
    PROVE  Inv'
<1>1. pre' = [pre EXCEPT ![p] = Idle] BY DEF Return
<1>2. pre'[p] = Idle /\ pre' = [q \in Calls |-> pre'[q]] /\ \A q \in Calls \ {p} : pre'[q] = pre[q]
  BY <1>1 DEF Inv, PreInv
<1>3. Reconciliation(pre[p])' BY <1>2, IdleIsFine DEF Reconciliation
<1>4. SeenTo(pre[p])' BY <1>2 DEF SeenTo, Idle
<1> QED BY <1>2, <1>3, <1>4, OneCall

LEMMA WentTo ==
    ASSUME Inv, Grows, NEW p \in Calls, NEW point \in {"binding", "bind", "pods"}, GoTo(p, point),
           Current("role")' # NoRole, point = "pods" => Current("binding")'
    PROVE  Inv'
<1>1. pre' = [pre EXCEPT ![p] = [Idle EXCEPT !.at = point, !.cluster = pre[p].cluster]]
  BY DEF GoTo
<1>2. /\ pre'[p] = [Idle EXCEPT !.at = point, !.cluster = pre[p].cluster]
      /\ pre' = [q \in Calls |-> pre'[q]] /\ \A q \in Calls \ {p} : pre'[q] = pre[q]
  BY <1>1 DEF Inv, PreInv
<1>3. Reconciliation(pre[p])' BY <1>2 DEF Reconciliation, Idle, Points
<1>4. SeenTo(pre[p])' BY <1>2 DEF SeenTo, Idle
<1> QED BY <1>2, <1>3, <1>4, OneCall

-----------------------------------------------------------------------------
(* The steps of a reconciliation.                                          *)

LEMMA PreStep == ASSUME Inv, NEW p \in Calls, Pre(p) PROVE Inv'
<1>1. Grows BY UnchangedGrows DEF Pre
<1>2. Cached("cluster") \in Clusters BY CacheShowsVersions DEF Inv, Kinds, Versions
<1>3. /\ pre'[p] = [Idle EXCEPT !.at = "archives", !.cluster = Cached("cluster"),
                                !.left = Referred(Cached("cluster"))]
      /\ pre' = [q \in Calls |-> pre'[q]] /\ \A q \in Calls \ {p} : pre'[q] = pre[q]
  BY DEF Pre, Inv, PreInv
<1>4. Referred(Cached("cluster")) \subseteq ArchiveNames BY <1>2 DEF Referred
<1>5. Reconciliation(pre[p])' BY <1>3, <1>4 DEF Reconciliation, Idle, Points
<1>6. SeenTo(pre[p])' BY <1>2, <1>3 DEF SeenTo, Idle
<1> QED BY <1>1, <1>3, <1>5, <1>6, OneCall

LEMMA GetArchiveStep == ASSUME Inv, NEW p \in Calls, GetArchive(p) PROVE Inv'
<1>1. Grows BY UnchangedGrows DEF GetArchive
<1>2. PICK name \in pre[p].left :
        LET definition == Cached("archives")[name]
        IN  IF definition = NoArchive THEN Return(p)
            ELSE pre' = [pre EXCEPT ![p].left = @ \ {name},
                                    ![p].objects = @ \cup {Object(name, definition)}]
  BY DEF GetArchive
<1>3. Reconciliation(pre[p]) /\ SeenTo(pre[p]) /\ pre[p].at = "archives"
  BY DEF Inv, PreInv, GetArchive
<1>4. CASE Cached("archives")[name] = NoArchive BY <1>1, <1>2, <1>4, Returned
<1>5. CASE Cached("archives")[name] # NoArchive
  <2> DEFINE object == Object(name, Cached("archives")[name])
  <2>1. name \in ArchiveNames BY <1>3 DEF Reconciliation
  <2>2. Cached("archives") \in [ArchiveNames -> Definitions \cup {NoArchive}]
    BY CacheShowsVersions DEF Inv, Kinds, Versions
  <2>3. object \in Objects BY <1>5, <2>1, <2>2 DEF Object, Objects
  <2>4. /\ pre'[p] = [pre[p] EXCEPT !.left = @ \ {name}, !.objects = @ \cup {object}]
        /\ pre' = [q \in Calls |-> pre'[q]] /\ \A q \in Calls \ {p} : pre'[q] = pre[q]
    BY <1>2, <1>5 DEF Inv, PreInv
  <2>5. /\ pre'[p].at = "archives" /\ pre'[p].cluster = pre[p].cluster
        /\ Reconciliation(pre'[p])
    <3>1. object \in Objects BY <2>3
    <3> HIDE DEF object
    <3>2. /\ pre[p].left \ {name} \in SUBSET ArchiveNames
          /\ pre[p].objects \cup {object} \in SUBSET Objects
      BY <1>3, <3>1 DEF Reconciliation
    <3> HIDE DEF Objects
    <3>3. Reconciliation(pre'[p]) BY <1>3, <2>4, <3>2 DEF Reconciliation
    <3> QED BY <1>3, <2>4, <3>3 DEF Reconciliation
  <2>6. Reconciliation(pre[p])' BY <2>5 DEF Reconciliation
  <2>7. SeenTo(pre[p])' BY <1>3, <2>5 DEF SeenTo
  <2> QED BY <1>1, <2>4, <2>6, <2>7, OneCall
<1> QED BY <1>4, <1>5

LEMMA GetRoleStep == ASSUME Inv, NEW p \in Calls, GetRole(p) PROVE Inv'
<1> DEFINE newRole == BuildRole(pre[p].objects)
<1>1. Grows BY UnchangedGrows DEF GetRole
<1>2. newRole \in Roles(ArchiveNames) /\ newRole # NoRole
  BY RoleIsARole DEF Inv, PreInv, Reconciliation
<1>3. CASE newRole = Cached("role")
  <2>1. GoTo(p, "binding") BY <1>3 DEF GetRole
  <2>2. Current("role")' # NoRole
    BY <1>1, <1>2, <1>3, CacheShowsVersions DEF Inv, Grows
  <2> QED BY <1>1, <2>1, <2>2, WentTo
<1>4. CASE newRole # Cached("role")
  <2>1. /\ pre'[p] = [Idle EXCEPT !.at = "role", !.cluster = pre[p].cluster,
                                  !.rules = newRole, !.creates = Cached("role") = NoRole]
        /\ pre' = [q \in Calls |-> pre'[q]] /\ \A q \in Calls \ {p} : pre'[q] = pre[q]
    BY <1>4 DEF GetRole, Inv, PreInv
  <2>2. Reconciliation(pre'[p]) /\ pre'[p].at = "role" /\ pre'[p].rules # NoRole
    <3> HIDE DEF newRole
    <3> QED BY <1>2, <2>1 DEF Reconciliation, Idle, Points
  <2>3. Reconciliation(pre[p])' BY <2>2 DEF Reconciliation
  <2>4. SeenTo(pre[p])' BY <2>2 DEF SeenTo
  <2> QED BY <1>1, <2>1, <2>3, <2>4, OneCall
<1> QED BY <1>3, <1>4

LEMMA WriteRoleStep == ASSUME Inv, NEW p \in Calls, WriteRole(p) PROVE Inv'
<1> DEFINE accepted == pre[p].creates => Current("role") = NoRole
<1>1. PICK end \in Ends :
        /\ IF end.effect /\ accepted THEN Set("role", pre[p].rules) ELSE UNCHANGED feed
        /\ IF Fine(end) /\ accepted THEN GoTo(p, "binding") ELSE Return(p)
  BY DEF WriteRole
<1>2. pre[p].rules \in Versions("role") /\ pre[p].rules # NoRole
  BY DEF Inv, PreInv, Reconciliation, SeenTo, WriteRole, Versions
<1>3. Grows /\ (end.effect /\ accepted => Current("role")' # NoRole)
  <2>1. CASE end.effect /\ accepted
    <3>1. Set("role", pre[p].rules) BY <1>1, <2>1
    <3> QED BY <1>2, <3>1, SetGrows DEF Inv, Kinds
  <2>2. CASE ~(end.effect /\ accepted) BY <1>1, <2>2, UnchangedGrows
  <2> QED BY <2>1, <2>2
<1>4. CASE Fine(end) /\ accepted
  <2>1. GoTo(p, "binding") BY <1>1, <1>4
  <2>2. Current("role")' # NoRole BY <1>3, <1>4 DEF Fine
  <2> QED BY <1>3, <2>1, <2>2, WentTo
<1>5. CASE ~(Fine(end) /\ accepted) BY <1>1, <1>3, <1>5, Returned
<1> QED BY <1>4, <1>5

LEMMA GetRoleBindingStep == ASSUME Inv, NEW p \in Calls, GetRoleBinding(p) PROVE Inv'
<1>1. Grows BY UnchangedGrows DEF GetRoleBinding
<1>2. Current("role")' # NoRole BY <1>1 DEF Inv, SeenTo, GetRoleBinding, Grows
<1>3. CASE Cached("binding")
  <2>1. GoTo(p, "pods") BY <1>3 DEF GetRoleBinding
  <2>2. Current("binding")' BY <1>1, <1>3, CacheShowsVersions DEF Inv, Grows
  <2> QED BY <1>1, <1>2, <2>1, <2>2, WentTo
<1>4. CASE ~Cached("binding")
  <2>1. GoTo(p, "bind") BY <1>4 DEF GetRoleBinding
  <2> QED BY <1>1, <1>2, <2>1, WentTo
<1> QED BY <1>3, <1>4

LEMMA createRoleBindingStep == ASSUME Inv, NEW p \in Calls, createRoleBinding(p) PROVE Inv'
<1> DEFINE accepted == ~Current("binding")
<1>1. PICK end \in Ends :
        /\ IF end.effect THEN Set("binding", TRUE) ELSE UNCHANGED feed
        /\ IF Fine(end) /\ accepted THEN GoTo(p, "pods") ELSE Return(p)
  BY DEF createRoleBinding
<1>2. Grows /\ (end.effect => Current("binding")')
  <2>1. CASE end.effect
    <3>1. Set("binding", TRUE) BY <1>1, <2>1
    <3>2. TRUE \in Versions("binding") BY DEF Versions
    <3> QED BY <3>1, <3>2, SetGrows DEF Inv, Kinds
  <2>2. CASE ~end.effect BY <1>1, <2>2, UnchangedGrows
  <2> QED BY <2>1, <2>2
<1>3. CASE Fine(end) /\ accepted
  <2>1. GoTo(p, "pods") BY <1>1, <1>3
  <2>2. Current("role")' # NoRole BY <1>2 DEF Inv, SeenTo, createRoleBinding, Grows
  <2>3. Current("binding")' BY <1>2, <1>3 DEF Fine
  <2> QED BY <1>2, <2>1, <2>2, <2>3, WentTo
<1>4. CASE ~(Fine(end) /\ accepted) BY <1>1, <1>2, <1>4, Returned
<1> QED BY <1>3, <1>4

LEMMA HookStep == ASSUME Inv, NEW p \in Calls, Hook(p) PROVE Inv'
<1>1. Grows BY UnchangedGrows DEF Hook
<1>2. CASE Return(p) BY <1>1, <1>2, Returned
<1>3. CASE ~Return(p)
  <2>1. PICK pod : pre' = [pre EXCEPT ![p].pod = pod] BY <1>3 DEF Hook
  <2>2. /\ pre'[p] = [pre[p] EXCEPT !.pod = pod]
        /\ pre' = [q \in Calls |-> pre'[q]] /\ \A q \in Calls \ {p} : pre'[q] = pre[q]
    BY <2>1 DEF Inv, PreInv
  <2>3. Reconciliation(pre[p]) /\ SeenTo(pre[p]) BY DEF Inv, PreInv
  <2>4. Reconciliation(pre'[p]) /\ pre'[p].at = pre[p].at /\ pre'[p].cluster = pre[p].cluster
        /\ pre'[p].rules = pre[p].rules
    BY <2>2, <2>3 DEF Reconciliation
  <2>5. Reconciliation(pre[p])' BY <2>4 DEF Reconciliation
  <2>6. SeenTo(pre[p])' BY <1>1, <2>3, <2>4 DEF SeenTo, Grows
  <2> QED BY <1>1, <2>2, <2>5, <2>6, OneCall
<1> QED BY <1>2, <1>3

-----------------------------------------------------------------------------
\* A feed of one version.
LEMMA OneVersion == ASSUME NEW S, NEW v \in S PROVE <<v>> \in Seq(S) /\ <<v>> # <<>> /\ <<v>>[1] = v
OBVIOUS

LEMMA InitInv == ASSUME Init PROVE Inv
<1>1. PICK cluster \in Clusters, archives \in [ArchiveNames -> Definitions \cup {NoArchive}] :
        feed = [kind \in Kinds |-> << CASE kind = "cluster"  -> cluster
                                        [] kind = "archives" -> archives
                                        [] kind = "role"     -> NoRole
                                        [] kind = "binding"  -> FALSE >>]
  BY DEF Init
<1>2. /\ feed["cluster"] = <<cluster>> /\ feed["archives"] = <<archives>>
      /\ feed["role"] = <<NoRole>> /\ feed["binding"] = <<FALSE>>
  BY <1>1 DEF Kinds
<1>3. FeedInv
  <2>1. feed = [kind \in Kinds |-> feed[kind]]
    <3> DEFINE first(kind) == << CASE kind = "cluster"  -> cluster
                                   [] kind = "archives" -> archives
                                   [] kind = "role"     -> NoRole
                                   [] kind = "binding"  -> FALSE >>
    <3>1. feed = [kind \in Kinds |-> first(kind)] BY <1>1
    <3> HIDE DEF first
    <3> QED BY <3>1
  <2>2. feed["cluster"] \in Seq(Versions("cluster")) /\ feed["cluster"] # <<>>
    <3>1. cluster \in Versions("cluster") BY DEF Versions
    <3> QED BY <1>2, <3>1
  <2>3. feed["archives"] \in Seq(Versions("archives")) /\ feed["archives"] # <<>>
    <3>1. archives \in Versions("archives") BY DEF Versions
    <3> QED BY <1>2, <3>1
  <2>4. feed["role"] \in Seq(Versions("role")) /\ feed["role"] # <<>>
    <3>1. NoRole \in Versions("role") BY DEF Versions
    <3> QED BY <1>2, <3>1
  <2>5. feed["binding"] \in Seq(Versions("binding")) /\ feed["binding"] # <<>>
    <3>1. FALSE \in Versions("binding") BY DEF Versions
    <3> QED BY <1>2, <3>1, OneVersion
  <2> QED BY <2>1, <2>2, <2>3, <2>4, <2>5 DEF FeedInv, Kinds
<1>4. PreInv /\ \A p \in Calls : SeenTo(pre[p])
  <2>1. pre = [p \in Calls |-> Idle] BY DEF Init
  <2>2. \A p \in Calls : pre[p] = Idle BY <2>1
  <2>3. pre = [p \in Calls |-> pre[p]]
    <3> HIDE DEF Idle
    <3> QED BY <2>1
  <2>4. \A p \in Calls : Reconciliation(pre[p]) BY <2>2, IdleIsFine
  <2>5. \A p \in Calls : SeenTo(pre[p]) BY <2>2 DEF SeenTo, Idle
  <2> QED BY <2>3, <2>4, <2>5 DEF PreInv
<1>5. NotAhead
  <2>1. DOMAIN feed["role"] = {1} /\ DOMAIN feed["binding"] = {1} BY <1>2
  <2>2. feed["role"][1] = NoRole BY <1>2
  <2>3. feed["binding"][1] = FALSE
    <3>1. <<FALSE>>[1] = FALSE BY OneVersion, FALSE \in BOOLEAN, Zenon
    <3> QED BY <1>2, <3>1, Zenon
  <2> QED BY <2>1, <2>2, <2>3 DEF NotAhead
<1> QED BY <1>3, <1>4, <1>5 DEF Inv

LEMMA NextInv == ASSUME Inv, [Next]_vars PROVE Inv'
<1>1. ASSUME NEW p \in Calls, Step(p) PROVE Inv'
  <2>1. CASE Pre(p) BY <2>1, PreStep
  <2>2. CASE GetArchive(p) BY <2>2, GetArchiveStep
  <2>3. CASE GetRole(p) BY <2>3, GetRoleStep
  <2>4. CASE WriteRole(p) BY <2>4, WriteRoleStep
  <2>5. CASE GetRoleBinding(p) BY <2>5, GetRoleBindingStep
  <2>6. CASE createRoleBinding(p) BY <2>6, createRoleBindingStep
  <2>7. CASE Post(p) BY <2>7, UnchangedGrows, Returned DEF Post
  <2> QED BY <1>1, <2>1, <2>2, <2>3, <2>4, <2>5, <2>6, <2>7 DEF Step
<1>2. ASSUME Grows, UNCHANGED pre PROVE Inv'
  <2>1. PreInv' BY <1>2 DEF Inv, PreInv, Reconciliation
  <2>2. \A p \in Calls : SeenTo(pre[p])' BY <1>2 DEF Inv, SeenTo, Grows
  <2> QED BY <1>2, <2>1, <2>2 DEF Inv, Grows
<1>3. ASSUME NEW kind \in Kinds, Deliver(kind) PROVE Inv'
  <2>1. UNCHANGED pre BY <1>3 DEF Deliver
  <2> QED BY <1>2, <1>3, <2>1, DeliverGrows DEF Inv
<1>4. CASE EditCluster
  <2>1. PICK cluster \in Clusters : Edit("cluster", cluster) BY <1>4 DEF EditCluster
  <2>2. Set("cluster", cluster) /\ UNCHANGED pre BY <2>1 DEF Edit
  <2>3. cluster \in Versions("cluster") BY DEF Versions
  <2> QED BY <1>2, <2>2, <2>3, SetGrows DEF Inv, Kinds
<1>5. CASE EditArchive
  <2>1. PICK name \in ArchiveNames, definition \in Definitions \cup {NoArchive} :
          Edit("archives", [Current("archives") EXCEPT ![name] = definition])
    BY <1>5 DEF EditArchive
  <2>2. Set("archives", [Current("archives") EXCEPT ![name] = definition]) /\ UNCHANGED pre
    BY <2>1 DEF Edit
  <2>3. Current("archives") \in [ArchiveNames -> Definitions \cup {NoArchive}]
    BY CacheShowsVersions DEF Inv, Kinds, Versions
  <2>4. [Current("archives") EXCEPT ![name] = definition] \in Versions("archives")
    BY <2>3 DEF Versions
  <2> QED BY <1>2, <2>2, <2>4, SetGrows DEF Inv, Kinds
<1>6. CASE Restart
  <2>1. Grows BY <1>6, RestartGrows DEF Inv
  <2>2. pre' = [p \in Calls |-> Idle] BY <1>6 DEF Restart
  <2>3. PreInv' BY <2>2, IdleIsFine DEF PreInv, Reconciliation
  <2>4. \A p \in Calls : SeenTo(pre[p])' BY <2>2 DEF SeenTo, Idle
  <2> QED BY <2>1, <2>3, <2>4 DEF Inv, Grows
<1>7. CASE UNCHANGED vars
  <2>1. UNCHANGED pre /\ UNCHANGED feed BY <1>7 DEF vars
  <2> QED BY <1>2, <2>1, UnchangedGrows
<1> QED BY <1>1, HookStep, <1>3, <1>4, <1>5, <1>6, <1>7 DEF Next

\* CloudNativePG creates no pod before the server has the role and the binding of its
\* sidecar, for any number of overlapping calls, failures, restarts and stale caches.
THEOREM AccessBeforePods == Spec => []ContinueHasAccess
<1>1. Inv => ContinueHasAccess BY DEF Inv, SeenTo, ContinueHasAccess
<1> QED BY <1>1, InitInv, NextInv, PTL DEF Spec

-----------------------------------------------------------------------------
(* The hook on a pod it has seen.                                          *)

LEMMA ContainsAppended ==
    ASSUME NEW S, NEW s \in Seq(S), NEW v \in S
    PROVE  Contains(Append(s, v), v)
BY DEF Contains

LEMMA InjectsVolume ==
    ASSUME NEW Names, NEW Env, NEW pod \in PodSpecs(Names, Env), NEW main,
           pluginVolumeName \in Names
    PROVE  /\ InjectPluginVolumePodSpec(pod, main) \in PodSpecs(Names, Env)
           /\ Contains(InjectPluginVolumePodSpec(pod, main).volumes, pluginVolumeName)
           /\ InjectPluginVolumePodSpec(pod, main).main = pod.main
           /\ InjectPluginVolumePodSpec(pod, main).sidecars = pod.sidecars
<1>1. CASE Contains(pod.volumes, pluginVolumeName)
  BY <1>1 DEF InjectPluginVolumePodSpec
<1>2. CASE ~Contains(pod.volumes, pluginVolumeName)
  <2> DEFINE volumes == Append(pod.volumes, pluginVolumeName)
             mounts == IF pod.main = main THEN Append(pod.mounts, pluginVolumeName)
                       ELSE pod.mounts
  <2>1. pluginVolumeName \in Names OBVIOUS
  <2>2. pod.volumes \in Seq(Names) /\ pod.mounts \in Seq(Names) BY DEF PodSpecs
  <2>3. volumes \in Seq(Names) /\ mounts \in Seq(Names) BY <2>1, <2>2, AppendKeeps
  <2>4. Contains(volumes, pluginVolumeName) BY <2>1, <2>2, ContainsAppended
  <2>5. InjectPluginVolumePodSpec(pod, main)
          = [pod EXCEPT !.volumes = volumes, !.mounts = mounts]
    BY <1>2 DEF InjectPluginVolumePodSpec
  <2> HIDE DEF volumes, mounts
  <2> QED BY <2>3, <2>4, <2>5 DEF PodSpecs
<1> QED BY <1>1, <1>2

\* CloudNativePG shows the hook a pod again whenever it compares the pod with what it would
\* create: what the hook has injected once it leaves alone, though the environment it would
\* give the sidecar is another by then.
THEOREM HookLeavesItsPods ==
    ASSUME NEW Names, NEW Env, NEW pod \in PodSpecs(Names, Env), NEW main, NEW env \in Env, NEW later,
           pluginVolumeName \in Names, Sidecar \in Names,
           InjectPluginSidecarPodSpec(pod, main, env).outcome = "patch"
    PROVE  LET patched == InjectPluginSidecarPodSpec(pod, main, env).pod
           IN  InjectPluginSidecarPodSpec(patched, main, later) = Patch(patched)
<1> DEFINE injected == InjectPluginVolumePodSpec(pod, main)
           sidecar == [name |-> Sidecar, env |-> env, mounts |-> injected.mounts]
           patched == InjectPluginSidecarPodSpec(pod, main, env).pod
<1>1. /\ injected \in PodSpecs(Names, Env) /\ Contains(injected.volumes, pluginVolumeName)
      /\ injected.main = pod.main /\ injected.sidecars = pod.sidecars
  BY InjectsVolume
<1>2. pod.main = main
  <2>1. SUFFICES ASSUME pod.main # main PROVE FALSE OBVIOUS
  <2>2. InjectPluginSidecarPodSpec(pod, main, env) = Error(pod)
    BY <2>1, Zenon DEF InjectPluginSidecarPodSpec
  <2> QED BY <2>2 DEF Error
<1>3. /\ patched.main = main /\ HasSidecar(patched)
      /\ Contains(patched.volumes, pluginVolumeName)
  <2>1. CASE HasSidecar(pod)
    <3>1. patched = injected BY <1>2, <2>1 DEF InjectPluginSidecarPodSpec, Patch
    <3> QED BY <1>1, <1>2, <2>1, <3>1 DEF HasSidecar
  <2>2. CASE ~HasSidecar(pod)
    <3>1. patched = [injected EXCEPT !.sidecars = Append(@, sidecar)]
      BY <1>2, <2>2 DEF InjectPluginSidecarPodSpec, Patch
    <3> HIDE DEF injected, patched
    <3>2. sidecar \in [name : Names, env : Env, mounts : Seq(Names)]
      BY <1>1 DEF PodSpecs
    <3>3. injected.sidecars \in Seq([name : Names, env : Env, mounts : Seq(Names)])
      BY <1>1 DEF PodSpecs
    <3>4. /\ patched.sidecars = Append(injected.sidecars, sidecar)
          /\ patched.main = injected.main /\ patched.volumes = injected.volumes
      BY <1>1, <3>1 DEF PodSpecs
    <3> HIDE DEF sidecar
    <3>5. /\ Len(injected.sidecars) + 1 \in DOMAIN patched.sidecars
          /\ patched.sidecars[Len(injected.sidecars) + 1] = sidecar
      BY <3>2, <3>3, <3>4
    <3>6. HasSidecar(patched) BY <3>5 DEF HasSidecar, sidecar
    <3> QED BY <1>1, <1>2, <3>4, <3>6
  <2> QED BY <2>1, <2>2
<1>4. InjectPluginVolumePodSpec(patched, main) = patched
  BY <1>3 DEF InjectPluginVolumePodSpec
<1> HIDE DEF patched
<1>5. InjectPluginSidecarPodSpec(patched, main, later) = Patch(patched)
  BY <1>3, <1>4 DEF InjectPluginSidecarPodSpec
<1> QED BY <1>5 DEF patched

-----------------------------------------------------------------------------
(* The sidecar the hook adds.                                              *)

\* What the hook adds are texts too.
LEMMA KnownTexts ==
    /\ Sidecar \in Texts /\ pluginVolumeName \in Texts
    /\ "NAMESPACE" \in Texts /\ "namespace" \in Texts /\ "CLUSTER_NAME" \in Texts
    /\ "SPOOL_DIRECTORY" \in Texts /\ "/controller/wal-restore-spool" \in Texts
BY HookAssumption

Never(s, x) == \A i \in DOMAIN s : s[i] # x

Once(s, x) == \E i \in DOMAIN s : s[i] = x /\ \A j \in DOMAIN s : s[j] = x => j = i

\* The environment of a sidecar, next to the one of the main container.
EnvFine(env, main) ==
    /\ \A i, j \in DOMAIN env : env[i].name = env[j].name => i = j
    /\ \A cluster \in Clusters : \A i \in DOMAIN Defaults(cluster) :
          \/ \E j \in DOMAIN main : main[j].name = Defaults(cluster)[i].name
          \/ Contains(env, Defaults(cluster)[i])

SidecarFine(pod) ==
    \E i \in DOMAIN pod.sidecars :
        /\ pod.sidecars[i].name = Sidecar
        /\ \A j \in DOMAIN pod.sidecars : pod.sidecars[j].name = Sidecar => j = i
        /\ pod.sidecars[i].mounts = pod.mounts
        /\ EnvFine(pod.sidecars[i].env, pod.env)

\* A pod before the hook, and after it.
PodFine(pod) ==
    /\ pod \in PodSpecs(Texts, Environments)
    /\ \/ Never(pod.volumes, pluginVolumeName) /\ Never(pod.mounts, pluginVolumeName)
          /\ ~HasSidecar(pod)
       \/ Once(pod.volumes, pluginVolumeName) /\ Once(pod.mounts, pluginVolumeName)
          /\ (~HasSidecar(pod) \/ SidecarFine(pod))

\* What Never and Once say in numbers.
LEMMA Counts ==
    ASSUME NEW S, NEW s \in Seq(S), NEW x
    PROVE  /\ Count(s, x) = 0 => Never(s, x)
           /\ Count(s, x) = 1 => Once(s, x)
           /\ Once(s, x) => Count(s, x) = 1
<1> DEFINE P == {i \in DOMAIN s : s[i] = x}
<1>1. IsFiniteSet(P) /\ Count(s, x) = Cardinality(P)
  <2>1. IsFiniteSet(1 .. Len(s)) /\ P \subseteq 1 .. Len(s)
    BY FS_Interval
  <2>2. IsFiniteSet(P)
    <3> HIDE DEF P
    <3> QED
      BY <2>1, FS_Subset
  <2> QED
    BY <2>2 DEF Count
<1>2. Cardinality(P) = 0 => P = {}
  <2> HIDE DEF P
  <2> QED
    BY <1>1, FS_EmptySet
<1>3. Cardinality(P) = 1 <=> \E i : P = {i}
  <2> HIDE DEF P
  <2> QED
    BY <1>1, FS_Singleton
<1>4. Once(s, x) => \E i : P = {i}
  <2> SUFFICES ASSUME NEW i \in DOMAIN s, s[i] = x, \A j \in DOMAIN s : s[j] = x => j = i
               PROVE  P = {i}
    BY DEF Once
  <2> QED
    OBVIOUS
<1>5. ASSUME NEW i, P = {i} PROVE Once(s, x)
  <2>1. i \in P /\ \A j \in P : j = i
    BY <1>5
  <2> QED
    BY <2>1 DEF Once
<1> QED
  BY <1>1, <1>2, <1>3, <1>4, <1>5 DEF Never

LEMMA AppendOnce ==
    ASSUME NEW S, NEW s \in Seq(S), NEW v \in S, Never(s, v)
    PROVE  Once(Append(s, v), v)
<1>1. PICK t : t = Append(s, v)
  OBVIOUS
<1>2. /\ DOMAIN t = 1 .. Len(s) + 1 /\ Len(s) \in Nat /\ t[Len(s) + 1] = v
      /\ \A i \in 1 .. Len(s) : t[i] = s[i] /\ i \in DOMAIN s
  BY <1>1
<1>3. \A j \in 1 .. Len(s) + 1 : j # Len(s) + 1 => j \in 1 .. Len(s)
  BY <1>2
<1>4. \A j \in DOMAIN t : t[j] = v => j = Len(s) + 1
  BY <1>2, <1>3 DEF Never
<1>5. Len(s) + 1 \in DOMAIN t
  BY <1>2
<1> QED
  BY <1>1, <1>2, <1>4, <1>5 DEF Once

\* The volume of the plugins is injected, and mounted, once.
LEMMA InjectsOnce ==
    ASSUME NEW pod, PodFine(pod)
    PROVE  LET injected == InjectPluginVolumePodSpec(pod, pod.main) IN
           /\ injected \in PodSpecs(Texts, Environments)
           /\ Once(injected.volumes, pluginVolumeName) /\ Once(injected.mounts, pluginVolumeName)
           /\ injected.env = pod.env /\ injected.main = pod.main
           /\ injected.sidecars = pod.sidecars
           /\ HasSidecar(pod) => injected = pod /\ SidecarFine(pod)
<1>1. /\ pod \in PodSpecs(Texts, Environments) /\ pluginVolumeName \in Texts
      /\ pod.volumes \in Seq(Texts) /\ pod.mounts \in Seq(Texts)
  BY KnownTexts DEF PodFine, PodSpecs
<1>2. Contains(pod.volumes, pluginVolumeName) <=> ~Never(pod.volumes, pluginVolumeName)
  BY <1>1 DEF Contains, Never
<1>3. CASE Contains(pod.volumes, pluginVolumeName)
  <2>1. InjectPluginVolumePodSpec(pod, pod.main) = pod
    BY <1>3 DEF InjectPluginVolumePodSpec
  <2> QED
    BY <1>1, <1>2, <1>3, <2>1 DEF PodFine
<1>4. CASE ~Contains(pod.volumes, pluginVolumeName)
  <2>1. Never(pod.volumes, pluginVolumeName)
    BY <1>2, <1>4
  <2>2. Never(pod.mounts, pluginVolumeName) /\ ~HasSidecar(pod)
    BY <2>1 DEF PodFine, Once, Never
  <2>3. PICK volumes : volumes = Append(pod.volumes, pluginVolumeName)
    OBVIOUS
  <2>4. PICK mounts : mounts = Append(pod.mounts, pluginVolumeName)
    OBVIOUS
  <2>5. volumes \in Seq(Texts) /\ mounts \in Seq(Texts)
    BY <1>1, <2>3, <2>4, AppendKeeps
  <2>6. Once(volumes, pluginVolumeName) /\ Once(mounts, pluginVolumeName)
    BY <1>1, <2>1, <2>2, <2>3, <2>4, AppendOnce
  <2>7. InjectPluginVolumePodSpec(pod, pod.main)
          = [pod EXCEPT !.volumes = volumes, !.mounts = mounts]
    BY <1>4, <2>3, <2>4 DEF InjectPluginVolumePodSpec
  <2>8. /\ [pod EXCEPT !.volumes = volumes, !.mounts = mounts].volumes = volumes
        /\ [pod EXCEPT !.volumes = volumes, !.mounts = mounts].mounts = mounts
        /\ [pod EXCEPT !.volumes = volumes, !.mounts = mounts] \in PodSpecs(Texts, Environments)
    BY <1>1, <2>5 DEF PodSpecs
  <2>9. /\ [pod EXCEPT !.volumes = volumes, !.mounts = mounts].env = pod.env
        /\ [pod EXCEPT !.volumes = volumes, !.mounts = mounts].main = pod.main
        /\ [pod EXCEPT !.volumes = volumes, !.mounts = mounts].sidecars = pod.sidecars
    BY <1>1 DEF PodSpecs
  <2> QED
    BY <2>2, <2>6, <2>7, <2>8, <2>9
<1> QED
  BY <1>3, <1>4

\* What the hook makes of a pod is one it can be shown again.
LEMMA InjectsFine ==
    ASSUME NEW pod, PodFine(pod), NEW main, NEW env \in Environments, EnvFine(env, pod.env),
           pod.main = main
    PROVE  \E fine : PodFine(fine) /\ InjectPluginSidecarPodSpec(pod, main, env) = Patch(fine)
<1>1. PICK injected : injected = InjectPluginVolumePodSpec(pod, main)
  OBVIOUS
<1>2. /\ injected \in PodSpecs(Texts, Environments)
      /\ Once(injected.volumes, pluginVolumeName) /\ Once(injected.mounts, pluginVolumeName)
      /\ injected.env = pod.env /\ injected.main = pod.main
      /\ injected.sidecars = pod.sidecars
      /\ HasSidecar(pod) => injected = pod /\ SidecarFine(pod)
  BY <1>1, InjectsOnce
<1>3. CASE HasSidecar(pod)
  <2>1. InjectPluginSidecarPodSpec(pod, main, env) = Patch(pod)
    BY <1>1, <1>2, <1>3 DEF InjectPluginSidecarPodSpec
  <2> QED
    BY <2>1
<1>4. CASE ~HasSidecar(pod)
  <2>1. PICK sidecar : sidecar = [name |-> Sidecar, env |-> env, mounts |-> injected.mounts]
    OBVIOUS
  <2>2. PICK fine : fine = [injected EXCEPT !.sidecars = Append(injected.sidecars, sidecar)]
    OBVIOUS
  <2>3. InjectPluginSidecarPodSpec(pod, main, env) = Patch(fine)
    BY <1>1, <1>4, <2>1, <2>2 DEF InjectPluginSidecarPodSpec
  <2>4. PICK before \in Seq([name : Texts, env : Environments, mounts : Seq(Texts)]) :
          before = injected.sidecars
    BY <1>2 DEF PodSpecs
  <2>5. sidecar \in [name : Texts, env : Environments, mounts : Seq(Texts)]
    BY <1>2, <2>1, KnownTexts DEF PodSpecs
  <2>6. PICK after : after = Append(before, sidecar)
    OBVIOUS
  <2>7. /\ after \in Seq([name : Texts, env : Environments, mounts : Seq(Texts)])
        /\ DOMAIN after = 1 .. Len(before) + 1 /\ Len(before) \in Nat
        /\ after[Len(before) + 1] = sidecar
        /\ \A i \in 1 .. Len(before) : after[i] = before[i] /\ i \in DOMAIN before
    BY <2>5, <2>6
  <2>8. /\ fine \in PodSpecs(Texts, Environments) /\ fine.sidecars = after
        /\ fine.volumes = injected.volumes /\ fine.mounts = injected.mounts
        /\ fine.env = pod.env
    BY <1>2, <2>2, <2>4, <2>6, <2>7 DEF PodSpecs
  <2>9. \A i \in DOMAIN before : before[i].name # Sidecar
    BY <1>2, <1>4, <2>4 DEF HasSidecar
  <2>10. SidecarFine(fine)
    <3>1. Len(before) + 1 \in DOMAIN after
      BY <2>7
    <3>2. \A j \in DOMAIN after : after[j].name = Sidecar => j = Len(before) + 1
      <4>1. \A j \in 1 .. Len(before) + 1 : j # Len(before) + 1 => j \in 1 .. Len(before)
        BY <2>7
      <4> QED
        BY <2>7, <2>9, <4>1
    <3>3. sidecar.name = Sidecar /\ sidecar.mounts = fine.mounts /\ EnvFine(sidecar.env, fine.env)
      BY <2>1, <2>8
    <3> QED
      BY <2>7, <2>8, <3>1, <3>2, <3>3 DEF SidecarFine
  <2>11. PodFine(fine)
    BY <1>2, <2>8, <2>10 DEF PodFine
  <2> QED
    BY <2>3, <2>11
<1> QED
  BY <1>3, <1>4

-----------------------------------------------------------------------------
(* The environment of the sidecar.                                         *)

Distinct(env) == \A i, j \in DOMAIN env : env[i].name = env[j].name => i = j

\* One variable more.
LEMMA MergesOne ==
    ASSUME NEW env \in Environments, NEW var \in EnvVars(Texts), Distinct(env),
           NEW new, new = MergeVar(env, var)
    PROVE  /\ new \in Environments /\ Distinct(new)
           /\ \A e : Contains(env, e) => Contains(new, e)
           /\ (\A i \in DOMAIN env : env[i].name # var.name) => Contains(new, var)
           /\ \A i \in DOMAIN new : \/ new[i].name = var.name
                                    \/ \E j \in DOMAIN env : env[j].name = new[i].name
<1>1. CASE \E i \in DOMAIN env : env[i].name = var.name
  BY <1>1 DEF MergeVar
<1>2. CASE ~ \E i \in DOMAIN env : env[i].name = var.name
  <2>1. new = Append(env, var)
    BY <1>2 DEF MergeVar
  <2>2. /\ new \in Environments /\ Len(env) \in Nat
        /\ DOMAIN new = 1 .. Len(env) + 1 /\ Len(new) = Len(env) + 1 /\ new[Len(env) + 1] = var
        /\ \A i \in 1 .. Len(env) : new[i] = env[i] /\ i \in DOMAIN env
    BY <2>1 DEF Environments
  <2>3. \A i \in DOMAIN new : i = Len(env) + 1 \/ i \in 1 .. Len(env)
    BY <2>2
  <2>4. Distinct(new)
    BY <1>2, <2>2, <2>3 DEF Distinct
  <2>5. ASSUME NEW e, Contains(env, e) PROVE Contains(new, e)
    BY <2>2, <2>5 DEF Contains
  <2>6. Contains(new, var)
    BY <2>2 DEF Contains
  <2>7. \A i \in DOMAIN new : new[i].name = var.name \/ \E j \in DOMAIN env : env[j].name = new[i].name
    BY <2>2, <2>3
  <2> QED
    BY <2>2, <2>4, <2>5, <2>6, <2>7
<1> QED
  BY <1>1, <1>2

\* The environments that come up on the way, one for each number of variables.
Merging(merged, list) ==
    /\ DOMAIN merged = 0 .. Len(list) /\ merged[0] = <<>>
    /\ \A n \in 1 .. Len(list) : merged[n] = MergeVar(merged[n - 1], list[n])

AllVars(cluster, mainEnv, envs) == mainEnv \o Defaults(cluster) \o envs

IsMerged(env, list) == \E merged : Merging(merged, list) /\ env = merged[Len(list)]

LEMMA EnvIsMerged ==
    ASSUME NEW cluster, NEW mainEnv, NEW envs, NEW list,
           list = AllVars(cluster, mainEnv, envs), Len(list) \in Nat
    PROVE  IsMerged(SidecarEnv(cluster, mainEnv, envs), list)
<1> DEFINE Env(g, n) == IF n = 0 THEN <<>> ELSE MergeVar(g[n - 1], list[n])
           Upto(n) == \E g : g = [i \in 0 .. n |-> Env(g, i)]
           Missing == {n \in Nat : ~Upto(n)}
<1>1. Missing = {}
  <2> SUFFICES ASSUME Missing # {} PROVE FALSE
    OBVIOUS
  <2>1. PICK n \in Missing : \A m \in Missing : n <= m
    <3> HIDE DEF Missing
    <3>1. Missing \in SUBSET Nat
      BY DEF Missing
    <3> QED
      BY <3>1, LeastNumber
  <2>2. n \in Nat
    OBVIOUS
  <2>3. CASE n = 0
    <3> DEFINE none == [i \in 0 .. 0 |-> <<>>]
    <3>1. none = [i \in 0 .. 0 |-> Env(none, i)]
      OBVIOUS
    <3> HIDE DEF none, Env
    <3> QED
      BY <2>3, <3>1
  <2>4. CASE n # 0
    <3>1. n - 1 \in Nat /\ n - 1 \notin Missing
      <4> HIDE DEF Missing
      <4> QED
        BY <2>1, <2>2, <2>4
    <3>2. PICK g : g = [i \in 0 .. n - 1 |-> Env(g, i)]
      BY <3>1
    <3> DEFINE h == [i \in 0 .. n |-> IF i = n THEN Env(g, n) ELSE g[i]]
    <3>3. \A i \in 0 .. n : h[i] = Env(h, i)
      <4> TAKE i \in 0 .. n
      <4>1. CASE i = 0
        <5>1. h[i] = <<>>
          BY <2>4, <3>1, <3>2, <4>1
        <5> HIDE DEF h
        <5> QED
          BY <4>1, <5>1
      <4>2. CASE i # 0
        <5>1. i - 1 \in 0 .. n - 1 /\ i - 1 \in 0 .. n /\ i - 1 # n
          BY <2>2, <4>2
        <5>2. h[i - 1] = g[i - 1]
          BY <5>1
        <5>3. h[i] = Env(g, i)
          <6>1. CASE i = n
            BY <6>1
          <6>2. CASE i # n
            <7>1. i \in 0 .. n - 1
              BY <2>2, <6>2
            <7> HIDE DEF Env
            <7> QED
              BY <3>2, <6>2, <7>1
          <6> QED
            BY <6>1, <6>2
        <5> HIDE DEF h
        <5> QED
          BY <4>2, <5>2, <5>3
      <4> QED
        BY <4>1, <4>2
    <3>4. h = [i \in 0 .. n |-> Env(h, i)]
      <4>1. h = [i \in 0 .. n |-> h[i]]
        OBVIOUS
      <4> HIDE DEF h, Env
      <4> QED
        BY <3>3, <4>1
    <3> HIDE DEF h, Env
    <3> QED
      BY <3>4
  <2> QED
    BY <2>3, <2>4
<1> DEFINE merged == CHOOSE g : g = [i \in 0 .. Len(list) |-> Env(g, i)]
<1>2. SidecarEnv(cluster, mainEnv, envs) = merged[Len(list)]
  BY DEF SidecarEnv, AllVars
<1>3. \E g : g = [i \in 0 .. Len(list) |-> Env(g, i)]
  BY <1>1
<1>4. merged = [i \in 0 .. Len(list) |-> Env(merged, i)]
  <2> HIDE DEF Env
  <2> QED
    BY <1>3
<1> HIDE DEF merged
<1>5. \A i \in 0 .. Len(list) : merged[i] = Env(merged, i)
  <2> HIDE DEF Env
  <2> QED
    BY <1>4
<1>6. DOMAIN merged = 0 .. Len(list)
  BY <1>4
<1>7. merged[0] = <<>>
  BY <1>5
<1>8. ASSUME NEW n \in 1 .. Len(list)
      PROVE  merged[n] = MergeVar(merged[n - 1], list[n])
  <2>1. n \in 0 .. Len(list) /\ n # 0
    OBVIOUS
  <2> QED
    BY <1>5, <2>1
<1>9. Merging(merged, list)
  BY <1>6, <1>7, <1>8 DEF Merging
<1> QED
  BY <1>2, <1>9 DEF IsMerged

\* What has been merged of some variables: the first of each name, and nothing else.
FirstOfEach(env, list, n) ==
    /\ env \in Environments /\ Distinct(env)
    /\ \A i \in DOMAIN env : \E k \in 1 .. n : list[k].name = env[i].name
    /\ \A k \in 1 .. n : (\A j \in 1 .. k - 1 : list[j].name # list[k].name) => Contains(env, list[k])

LEMMA MergesFirstOfEach ==
    ASSUME NEW list \in Environments, NEW merged, Merging(merged, list)
    PROVE  FirstOfEach(merged[Len(list)], list, Len(list))
<1> DEFINE Wrong == {n \in 0 .. Len(list) : ~FirstOfEach(merged[n], list, n)}
<1>1. Len(list) \in Nat /\ \A n \in 1 .. Len(list) : list[n] \in EnvVars(Texts)
  BY DEF Environments
<1>2. Wrong = {}
  <2> SUFFICES ASSUME Wrong # {} PROVE FALSE
    OBVIOUS
  <2>1. PICK n \in Wrong : \A m \in Wrong : n <= m
    <3>1. Wrong \in SUBSET Nat
      BY <1>1
    <3> HIDE DEF Wrong
    <3> QED
      BY <3>1, LeastNumber
  <2>2. n \in 0 .. Len(list) /\ ~FirstOfEach(merged[n], list, n)
    OBVIOUS
  <2>3. CASE n = 0
    <3>1. merged[0] = <<>>
      BY DEF Merging
    <3>2. <<>> \in Environments /\ DOMAIN <<>> = {}
      BY DEF Environments
    <3> QED
      BY <2>2, <2>3, <3>1, <3>2 DEF FirstOfEach, Distinct
  <2>4. CASE n # 0
    <3>1. n \in 1 .. Len(list) /\ n - 1 \in 0 .. Len(list) /\ n \in Nat
      BY <1>1, <2>2, <2>4
    <3>2. FirstOfEach(merged[n - 1], list, n - 1)
      <4>1. n - 1 \notin Wrong
        <5> HIDE DEF Wrong
        <5>1. ~(n <= n - 1)
          BY <3>1
        <5> QED
          BY <2>1, <5>1
      <4> QED
        BY <3>1, <4>1
    <3>3. PICK env \in Environments : env = merged[n - 1]
      BY <3>2 DEF FirstOfEach
    <3>4. PICK new : new = MergeVar(env, list[n])
      OBVIOUS
    <3>5. merged[n] = new
      BY <3>1, <3>3, <3>4 DEF Merging
    <3>6. Distinct(env) /\ list[n] \in EnvVars(Texts)
      BY <1>1, <3>1, <3>2, <3>3 DEF FirstOfEach
    <3>7. /\ new \in Environments /\ Distinct(new)
          /\ \A e : Contains(env, e) => Contains(new, e)
          /\ (\A i \in DOMAIN env : env[i].name # list[n].name) => Contains(new, list[n])
          /\ \A i \in DOMAIN new : \/ new[i].name = list[n].name
                                   \/ \E j \in DOMAIN env : env[j].name = new[i].name
      BY <3>4, <3>6, MergesOne
    <3>8. \A k \in 1 .. n : k = n \/ k \in 1 .. n - 1
      BY <3>1
    <3>9. n \in 1 .. n /\ \A k \in 1 .. n - 1 : k \in 1 .. n
      BY <3>1
    <3>10. ASSUME NEW i \in DOMAIN new PROVE \E k \in 1 .. n : list[k].name = new[i].name
      BY <3>2, <3>3, <3>7, <3>9 DEF FirstOfEach
    <3>11. ASSUME NEW k \in 1 .. n, \A j \in 1 .. k - 1 : list[j].name # list[k].name
           PROVE  Contains(new, list[k])
      <4>1. CASE k = n
        <5>1. \A i \in DOMAIN env : \E j \in 1 .. n - 1 : list[j].name = env[i].name
          BY <3>2, <3>3 DEF FirstOfEach
        <5> QED
          BY <3>7, <3>11, <4>1, <5>1
      <4>2. CASE k \in 1 .. n - 1
        BY <3>2, <3>3, <3>7, <3>11, <4>2 DEF FirstOfEach
      <4> QED
        BY <3>8, <4>1, <4>2
    <3> QED
      BY <2>2, <3>5, <3>7, <3>10, <3>11 DEF FirstOfEach
  <2> QED
    BY <2>3, <2>4
<1> QED
  BY <1>1, <1>2

LEMMA ConcatKeeps ==
    ASSUME NEW S, NEW s \in Seq(S), NEW t \in Seq(S), NEW u, u = s \o t
    PROVE  /\ u \in Seq(S) /\ Len(u) = Len(s) + Len(t) /\ Len(s) \in Nat /\ Len(t) \in Nat
           /\ Len(u) \in Nat /\ DOMAIN u = 1 .. Len(s) + Len(t)
           /\ \A i \in 1 .. Len(s) : u[i] = s[i] /\ i \in DOMAIN s
           /\ \A i \in 1 .. Len(t) : u[Len(s) + i] = t[i]
OBVIOUS

\* The variables of the plugin come before those of the Archives.
LEMMA SidecarEnvFine ==
    ASSUME NEW cluster \in Clusters, NEW mainEnv \in Environments, NEW envs \in Environments
    PROVE  /\ SidecarEnv(cluster, mainEnv, envs) \in Environments
           /\ EnvFine(SidecarEnv(cluster, mainEnv, envs), mainEnv)
<1>1. PICK own : own = Defaults(cluster)
  OBVIOUS
<1>2. /\ own \in Environments /\ DOMAIN own = 1 .. 3 /\ Len(own) = 3
      /\ \A i, j \in 1 .. 3 : own[i].name = own[j].name => i = j
  <2>1. cluster.name \in Texts
    BY HookAssumption
  <2>2. /\ Var("NAMESPACE", "namespace") \in EnvVars(Texts)
        /\ Var("CLUSTER_NAME", cluster.name) \in EnvVars(Texts)
        /\ Var("SPOOL_DIRECTORY", "/controller/wal-restore-spool") \in EnvVars(Texts)
    BY <2>1, KnownTexts DEF Var, EnvVars
  <2>3. own[1].name = "NAMESPACE" /\ own[2].name = "CLUSTER_NAME" /\ own[3].name = "SPOOL_DIRECTORY"
    BY <1>1 DEF Defaults, Var
  <2>4. own \in Environments /\ Len(own) = 3
    BY <1>1, <2>2 DEF Defaults, Environments
  <2>5. "NAMESPACE" # "CLUSTER_NAME" /\ "NAMESPACE" # "SPOOL_DIRECTORY" /\ "CLUSTER_NAME" # "SPOOL_DIRECTORY"
    OBVIOUS
  <2>6. \A i \in 1 .. 3 : i = 1 \/ i = 2 \/ i = 3
    OBVIOUS
  <2>7. DOMAIN own = 1 .. 3
    BY <2>4 DEF Environments
  <2> QED
    BY <2>3, <2>4, <2>5, <2>6, <2>7
<1>3. PICK first : first = mainEnv \o own
  OBVIOUS
<1>4. PICK list : list = first \o envs
  OBVIOUS
<1>5. /\ first \in Environments /\ Len(first) = Len(mainEnv) + 3 /\ Len(mainEnv) \in Nat
      /\ \A i \in 1 .. Len(mainEnv) : first[i] = mainEnv[i] /\ i \in DOMAIN mainEnv
      /\ \A i \in 1 .. 3 : first[Len(mainEnv) + i] = own[i]
  <2>1. mainEnv \in Seq(EnvVars(Texts)) /\ own \in Seq(EnvVars(Texts))
    BY <1>2 DEF Environments
  <2>2. PICK m : m = Len(mainEnv)
    OBVIOUS
  <2>3. PICK n : n = Len(own)
    OBVIOUS
  <2>4. /\ first \in Seq(EnvVars(Texts)) /\ Len(first) = m + n /\ m \in Nat
        /\ \A i \in 1 .. m : first[i] = mainEnv[i] /\ i \in DOMAIN mainEnv
        /\ \A i \in 1 .. n : first[m + i] = own[i]
    BY <1>3, <2>1, <2>2, <2>3, ConcatKeeps
  <2>5. n = 3
    BY <1>2, <2>3
  <2> QED
    BY <2>2, <2>4, <2>5 DEF Environments
<1>6. /\ list \in Environments /\ Len(list) \in Nat /\ Len(list) >= Len(first)
      /\ \A i \in 1 .. Len(first) : list[i] = first[i]
  <2>1. first \in Seq(EnvVars(Texts)) /\ envs \in Seq(EnvVars(Texts))
    BY <1>5 DEF Environments
  <2>2. PICK m : m = Len(first)
    OBVIOUS
  <2>3. PICK n : n = Len(envs)
    OBVIOUS
  <2>4. /\ list \in Seq(EnvVars(Texts)) /\ Len(list) = m + n /\ m \in Nat /\ n \in Nat
        /\ \A i \in 1 .. m : list[i] = first[i]
    BY <1>4, <2>1, <2>2, <2>3, ConcatKeeps
  <2> QED
    BY <2>2, <2>4 DEF Environments
<1>7. PICK merged : /\ Merging(merged, list)
                    /\ SidecarEnv(cluster, mainEnv, envs) = merged[Len(list)]
  <2>1. list = AllVars(cluster, mainEnv, envs)
    BY <1>1, <1>3, <1>4 DEF AllVars
  <2>2. IsMerged(SidecarEnv(cluster, mainEnv, envs), list)
    BY <1>6, <2>1, EnvIsMerged
  <2> QED
    BY <2>2 DEF IsMerged
<1>8. PICK env : env = merged[Len(list)]
  OBVIOUS
<1>9. FirstOfEach(env, list, Len(list))
  BY <1>6, <1>7, <1>8, MergesFirstOfEach
<1>10. ASSUME NEW i \in 1 .. 3, \A j \in DOMAIN mainEnv : mainEnv[j].name # own[i].name
       PROVE  Contains(env, own[i])
  <2>1. PICK k : k = Len(mainEnv) + i
    OBVIOUS
  <2>2. k \in 1 .. Len(list) /\ k \in 1 .. Len(first) /\ list[k] = own[i]
    BY <1>5, <1>6, <2>1
  <2>3. ASSUME NEW j \in 1 .. k - 1 PROVE list[j].name # list[k].name
    <3>1. j \in 1 .. Len(first) /\ list[j] = first[j]
      BY <1>5, <1>6, <2>1, <2>2
    <3>2. CASE j \in 1 .. Len(mainEnv)
      BY <1>5, <1>10, <2>2, <3>1, <3>2
    <3>3. CASE j \notin 1 .. Len(mainEnv)
      <4>1. PICK m \in 1 .. 3 : j = Len(mainEnv) + m /\ m # i
        <5>1. j - Len(mainEnv) \in 1 .. 3 /\ j - Len(mainEnv) # i /\ j = Len(mainEnv) + (j - Len(mainEnv))
          BY <1>5, <2>1, <2>3, <3>3
        <5> QED
          BY <5>1
      <4>2. list[j] = own[m]
        BY <1>5, <3>1, <4>1
      <4> QED
        BY <1>2, <2>2, <4>1, <4>2
    <3> QED
      BY <3>2, <3>3
  <2> QED
    BY <1>9, <2>2, <2>3 DEF FirstOfEach
<1>11. \A other \in Clusters : Defaults(other) = own
  BY <1>1, HookAssumption DEF Defaults
<1>12. EnvFine(env, mainEnv)
  <2>1. \A i, j \in DOMAIN env : env[i].name = env[j].name => i = j
    BY <1>9 DEF FirstOfEach, Distinct
  <2>2. \A i \in DOMAIN own : \/ \E j \in DOMAIN mainEnv : mainEnv[j].name = own[i].name
                              \/ Contains(env, own[i])
    BY <1>2, <1>10
  <2> QED
    BY <1>11, <2>1, <2>2 DEF EnvFine
<1> QED
  BY <1>7, <1>8, <1>9, <1>12 DEF FirstOfEach

-----------------------------------------------------------------------------
(* Every pod the hook makes is one that it may be shown again.             *)

LEMMA FirstPodsAreFine == ASSUME NEW pod \in Pods PROVE PodFine(pod)
<1>1. /\ pod \in PodSpecs(Texts, Environments) /\ ~HasSidecar(pod)
      /\ Count(pod.volumes, pluginVolumeName) = Count(pod.mounts, pluginVolumeName)
      /\ Count(pod.volumes, pluginVolumeName) \in {0, 1}
  BY HookAssumption
<1>2. pod \in PodSpecs(Texts, Environments)
  BY <1>1
<1>3. pod.volumes \in Seq(Texts) /\ pod.mounts \in Seq(Texts)
  BY <1>2 DEF PodSpecs
<1>4. CASE Count(pod.volumes, pluginVolumeName) = 0
  BY <1>1, <1>2, <1>3, <1>4, Counts DEF PodFine
<1>5. CASE Count(pod.volumes, pluginVolumeName) = 1
  BY <1>1, <1>2, <1>3, <1>5, Counts DEF PodFine
<1> QED
  BY <1>1, <1>4, <1>5

\* The environments of the Archives that are found.
EnvsFine(envOf) == \A name \in DOMAIN envOf : envOf[name] \in Environments

LEMMA EnvsAreFine ==
    ASSUME NEW config, NEW envOf, EnvsFine(envOf), getArchives(config) \subseteq DOMAIN envOf
    PROVE  collectAdditionalEnvs(config, envOf) \in Environments
<1> DEFINE Envs(name) == IF name = "" THEN <<>> ELSE envOf[name]
<1>1. <<>> \in Environments
  BY DEF Environments
<1>2. Envs(config.archive) \in Environments /\ Envs(config.recovery) \in Environments
  BY <1>1 DEF getArchives, EnvsFine
<1>3. PICK first : first = Envs(config.archive)
  OBVIOUS
<1>4. PICK second : second = Envs(config.recovery)
  OBVIOUS
<1>5. collectAdditionalEnvs(config, envOf) = first \o second
  BY <1>3, <1>4 DEF collectAdditionalEnvs
<1>6. first \in Seq(EnvVars(Texts)) /\ second \in Seq(EnvVars(Texts))
  BY <1>2, <1>3, <1>4 DEF Environments
<1> QED
  BY <1>5, <1>6, ConcatKeeps DEF Environments

\* An error, or a pod that is fine.
AnswerFine(answer) == answer.outcome = "error" \/ PodFine(answer.pod)

LEMMA SpecIsFine ==
    ASSUME NEW cluster \in Clusters, NEW pod, PodFine(pod), NEW main, NEW envs \in Environments
    PROVE  AnswerFine(reconcilePodSpec(cluster, pod, main, envs))
<1>1. CASE pod.main # main
  BY <1>1 DEF reconcilePodSpec, InjectPluginSidecarPodSpec, Error, AnswerFine
<1>2. CASE pod.main = main
  <2>1. PICK env : env = SidecarEnv(cluster, pod.env, envs)
    OBVIOUS
  <2>2. reconcilePodSpec(cluster, pod, main, envs) = InjectPluginSidecarPodSpec(pod, main, env)
    BY <1>2, <2>1 DEF reconcilePodSpec
  <2>3. pod.env \in Environments
    BY DEF PodFine, PodSpecs
  <2>4. env \in Environments /\ EnvFine(env, pod.env)
    BY <2>1, <2>3, SidecarEnvFine
  <2>5. PICK fine : PodFine(fine) /\ InjectPluginSidecarPodSpec(pod, main, env) = Patch(fine)
    BY <1>2, <2>4, InjectsFine
  <2>6. Patch(fine).pod = fine
    BY DEF Patch
  <2> QED
    BY <2>2, <2>5, <2>6 DEF AnswerFine
<1> QED
  BY <1>1, <1>2

LEMMA HookIsFine ==
    ASSUME NEW cluster \in Clusters, NEW pod, PodFine(pod), NEW envOf, EnvsFine(envOf)
    PROVE  AnswerFine(LifecycleHook(cluster, pod, envOf))
<1>1. PICK config : config = NewFromCluster(cluster)
  OBVIOUS
<1>2. PICK envs : envs = collectAdditionalEnvs(config, envOf)
  OBVIOUS
<1>3. AnswerFine(Nothing(pod)) /\ AnswerFine(Error(pod)) /\ AnswerFine(Patch(pod))
  BY DEF AnswerFine, Nothing, Error, Patch
<1>4. CASE ~Validate(config) \/ ~(getArchives(config) \subseteq DOMAIN envOf)
  <2>1. LifecycleHook(cluster, pod, envOf) \in {Nothing(pod), Error(pod)}
    BY <1>1, <1>4 DEF LifecycleHook
  <2> QED
    BY <1>3, <2>1
<1>5. CASE Validate(config) /\ getArchives(config) \subseteq DOMAIN envOf
  <2>1. envs \in Environments
    BY <1>2, <1>5, EnvsAreFine
  <2>2. CASE pod.kind = "Pod"
    <3>1. LifecycleHook(cluster, pod, envOf) = reconcilePod(cluster, pod, envs)
      BY <1>1, <1>2, <1>5, <2>2 DEF LifecycleHook
    <3>2. reconcilePod(cluster, pod, envs)
            \in {Patch(pod), reconcilePodSpec(cluster, pod, "postgres", envs)}
      BY DEF reconcilePod
    <3> QED
      BY <1>3, <2>1, <3>1, <3>2, SpecIsFine
  <2>3. CASE pod.kind = "Job"
    <3>1. LifecycleHook(cluster, pod, envOf) = reconcileJob(cluster, pod, envs)
      BY <1>1, <1>2, <1>5, <2>3 DEF LifecycleHook
    <3>2. reconcileJob(cluster, pod, envs)
            \in {Nothing(pod), reconcilePodSpec(cluster, pod, jobRoleFullRecovery, envs)}
      BY DEF reconcileJob
    <3> QED
      BY <1>3, <2>1, <3>1, <3>2, SpecIsFine
  <2>4. CASE pod.kind \notin {"Pod", "Job"}
    <3>1. LifecycleHook(cluster, pod, envOf) = Error(pod)
      BY <1>1, <1>5, <2>4 DEF LifecycleHook
    <3> QED
      BY <1>3, <3>1
  <2> QED
    BY <2>2, <2>3, <2>4
<1> QED
  BY <1>4, <1>5

-----------------------------------------------------------------------------
(* The pods the reconciliations have in hand.                              *)

\* What one reconciliation knows: a Cluster the server has had, and no pod or a fine one.
CallFine(r) ==
    /\ r.cluster \in IF r.at = "idle" THEN {NoCluster} ELSE Clusters
    /\ r.pod = NoPod \/ PodFine(r.pod)

HookInv == \A p \in Calls : CallFine(pre[p])

LEMMA IdleHasNoPod == CallFine(Idle)
BY DEF CallFine, Idle

\* One reconciliation takes a step.
LEMMA OneFine ==
    ASSUME Inv, HookInv, NEW p \in Calls, NEW r, CallFine(r),
           pre'[p] = r, \A q \in Calls \ {p} : pre'[q] = pre[q]
    PROVE  HookInv'
<1>1. \A q \in Calls : CallFine(pre'[q])
  BY DEF HookInv
<1> QED
  BY <1>1 DEF HookInv, CallFine, PodFine, SidecarFine, EnvFine, Never, Once

LEMMA ReturnFine == ASSUME Inv, HookInv, NEW p \in Calls, Return(p) PROVE HookInv'
<1>1. pre'[p] = Idle /\ \A q \in Calls \ {p} : pre'[q] = pre[q]
  BY DEF Return, Inv, PreInv
<1> QED
  BY <1>1, IdleHasNoPod, OneFine

LEMMA GoToFine ==
    ASSUME Inv, HookInv, NEW p \in Calls, pre[p].at # "idle",
           NEW point, point # "idle", GoTo(p, point)
    PROVE  HookInv'
<1>1. PICK r : r = [Idle EXCEPT !.at = point, !.cluster = pre[p].cluster]
  OBVIOUS
<1>2. CallFine(r)
  BY <1>1 DEF HookInv, CallFine, Idle
<1>3. pre'[p] = r /\ \A q \in Calls \ {p} : pre'[q] = pre[q]
  BY <1>1 DEF GoTo, Inv, PreInv
<1> QED
  BY <1>2, <1>3, OneFine

LEMMA GetsFine == ASSUME Inv, HookInv, NEW p \in Calls, Pre(p) \/ GetArchive(p) PROVE HookInv'
<1>1. CASE Pre(p)
  <2>1. PICK r : r = [Idle EXCEPT !.at = "archives", !.cluster = Cached("cluster"),
                                  !.left = Referred(Cached("cluster"))]
    OBVIOUS
  <2>2. Cached("cluster") \in Clusters
    BY CacheShowsVersions DEF Inv, Kinds, Versions
  <2>3. CallFine(r)
    BY <2>1, <2>2 DEF CallFine, Idle
  <2>4. pre'[p] = r /\ \A q \in Calls \ {p} : pre'[q] = pre[q]
    BY <1>1, <2>1 DEF Pre, Inv, PreInv
  <2> QED
    BY <2>3, <2>4, OneFine
<1>2. CASE GetArchive(p)
  <2>1. PICK name \in pre[p].left :
          LET definition == Cached("archives")[name]
          IN  IF definition = NoArchive THEN Return(p)
              ELSE pre' = [pre EXCEPT ![p].left = @ \ {name},
                                      ![p].objects = @ \cup {Object(name, definition)}]
    BY <1>2 DEF GetArchive
  <2>2. CASE Return(p)
    BY <2>2, ReturnFine
  <2>3. CASE ~Return(p)
    <3>1. PICK r : r = [pre[p] EXCEPT !.left = @ \ {name},
                          !.objects = @ \cup {Object(name, Cached("archives")[name])}]
      OBVIOUS
    <3>2. r.at = pre[p].at /\ r.cluster = pre[p].cluster /\ r.pod = pre[p].pod
      BY <3>1 DEF Inv, PreInv, Reconciliation
    <3>3. CallFine(r)
      BY <3>2 DEF HookInv, CallFine
    <3>4. pre'[p] = r /\ \A q \in Calls \ {p} : pre'[q] = pre[q]
      BY <2>1, <2>3, <3>1 DEF Inv, PreInv
    <3> QED
      BY <3>3, <3>4, OneFine
  <2> QED
    BY <2>2, <2>3
<1> QED
  BY <1>1, <1>2

LEMMA WritesFine ==
    ASSUME Inv, HookInv, NEW p \in Calls,
           \/ GetRole(p) \/ WriteRole(p)
           \/ GetRoleBinding(p) \/ createRoleBinding(p) \/ Post(p)
    PROVE  HookInv'
<1>1. CASE GetRole(p)
  <2>1. CASE GoTo(p, "binding")
    BY <1>1, <2>1, GoToFine DEF GetRole
  <2>2. CASE ~GoTo(p, "binding")
    <3>1. PICK r : r = [Idle EXCEPT !.at = "role", !.cluster = pre[p].cluster,
                                    !.rules = BuildRole(pre[p].objects),
                                    !.creates = Cached("role") = NoRole]
      OBVIOUS
    <3>2. pre' = [pre EXCEPT ![p] = r]
      BY <1>1, <2>2, <3>1 DEF GetRole
    <3>3. CallFine(r)
      BY <1>1, <3>1 DEF HookInv, CallFine, Idle, GetRole
    <3>4. pre'[p] = r /\ \A q \in Calls \ {p} : pre'[q] = pre[q]
      BY <3>2 DEF Inv, PreInv
    <3> QED
      BY <3>3, <3>4, OneFine
  <2> QED
    BY <2>1, <2>2
<1>2. CASE WriteRole(p)
  <2>1. pre[p].at # "idle" /\ (GoTo(p, "binding") \/ Return(p))
    BY <1>2 DEF WriteRole
  <2> QED
    BY <2>1, GoToFine, ReturnFine
<1>3. CASE GetRoleBinding(p)
  BY <1>3, GoToFine DEF GetRoleBinding
<1>4. CASE createRoleBinding(p)
  <2>1. pre[p].at # "idle" /\ (GoTo(p, "pods") \/ Return(p))
    BY <1>4 DEF createRoleBinding
  <2> QED
    BY <2>1, GoToFine, ReturnFine
<1>5. CASE Post(p)
  BY <1>5, ReturnFine DEF Post
<1> QED
  BY <1>1, <1>2, <1>3, <1>4, <1>5

\* The hook, on a new pod or on the one in hand.
LEMMA HookKeepsFine == ASSUME Inv, HookInv, NEW p \in Calls, Hook(p) PROVE HookInv'
<1>1. PICK archives : archives = Cached("archives")
  OBVIOUS
<1>2. archives \in [ArchiveNames -> Definitions \cup {NoArchive}]
  BY <1>1, CacheShowsVersions DEF Inv, Kinds, Versions
<1>3. PICK envOf : envOf = [name \in {n \in ArchiveNames : archives[n] # NoArchive}
                              |-> archives[name].env]
  OBVIOUS
<1>4. EnvsFine(envOf)
  <2>1. ASSUME NEW name \in DOMAIN envOf PROVE envOf[name] \in Environments
    <3>1. archives[name] \in Definitions /\ envOf[name] = archives[name].env
      BY <1>2, <1>3
    <3> QED
      BY <3>1, HookAssumption
  <2> QED
    BY <2>1 DEF EnvsFine
<1>5. PICK pod \in IF pre[p].pod = NoPod THEN Pods ELSE {pre[p].pod} :
        LET answer == LifecycleHook(pre[p].cluster, pod, envOf)
        IN  IF answer.outcome = "error" THEN Return(p)
            ELSE pre' = [pre EXCEPT ![p].pod = answer.pod]
  BY <1>1, <1>3 DEF Hook
<1>6. PICK answer : answer = LifecycleHook(pre[p].cluster, pod, envOf)
  OBVIOUS
<1>7. PodFine(pod)
  BY FirstPodsAreFine DEF HookInv, CallFine
<1>8. pre[p].cluster \in Clusters
  BY DEF Hook, HookInv, CallFine
<1>9. AnswerFine(answer)
  BY <1>4, <1>6, <1>7, <1>8, HookIsFine
<1>10. CASE answer.outcome = "error"
  <2>1. Return(p)
    BY <1>5, <1>6, <1>10
  <2> QED
    BY <2>1, ReturnFine
<1>11. CASE answer.outcome # "error"
  <2>1. PICK r : r = [pre[p] EXCEPT !.pod = answer.pod]
    OBVIOUS
  <2>2. r.at = pre[p].at /\ r.cluster = pre[p].cluster /\ r.pod = answer.pod
    BY <2>1 DEF Inv, PreInv, Reconciliation
  <2>3. CallFine(r)
    BY <1>8, <1>9, <1>11, <2>2 DEF Hook, CallFine, AnswerFine
  <2>4. pre'[p] = r /\ \A q \in Calls \ {p} : pre'[q] = pre[q]
    BY <1>5, <1>6, <1>11, <2>1 DEF Inv, PreInv
  <2> QED
    BY <2>3, <2>4, OneFine
<1> QED
  BY <1>10, <1>11

LEMMA InitFine == ASSUME Init PROVE HookInv
<1>1. \A p \in Calls : pre[p] = Idle
  BY DEF Init
<1> QED
  BY <1>1, IdleHasNoPod DEF HookInv

LEMMA NextFine == ASSUME Inv, HookInv, [Next]_vars PROVE HookInv'
<1>1. ASSUME UNCHANGED pre PROVE HookInv'
  <2>1. \A p \in Calls : CallFine(pre'[p])
    BY <1>1 DEF HookInv
  <2> QED
    BY <2>1 DEF HookInv, CallFine, PodFine, SidecarFine, EnvFine, Never, Once
<1>2. ASSUME NEW p \in Calls, Step(p) PROVE HookInv'
  BY <1>2, GetsFine, WritesFine DEF Step
<1>3. ASSUME NEW p \in Calls, Hook(p) PROVE HookInv'
  BY <1>3, HookKeepsFine
<1>4. ASSUME NEW kind \in Kinds, Deliver(kind) PROVE HookInv'
  BY <1>1, <1>4 DEF Deliver
<1>5. CASE EditCluster \/ EditArchive
  BY <1>1, <1>5 DEF EditCluster, EditArchive, Edit
<1>6. CASE Restart
  <2>1. \A p \in Calls : pre'[p] = Idle
    BY <1>6 DEF Restart
  <2>2. \A p \in Calls : CallFine(pre'[p])
    BY <2>1, IdleHasNoPod
  <2> QED
    BY <2>2 DEF HookInv, CallFine, PodFine, SidecarFine, EnvFine, Never, Once
<1>7. CASE UNCHANGED vars
  BY <1>1, <1>7 DEF vars
<1> QED
  BY <1>2, <1>3, <1>4, <1>5, <1>6, <1>7 DEF Next

\* As many names as places, if none comes twice.
LEMMA NamesByPlace ==
    ASSUME NEW env \in Environments, Distinct(env), NEW names,
           names = {env[i].name : i \in DOMAIN env}
    PROVE  Cardinality(names) = Len(env)
<1>1. Len(env) \in Nat /\ DOMAIN env = 1 .. Len(env)
  BY DEF Environments
<1>2. IsFiniteSet(1 .. Len(env)) /\ Cardinality(1 .. Len(env)) = Len(env)
  BY <1>1, FS_Interval
<1>3. PICK f : f = [i \in 1 .. Len(env) |-> env[i].name]
  OBVIOUS
<1>4. f \in Surjection(1 .. Len(env), names)
  BY <1>1, <1>3 DEF Surjection
<1>5. f \in Injection(1 .. Len(env), names)
  BY <1>1, <1>3 DEF Injection, IsInjective, Distinct
<1> QED
  BY <1>2, <1>4, <1>5, FS_Surjection

\* A fine pod with a sidecar, in the words of the properties.
LEMMA FineSidecar ==
    ASSUME NEW pod, PodFine(pod), HasSidecar(pod)
    PROVE  /\ Count(pod.volumes, pluginVolumeName) = 1 /\ Count(pod.mounts, pluginVolumeName) = 1
           /\ Cardinality({i \in DOMAIN pod.sidecars : pod.sidecars[i].name = Sidecar}) = 1
           /\ SidecarOf(pod).mounts = pod.mounts
           /\ SidecarOf(pod).env \in Environments /\ EnvFine(SidecarOf(pod).env, pod.env)
<1>1. /\ pod \in PodSpecs(Texts, Environments) /\ SidecarFine(pod)
      /\ Once(pod.volumes, pluginVolumeName) /\ Once(pod.mounts, pluginVolumeName)
  BY DEF PodFine
<1>2. pod.volumes \in Seq(Texts) /\ pod.mounts \in Seq(Texts)
  BY <1>1 DEF PodSpecs
<1>3. Count(pod.volumes, pluginVolumeName) = 1 /\ Count(pod.mounts, pluginVolumeName) = 1
  BY <1>1, <1>2, Counts
<1>4. PICK i \in DOMAIN pod.sidecars :
        /\ pod.sidecars[i].name = Sidecar
        /\ \A j \in DOMAIN pod.sidecars : pod.sidecars[j].name = Sidecar => j = i
        /\ pod.sidecars[i].mounts = pod.mounts
        /\ EnvFine(pod.sidecars[i].env, pod.env)
  BY <1>1 DEF SidecarFine
<1> DEFINE places == {j \in DOMAIN pod.sidecars : pod.sidecars[j].name = Sidecar}
<1>5. places = {i}
  BY <1>4
<1>6. Cardinality(places) = 1
  <2> HIDE DEF places
  <2> QED
    BY <1>5, FS_Singleton
<1>7. SidecarOf(pod) = pod.sidecars[i]
  BY <1>4 DEF SidecarOf
<1>8. pod.sidecars[i].env \in Environments
  <2>1. pod.sidecars \in Seq([name : Texts, env : Environments, mounts : Seq(Texts)])
    BY <1>1 DEF PodSpecs
  <2>2. PICK T : T = [name : Texts, env : Environments, mounts : Seq(Texts)]
    OBVIOUS
  <2>3. PICK sidecars : sidecars = pod.sidecars
    OBVIOUS
  <2>4. sidecars \in Seq(T) /\ i \in DOMAIN sidecars
    BY <1>4, <2>1, <2>2, <2>3
  <2>5. sidecars[i] \in T
    BY <2>4
  <2> QED
    BY <2>2, <2>3, <2>5
<1> QED
  BY <1>3, <1>4, <1>6, <1>7, <1>8

\* The hook is shown a pod any number of times, with other Archives and another Cluster each
\* time: its sidecar is the only one, the volume of the plugins comes once, and the mounts of
\* the sidecar are those PostgreSQL ends up with.
THEOREM OneSidecarPerPod == Spec => []OneSidecar
<1>1. HookInv => OneSidecar
  <2> SUFFICES ASSUME HookInv, NEW p \in Calls, pre[p].pod # NoPod, HasSidecar(pre[p].pod)
               PROVE  LET pod == pre[p].pod IN
                      /\ Cardinality({i \in DOMAIN pod.sidecars : pod.sidecars[i].name = Sidecar}) = 1
                      /\ Count(pod.volumes, pluginVolumeName) = 1
                      /\ Count(pod.mounts, pluginVolumeName) = 1
                      /\ SidecarOf(pod).mounts = pod.mounts
    BY DEF OneSidecar, HookedPods
  <2>1. PICK pod : pod = pre[p].pod
    OBVIOUS
  <2>2. PodFine(pod) /\ HasSidecar(pod)
    BY <2>1 DEF HookInv, CallFine
  <2> QED
    BY <2>1, <2>2, FineSidecar
<1> QED
  BY <1>1, InitInv, NextInv, InitFine, NextFine, PTL DEF Spec

\* SidecarEnv looks for each name before it appends: no name comes twice, and what an Archive
\* gives comes after the variables of the plugin, so that it cannot replace them.
THEOREM SidecarKeepsItsOwn == Spec => []OwnVariables
<1>1. HookInv => OwnVariables
  <2> SUFFICES ASSUME HookInv, NEW p \in Calls, pre[p].pod # NoPod, HasSidecar(pre[p].pod)
               PROVE  LET env == SidecarOf(pre[p].pod).env
                          Names(s) == {s[i].name : i \in DOMAIN s}
                      IN  /\ Cardinality(Names(env)) = Len(env)
                          /\ \A cluster \in Clusters : \A i \in DOMAIN Defaults(cluster) :
                               LET default == Defaults(cluster)[i]
                               IN  \/ default.name \in Names(pre[p].pod.env)
                                   \/ Contains(env, default)
    BY DEF OwnVariables, HookedPods
  <2>1. PICK pod : pod = pre[p].pod
    OBVIOUS
  <2>2. PodFine(pod) /\ HasSidecar(pod)
    BY <2>1 DEF HookInv, CallFine
  <2>3. PICK env : env = SidecarOf(pod).env
    OBVIOUS
  <2>4. env \in Environments /\ EnvFine(env, pod.env)
    BY <2>2, <2>3, FineSidecar
  <2>5. Cardinality({env[i].name : i \in DOMAIN env}) = Len(env)
    <3>1. Distinct(env)
      BY <2>4 DEF EnvFine, Distinct
    <3> QED
      BY <2>4, <3>1, NamesByPlace
  <2>6. ASSUME NEW cluster \in Clusters, NEW i \in DOMAIN Defaults(cluster)
        PROVE  \/ Defaults(cluster)[i].name \in {pod.env[j].name : j \in DOMAIN pod.env}
               \/ Contains(env, Defaults(cluster)[i])
    BY <2>4 DEF EnvFine
  <2> QED
    BY <2>1, <2>3, <2>5, <2>6
<1> QED
  BY <1>1, InitInv, NextInv, InitFine, NextFine, PTL DEF Spec

-----------------------------------------------------------------------------
(* Types: what is left is how long the feeds and the counters get.         *)

LimitInv ==
    /\ \A kind \in Kinds : Len(feed[kind]) \in 1 .. MaxLag + 1
    /\ edits \in 0 .. MaxEdits /\ faults \in 0 .. MaxFaults

LEMMA SetKeepsLimit ==
    ASSUME Inv, LimitInv, NEW kind \in Kinds, NEW value, Set(kind, value)
    PROVE  \A k \in Kinds : Len(feed'[k]) \in 1 .. MaxLag + 1
<1>1. CASE UNCHANGED feed
  BY <1>1 DEF LimitInv
<1>2. CASE ~UNCHANGED feed
  <2>1. Len(feed[kind]) <= MaxLag /\ feed' = [feed EXCEPT ![kind] = Append(@, value)]
    BY <1>2 DEF Set
  <2>2. feed'[kind] = Append(feed[kind], value) /\ \A k \in Kinds \ {kind} : feed'[k] = feed[k]
    BY <2>1 DEF Inv, FeedInv
  <2>3. PICK s : s = feed[kind]
    OBVIOUS
  <2>4. s \in Seq(Versions(kind))
    BY <2>3 DEF Inv, FeedInv
  <2>5. Len(Append(s, value)) = Len(s) + 1 /\ Len(s) \in Nat
    BY <2>4
  <2> QED
    BY <2>1, <2>2, <2>3, <2>5 DEF LimitInv
<1> QED
  BY <1>1, <1>2

LEMMA NextLimit == ASSUME Inv, LimitInv, [Next]_vars PROVE LimitInv'
<1>1. ASSUME NEW happens, Fault(happens) PROVE faults' \in 0 .. MaxFaults
  BY <1>1 DEF Fault, LimitInv
<1>2. ASSUME UNCHANGED feed PROVE \A kind \in Kinds : Len(feed'[kind]) \in 1 .. MaxLag + 1
  BY <1>2 DEF LimitInv
<1>3. ASSUME NEW p \in Calls,
             \/ Pre(p) \/ GetArchive(p) \/ GetRole(p) \/ GetRoleBinding(p)
             \/ Post(p) \/ Hook(p)
      PROVE  LimitInv'
  <2>1. UNCHANGED <<feed, edits, faults>>
    BY <1>3 DEF Pre, GetArchive, GetRole, GetRoleBinding, Post, Hook
  <2> QED
    BY <2>1 DEF LimitInv
<1>4. ASSUME NEW p \in Calls, WriteRole(p) PROVE LimitInv'
  <2>1. PICK end \in Ends : Fault(~Fine(end)) /\ (UNCHANGED feed \/ Set("role", pre[p].rules))
    BY <1>4 DEF WriteRole
  <2>2. \A kind \in Kinds : Len(feed'[kind]) \in 1 .. MaxLag + 1
    BY <1>2, <2>1, SetKeepsLimit DEF Kinds
  <2>3. faults' \in 0 .. MaxFaults /\ UNCHANGED edits
    BY <1>1, <1>4, <2>1 DEF WriteRole
  <2> QED
    BY <2>2, <2>3 DEF LimitInv
<1>5. ASSUME NEW p \in Calls, createRoleBinding(p) PROVE LimitInv'
  <2>1. PICK end \in Ends : Fault(~Fine(end)) /\ (UNCHANGED feed \/ Set("binding", TRUE))
    BY <1>5 DEF createRoleBinding
  <2>2. \A kind \in Kinds : Len(feed'[kind]) \in 1 .. MaxLag + 1
    BY <1>2, <2>1, SetKeepsLimit DEF Kinds
  <2>3. faults' \in 0 .. MaxFaults /\ UNCHANGED edits
    BY <1>1, <1>5, <2>1 DEF createRoleBinding
  <2> QED
    BY <2>2, <2>3 DEF LimitInv
<1>6. ASSUME NEW kind \in Kinds, Deliver(kind) PROVE LimitInv'
  <2>1. feed'[kind] = Tail(feed[kind]) /\ \A k \in Kinds \ {kind} : feed'[k] = feed[k]
    BY <1>6 DEF Deliver, Inv, FeedInv
  <2>2. PICK s : s = feed[kind]
    OBVIOUS
  <2>3. s \in Seq(Versions(kind)) /\ Len(s) > 1
    BY <1>6, <2>2 DEF Deliver, Inv, FeedInv
  <2>4. Len(Tail(s)) = Len(s) - 1 /\ Len(s) \in Nat
    BY <2>3
  <2>5. \A k \in Kinds : Len(feed'[k]) \in 1 .. MaxLag + 1
    <3>1. Len(s) \in 1 .. MaxLag + 1
      BY <2>2 DEF LimitInv
    <3>2. Len(Tail(s)) \in 1 .. MaxLag + 1
      BY <2>3, <2>4, <3>1
    <3>3. Len(feed'[kind]) \in 1 .. MaxLag + 1
      BY <2>1, <2>2, <3>2
    <3> QED
      BY <2>1, <3>3 DEF LimitInv
  <2> QED
    BY <1>6, <2>5 DEF Deliver, LimitInv
<1>7. ASSUME NEW kind \in Kinds, NEW value, Edit(kind, value) PROVE LimitInv'
  <2>1. \A k \in Kinds : Len(feed'[k]) \in 1 .. MaxLag + 1
    BY <1>7, SetKeepsLimit DEF Edit
  <2> QED
    BY <1>7, <2>1 DEF Edit, LimitInv
<1>8. CASE EditCluster \/ EditArchive
  BY <1>7, <1>8 DEF EditCluster, EditArchive, Kinds
<1>9. CASE Restart
  <2>1. \A kind \in Kinds : feed'[kind] = IF kind \in Owned THEN <<Current(kind)>> ELSE feed[kind]
    BY <1>9 DEF Restart
  <2>2. ASSUME NEW kind \in Kinds PROVE Len(feed'[kind]) \in 1 .. MaxLag + 1
    <3>1. CASE kind \in Owned
      <4>1. PICK v : v = Current(kind)
        OBVIOUS
      <4>2. feed'[kind] = <<v>>
        BY <2>1, <3>1, <4>1
      <4> QED
        BY <4>2
    <3>2. CASE kind \notin Owned
      BY <2>1, <3>2 DEF LimitInv
    <3> QED
      BY <3>1, <3>2
  <2> QED
    BY <1>1, <1>9, <2>2 DEF Restart, LimitInv
<1>10. CASE UNCHANGED vars
  BY <1>10 DEF vars, LimitInv
<1> QED
  BY <1>3, <1>4, <1>5, <1>6, <1>8, <1>9, <1>10 DEF Next, Step

LEMMA InitLimit == ASSUME Init PROVE LimitInv
<1>1. \A kind \in Kinds : \E v : feed[kind] = <<v>>
  BY DEF Init
<1>2. \A v : Len(<<v>>) = 1
  OBVIOUS
<1> QED
  BY <1>1, <1>2 DEF Init, LimitInv

\* What the caches show and what the calls keep is of its type, for any run of the operator.
THEOREM Typing == Spec => []TypeOK
<1>1. ASSUME Inv, HookInv, LimitInv PROVE TypeOK
  <2>1. ASSUME NEW kind \in Kinds PROVE Range(feed[kind]) \subseteq Versions(kind)
    <3>1. PICK s : s = feed[kind]
      OBVIOUS
    <3>2. s \in Seq(Versions(kind))
      BY <1>1, <3>1 DEF Inv, FeedInv
    <3>3. \A i \in DOMAIN s : s[i] \in Versions(kind)
      BY <3>2
    <3> QED
      BY <3>1, <3>3 DEF Range
  <2>2. ASSUME NEW p \in Calls
        PROVE  /\ pre[p].at \in Points
               /\ pre[p].cluster \in IF pre[p].at = "idle" THEN {NoCluster} ELSE Clusters
               /\ pre[p].left \subseteq ArchiveNames
               /\ {object.name : object \in pre[p].objects} \subseteq ArchiveNames
               /\ pre[p].rules \in Roles(ArchiveNames) \cup {NoRole}
               /\ pre[p].creates \in BOOLEAN
               /\ pre[p].pod = NoPod \/ pre[p].pod \in PodSpecs(Texts, Environments)
    <3>1. Reconciliation(pre[p]) /\ CallFine(pre[p])
      BY <1>1 DEF Inv, PreInv, HookInv
    <3>2. {object.name : object \in pre[p].objects} \subseteq ArchiveNames
      BY <3>1 DEF Reconciliation, Objects
    <3>3. /\ pre[p].at \in Points /\ pre[p].left \subseteq ArchiveNames
          /\ pre[p].rules \in Roles(ArchiveNames) \cup {NoRole} /\ pre[p].creates \in BOOLEAN
      BY <3>1 DEF Reconciliation
    <3> QED
      BY <3>1, <3>2, <3>3 DEF CallFine, PodFine
  <2>3. /\ Range(feed.cluster) \subseteq Clusters
        /\ Range(feed.archives) \subseteq [ArchiveNames -> Definitions \cup {NoArchive}]
        /\ Range(feed.role) \subseteq Roles(ArchiveNames) \cup {NoRole}
        /\ Range(feed.binding) \subseteq BOOLEAN
    BY <2>1 DEF Kinds, Versions
  <2> QED
    BY <1>1, <2>2, <2>3 DEF TypeOK, LimitInv
<1> QED
  BY <1>1, InitInv, NextInv, InitFine, NextFine, InitLimit, NextLimit, PTL DEF Spec
=============================================================================
