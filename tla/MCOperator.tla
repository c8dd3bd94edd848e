---------------------------- MODULE MCOperator ----------------------------
(* Instance of Operator for TLC: the Archives, Clusters and pods.          *)
EXTENDS Operator

Repo(id, key, ca, encrypted, cipher) ==
    [aws |-> TRUE, keyType |-> "shared", accessKeyId |-> id, secretAccessKey |-> key,
     endpointCA |-> ca, encrypted |-> encrypted, encryptionKey |-> cipher]

\* A repository without keys, one with shared keys, and one that is encrypted as well and
\* sets the environment of the sidecar.
SomeDefinitions ==
    {[repositories |-> {[Repo(NoSecret, NoSecret, NoSecret, FALSE, NoSecret)
                           EXCEPT !.keyType = "auto"]}, env |-> <<>>],
     [repositories |-> {Repo("s1", "s1", NoSecret, FALSE, NoSecret)}, env |-> <<>>],
     [repositories |-> {Repo("s1", "s1", NoSecret, TRUE, "s2")},
      env |-> <<Var("SPOOL_DIRECTORY", "/elsewhere"), Var("PGDATA", "/elsewhere")>>]}

Entry(name, enabled, object) ==
    [name |-> name, enabled |-> enabled, parameters |-> [pgbackrestObjectName |-> object]]

Ours(object) == Entry(PluginName, TRUE, object)

\* A cluster that archives, and one recovered from the Archive of another.
SomeClusters ==
    {[name |-> "c", plugins |-> <<Entry("another", TRUE, "x"), Ours("a")>>,
      recovery |-> "", replica |-> "", external |-> <<>>],
     [name |-> "c", plugins |-> <<Ours("a")>>, recovery |-> "source", replica |-> "source",
      external |-> [source |-> Ours("b")]]}

Pod(kind, main, volumes) ==
    [kind |-> kind, role |-> IF kind = "Job" THEN main ELSE "", main |-> main,
     env |-> <<Var("PGDATA", "/data"), Var("CLUSTER_NAME", "c")>>,
     mounts |-> <<"pgdata">> \o volumes, volumes |-> <<"pgdata">> \o volumes,
     sidecars |-> <<>>]

\* An instance, one another plugin has seen before, and two jobs.
SomePods ==
    {Pod("Pod", "postgres", <<>>), Pod("Pod", "postgres", <<"plugins">>),
     Pod("Job", jobRoleFullRecovery, <<>>), Pod("Job", "join", <<>>)}

AnyText == STRING
=============================================================================
