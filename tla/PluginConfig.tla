--------------------------- MODULE PluginConfig ---------------------------
(***************************************************************************)
(* What the plugin reads out of a Cluster: the Archives it refers to, the  *)
(* stanzas, and what the operator may do about them.  A Cluster is         *)
(*   name, plugins (the entries of .spec.plugins, in order), recovery (the *)
(*   source of bootstrap.recovery), replica (the source of .spec.replica)  *)
(*   and external (the plugin entry of each external cluster by its name); *)
(* the empty string stands, as in the code, for whatever is not given.     *)
(***************************************************************************)
EXTENDS Integers, FiniteSetsExt

CONSTANT PluginName  \* metadata.PluginName

NoParameters == <<>>
NoPlugin == [name |-> "", enabled |-> FALSE, parameters |-> NoParameters]

Parameter(plugin, key) ==
    IF key \in DOMAIN plugin.parameters THEN plugin.parameters[key] ELSE ""

\* The entry a loop over the plugins ends with when each one that passes replaces the last.
LastPlugin(cluster, passing) ==
    IF passing = {} THEN NoPlugin ELSE cluster.plugins[Max(passing)]

\* The entry that names the Archive need not be enabled; the one that names the stanza must.
NewPlugin(cluster) ==
    LastPlugin(cluster, {i \in DOMAIN cluster.plugins : cluster.plugins[i].name = PluginName})

NamesStanza(plugin) ==
    plugin.enabled /\ plugin.name = PluginName /\ "stanza" \in DOMAIN plugin.parameters

Stanza(cluster) ==
    LET plugin == LastPlugin(cluster, {i \in DOMAIN cluster.plugins :
                                         NamesStanza(cluster.plugins[i])})
    IN  IF plugin = NoPlugin THEN cluster.name ELSE plugin.parameters["stanza"]

ExternalPlugin(cluster, source) ==
    IF source \in DOMAIN cluster.external THEN cluster.external[source] ELSE NoPlugin

getRecoverySourcePlugin(cluster) == ExternalPlugin(cluster, cluster.recovery)
getReplicaSourcePlugin(cluster) == ExternalPlugin(cluster, cluster.replica)

SourceObject(plugin) ==
    IF plugin.name = PluginName THEN Parameter(plugin, "pgbackrestObjectName") ELSE ""

\* Without any parameter, nil in the code, the stanza of the source stays empty.
SourceStanza(cluster, plugin) ==
    IF plugin.name # PluginName \/ DOMAIN plugin.parameters = {} THEN ""
    ELSE IF Parameter(plugin, "stanza") = "" THEN cluster.name
    ELSE Parameter(plugin, "stanza")

NewFromCluster(cluster) ==
    LET recovery == getRecoverySourcePlugin(cluster)
        replica  == getReplicaSourcePlugin(cluster)
    IN  [archive        |-> Parameter(NewPlugin(cluster), "pgbackrestObjectName"),
         stanza         |-> Stanza(cluster),
         recovery       |-> SourceObject(recovery),
         recoveryStanza |-> SourceStanza(cluster, recovery),
         replica        |-> SourceObject(replica),
         replicaStanza  |-> SourceStanza(cluster, replica)]

\* Every one of them has to be found, so that the order of the list does not matter.
GetReferredArchiveObjectsKey(config) == {config.archive, config.recovery, config.replica} \ {""}

\* The source of a replica cluster is no reason to change its pods.
Validate(config) == config.archive # "" \/ config.recovery # ""
=============================================================================
