------------------------------ MODULE PodSpec -----------------------------
(***************************************************************************)
(* The lifecycle hook as a function of the object CloudNativePG is about   *)
(* to create.  A pod, or the template of a job, is                         *)
(*   kind, role (the label of the job), main (the name of its main         *)
(*   container), env and mounts (of that container), volumes, and          *)
(*   sidecars (the init containers with their env and mounts);             *)
(* an environment is a sequence of names with values.  The hook answers    *)
(* with an error, with nothing, or with a patch to a new specification.    *)
(***************************************************************************)
EXTENDS PluginConfig, Sequences, SequencesExt

Sidecar == "plugin-pgbackrest"
jobRoleFullRecovery == "full-recovery"
pluginVolumeName == "plugins"

\* The pods by the fields the hook reads and writes: Names are those of containers, volumes
\* and mounts, Env the environments.
EnvVars(Names) == [name : Names, value : Names]

PodSpecs(Names, Env) ==
    [kind : Names, role : Names, main : Names, env : Env, mounts : Seq(Names),
     volumes : Seq(Names), sidecars : Seq([name : Names, env : Env, mounts : Seq(Names)])]

Error(pod) == [outcome |-> "error", pod |-> pod]
Nothing(pod) == [outcome |-> "nothing", pod |-> pod]
Patch(pod) == [outcome |-> "patch", pod |-> pod]

-----------------------------------------------------------------------------
Var(name, value) == [name |-> name, value |-> value]

Defaults(cluster) ==
    << Var("NAMESPACE", "namespace"), Var("CLUSTER_NAME", cluster.name),
       Var("SPOOL_DIRECTORY", "/controller/wal-restore-spool") >>

\* Mutant: variables are appended without the look for one of the same name.
AppendsAlways(env, var) == Append(env, var)

MergeVar(env, var) ==
    IF \E i \in DOMAIN env : env[i].name = var.name THEN env ELSE Append(env, var)

SidecarEnv(cluster, mainEnv, additionalEnvs) ==
    LET vars == mainEnv \o Defaults(cluster) \o additionalEnvs
        merged[n \in 0 .. Len(vars)] ==
            IF n = 0 THEN <<>> ELSE LET env == merged[n - 1] IN MergeVar(env, vars[n])
    IN  merged[Len(vars)]

-----------------------------------------------------------------------------
InjectPluginVolumePodSpec(pod, mainContainerName) ==
    IF Contains(pod.volumes, pluginVolumeName) THEN pod
    ELSE [pod EXCEPT !.volumes = Append(@, pluginVolumeName),
                     !.mounts  = IF pod.main = mainContainerName
                                 THEN Append(@, pluginVolumeName) ELSE @]

HasSidecar(pod) == \E i \in DOMAIN pod.sidecars : pod.sidecars[i].name = Sidecar

\* Mutant: the mounts of the main container are taken before the volume is injected.
MountsTooEarly(pod, mainContainerName, env) ==
    LET injected == InjectPluginVolumePodSpec(pod, mainContainerName)
        sidecar  == [name |-> Sidecar, env |-> env, mounts |-> pod.mounts]
    IN  IF pod.main # mainContainerName THEN Error(pod)
        ELSE Patch(IF HasSidecar(pod) THEN injected
                   ELSE [injected EXCEPT !.sidecars = Append(@, sidecar)])

\* Mutant: no look for a sidecar that is there already.
InjectsAgain(pod, mainContainerName, env) ==
    LET injected == InjectPluginVolumePodSpec(pod, mainContainerName)
        sidecar  == [name |-> Sidecar, env |-> env, mounts |-> injected.mounts]
    IN  IF pod.main # mainContainerName THEN Error(pod)
        ELSE Patch([injected EXCEPT !.sidecars = Append(@, sidecar)])

InjectPluginSidecarPodSpec(pod, mainContainerName, env) ==
    LET injected == InjectPluginVolumePodSpec(pod, mainContainerName)
        sidecar  == [name |-> Sidecar, env |-> env, mounts |-> injected.mounts]
    IN  IF pod.main # mainContainerName THEN Error(pod)
        ELSE Patch(IF HasSidecar(pod) THEN injected
                   ELSE [injected EXCEPT !.sidecars = Append(@, sidecar)])

reconcilePodSpec(cluster, pod, mainContainerName, additionalEnvs) ==
    InjectPluginSidecarPodSpec(pod, mainContainerName,
        SidecarEnv(cluster, IF pod.main = mainContainerName THEN pod.env ELSE <<>>,
                   additionalEnvs))

\* A pod of an instance, only when the cluster archives.
reconcilePod(cluster, pod, additionalEnvs) ==
    IF NewFromCluster(cluster).archive = "" THEN Patch(pod)
    ELSE reconcilePodSpec(cluster, pod, "postgres", additionalEnvs)

\* The job of a recovery, only when this plugin is its source.
reconcileJob(cluster, pod, additionalEnvs) ==
    IF \/ getRecoverySourcePlugin(cluster).name # PluginName
       \/ pod.role # jobRoleFullRecovery
    THEN Nothing(pod)
    ELSE reconcilePodSpec(cluster, pod, jobRoleFullRecovery, additionalEnvs)

-----------------------------------------------------------------------------
\* The Archives of the pod: an answer only if each one that is named is found.
getArchives(config) == {config.archive, config.recovery} \ {""}

collectAdditionalEnvs(config, envOf) ==
    LET Envs(name) == IF name = "" THEN <<>> ELSE envOf[name]
    IN  Envs(config.archive) \o Envs(config.recovery)

\* envOf: the environments of the Archives that are found.
LifecycleHook(cluster, pod, envOf) ==
    LET config == NewFromCluster(cluster)
        envs == collectAdditionalEnvs(config, envOf)
    IN  IF ~Validate(config) THEN Nothing(pod)
        ELSE IF ~(getArchives(config) \subseteq DOMAIN envOf) THEN Error(pod)
        ELSE CASE pod.kind = "Pod" -> reconcilePod(cluster, pod, envs)
               [] pod.kind = "Job" -> reconcileJob(cluster, pod, envs)
               [] OTHER            -> Error(pod)
=============================================================================
