--------------------------- MODULE ArchiveAccess --------------------------
(***************************************************************************)
(* The two ends of the access to an Archive and its secrets: the rules the *)
(* operator writes in the role of the cluster, and the reads of the        *)
(* sidecar that runs under that role.  An Archive is a set of repositories *)
(* and the environment it adds to the sidecar; NoSecret is a missing       *)
(* reference.                                                              *)
(***************************************************************************)
EXTENDS FiniteSets

CONSTANTS Secrets, NoSecret

ASSUME NoSecretAssumption == NoSecret \notin Secrets

References == Secrets \cup {NoSecret}

Repositories ==
    [aws : BOOLEAN, keyType : {"shared", "auto", "web-id"},
     accessKeyId : References, secretAccessKey : References,
     endpointCA : References, encrypted : BOOLEAN, encryptionKey : References]

CollectSecretNamesFromCredentials(repo) ==
    IF repo.aws THEN {repo.accessKeyId, repo.secretAccessKey} \ {NoSecret} ELSE {}

\* Mutant: the key of an encrypted repository is forgotten.
CollectsOnlyTheCA(repo) == {repo.endpointCA} \ {NoSecret}

CollectSecretNamesFromRepository(repo) == {repo.endpointCA, repo.encryptionKey} \ {NoSecret}

\* The names listed in the two rules of a role, for Archives given with their names.
BuildRole(objects) ==
    [archives |-> {object.name : object \in objects},
     secrets  |-> UNION {UNION {CollectSecretNamesFromCredentials(repo)
                                  \cup CollectSecretNamesFromRepository(repo) :
                                repo \in object.repositories} : object \in objects}]

Roles(Names) == [archives : SUBSET Names, secrets : SUBSET Secrets]

-----------------------------------------------------------------------------
\* Keys that are not shared are not looked up; a missing reference fails the command.
AWSReads(repo) ==
    IF repo.aws /\ repo.keyType = "shared" THEN {repo.accessKeyId, repo.secretAccessKey} ELSE {}

EncryptionReads(repo) == IF repo.encrypted THEN {repo.encryptionKey} ELSE {}

\* What a backup or a restore reads before it starts pgbackrest, if no read fails.
CredentialReads(object) ==
    UNION {({repo.endpointCA} \cup AWSReads(repo) \cup EncryptionReads(repo)) \ {NoSecret} :
             repo \in object.repositories}

\* A rule of a role: with the names it lists, or, if it lists none, with any name.
Grants(names, name) == names = {} \/ name \in names

\* The role lets the sidecar read this Archive and all it needs of its secrets.
Allows(role, object) ==
    /\ Grants(role.archives, object.name)
    /\ \A secret \in CredentialReads(object) : Grants(role.secrets, secret)
=============================================================================
