---------------------------- MODULE Repository ----------------------------
(***************************************************************************)
(* The repository of a cluster that takes backups, expires them and fails  *)
(* over, as one who recovers from it sees it: which backups are in it, and *)
(* which of them pgbackrest info reports.  Backups shows that the plugin's *)
(* handlers keep a repository like this; Recovery recovers from it.        *)
(*                                                                         *)
(* The clock counts seconds; the cluster writes one WAL segment in each.   *)
(* A position in the WAL, an LSN, is the number of a segment.  The clock   *)
(* only goes on, but LSNs do not: a failover leaves a timeline behind its  *)
(* end when the standby that is promoted had not received all of it.       *)
(***************************************************************************)
EXTENDS Catalog, WalSegment, FiniteSets, FiniteSetsExt, SequencesExt

CONSTANTS
    Retention,      \* retention.full, or 0: everything is kept
    FirstSecond,    \* the clock starts here
    LastSecond,     \* bound: the clock
    MaxBackups,     \* bound: backups
    MaxFailovers    \* bound: failovers

VARIABLES
    clock,
    forks,     \* how each timeline after the first began, and the one before it ended
    stored,    \* the backups in the repository
    info,      \* backup.info: the catalog that pgbackrest info reports
    taken      \* history: every backup that was stored

repositoryVars == <<clock, forks, stored, info, taken>>

Timeline == Len(forks) + 1

Ids == 1 .. MaxBackups
Seconds == 0 .. LastSecond
LSNs == 0 .. LastSecond
Timelines == 1 .. MaxFailovers + 1

\* The second of a failover, and the LSN at which the new timeline begins.  Its history
\* has the timelines that lead to it, with the LSN at which each was left.
Forks == [at: Seconds, lsn: LSNs, history: UNION {[S -> LSNs] : S \in SUBSET Timelines}]

BackupRecords == [id: Ids, name: Seconds, start: Seconds, stop: Seconds, lsn: LSNs,
                  wal: [tli: Timelines, log: 0 .. FieldMax, seg: 0 .. FieldMax]]

ASSUME RepositoryAssumption ==
    /\ Retention \in Nat
    /\ LastSecond \in Nat /\ FirstSecond \in 1 .. LastSecond
    /\ LastSecond < LogSize * (LogSize \div SegmentSize)  \* positions end with the last log
    /\ NoBackup \notin BackupRecords
    /\ MaxBackups \in Nat /\ MaxFailovers \in Nat

\* The seconds at which a timeline began and ended.
BeginOf(tli) == IF tli = 1 THEN FirstSecond ELSE forks[tli - 1].at
EndOf(tli) == IF tli = Timeline THEN clock ELSE forks[tli].at

\* The LSN at which a timeline began, the one it had reached at a second, and its history.
FirstLSN(tli) == IF tli = 1 THEN FirstSecond ELSE forks[tli - 1].lsn
LSNAt(tli, second) == FirstLSN(tli) + (second - BeginOf(tli))
History(tli) == IF tli = 1 THEN <<>> ELSE forks[tli - 1].history

\* The backup of an ID that was named at one second, started at another and ended.
BackupOf(id, named, start, stop, tli) ==
    [id |-> id, name |-> named, start |-> start, stop |-> stop, lsn |-> LSNAt(tli, stop),
     wal |-> SegmentAt(tli, LSNAt(tli, start))]

\* The backups of a set as the catalog lists them, in the order of their IDs.
Listed(S) ==
    [n \in 1 .. Cardinality(S) |->
        CHOOSE b \in S : Cardinality({c \in S : c.id < b.id}) = n - 1]

\* The newest backups that full retention keeps.
Kept(S) ==
    IF Retention = 0 THEN S
    ELSE {b \in S : Cardinality({c \in S : c.id > b.id}) < Retention}

RepositoryInit ==
    /\ clock = FirstSecond /\ forks = <<>>
    /\ stored = {} /\ info = <<>> /\ taken = {}

Tick ==
    /\ clock < LastSecond
    /\ clock' = clock + 1
    /\ UNCHANGED <<forks, stored, info, taken>>

\* A failover: a standby is promoted that follows a timeline, up to what it has of it.
Fork ==
    /\ Len(forks) < MaxFailovers
    /\ \E tli \in 1 .. Timeline : \E lsn \in FirstLSN(tli) .. LSNAt(tli, EndOf(tli)) :
         forks' = Append(forks,
            [at |-> clock, lsn |-> lsn,
             history |-> [t \in DOMAIN History(tli) \cup {tli} |->
                             IF t = tli THEN lsn ELSE History(tli)[t]]])
    /\ UNCHANGED <<clock, stored, info, taken>>

\* A backup is stored: it lies on one timeline, and backups follow each other in the order
\* of their labels.  The catalog may forget what was stored while it was taken, and
\* report again what was expired.
Store ==
    \E id \in Ids, tli \in 1 .. Timeline : \E start, stop \in BeginOf(tli) .. EndOf(tli) :
    \E named \in FirstSecond .. start, S \in SUBSET {c \in taken : c.id < id} :
        LET b == BackupOf(id, named, start, stop, tli) IN
        /\ start <= stop
        /\ \A c \in taken : \/ c.id < id /\ c.stop <= start
                            \/ id < c.id /\ stop <= c.start
        /\ stored' = stored \cup {b} /\ taken' = taken \cup {b}
        /\ info' = Listed(S \cup {b})
        /\ UNCHANGED <<clock, forks>>

Expire ==
    /\ stored' = Kept(stored) /\ info' = Listed(Kept(stored))
    /\ UNCHANGED <<clock, forks, taken>>

RepositoryNext == Tick \/ Fork \/ Expire \/ Store

RepositorySpec == RepositoryInit /\ [][RepositoryNext]_repositoryVars
=============================================================================
