--------------------------- MODULE ArchivePromise ---------------------------
(***************************************************************************)
(* What continuous archiving promises to PostgreSQL, whatever the plugin   *)
(* does to keep the promise: a WAL file leaves the .ready state only once  *)
(* it is stored, and nothing stored is ever lost.  WalArchive implements   *)
(* it.                                                                     *)
(***************************************************************************)
EXTENDS Naturals

CONSTANT NWal       \* bound: WAL files are 1..NWal, in the order of their names

VARIABLES ready,    \* WAL files with a .ready status file
          done,     \* WAL files with a .done status file
          stored    \* WAL files held by a repository

pvars == <<ready, done, stored>>

Files == 1 .. NWal

PInit == ready = {} /\ done = {} /\ stored = {}

\* PostgreSQL completes a segment.
PProduce(w) ==
    /\ w \notin ready \cup done
    /\ ready' = ready \cup {w}
    /\ UNCHANGED <<done, stored>>

\* A WAL file that PostgreSQL completed is stored.
PStore(w) ==
    /\ w \in ready \cup done
    /\ stored' = stored \cup {w}
    /\ UNCHANGED <<ready, done>>

\* PostgreSQL is told that the WAL file is safe, and may recycle it.
PAcknowledge(w) ==
    /\ w \in ready
    /\ w \in stored
    /\ ready' = ready \ {w}
    /\ done' = done \cup {w}
    /\ UNCHANGED stored

PNext == \E w \in Files : PProduce(w) \/ PStore(w) \/ PAcknowledge(w)

PSafety == PInit /\ [][PNext]_pvars
=============================================================================
