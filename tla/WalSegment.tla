----------------------------- MODULE WalSegment -----------------------------
(***************************************************************************)
(* Names of WAL segments.  A name is the record of its three hexadecimal   *)
(* numbers (timeline, log, segment); the code keeps each in a signed       *)
(* integer, so the upper half of the numbers a name can have is out of its *)
(* reach.  Positions count the segments of the server from 0.              *)
(***************************************************************************)
EXTENDS Integers, Sequences

CONSTANTS
    IntMax,                 \* the greatest signed integer (int32 in the code)
    SegmentSize,            \* wal_segment_size of the server
    DefaultWALSegmentSize   \* the size the code counts with, as no caller passes the server's

ASSUME SegmentAssumption ==
    /\ IntMax \in Nat \ {0}
    /\ \A size \in {SegmentSize, DefaultWALSegmentSize} :
         size \in 1 .. IntMax + 1 /\ (2 * IntMax + 2) % size = 0

\* The numbers 8 hexadecimal digits can have, and the bytes of one log.
FieldMax == 2 * IntMax + 1
LogSize  == FieldMax + 1

Segment(tli, log, seg) == [tli |-> tli, log |-> log, seg |-> seg]

\* The name PostgreSQL gives to the segment at a position.
SegmentAt(tli, pos) ==
    LET perLog == LogSize \div SegmentSize
    IN  Segment(tli, pos \div perLog, pos % perLog)

\* %08X of a negative number has a sign in it: what the code then writes is no name.
IsWALFile(s) == s.tli \in 0 .. FieldMax /\ s.log \in 0 .. FieldMax /\ s.seg \in 0 .. FieldMax

\* SegmentFromName: a number that does not fit in a signed integer is an error.
Parses(s) == s.tli <= IntMax /\ s.log <= IntMax /\ s.seg <= IntMax

\* A signed integer after the greatest is the least.
Increment(n) == IF n = IntMax THEN -IntMax - 1 ELSE n + 1

\* WalSegmentsPerFile is the number of the last segment of a log, by the default size.
WalSegmentsPerFile == FieldMax \div DefaultWALSegmentSize

\* Mutant: the last segment of a log is left out.
SkipLastSegment(s) ==
    LET seg == Increment(s.seg)
    IN  IF seg >= WalSegmentsPerFile THEN Segment(s.tli, Increment(s.log), 0)
        ELSE [s EXCEPT !.seg = seg]

\* The step of the loop of NextSegments.
NextSegment(s) ==
    LET seg == Increment(s.seg)
    IN  IF seg > WalSegmentsPerFile THEN Segment(s.tli, Increment(s.log), 0)
        ELSE [s EXCEPT !.seg = seg]

\* NextSegments: the segment and those after it.
NextSegments(s, size) ==
    LET nth[i \in 1 .. size] == IF i = 1 THEN s ELSE NextSegment(nth[i - 1])
    IN  nth

\* gatherWALFilesToRestore of a segment, without a promotion token (WalRestore has the
\* rest): only a name that parses is prefetched from.  It knows nothing of the server's
\* segment size.
GatherWALFiles(name, parallel) ==
    IF Parses(name) THEN NextSegments(name, parallel) ELSE <<name>>
=============================================================================
