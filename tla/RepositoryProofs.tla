-------------------------- MODULE RepositoryProofs --------------------------
(***************************************************************************)
(* Proofs about Repository, for any number of backups and failovers, each  *)
(* wherever the standby had got to: each backup lies on one timeline, backups follow each other in the order of  *)
(* their IDs, and the catalog lists some of them in that order.            *)
(***************************************************************************)
EXTENDS Repository, NumberFacts

ClockInv ==
    /\ clock \in FirstSecond .. LastSecond
    /\ forks \in Seq(Forks) /\ Len(forks) <= MaxFailovers
    /\ \A t \in DOMAIN forks :
         /\ forks[t].at <= clock /\ forks[t].lsn <= forks[t].at
         /\ DOMAIN forks[t].history \subseteq 1 .. t

\* A backup that was stored ran from its start to its stop on one timeline.
Whole(b) ==
    /\ b \in BackupRecords
    /\ b.start \in FirstSecond .. b.stop
    /\ b.wal.tli \in 1 .. Timeline
    /\ b.start \in FirstSecond .. b.stop
    /\ BeginOf(b.wal.tli) <= b.start /\ b.stop <= EndOf(b.wal.tli)
    /\ b.wal = SegmentAt(b.wal.tli, LSNAt(b.wal.tli, b.start))
    /\ b.lsn = LSNAt(b.wal.tli, b.stop)

OneAfterAnother ==
    \A b, c \in taken : /\ b.id = c.id => b = c
                        /\ b.id < c.id => b.stop <= c.start

InOrder(cat) == \A i, j \in DOMAIN cat : i < j => cat[i].id < cat[j].id

RepositoryInv ==
    /\ ClockInv
    /\ \A b \in taken : Whole(b)
    /\ OneAfterAnother
    /\ stored \subseteq taken
    /\ info \in Seq(taken) /\ InOrder(info)

\* Expiry takes backups away and adds none.
LEMMA KeptIsPart == ASSUME NEW S PROVE Kept(S) \subseteq S
BY DEF Kept

\* The last, and the first, of some places of a catalog are among them.
LEMMA PlacesHaveEnds ==
    ASSUME NEW S, NEW cat \in Seq(S), NEW places \in SUBSET DOMAIN cat, places # {}
    PROVE  /\ \E i \in places : LastOf(cat, places) = cat[i] /\ \A j \in places : j <= i
           /\ \E i \in places : FirstOf(cat, places) = cat[i]
<1>1. places \in SUBSET Nat /\ Len(cat) \in Nat /\ \A i \in places : i <= Len(cat)
  OBVIOUS
<1>2. \E i \in places : \A j \in places : j <= i
  BY <1>1, GreatestNumber
<1>3. \E i \in places : \A j \in places : i <= j
  BY <1>1, LeastNumber
<1> QED
  BY <1>2, <1>3 DEF LastOf, FirstOf

\* The catalog lists each backup of a set once, in the order of the IDs.
LEMMA ListedInOrder ==
    ASSUME NEW S \in SUBSET BackupRecords, \A b, c \in S : b.id = c.id => b = c
    PROVE  Listed(S) \in Seq(S) /\ Range(Listed(S)) = S /\ InOrder(Listed(S))
<1> DEFINE num == [b \in S |-> b.id]
<1>1. \A b \in S : b.id \in Ids /\ Ids \subseteq Nat /\ num[b] = b.id
  BY DEF BackupRecords, Ids
<1>2. num \in [S -> Nat] /\ num \in [S -> Ids] /\ \A b, c \in S : num[b] = num[c] => b = c
  BY <1>1
<1> HIDE DEF num
<1>3. IsFiniteSet(S)
  <2>1. IsFiniteSet(Ids)
    BY RepositoryAssumption, FS_Interval DEF Ids
  <2>2. num \in Injection(S, Ids)
    BY <1>2 DEF Injection, IsInjective
  <2> QED
    BY <2>1, <2>2, FS_Injection
<1> DEFINE Size == Cardinality(S)
           list == Listed(S)
           Below(b) == Lower(S, num, b)
           rank == [b \in S |-> Cardinality(Below(b))]
<1>4. Size \in Nat
  BY <1>3, FS_CardinalityType
<1>5. /\ \A b \in S : rank[b] = Cardinality({c \in S : c.id < b.id}) /\ rank[b] \in 0 .. Size - 1
      /\ \A b, c \in S : rank[b] < rank[c] <=> num[b] < num[c]
      /\ \A n \in 1 .. Size : \E b \in S : rank[b] = n - 1
  <2>1. \A b \in S : {c \in S : c.id < b.id} = Below(b)
    BY <1>1 DEF Lower
  <2>2. /\ \A b \in S : Cardinality(Below(b)) \in 0 .. Size - 1
        /\ \A b, c \in S : Cardinality(Below(b)) < Cardinality(Below(c)) <=> num[b] < num[c]
        /\ \A n \in 1 .. Size : \E b \in S : Cardinality(Below(b)) = n - 1
    BY <1>2, <1>3, Ranks
  <2>3. \A b \in S : rank[b] = Cardinality(Below(b))
    OBVIOUS
  <2> HIDE DEF rank, Below, Size
  <2> QED
    BY <2>1, <2>2, <2>3
<1>6. rank \in [S -> 0 .. Size - 1]
  BY <1>5
<1>7. list \in [1 .. Size -> S] /\ \A n \in 1 .. Size : rank[list[n]] = n - 1
  <2> DEFINE Place(n) == CHOOSE b \in S : Cardinality({c \in S : c.id < b.id}) = n - 1
  <2>1. list = [n \in 1 .. Size |-> Place(n)]
    BY DEF Listed
  <2> HIDE DEF rank, Size, list
  <2>2. \A n \in 1 .. Size : Place(n) \in S /\ rank[Place(n)] = n - 1
    <3> TAKE n \in 1 .. Size
    <3>1. PICK b \in S : Cardinality({c \in S : c.id < b.id}) = n - 1
      BY <1>5
    <3>2. Place(n) \in S /\ Cardinality({c \in S : c.id < Place(n).id}) = n - 1
      BY <3>1
    <3> HIDE DEF Place
    <3> QED
      BY <1>5, <3>2
  <2> HIDE DEF Place
  <2> QED
    BY <2>1, <2>2
<1>8. /\ list \in Seq(S)
      /\ \A b \in S : \E i \in DOMAIN list : list[i] = b
      /\ \A i, j \in DOMAIN list : i < j => num[list[i]] < num[list[j]]
  <2> HIDE DEF list, rank, Size
  <2>1. ListsInOrder(list, S, num)
    BY <1>2, <1>4, <1>5, <1>6, <1>7, Listing
  <2> QED
    BY <2>1 DEF ListsInOrder
<1> HIDE DEF list
<1>9. \A i \in DOMAIN list : list[i] \in S
  BY <1>8
<1>10. Range(list) = S
  BY <1>8, <1>9 DEF Range
<1>11. InOrder(list)
  BY <1>1, <1>8, <1>9 DEF InOrder
<1> QED
  BY <1>8, <1>10, <1>11 DEF list

\* The numbers of a segment fit in its name, as long as positions do.
LEMMA SegmentFits ==
    ASSUME NEW pos \in LSNs, NEW tli \in Timelines
    PROVE  SegmentAt(tli, pos) \in [tli: Timelines, log: 0 .. FieldMax, seg: 0 .. FieldMax]
<1> DEFINE perLog == LogSize \div SegmentSize
<1>1. LogSize \in Nat \ {0} /\ SegmentSize \in Nat \ {0} /\ LogSize % SegmentSize = 0
      /\ FieldMax = LogSize - 1 /\ LogSize = 2 * IntMax + 2
  BY SegmentAssumption DEF LogSize, FieldMax
<1>2. perLog \in Nat \ {0} /\ LogSize = SegmentSize * perLog
  BY <1>1, LastRow
<1>3. perLog <= LogSize
  <2> HIDE DEF perLog
  <2>1. perLog * 1 <= perLog * SegmentSize
    BY <1>1, <1>2, Multiples
  <2> QED
    BY <1>1, <1>2, <2>1
<1>4. pos \in Nat /\ pos < LogSize * perLog
  <2>1. LastSecond \in Nat /\ LastSecond < LogSize * perLog
    BY RepositoryAssumption
  <2> HIDE DEF perLog
  <2>2. LogSize * perLog \in Nat
    BY <1>1, <1>2
  <2> QED
    BY <2>1, <2>2 DEF LSNs
<1> SUFFICES pos \div perLog \in 0 .. FieldMax /\ pos % perLog \in 0 .. FieldMax
  BY DEF SegmentAt, Segment
<1> HIDE DEF perLog
<1>5. pos \div perLog < LogSize
  BY <1>1, <1>2, <1>4, RowsBelow
<1>6. pos \div perLog \in Nat /\ pos % perLog \in 0 .. perLog - 1
  BY <1>2, <1>4, Division
<1> QED
  BY <1>1, <1>2, <1>3, <1>5, <1>6

LEMMA RepositoryStarts == RepositoryInit => RepositoryInv
<1> SUFFICES ASSUME RepositoryInit PROVE RepositoryInv
  OBVIOUS
<1>1. ClockInv
  BY RepositoryAssumption DEF RepositoryInit, ClockInv
<1>2. info \in Seq(taken) /\ InOrder(info)
  BY DEF RepositoryInit, InOrder
<1> QED
  BY <1>1, <1>2 DEF RepositoryInit, RepositoryInv, OneAfterAnother

\* A failover was in the past, at an LSN below its second, and has earlier timelines in
\* its history.
LEMMA ForksAre ==
    ASSUME ClockInv
    PROVE  /\ clock \in FirstSecond .. LastSecond /\ FirstSecond \in Nat \ {0} /\ LastSecond \in Nat
           /\ Len(forks) \in Nat /\ Len(forks) <= MaxFailovers /\ MaxFailovers \in Nat
           /\ \A t \in 1 .. Len(forks) :
                /\ forks[t] \in Forks /\ forks[t].at \in Nat /\ forks[t].at <= clock
                /\ forks[t].lsn \in Nat /\ forks[t].lsn <= forks[t].at
                /\ DOMAIN forks[t].history \subseteq 1 .. t
<1>1. clock \in FirstSecond .. LastSecond /\ FirstSecond \in Nat \ {0} /\ LastSecond \in Nat
      /\ Len(forks) \in Nat /\ Len(forks) <= MaxFailovers /\ MaxFailovers \in Nat
  BY RepositoryAssumption DEF ClockInv
<1>2. ASSUME NEW t \in 1 .. Len(forks)
      PROVE  /\ forks[t] \in Forks /\ forks[t].at \in Nat /\ forks[t].at <= clock
             /\ forks[t].lsn \in Nat /\ forks[t].lsn <= forks[t].at
             /\ DOMAIN forks[t].history \subseteq 1 .. t
  <2>1. forks[t] \in Forks
    BY DEF ClockInv
  <2>2. forks[t].at \in Seconds /\ forks[t].lsn \in LSNs
    BY <2>1 DEF Forks
  <2>3. forks[t].at \in Nat /\ forks[t].lsn \in Nat
    BY <1>1, <2>2 DEF Seconds, LSNs
  <2> QED
    BY <2>1, <2>3 DEF ClockInv
<1> QED
  BY <1>1, <1>2

\* The seconds at which timelines began and ended, and their LSNs, are in the past.
LEMMA TimelinesAre ==
    ASSUME ClockInv
    PROVE  /\ clock \in Nat /\ Timeline \in Nat \ {0} /\ Timeline \in Timelines
           /\ \A t \in 1 .. Timeline : /\ BeginOf(t) \in Nat /\ EndOf(t) \in Nat
                                       /\ EndOf(t) <= clock
                                       /\ FirstLSN(t) \in Nat /\ FirstLSN(t) <= BeginOf(t)
           /\ BeginOf(Timeline) <= clock /\ EndOf(Timeline) = clock
           /\ FirstSecond \in Nat \ {0} /\ FirstSecond <= clock /\ clock \in Seconds
<1>1. /\ clock \in FirstSecond .. LastSecond /\ FirstSecond \in Nat \ {0} /\ LastSecond \in Nat
      /\ Len(forks) \in Nat /\ Len(forks) <= MaxFailovers /\ MaxFailovers \in Nat
      /\ \A t \in 1 .. Len(forks) : /\ forks[t].at \in Nat /\ forks[t].at <= clock
                                    /\ forks[t].lsn \in Nat /\ forks[t].lsn <= forks[t].at
  BY ForksAre
<1> QED
  BY <1>1 DEF Timeline, Timelines, BeginOf, EndOf, FirstLSN, Seconds

\* The LSN of a timeline at a second is no greater than the second.
LEMMA LSNsAre ==
    ASSUME ClockInv, NEW t \in 1 .. Timeline, NEW second \in BeginOf(t) .. EndOf(t)
    PROVE  /\ LSNAt(t, second) \in Nat /\ LSNAt(t, second) <= second /\ LSNAt(t, second) \in LSNs
           /\ LSNAt(t, second) >= FirstLSN(t)
<1>1. /\ BeginOf(t) \in Nat /\ EndOf(t) \in Nat /\ EndOf(t) <= clock /\ clock \in Nat
      /\ FirstLSN(t) \in Nat /\ FirstLSN(t) <= BeginOf(t)
      /\ clock <= LastSecond /\ LastSecond \in Nat
  BY TimelinesAre, ForksAre
<1> QED
  BY <1>1 DEF LSNAt, LSNs

LEMMA TimelinesStay ==
    ASSUME ClockInv, Tick \/ Fork
    PROVE  \A t \in 1 .. Timeline : /\ BeginOf(t)' = BeginOf(t) /\ FirstLSN(t)' = FirstLSN(t)
                                    /\ EndOf(t) <= EndOf(t)' /\ EndOf(t)' \in Nat
                                    /\ t \in 1 .. Timeline'
<1>1. /\ clock \in Nat /\ FirstSecond \in Nat /\ Len(forks) \in Nat /\ forks \in Seq(Forks)
      /\ \A t \in 1 .. Len(forks) : forks[t].at \in Nat /\ forks[t].at <= clock
  BY ForksAre, TimelinesAre DEF ClockInv
<1>2. CASE Tick
  BY <1>1, <1>2 DEF Tick, Timeline, EndOf, BeginOf, FirstLSN
<1>3. CASE Fork
  <2>1. PICK f : clock' = clock /\ forks' = Append(forks, f) /\ f.at = clock
    <3>1. PICK lsn, h : clock' = clock /\ forks' = Append(forks, [at |-> clock, lsn |-> lsn, history |-> h])
      BY <1>3 DEF Fork
    <3>2. [at |-> clock, lsn |-> lsn, history |-> h].at = clock
      OBVIOUS
    <3> QED
      BY <3>1, <3>2
  <2>2. Len(forks') = Len(forks) + 1 /\ forks'[Len(forks) + 1] = f
        /\ \A t \in 1 .. Len(forks) : forks'[t] = forks[t]
    BY <1>1, <2>1
  <2> QED
    BY <1>1, <2>1, <2>2 DEF Timeline, EndOf, BeginOf, FirstLSN
<1> QED
  BY <1>2, <1>3

LEMMA ForkCounts ==
    ASSUME ClockInv, Fork
    PROVE  Timeline' = Timeline + 1 /\ clock' = clock
<1>1. PICK f : clock' = clock /\ forks' = Append(forks, f)
  BY DEF Fork
<1>2. forks \in Seq(Forks)
  BY DEF ClockInv
<1> QED
  BY <1>1, <1>2 DEF Timeline

\* A failover leaves a timeline at one of its LSNs; that and what led there is the history
\* of the new one.
LEMMA ForkIsFork ==
    ASSUME ClockInv, Fork
    PROVE  ClockInv'
<1>1. /\ clock \in FirstSecond .. LastSecond /\ clock \in Nat /\ LastSecond \in Nat
      /\ FirstSecond \in Nat
      /\ Len(forks) \in Nat /\ forks \in Seq(Forks) /\ Len(forks) < MaxFailovers /\ MaxFailovers \in Nat
  BY ForksAre, TimelinesAre DEF ClockInv, Fork
<1>2. PICK tli \in 1 .. Timeline : \E lsn \in FirstLSN(tli) .. LSNAt(tli, EndOf(tli)) :
        forks' = Append(forks,
            [at |-> clock, lsn |-> lsn,
             history |-> [t \in DOMAIN History(tli) \cup {tli} |->
                             IF t = tli THEN lsn ELSE History(tli)[t]]])
  BY DEF Fork
<1>3. PICK lsn \in FirstLSN(tli) .. LSNAt(tli, EndOf(tli)) :
        forks' = Append(forks,
            [at |-> clock, lsn |-> lsn,
             history |-> [t \in DOMAIN History(tli) \cup {tli} |->
                             IF t = tli THEN lsn ELSE History(tli)[t]]])
  BY <1>2
<1> DEFINE h == [t \in DOMAIN History(tli) \cup {tli} |-> IF t = tli THEN lsn ELSE History(tli)[t]]
           f == [at |-> clock, lsn |-> lsn, history |-> h]
<1>4. lsn \in LSNs /\ lsn <= clock
  <2>1. /\ FirstLSN(tli) \in Nat /\ EndOf(tli) \in Nat /\ EndOf(tli) <= clock
        /\ FirstLSN(tli) <= BeginOf(tli) /\ BeginOf(tli) \in Nat
    BY TimelinesAre
  <2>2. LSNAt(tli, EndOf(tli)) \in Int /\ LSNAt(tli, EndOf(tli)) <= EndOf(tli)
    BY <2>1 DEF LSNAt
  <2>3. lsn \in Nat /\ lsn <= EndOf(tli)
    BY <2>1, <2>2
  <2> QED
    BY <1>1, <2>1, <2>3 DEF LSNs
<1>5. /\ DOMAIN History(tli) \subseteq 1 .. Len(forks)
      /\ \A t \in DOMAIN History(tli) : History(tli)[t] \in LSNs
      /\ tli \in 1 .. Len(forks) + 1
  <2>1. tli \in 1 .. Len(forks) + 1
    BY DEF Timeline
  <2>2. CASE tli = 1
    BY <2>1, <2>2 DEF History
  <2>3. CASE tli # 1
    <3>1. tli - 1 \in 1 .. Len(forks)
      BY <1>1, <2>1, <2>3
    <3>2. forks[tli - 1] \in Forks /\ DOMAIN forks[tli - 1].history \subseteq 1 .. tli - 1
      BY <3>1, ForksAre
    <3>3. forks[tli - 1].history \in UNION {[S -> LSNs] : S \in SUBSET Timelines}
      BY <3>2 DEF Forks
    <3>4. PICK S \in SUBSET Timelines : forks[tli - 1].history \in [S -> LSNs]
      BY <3>3
    <3> QED
      BY <1>1, <2>1, <2>3, <3>1, <3>2, <3>4 DEF History
  <2> QED
    BY <2>1, <2>2, <2>3
<1>6. DOMAIN h \subseteq 1 .. Len(forks) + 1 /\ h \in [DOMAIN h -> LSNs]
  BY <1>1, <1>4, <1>5
<1>7. f \in Forks
  <2>1. DOMAIN h \in SUBSET Timelines
    <3> HIDE DEF h
    <3> QED
      BY <1>1, <1>6 DEF Timelines
  <2>2. clock \in Seconds
    BY <1>1 DEF Seconds
  <2> HIDE DEF h, Seconds, LSNs, Timelines
  <2>3. h \in UNION {[S -> LSNs] : S \in SUBSET Timelines}
    BY <1>6, <2>1
  <2> QED
    BY <1>4, <2>2, <2>3 DEF Forks
<1>8. forks' = Append(forks, f) /\ clock' = clock
  BY <1>3 DEF Fork
<1>9. f.at = clock /\ f.lsn = lsn /\ DOMAIN f.history \subseteq 1 .. Len(forks) + 1
  BY <1>6
<1> HIDE DEF f, h
<1>10. /\ forks' \in Seq(Forks) /\ Len(forks') = Len(forks) + 1 /\ forks'[Len(forks) + 1] = f
      /\ \A t \in 1 .. Len(forks) : forks'[t] = forks[t]
  BY <1>1, <1>7, <1>8
<1>11. ASSUME NEW t \in DOMAIN forks'
       PROVE  /\ forks'[t].at <= clock' /\ forks'[t].lsn <= forks'[t].at
              /\ DOMAIN forks'[t].history \subseteq 1 .. t
  <2>1. t \in 1 .. Len(forks) \/ t = Len(forks) + 1
    BY <1>1, <1>10
  <2>2. CASE t \in 1 .. Len(forks)
    BY <1>8, <1>10, <2>2, ForksAre
  <2>3. CASE t = Len(forks) + 1
    BY <1>1, <1>4, <1>8, <1>9, <1>10, <2>3
  <2> QED
    BY <2>1, <2>2, <2>3
<1> QED
  BY <1>1, <1>8, <1>10, <1>11 DEF ClockInv

\* The time goes on and timelines end: what was stored stays whole.
LEMMA StaysWhole ==
    ASSUME RepositoryInv, Tick \/ Fork \/ UNCHANGED <<clock, forks>>
    PROVE  ClockInv' /\ \A b : Whole(b) => Whole(b)'
<1>1. ClockInv
  BY DEF RepositoryInv
<1>2. CASE Tick \/ Fork
  <2>1. ClockInv'
    <3>1. CASE Tick
      <4>1. forks' = forks /\ clock' = clock + 1 /\ clock' \in FirstSecond .. LastSecond
        BY <1>1, <3>1, ForksAre DEF Tick
      <4>2. \A t \in DOMAIN forks : forks[t].at <= clock'
        BY <1>1, <4>1, ForksAre DEF ClockInv
      <4> QED
        BY <1>1, <4>1, <4>2 DEF ClockInv
    <3> QED
      BY <1>1, <1>2, <3>1, ForkIsFork
  <2>2. ASSUME NEW b, Whole(b) PROVE Whole(b)'
    <3>1. b.stop \in Nat /\ b.wal.tli \in 1 .. Timeline
      BY <2>2 DEF Whole, BackupRecords, Seconds
    <3>2. PICK t \in 1 .. Timeline : t = b.wal.tli
      BY <3>1
    <3>3. /\ BeginOf(t)' = BeginOf(t) /\ FirstLSN(t)' = FirstLSN(t)
          /\ EndOf(t) <= EndOf(t)' /\ EndOf(t)' \in Nat /\ EndOf(t) \in Nat /\ t \in 1 .. Timeline'
      BY <1>1, <1>2, TimelinesStay, TimelinesAre
    <3>4. \A s : LSNAt(t, s)' = LSNAt(t, s)
      BY <3>3 DEF LSNAt
    <3>5. b.stop <= EndOf(t)'
      BY <2>2, <3>1, <3>2, <3>3 DEF Whole
    <3> QED
      BY <2>2, <3>2, <3>3, <3>4, <3>5 DEF Whole
  <2> QED
    BY <2>1, <2>2
<1>3. CASE UNCHANGED <<clock, forks>>
  BY <1>1, <1>3 DEF ClockInv, Whole, EndOf, BeginOf, FirstLSN, LSNAt, Timeline
<1> QED
  BY <1>2, <1>3

\* A backup that is stored is whole, and has its place among those that were.
LEMMA StoreKeeps ==
    ASSUME RepositoryInv, Store
    PROVE  RepositoryInv'
<1>1. PICK id \in Ids, tli \in 1 .. Timeline : \E start, stop \in BeginOf(tli) .. EndOf(tli) :
      \E named \in FirstSecond .. start, S \in SUBSET {c \in taken : c.id < id} :
        LET b == BackupOf(id, named, start, stop, tli) IN
        /\ start <= stop
        /\ \A c \in taken : \/ c.id < id /\ c.stop <= start
                            \/ id < c.id /\ stop <= c.start
        /\ stored' = stored \cup {b} /\ taken' = taken \cup {b}
        /\ info' = Listed(S \cup {b})
        /\ UNCHANGED <<clock, forks>>
  BY DEF Store
<1>2. PICK start \in BeginOf(tli) .. EndOf(tli), stop \in BeginOf(tli) .. EndOf(tli) :
      \E named \in FirstSecond .. start, S \in SUBSET {c \in taken : c.id < id} :
        LET b == BackupOf(id, named, start, stop, tli) IN
        /\ start <= stop
        /\ \A c \in taken : \/ c.id < id /\ c.stop <= start
                            \/ id < c.id /\ stop <= c.start
        /\ stored' = stored \cup {b} /\ taken' = taken \cup {b}
        /\ info' = Listed(S \cup {b})
        /\ UNCHANGED <<clock, forks>>
  BY <1>1
<1>3. PICK named \in FirstSecond .. start, S \in SUBSET {c \in taken : c.id < id} :
        LET b == BackupOf(id, named, start, stop, tli) IN
        /\ start <= stop
        /\ \A c \in taken : \/ c.id < id /\ c.stop <= start
                            \/ id < c.id /\ stop <= c.start
        /\ stored' = stored \cup {b} /\ taken' = taken \cup {b}
        /\ info' = Listed(S \cup {b})
        /\ UNCHANGED <<clock, forks>>
  BY <1>2
<1> DEFINE b == BackupOf(id, named, start, stop, tli)
<1>4. /\ b.id = id /\ b.start = start /\ b.stop = stop /\ b.lsn = LSNAt(tli, stop)
      /\ b.wal = SegmentAt(tli, LSNAt(tli, start)) /\ b.wal.tli = tli /\ b.name = named
  BY DEF BackupOf, SegmentAt, Segment
<1>5. /\ ClockInv /\ clock \in Nat /\ clock <= LastSecond /\ FirstSecond \in Nat \ {0}
      /\ Len(forks) \in Nat /\ Len(forks) <= MaxFailovers /\ MaxFailovers \in Nat
  BY ForksAre DEF RepositoryInv
<1>6. EndOf(tli) \in Nat /\ EndOf(tli) <= clock /\ BeginOf(tli) \in Nat
      /\ LSNAt(tli, start) \in LSNs /\ LSNAt(tli, stop) \in LSNs
  BY <1>5, TimelinesAre, LSNsAre
<1>7. start \in Seconds /\ stop \in Seconds /\ named \in Seconds /\ tli \in Timelines
      /\ FirstSecond <= start /\ start <= stop /\ stop <= EndOf(tli)
      /\ BeginOf(tli) <= start
  BY <1>3, <1>5, <1>6, RepositoryAssumption DEF Seconds, Timelines, Timeline
<1>8. b \in BackupRecords
  <2>1. SegmentAt(tli, LSNAt(tli, start)) \in [tli: Timelines, log: 0 .. FieldMax, seg: 0 .. FieldMax]
    BY <1>6, <1>7, SegmentFits
  <2> HIDE DEF Seconds, LSNs
  <2> QED
    BY <1>6, <1>7, <2>1 DEF BackupOf, BackupRecords
<1> HIDE DEF b
<1>9. Whole(b)
  BY <1>4, <1>5, <1>6, <1>7, <1>8 DEF Whole
<1>10. ClockInv' /\ \A c \in taken' : Whole(c)'
  <2>1. ClockInv' /\ (\A c : Whole(c) => Whole(c)')
    BY <1>3, StaysWhole
  <2> QED
    BY <1>3, <1>9, <2>1 DEF RepositoryInv, b
<1>11. OneAfterAnother'
  <2>1. \A c \in taken : \/ c.id < id /\ c.stop <= start
                         \/ id < c.id /\ stop <= c.start
    BY <1>3
  <2>4. \A c \in taken : c.id \in Nat
    BY DEF RepositoryInv, Whole, BackupRecords, Ids
  <2>2. id \in Nat
    BY DEF Ids
  <2>3. \A c \in taken' : c \in taken \/ c = b
    BY <1>3 DEF b
  <2> QED
    BY <1>4, <2>1, <2>2, <2>3, <2>4 DEF RepositoryInv, OneAfterAnother
<1>12. stored' \subseteq taken'
  BY <1>3 DEF RepositoryInv
<1>13. info' \in Seq(taken') /\ InOrder(info')
  <2> DEFINE T == S \cup {b}
  <2>1. T \subseteq taken' /\ info' = Listed(T)
    BY <1>3 DEF b
  <2>2. T \in SUBSET BackupRecords /\ (\A c, d \in T : c.id = d.id => c = d)
    <3>1. \A c \in taken' : c \in BackupRecords
      BY <1>10 DEF Whole
    <3> HIDE DEF T
    <3> QED
      BY <1>11, <2>1, <3>1 DEF OneAfterAnother
  <2> HIDE DEF T
  <2>3. Listed(T) \in Seq(T) /\ InOrder(Listed(T))
    BY <2>2, ListedInOrder
  <2> QED
    BY <2>1, <2>3 DEF InOrder
<1> QED
  BY <1>10, <1>11, <1>12, <1>13 DEF RepositoryInv

LEMMA RepositoryKeeps ==
    ASSUME RepositoryInv, [RepositoryNext]_repositoryVars
    PROVE  RepositoryInv'
<1>1. CASE Tick \/ Fork \/ UNCHANGED repositoryVars
  <2>1. UNCHANGED <<stored, info, taken>>
    BY <1>1 DEF Tick, Fork, repositoryVars
  <2>2. ClockInv' /\ \A b : Whole(b) => Whole(b)'
    BY <1>1, StaysWhole DEF repositoryVars
  <2> QED
    BY <2>1, <2>2 DEF RepositoryInv, OneAfterAnother, InOrder
<1>2. CASE Store
  BY <1>2, StoreKeeps
<1>3. CASE Expire
  <2>1. UNCHANGED <<clock, forks, taken>> /\ stored' = Kept(stored) /\ info' = Listed(Kept(stored))
    BY <1>3 DEF Expire
  <2>2. ClockInv' /\ \A b : Whole(b) => Whole(b)'
    BY <2>1, StaysWhole
  <2>3. Kept(stored) \subseteq taken
    BY KeptIsPart DEF RepositoryInv
  <2>4. Listed(Kept(stored)) \in Seq(Kept(stored)) /\ InOrder(Listed(Kept(stored)))
    <3>1. Kept(stored) \in SUBSET BackupRecords
      BY <2>3 DEF RepositoryInv, Whole
    <3>2. \A b, c \in Kept(stored) : b.id = c.id => b = c
      BY <2>3 DEF RepositoryInv, OneAfterAnother
    <3> QED
      BY <3>1, <3>2, ListedInOrder
  <2> QED
    BY <2>1, <2>2, <2>3, <2>4 DEF RepositoryInv, OneAfterAnother, InOrder
<1> QED
  BY <1>1, <1>2, <1>3 DEF RepositoryNext

\* What a recovery can rely on, whatever is stored, expired and failed over.
THEOREM RepositoryHolds == RepositorySpec => []RepositoryInv
<1> QED
  BY RepositoryStarts, RepositoryKeeps, PTL DEF RepositorySpec
=============================================================================
