-------------------------- MODULE ClientCacheProofs --------------------------
(* Proofs about ClientCache: with any number of goroutines and objects and  *)
(* any time to live an object has one entry, answers never go back in time, *)
(* and none is staler than the time to live and the way of one answer.      *)
EXTENDS ClientCache, TLAPS

HasMux(p) == proc[p].pc \in {"fetch", "store"}

\* The mutex is held from the miss to the end of the call, and by nobody else.
MuxInv == \A p \in Procs : HasMux(p) <=> mux = p

\* A call is about an object; before the look-up it has no slot.
CallInv ==
    \A p \in Procs :
        /\ proc[p].pc # "idle" => proc[p].key \in Keys
        /\ proc[p].pc = "get" => proc[p].slot = 0

NoEntry(k) == \A i \in DOMAIN cachedObjects : cachedObjects[i].key # k

\* While the server is asked the slot stays the one of the only entry.
SlotInv ==
    \A p \in Procs : HasMux(p) =>
        \/ proc[p].slot = 0 /\ NoEntry(proc[p].key)
        \/ /\ proc[p].slot \in DOMAIN cachedObjects
           /\ cachedObjects[proc[p].slot].key = proc[p].key

\* The server has a first version, and no answer is ahead of it.
ServerInv == \A k \in Keys : written[k] # <<>> /\ answer[k] <= Version(k)

\* v is a version of k not older than the last answer, and current since t.
Recent(k, v, t) ==
    /\ v \in 1..Version(k)
    /\ answer[k] <= v
    /\ t <= now
    /\ CurrentSince(k, v, t)

EntryInv ==
    \A i \in DOMAIN cachedObjects :
        LET e == cachedObjects[i]
        IN  Made(e) <= now /\ Recent(e.key, e.ver, Made(e) - CallTicks)

StoreInv ==
    \A p \in Procs : proc[p].pc = "store" =>
        /\ Recent(proc[p].key, proc[p].ver, proc[p].read)
        /\ now <= proc[p].read + CallTicks

Inv ==
    /\ TypeOK
    /\ MuxInv /\ CallInv /\ SlotInv /\ OneEntry
    /\ ServerInv /\ EntryInv /\ StoreInv

USE NoProcAssumption, ClockAssumption

\* Cutting a time to seconds does not move it forward.
LEMMA CutToSeconds ==
    ASSUME NEW t \in Nat
    PROVE  /\ t \div TicksPerSecond \in Nat
           /\ (t \div TicksPerSecond) * TicksPerSecond <= t
BY SMT

\* The start of a second is a time.
LEMMA MadeType == ASSUME NEW e, e.fetchUnixTime \in Nat PROVE Made(e) \in Nat
BY DEF Made

LEMMA InitInv == Init => Inv
BY SMT DEF Init, Inv, TypeOK, Calls, Idle, Entries, MuxInv, HasMux, CallInv, SlotInv, OneEntry,
           ServerInv, EntryInv, StoreInv, NoEntry, Version

\* Steps of the calls that change neither the cache, nor the server, nor the answers.
Local == UNCHANGED <<now, written, live, cachedObjects, answer>>

LEMMA LocalKeeps ==
    ASSUME Inv, Local,
           \A p \in Procs : proc'[p].pc = "store" => proc'[p] = proc[p]
    PROVE  OneEntry' /\ ServerInv' /\ EntryInv' /\ StoreInv'
BY DEF Inv, Local, OneEntry, ServerInv, EntryInv, StoreInv, Recent, CurrentSince, Version, Made

\* A call begins, or gives up.
LEMMA CallStep ==
    ASSUME Inv, NEW p \in Procs, Local,
           mux' = mux, ~HasMux(p),
           NEW c \in Calls, proc' = [proc EXCEPT ![p] = c],
           c.pc \notin {"fetch", "store"},
           c.pc # "idle" => c.key \in Keys,
           c.pc = "get" => c.slot = 0
    PROVE  Inv'
<1> USE DEF Inv, Local
<1>1. TypeOK'
  BY DEF TypeOK
<1>2. proc'[p] = c /\ \A q \in Procs : q # p => proc'[q] = proc[q]
  BY DEF TypeOK
<1>3. MuxInv' /\ CallInv' /\ SlotInv'
  BY <1>2 DEF MuxInv, HasMux, CallInv, SlotInv, NoEntry
<1>4. (OneEntry /\ ServerInv /\ EntryInv /\ StoreInv)'
  BY <1>2, LocalKeeps
<1> QED
  BY <1>1, <1>3, <1>4

LEMMA GetStep ==
    ASSUME Inv, NEW p \in Procs, NEW k \in Keys, Get(p, k) \/ Change(p, k)
    PROVE  Inv'
<1> DEFINE get == [Idle EXCEPT !.pc = "get", !.key = k]
           change == [Idle EXCEPT !.pc = "change", !.key = k]
<1>1. get \in Calls /\ change \in Calls
  BY DEF Calls, Idle
<1>2. Local /\ mux' = mux /\ ~HasMux(p)
  BY DEF Get, Change, Local, HasMux
<1>3. CASE Get(p, k)
  BY <1>1, <1>2, <1>3, CallStep DEF Get, Idle
<1>4. CASE Change(p, k)
  BY <1>1, <1>2, <1>4, CallStep DEF Change, Idle
<1> QED
  BY <1>3, <1>4

LEMMA WriteFailsStep ==
    ASSUME Inv, NEW p \in Procs, WriteFails(p)
    PROVE  Inv'
<1>1. Idle \in Calls
  BY DEF Calls, Idle
<1> QED
  BY <1>1, CallStep DEF WriteFails, Idle, HasMux, Local

\* The entry of the object answers: it is recent, and the only one.
LEMMA GetFromCacheStep ==
    ASSUME Inv, NEW p \in Procs, GetFromCache(p)
    PROVE  Inv'
<1> USE DEF Inv, GetFromCache
<1> DEFINE k == proc[p].key
<1>1. k \in Keys
  BY DEF CallInv
<1>2. PICK i \in DOMAIN cachedObjects :
        /\ cachedObjects[i].key = k
        /\ answer' = [answer EXCEPT ![k] = cachedObjects[i].ver]
  BY DEF IsFirst
<1>3. Recent(k, cachedObjects[i].ver, Made(cachedObjects[i]) - CallTicks)
  BY <1>2 DEF EntryInv
<1>4. TypeOK'
  BY <1>1, <1>2, <1>3 DEF TypeOK, Calls, Recent, Version, Idle
<1>5. MuxInv' /\ CallInv' /\ SlotInv' /\ OneEntry'
  BY DEF TypeOK, MuxInv, MuxFree, HasMux, CallInv, SlotInv, NoEntry, OneEntry, Idle
<1>6. ServerInv'
  BY <1>1, <1>2, <1>3 DEF TypeOK, ServerInv, Recent, Version
<1>7. EntryInv'
  <2> SUFFICES ASSUME NEW j \in DOMAIN cachedObjects
               PROVE  /\ Made(cachedObjects[j]) <= now
                      /\ Recent(cachedObjects[j].key, cachedObjects[j].ver,
                                Made(cachedObjects[j]) - CallTicks)'
    BY DEF EntryInv, Made
  <2>1. cachedObjects[j].key = k => j = i
    BY <1>2 DEF OneEntry
  <2>2. cachedObjects[j].key \in Keys /\ cachedObjects[j].ver \in Nat
    <3>1. cachedObjects[j] \in Entries
      BY DEF TypeOK
    <3> QED
      BY <3>1 DEF Entries
  <2>3. answer[cachedObjects[j].key] <= cachedObjects[j].ver
    BY DEF EntryInv, Recent
  <2>4. answer'[cachedObjects[j].key] <= cachedObjects[j].ver
    BY <1>1, <1>2, <2>1, <2>2, <2>3 DEF TypeOK
  <2> QED
    BY <2>4 DEF EntryInv, Recent, CurrentSince, Version, Made
<1>8. StoreInv'
  <2>1. \A q \in Procs : proc'[q].pc # "store"
    BY DEF TypeOK, MuxInv, MuxFree, HasMux, Idle
  <2> QED
    BY <2>1 DEF StoreInv
<1> QED
  BY <1>4, <1>5, <1>6, <1>7, <1>8

LEMMA GetMissStep ==
    ASSUME Inv, NEW p \in Procs, GetMiss(p)
    PROVE  Inv'
<1> USE DEF Inv
<1>1. /\ proc[p].pc = "get" /\ mux = NoProc /\ mux' = p /\ Local
      /\ proc[p].key \in Keys /\ proc[p].slot = 0
  BY DEF GetMiss, MuxFree, CallInv, Local
<1>2. PICK i \in DOMAIN cachedObjects \cup {0} :
        /\ proc' = [proc EXCEPT ![p].pc = "fetch", ![p].slot = i]
        /\ \/ i = 0 /\ NoEntry(proc[p].key)
           \/ i \in DOMAIN cachedObjects /\ cachedObjects[i].key = proc[p].key
  <2>1. CASE NoEntry(proc[p].key)
    <3>1. proc' = [proc EXCEPT ![p].pc = "fetch"]
      BY <2>1 DEF GetMiss, NoEntry, IsFirst
    <3>2. proc' = [proc EXCEPT ![p].pc = "fetch", ![p].slot = 0]
      BY <1>1, <3>1 DEF TypeOK
    <3> QED
      BY <2>1, <3>2
  <2>2. CASE ~NoEntry(proc[p].key)
    BY <2>2 DEF GetMiss, NoEntry, IsFirst
  <2> QED
    BY <2>1, <2>2
<1>3. /\ proc'[p] = [proc[p] EXCEPT !.pc = "fetch", !.slot = i]
      /\ \A q \in Procs : q # p => proc'[q] = proc[q]
  BY <1>2 DEF TypeOK
<1>4. i \in Nat
  BY <1>2 DEF TypeOK
<1>5. TypeOK'
  <2>1. proc'[p] \in Calls
    <3>1. proc[p] \in Calls
      BY DEF TypeOK
    <3> QED
      BY <1>3, <1>4, <3>1 DEF Calls
  <2> QED
    BY <1>1, <1>2, <2>1 DEF TypeOK, Local
<1>6. MuxInv' /\ CallInv' /\ SlotInv'
  BY <1>1, <1>2, <1>3 DEF TypeOK, Local, MuxInv, HasMux, CallInv, SlotInv, NoEntry
<1>7. (OneEntry /\ ServerInv /\ EntryInv /\ StoreInv)'
  BY <1>1, <1>3, LocalKeeps DEF TypeOK, Calls
<1> QED
  BY <1>5, <1>6, <1>7

LEMMA FetchStep ==
    ASSUME Inv, NEW p \in Procs, Fetch(p)
    PROVE  Inv'
<1> USE DEF Inv
<1> DEFINE k == proc[p].key
<1>1. /\ proc[p].pc = "fetch" /\ k \in Keys /\ mux = p /\ mux' = p /\ Local
      /\ proc' = [proc EXCEPT ![p].pc = "store", ![p].ver = Version(k), ![p].read = now]
  BY DEF Fetch, CallInv, MuxInv, HasMux, Local
<1>2. /\ proc'[p] = [proc[p] EXCEPT !.pc = "store", !.ver = Version(k), !.read = now]
      /\ \A q \in Procs : q # p => proc'[q] = proc[q]
  BY <1>1 DEF TypeOK
<1>3. Version(k) \in Nat \ {0} /\ answer[k] <= Version(k) /\ now \in Nat
  BY <1>1 DEF TypeOK, ServerInv, Version
<1>4. TypeOK'
  <2>1. proc'[p] \in Calls
    <3>1. proc[p] \in Calls
      BY DEF TypeOK
    <3> QED
      BY <1>2, <1>3, <3>1 DEF Calls
  <2> QED
    BY <1>1, <2>1 DEF TypeOK, Local
<1>5. MuxInv' /\ CallInv' /\ SlotInv'
  BY <1>1, <1>2 DEF TypeOK, Calls, Local, MuxInv, HasMux, CallInv, SlotInv, NoEntry
<1>6. (OneEntry /\ ServerInv /\ EntryInv)'
  BY <1>1 DEF Local, OneEntry, ServerInv, EntryInv, Recent, CurrentSince, Version, Made
<1>7. StoreInv'
  <2>1. \A q \in Procs : q # p => proc'[q].pc # "store"
    BY <1>1, <1>2 DEF MuxInv, HasMux
  <2>2. proc'[p].key = k /\ proc'[p].ver = Version(k) /\ proc'[p].read = now
    BY <1>1, <1>2 DEF TypeOK, Calls
  <2>3. Recent(proc[p].key, proc[p].ver, proc[p].read)'
    BY <1>1, <1>3, <2>2 DEF Local, Recent, CurrentSince, Version
  <2>4. now' <= now' + CallTicks
    BY <1>1, <1>3 DEF Local
  <2> QED
    BY <2>1, <2>2, <2>3, <2>4, <1>1 DEF StoreInv, Local
<1> QED
  BY <1>4, <1>5, <1>6, <1>7

LEMMA FetchFailsStep ==
    ASSUME Inv, NEW p \in Procs, FetchFails(p)
    PROVE  Inv'
<1> USE DEF Inv
<1>1. Local /\ mux' = NoProc /\ proc[p].pc = "fetch" /\ mux = p
  BY DEF FetchFails, Local, MuxInv, HasMux
<1>2. proc'[p] = Idle /\ \A q \in Procs : q # p => proc'[q] = proc[q]
  BY DEF FetchFails, TypeOK
<1>3. TypeOK'
  BY DEF FetchFails, TypeOK, Calls, Idle
<1>4. MuxInv' /\ CallInv' /\ SlotInv'
  BY <1>1, <1>2 DEF Local, MuxInv, HasMux, CallInv, SlotInv, NoEntry, Idle
<1>5. (OneEntry /\ ServerInv /\ EntryInv /\ StoreInv)'
  BY <1>1, <1>2, LocalKeeps DEF Idle
<1> QED
  BY <1>3, <1>4, <1>5

\* The new entry is the only one of its object, and not newer than its fetch.
LEMMA StoreStep ==
    ASSUME Inv, NEW p \in Procs, Store(p)
    PROVE  Inv'
<1> USE DEF Inv
<1> DEFINE k == proc[p].key
           e == NewEntry(p)
           s == proc[p].slot
<1>1. /\ proc[p].pc = "store" /\ k \in Keys /\ mux = p /\ mux' = NoProc
      /\ UNCHANGED <<now, written, live>>
      /\ answer' = [answer EXCEPT ![k] = proc[p].ver]
      /\ cachedObjects' = WithNewEntry(p)
  BY DEF Store, CallInv, MuxInv, HasMux
<1>2. /\ proc'[p] = Idle
      /\ \A q \in Procs : q # p => proc'[q] = proc[q]
  BY DEF Store, TypeOK
<1>3. \/ s = 0 /\ NoEntry(k)
      \/ s \in DOMAIN cachedObjects /\ cachedObjects[s].key = k
  BY <1>1 DEF SlotInv, HasMux
<1>4. /\ Recent(k, proc[p].ver, proc[p].read)
      /\ now <= proc[p].read + CallTicks
      /\ proc[p].read \in Nat /\ now \in Nat
  BY <1>1 DEF StoreInv, TypeOK, Calls
<1>5. /\ e \in Entries /\ e.key = k /\ e.ver = proc[p].ver
      /\ Made(e) \in Nat /\ Made(e) <= now
  <2>1. proc[p].ver \in Nat \ {0}
    BY <1>1, <1>4 DEF Recent, TypeOK, Version
  <2> QED
    BY <1>1, <1>4, <2>1, CutToSeconds DEF NewEntry, Entries, Made
<1> DEFINE NewAt(n) ==
        /\ DOMAIN cachedObjects' = DOMAIN cachedObjects \cup {n}
        /\ cachedObjects'[n] = e
        /\ \A i \in DOMAIN cachedObjects : i # n =>
              cachedObjects'[i] = cachedObjects[i] /\ cachedObjects[i].key # k
        /\ cachedObjects' \in Seq(Entries)
<1> HIDE DEF e
<1>6. \E n : NewAt(n)
  <2>1. cachedObjects \in Seq(Entries) /\ e \in Entries
    BY <1>5 DEF TypeOK
  <2>2. CASE s = 0 /\ NoEntry(k)
    <3>1. cachedObjects' = Append(cachedObjects, e)
      BY <1>1, <2>2 DEF WithNewEntry, e
    <3>2. NewAt(Len(cachedObjects) + 1)
      BY <2>1, <2>2, <3>1 DEF NoEntry
    <3> QED
      BY <3>2
  <2>3. CASE s \in DOMAIN cachedObjects /\ cachedObjects[s].key = k
    <3>1. s # 0
      BY <2>1, <2>3
    <3>2. cachedObjects' = [cachedObjects EXCEPT ![s] = e]
      BY <1>1, <3>1 DEF WithNewEntry, e
    <3>3. \A i \in DOMAIN cachedObjects : i # s => cachedObjects[i].key # k
      BY <2>3 DEF OneEntry
    <3>4. DOMAIN cachedObjects' = DOMAIN cachedObjects \cup {s}
      BY <2>3, <3>2
    <3>5. cachedObjects' \in Seq(Entries)
      BY <2>1, <2>3, <3>2
    <3>6. NewAt(s)
      BY <2>3, <3>2, <3>3, <3>4, <3>5
    <3> QED
      BY <3>6
  <2> QED
    BY <1>3, <2>2, <2>3
<1> PICK n : NewAt(n)
  BY <1>6
<1>7. TypeOK'
  <2>1. Idle \in Calls
    BY DEF Idle, Calls
  <2>2. proc[p].ver \in Nat
    BY <1>1 DEF TypeOK, Calls
  <2> QED
    BY <1>1, <2>1, <2>2 DEF TypeOK, Store
<1>8. MuxInv' /\ CallInv' /\ SlotInv'
  BY <1>1, <1>2 DEF MuxInv, HasMux, CallInv, SlotInv, Idle
<1>9. OneEntry'
  BY <1>5 DEF OneEntry
<1>10. ServerInv'
  BY <1>1, <1>4 DEF TypeOK, ServerInv, Recent, Version
<1>11. EntryInv'
  <2> SUFFICES ASSUME NEW i \in DOMAIN cachedObjects'
               PROVE  /\ Made(cachedObjects'[i]) <= now
                      /\ Recent(cachedObjects[i].key, cachedObjects[i].ver,
                                Made(cachedObjects[i]) - CallTicks)'
    BY <1>1 DEF EntryInv, Made
  <2>1. CASE i = n
    <3>1. answer'[k] = proc[p].ver
      BY <1>1 DEF TypeOK
    <3>2. proc[p].ver \in Nat /\ written \in [Keys -> Seq(Nat)]
      BY <1>1 DEF TypeOK, Calls
    <3>3. proc[p].ver < Version(k) => written[k][proc[p].ver + 1] \in Nat
      <4>1. written[k] \in Seq(Nat)
        BY <1>1, <3>2
      <4> QED
        BY <4>1, <3>2 DEF Version
    <3>4. Made(e) - CallTicks <= proc[p].read /\ Made(e) - CallTicks <= now
      BY <1>4, <1>5
    <3>5. CurrentSince(k, proc[p].ver, Made(e) - CallTicks)
      BY <1>4, <1>5, <3>3, <3>4 DEF Recent, CurrentSince
    <3>6. /\ cachedObjects'[i].key = k /\ cachedObjects'[i].ver = proc[p].ver
          /\ Made(cachedObjects[i])' = Made(e)
      BY <1>5, <2>1 DEF Made
    <3>7. /\ proc[p].ver \in 1..Len(written[k])
          /\ answer'[k] <= proc[p].ver
          /\ proc[p].ver < Len(written[k]) =>
                written[k][proc[p].ver + 1] >= Made(e) - CallTicks
      BY <1>4, <3>1, <3>2, <3>5 DEF Recent, CurrentSince, Version
    <3> QED
      BY <1>1, <1>5, <3>4, <3>6, <3>7 DEF Recent, CurrentSince, Version
  <2>2. CASE i # n
    <3>1. /\ i \in DOMAIN cachedObjects /\ cachedObjects'[i] = cachedObjects[i]
          /\ cachedObjects[i].key # k
      BY <2>2
    <3>2. answer'[cachedObjects[i].key] = answer[cachedObjects[i].key]
      BY <1>1, <3>1 DEF TypeOK
    <3> QED
      BY <1>1, <3>1, <3>2 DEF EntryInv, Recent, CurrentSince, Version, Made
  <2> QED
    BY <2>1, <2>2
<1>12. StoreInv'
  BY <1>1, <1>2 DEF StoreInv, MuxInv, HasMux, Idle
<1> QED
  BY <1>7, <1>8, <1>9, <1>10, <1>11, <1>12

\* append(s[:m], s[m+1:]...) moves the entries after m down by one.
LEMMA WithoutEntryIsShift ==
    ASSUME NEW S, NEW c \in Seq(S), NEW m \in DOMAIN c
    PROVE  /\ WithoutEntry(c, m) \in Seq(S)
           /\ DOMAIN WithoutEntry(c, m) = 1..(Len(c) - 1)
           /\ \A i \in DOMAIN WithoutEntry(c, m) :
                LET j == IF i < m THEN i ELSE i + 1
                IN  /\ i \in Nat /\ j \in DOMAIN c
                    /\ WithoutEntry(c, m)[i] = c[j]
<1>1. Len(c) - 1 \in Nat /\ m \in Nat
  OBVIOUS
<1>2. \A i \in 1..(Len(c) - 1) : (IF i < m THEN c[i] ELSE c[i + 1]) \in S
  BY <1>1
<1> QED
  BY <1>1, <1>2 DEF WithoutEntry

LEMMA RemoveObjectStep ==
    ASSUME Inv, NEW p \in Procs, removeObject(p)
    PROVE  Inv'
<1> USE DEF Inv
<1>1. /\ proc[p].pc = "change" /\ mux = NoProc /\ proc[p].key \in Keys
      /\ UNCHANGED <<now, written, live, mux, answer>>
  BY DEF removeObject, MuxFree, CallInv
<1>2. /\ proc'[p] = [proc[p] EXCEPT !.pc = "write"]
      /\ \A q \in Procs : q # p => proc'[q] = proc[q]
  BY DEF removeObject, TypeOK
<1>3. TypeOK'
  <2>1. proc'[p] \in Calls
    <3>1. proc[p] \in Calls
      BY DEF TypeOK
    <3> QED
      BY <1>2, <3>1 DEF Calls
  <2>2. cachedObjects' \in Seq(Entries)
    BY WithoutEntryIsShift DEF removeObject, TypeOK
  <2> QED
    BY <1>1, <2>1, <2>2 DEF TypeOK, removeObject
<1>4. MuxInv' /\ CallInv' /\ SlotInv' /\ StoreInv'
  <2>1. proc'[p].pc = "write" /\ proc'[p].key = proc[p].key
    BY <1>2 DEF TypeOK, Calls
  <2>2. \A q \in Procs : ~HasMux(q) /\ ~HasMux(q)'
    BY <1>1, <1>2, <2>1 DEF MuxInv, HasMux
  <2>3. MuxInv'
    BY <1>1, <2>2 DEF MuxInv
  <2>4. CallInv'
    BY <1>1, <1>2, <2>1 DEF CallInv
  <2> QED
    BY <2>2, <2>3, <2>4 DEF SlotInv, StoreInv, HasMux
<1>5. ServerInv'
  BY <1>1 DEF ServerInv, Version
<1>6. \/ UNCHANGED cachedObjects
      \/ \E m \in DOMAIN cachedObjects : cachedObjects' = WithoutEntry(cachedObjects, m)
  BY DEF removeObject
<1>7. EntryInv'
  <2> SUFFICES ASSUME NEW i \in DOMAIN cachedObjects'
               PROVE  /\ Made(cachedObjects'[i]) <= now
                      /\ Recent(cachedObjects[i].key, cachedObjects[i].ver,
                                Made(cachedObjects[i]) - CallTicks)'
    BY <1>1 DEF EntryInv, Made
  <2>1. PICK j \in DOMAIN cachedObjects : cachedObjects'[i] = cachedObjects[j]
    BY <1>6, WithoutEntryIsShift DEF TypeOK
  <2> QED
    BY <1>1, <2>1 DEF EntryInv, Recent, CurrentSince, Version, Made
<1>8. OneEntry'
  <2>1. CASE UNCHANGED cachedObjects
    BY <2>1 DEF OneEntry
  <2>2. ASSUME NEW m \in DOMAIN cachedObjects,
               cachedObjects' = WithoutEntry(cachedObjects, m)
        PROVE  OneEntry'
    <3> DEFINE From(i) == IF i < m THEN i ELSE i + 1
    <3>1. \A i \in DOMAIN cachedObjects' :
            /\ i \in Nat /\ From(i) \in DOMAIN cachedObjects
            /\ cachedObjects'[i] = cachedObjects[From(i)]
      BY <2>2, WithoutEntryIsShift DEF TypeOK
    <3>2. m \in Nat
      BY <2>2 DEF TypeOK
    <3>3. ASSUME NEW i \in DOMAIN cachedObjects', NEW j \in DOMAIN cachedObjects',
                 cachedObjects'[i].key = cachedObjects'[j].key
          PROVE  i = j
      <4>1. From(i) = From(j)
        BY <3>1, <3>3 DEF OneEntry
      <4>2. i \in Nat /\ j \in Nat
        BY <3>1
      <4> QED
        BY <3>2, <4>1, <4>2
    <3> QED
      BY <3>3 DEF OneEntry
  <2> QED
    BY <1>6, <2>1, <2>2
<1> QED
  BY <1>3, <1>4, <1>5, <1>7, <1>8

\* A write at the server: what was current stays so up to now.
LEMMA ServerWriteStep ==
    ASSUME Inv, NEW k \in Keys, NEW exists \in BOOLEAN, ServerWrite(k, exists),
           UNCHANGED <<now, cachedObjects, mux, answer>>
    PROVE  (OneEntry /\ ServerInv /\ EntryInv)'
           /\ written' \in [Keys -> Seq(Nat)] /\ live' \in [Keys -> BOOLEAN]
           /\ \A l \in Keys, v, t \in Int : Recent(l, v, t) => Recent(l, v, t)'
<1> USE DEF Inv
<1>1. /\ written' \in [Keys -> Seq(Nat)] /\ live' \in [Keys -> BOOLEAN]
      /\ now \in Nat /\ answer \in [Keys -> Nat] /\ written \in [Keys -> Seq(Nat)]
  BY DEF TypeOK, ServerWrite
<1>2. ASSUME NEW l \in Keys, NEW v \in Int, NEW t \in Int, Recent(l, v, t)
      PROVE  Recent(l, v, t)'
  <2>1. CASE l # k
    BY <1>1, <1>2, <2>1 DEF ServerWrite, Recent, CurrentSince, Version
  <2>2. CASE l = k
    <3>1. written'[k] = Append(written[k], now) /\ written[k] \in Seq(Nat)
      BY <1>1 DEF ServerWrite
    <3> QED
      BY <1>1, <1>2, <2>2, <3>1 DEF Recent, CurrentSince, Version
  <2> QED
    BY <2>1, <2>2
<1>3. OneEntry'
  BY DEF OneEntry
<1>4. ServerInv'
  BY <1>1 DEF ServerInv, ServerWrite, Version
<1>5. EntryInv'
  <2> SUFFICES ASSUME NEW i \in DOMAIN cachedObjects
               PROVE  /\ Made(cachedObjects[i]) <= now
                      /\ Recent(cachedObjects[i].key, cachedObjects[i].ver,
                                Made(cachedObjects[i]) - CallTicks)'
    BY DEF EntryInv, Made
  <2>1. /\ cachedObjects[i].key \in Keys /\ cachedObjects[i].ver \in Int
        /\ Made(cachedObjects[i]) \in Nat
    <3>1. cachedObjects[i] \in Entries
      BY DEF TypeOK
    <3> QED
      BY <3>1, MadeType DEF Entries
  <2>2. Recent(cachedObjects[i].key, cachedObjects[i].ver, Made(cachedObjects[i]) - CallTicks)
    BY DEF EntryInv
  <2>3. Made(cachedObjects[i])' = Made(cachedObjects[i])
    BY DEF Made
  <2> QED
    BY <1>2, <2>1, <2>2, <2>3 DEF EntryInv, Recent, CurrentSince, Version
<1> QED
  BY <1>1, <1>2, <1>3, <1>4, <1>5

LEMMA WriteStep ==
    ASSUME Inv, NEW p \in Procs, Write(p)
    PROVE  Inv'
<1> USE DEF Inv
<1>1. /\ proc[p].pc = "write" /\ proc[p].key \in Keys
      /\ UNCHANGED <<now, cachedObjects, mux, answer>>
  BY DEF Write, CallInv
<1>2. /\ proc'[p] = Idle
      /\ \A q \in Procs : q # p => proc'[q] = proc[q]
  BY DEF Write, TypeOK
<1>3. PICK exists \in BOOLEAN : ServerWrite(proc[p].key, exists)
  BY DEF Write
<1>4. TypeOK'
  <2>1. Idle \in Calls
    BY DEF Idle, Calls
  <2> QED
    BY <1>1, <1>3, <2>1, ServerWriteStep DEF TypeOK, Write
<1>5. MuxInv' /\ CallInv' /\ SlotInv'
  BY <1>1, <1>2 DEF MuxInv, HasMux, CallInv, SlotInv, NoEntry, Idle
<1>6. (OneEntry /\ ServerInv /\ EntryInv)'
  BY <1>1, <1>3, ServerWriteStep
<1>7. StoreInv'
  <2> SUFFICES ASSUME NEW q \in Procs, proc'[q].pc = "store"
               PROVE  /\ Recent(proc[q].key, proc[q].ver, proc[q].read)'
                      /\ now <= proc'[q].read + CallTicks
    BY <1>1 DEF StoreInv
  <2>1. proc'[q] = proc[q]
    BY <1>2 DEF Idle
  <2>2. proc[q].key \in Keys /\ proc[q].ver \in Int /\ proc[q].read \in Int
    <3>1. proc[q] \in Calls
      BY DEF TypeOK
    <3> QED
      BY <2>1, <3>1 DEF CallInv, Calls
  <2> QED
    BY <1>1, <1>3, <2>1, <2>2, ServerWriteStep DEF StoreInv, Recent, CurrentSince, Version
<1> QED
  BY <1>4, <1>5, <1>6, <1>7

LEMMA OtherClientStep ==
    ASSUME Inv, NEW k \in Keys, OtherClient(k)
    PROVE  Inv'
<1> USE DEF Inv
<1>1. UNCHANGED <<now, cachedObjects, mux, proc, answer>>
  BY DEF OtherClient
<1>2. PICK exists \in BOOLEAN : ServerWrite(k, exists)
  BY DEF OtherClient
<1>3. TypeOK'
  BY <1>1, <1>2, ServerWriteStep DEF TypeOK
<1>4. MuxInv' /\ CallInv' /\ SlotInv'
  BY <1>1 DEF MuxInv, HasMux, CallInv, SlotInv, NoEntry
<1>5. (OneEntry /\ ServerInv /\ EntryInv)'
  BY <1>1, <1>2, ServerWriteStep
<1>6. StoreInv'
  <2> SUFFICES ASSUME NEW q \in Procs, proc[q].pc = "store"
               PROVE  /\ Recent(proc[q].key, proc[q].ver, proc[q].read)'
                      /\ now <= proc[q].read + CallTicks
    BY <1>1 DEF StoreInv
  <2>1. proc[q].key \in Keys /\ proc[q].ver \in Int /\ proc[q].read \in Int
    <3>1. proc[q] \in Calls
      BY DEF TypeOK
    <3> QED
      BY <3>1 DEF CallInv, Calls
  <2> QED
    BY <1>1, <1>2, <2>1, ServerWriteStep DEF StoreInv, Recent, CurrentSince, Version
<1> QED
  BY <1>3, <1>4, <1>5, <1>6

LEMMA RestartStep == Inv /\ Restart => Inv'
<1> SUFFICES ASSUME Inv, Restart PROVE Inv'
  OBVIOUS
<1> USE DEF Inv, Restart
<1>1. TypeOK'
  BY DEF TypeOK, Calls, Idle
<1>2. (MuxInv /\ CallInv /\ SlotInv /\ StoreInv)'
  BY DEF MuxInv, HasMux, CallInv, SlotInv, StoreInv, Idle
<1>3. (OneEntry /\ ServerInv /\ EntryInv)'
  BY DEF OneEntry, ServerInv, EntryInv, Version
<1> QED
  BY <1>1, <1>2, <1>3

LEMMA TickStep == Inv /\ Tick => Inv'
<1> SUFFICES ASSUME Inv, Tick PROVE Inv'
  OBVIOUS
<1> USE DEF Inv, Tick
<1>1. now \in Nat /\ now' = now + 1 /\ now' \in 0..MaxTime
  BY DEF TypeOK
<1>2. TypeOK'
  BY <1>1 DEF TypeOK
<1>3. (MuxInv /\ CallInv /\ SlotInv /\ OneEntry /\ ServerInv)'
  BY DEF MuxInv, HasMux, CallInv, SlotInv, NoEntry, OneEntry, ServerInv, Version
<1>4. EntryInv'
  <2> SUFFICES ASSUME NEW i \in DOMAIN cachedObjects
               PROVE  /\ Made(cachedObjects[i]) <= now'
                      /\ Recent(cachedObjects[i].key, cachedObjects[i].ver,
                                Made(cachedObjects[i]) - CallTicks)'
    BY DEF EntryInv, Made
  <2>1. Made(cachedObjects[i]) \in Nat
    <3>1. cachedObjects[i] \in Entries
      BY DEF TypeOK
    <3> QED
      BY <3>1, MadeType DEF Entries
  <2>2. Made(cachedObjects[i])' = Made(cachedObjects[i])
    BY DEF Made
  <2> QED
    BY <1>1, <2>1, <2>2 DEF EntryInv, Recent, CurrentSince, Version
<1>5. StoreInv'
  <2> SUFFICES ASSUME NEW q \in Procs, proc[q].pc = "store"
               PROVE  /\ Recent(proc[q].key, proc[q].ver, proc[q].read)'
                      /\ now' <= proc[q].read + CallTicks
    BY DEF StoreInv
  <2>1. proc[q].read \in Nat
    BY DEF TypeOK, Calls
  <2> QED
    BY <1>1, <2>1 DEF StoreInv, Recent, CurrentSince, Version
<1> QED
  BY <1>2, <1>3, <1>4, <1>5

LEMMA InvStep == Inv /\ [Next]_vars => Inv'
<1> SUFFICES ASSUME Inv, [Next]_vars PROVE Inv'
  OBVIOUS
<1>1. ASSUME NEW p \in Procs, NEW k \in Keys, Get(p, k) \/ Change(p, k) PROVE Inv'
  BY <1>1, GetStep
<1>2. ASSUME NEW p \in Procs, GetFromCache(p) PROVE Inv'
  BY <1>2, GetFromCacheStep
<1>3. ASSUME NEW p \in Procs, GetMiss(p) PROVE Inv'
  BY <1>3, GetMissStep
<1>4. ASSUME NEW p \in Procs, Fetch(p) PROVE Inv'
  BY <1>4, FetchStep
<1>5. ASSUME NEW p \in Procs, FetchFails(p) PROVE Inv'
  BY <1>5, FetchFailsStep
<1>6. ASSUME NEW p \in Procs, Store(p) PROVE Inv'
  BY <1>6, StoreStep
<1>7. ASSUME NEW p \in Procs, removeObject(p) PROVE Inv'
  BY <1>7, RemoveObjectStep
<1>8. ASSUME NEW p \in Procs, Write(p) PROVE Inv'
  BY <1>8, WriteStep
<1>9. ASSUME NEW p \in Procs, WriteFails(p) PROVE Inv'
  BY <1>9, WriteFailsStep
<1>10. ASSUME NEW k \in Keys, OtherClient(k) PROVE Inv'
  BY <1>10, OtherClientStep
<1>11. CASE UNCHANGED vars
  <2>1. Local /\ mux' = mux /\ proc' = proc
    BY <1>11 DEF vars, Local
  <2>2. (OneEntry /\ ServerInv /\ EntryInv /\ StoreInv)'
    BY <2>1, LocalKeeps
  <2>3. (TypeOK /\ MuxInv /\ CallInv /\ SlotInv)'
    BY <2>1 DEF Inv, Local, TypeOK, MuxInv, HasMux, CallInv, SlotInv, NoEntry
  <2> QED
    BY <2>2, <2>3 DEF Inv
<1> QED
  BY <1>1, <1>2, <1>3, <1>4, <1>5, <1>6, <1>7, <1>8, <1>9, <1>10, <1>11,
     RestartStep, TickStep DEF Next

\* In every reachable state the variables of the cache and of the calls have their types.
THEOREM TypeCorrect == Spec => []TypeOK
<1>1. Inv => TypeOK
  BY DEF Inv
<1> QED
  BY <1>1, InitInv, InvStep, PTL DEF Spec

\* getCachedObject never adds a second entry of an object, so that removeObject and Get,
\* which stop at the first, miss none.
THEOREM NoSecondEntry == Spec => []OneEntry
<1>1. Inv => OneEntry
  BY DEF Inv
<1> QED
  BY <1>1, InitInv, InvStep, PTL DEF Spec

\* The mutex held over the request to the server keeps the answers of all goroutines in
\* the order of the writes.
THEOREM AnswersInOrder == Spec => NeverBack
<1>1. ASSUME Inv, [Next]_vars
      PROVE  [\A k \in Keys : answer'[k] >= answer[k]]_vars
  <2> SUFFICES ASSUME Next, NEW k \in Keys PROVE answer'[k] >= answer[k]
    BY <1>1
  <2> USE <1>1 DEF Inv
  <2>1. answer \in [Keys -> Nat]
    BY DEF TypeOK
  <2>2. ASSUME NEW p \in Procs, GetFromCache(p) PROVE answer'[k] >= answer[k]
    <3>1. PICK i \in DOMAIN cachedObjects :
            /\ cachedObjects[i].key = proc[p].key
            /\ answer' = [answer EXCEPT ![proc[p].key] = cachedObjects[i].ver]
      BY <2>2 DEF GetFromCache, IsFirst
    <3>2. cachedObjects[i].ver >= answer[proc[p].key]
      BY <3>1 DEF EntryInv, Recent
    <3> QED
      BY <2>1, <3>1, <3>2
  <2>3. ASSUME NEW p \in Procs, Store(p) PROVE answer'[k] >= answer[k]
    <3>1. answer[proc[p].key] <= proc[p].ver
      BY <2>3 DEF Store, StoreInv, Recent
    <3> QED
      BY <2>1, <2>3, <3>1 DEF Store
  <2>4. CASE UNCHANGED answer
    BY <2>1, <2>4
  <2> QED
    BY <2>2, <2>3, <2>4 DEF Next, Get, Change, GetMiss, Fetch, FetchFails, removeObject,
       Write, WriteFails, OtherClient, Restart, Tick
<1> QED
  BY <1>1, InitInv, InvStep, PTL DEF Spec, NeverBack

\* No Get answers with a version that was replaced more than the time to live and the way
\* of one answer ago, for any time to live and any resolution of the clock.
THEOREM AnswersAreFresh == Spec => BoundedStaleness
<1> DEFINE Bound == TTLSeconds * TicksPerSecond + CallTicks
           Fresh(p) == CurrentSince(proc[p].key, answer'[proc[p].key], now - Bound)
<1>1. ASSUME Inv, NEW p \in Procs, GetFromCache(p) PROVE Fresh(p)
  <2> USE <1>1 DEF Inv
  <2>1. PICK i \in DOMAIN cachedObjects :
          /\ cachedObjects[i].key = proc[p].key
          /\ ~isExpired(cachedObjects[i])
          /\ answer' = [answer EXCEPT ![proc[p].key] = cachedObjects[i].ver]
    BY DEF GetFromCache, IsFirst
  <2> DEFINE e == cachedObjects[i]
  <2>2. e.key \in Keys /\ e.ver \in Nat /\ Made(e) \in Nat
    <3>1. e \in Entries
      BY DEF TypeOK
    <3> QED
      BY <3>1, MadeType DEF Entries
  <2>3. CurrentSince(e.key, e.ver, Made(e) - CallTicks)
    BY DEF EntryInv, Recent
  <2>4. TTLSeconds * TicksPerSecond \in Nat
    OBVIOUS
  <2>5. now - Bound <= Made(e) - CallTicks /\ now \in Nat
    BY <2>1, <2>2, <2>4 DEF isExpired, TypeOK
  <2>6. answer'[proc[p].key] = e.ver
    BY <2>1, <2>2 DEF TypeOK
  <2>7. e.ver < Version(e.key) => written[e.key][e.ver + 1] \in Nat
    <3>1. written[e.key] \in Seq(Nat)
      BY <2>2 DEF TypeOK
    <3> QED
      BY <2>2, <3>1 DEF Version
  <2> HIDE DEF e
  <2>8. CurrentSince(e.key, e.ver, now - Bound)
    BY <2>2, <2>3, <2>4, <2>5, <2>7 DEF CurrentSince
  <2> QED
    BY <2>1, <2>6, <2>8 DEF e
<1>2. ASSUME Inv, NEW p \in Procs, Store(p) PROVE Fresh(p)
  <2> USE <1>2 DEF Inv
  <2>1. /\ proc[p].pc = "store" /\ proc[p].key \in Keys
        /\ answer'[proc[p].key] = proc[p].ver
    BY DEF Store, TypeOK, CallInv
  <2>2. proc[p].ver \in Nat /\ proc[p].read \in Nat /\ now \in Nat
    BY DEF TypeOK, Calls
  <2>3. /\ CurrentSince(proc[p].key, proc[p].ver, proc[p].read)
        /\ now <= proc[p].read + CallTicks
    BY <2>1 DEF StoreInv, Recent
  <2>4. TTLSeconds * TicksPerSecond \in Nat
    OBVIOUS
  <2>5. now - Bound <= proc[p].read
    BY <2>2, <2>3, <2>4
  <2>6. proc[p].ver < Version(proc[p].key) => written[proc[p].key][proc[p].ver + 1] \in Nat
    <3>1. written[proc[p].key] \in Seq(Nat)
      BY <2>1 DEF TypeOK
    <3> QED
      BY <2>2, <3>1 DEF Version
  <2> QED
    BY <2>1, <2>2, <2>3, <2>4, <2>5, <2>6 DEF CurrentSince
<1>3. Inv /\ [Next]_vars
        => [\A p \in Procs : GetFromCache(p) \/ Store(p) =>
              CurrentSince(proc[p].key, answer'[proc[p].key],
                           now - (TTLSeconds * TicksPerSecond + CallTicks))]_vars
  BY <1>1, <1>2
<1> QED
  BY <1>3, InitInv, InvStep, PTL DEF Spec, BoundedStaleness
=============================================================================
