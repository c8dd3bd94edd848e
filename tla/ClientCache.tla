----------------------------- MODULE ClientCache -----------------------------
(* The Kubernetes client of the sidecar, ExtendedClient in                 *)
(* src/internal/cnpgi/instance/internal/client/client.go: a Get of a       *)
(* Secret or an Archive is answered from a list of cached objects while the *)
(* entry is younger than its time to live; Update, Delete and Patch drop    *)
(* the entry, then call the API server.                                     *)
(*                                                                          *)
(* One key stands for kind, namespace and name of an object.  The value of  *)
(* an object is the number of writes it has had, a deletion being a write.  *)
(* Objects that are not cached go straight to the server, with no state     *)
(* here.  Time is counted in ticks, TicksPerSecond of them to the second,   *)
(* because the age of an entry is computed from a time cut to seconds.      *)
EXTENDS Integers, Sequences

CONSTANTS Procs,           \* requests served at a time, one goroutine each
          Keys,            \* objects
          NoProc, NoKey,
          TTLSeconds,      \* DefaultTTLSeconds
          TicksPerSecond,
          CallTicks,       \* bound on the way back of the server's answer to a Get
          MaxTime,         \* bound on now
          MaxWrites        \* bound on the writes of an object

ASSUME NoProcAssumption == NoProc \notin Procs
ASSUME ClockAssumption == /\ TTLSeconds \in Nat
                          /\ TicksPerSecond \in Nat \ {0}
                          /\ CallTicks \in Nat
                          /\ MaxTime \in Nat

VARIABLES
    now,            \* time.Now(), in ticks
    written,        \* API server: the times of the writes of an object
    live,           \* API server: the object exists
    cachedObjects,  \* e.cachedObjects
    mux,            \* e.mux: the goroutine that holds it
    proc,           \* the call a goroutine is in, and its local variables
    answer          \* history: the version the last Get of an object answered, 0 at first

vars == <<now, written, live, cachedObjects, mux, proc, answer>>

Entries == [key : Keys, ver : Nat \ {0}, fetchUnixTime : Nat]

Calls == [pc : {"idle", "get", "fetch", "store", "change", "write"},
          key : Keys \cup {NoKey}, slot : Nat, ver : Nat, read : Nat]

Idle == [pc |-> "idle", key |-> NoKey, slot |-> 0, ver |-> 0, read |-> 0]

Version(k) == Len(written[k])

TypeOK ==
    /\ now \in 0..MaxTime
    /\ written \in [Keys -> Seq(Nat)]
    /\ live \in [Keys -> BOOLEAN]
    /\ cachedObjects \in Seq(Entries)
    /\ mux \in Procs \cup {NoProc}
    /\ proc \in [Procs -> Calls]
    /\ answer \in [Keys -> Nat]

Init ==
    /\ now = 0
    /\ written = [k \in Keys |-> <<0>>]
    /\ live = [k \in Keys |-> TRUE]
    /\ cachedObjects = <<>>
    /\ mux = NoProc
    /\ proc = [p \in Procs |-> Idle]
    /\ answer = [k \in Keys |-> 0]

----------------------------------------------------------------------------
(* The cache.                                                               *)

\* time.Unix(e.fetchUnixTime, 0): the start of the second the entry was made in.
Made(e) == e.fetchUnixTime * TicksPerSecond

\* Mutant: both times are cut to seconds.
OlderInSeconds(e) == now \div TicksPerSecond - e.fetchUnixTime > TTLSeconds

isExpired(e) == now - Made(e) > TTLSeconds * TicksPerSecond

\* Entry i is the one the loops over cachedObjects stop at for object k.
IsFirst(i, k) ==
    /\ cachedObjects[i].key = k
    /\ \A j \in DOMAIN cachedObjects : cachedObjects[j].key = k => i <= j

\* append(s[:i], s[i+1:]...)
WithoutEntry(s, i) == [j \in 1..(Len(s) - 1) |-> IF j < i THEN s[j] ELSE s[j + 1]]

\* Mutant: the mutex is left out.
NoMutex == TRUE

MuxFree == mux = NoProc

----------------------------------------------------------------------------
(* Get.                                                                     *)

Get(p, k) ==
    /\ proc[p].pc = "idle"
    /\ proc' = [proc EXCEPT ![p] = [Idle EXCEPT !.pc = "get", !.key = k]]
    /\ UNCHANGED <<now, written, live, cachedObjects, mux, answer>>

\* Found in the cache and young enough: the mutex is held for this step only.
GetFromCache(p) ==
    /\ proc[p].pc = "get"
    /\ MuxFree
    /\ \E i \in DOMAIN cachedObjects :
        /\ IsFirst(i, proc[p].key)
        /\ ~isExpired(cachedObjects[i])
        /\ answer' = [answer EXCEPT ![proc[p].key] = cachedObjects[i].ver]
    /\ proc' = [proc EXCEPT ![p] = Idle]
    /\ UNCHANGED <<now, written, live, cachedObjects, mux>>

\* Absent or expired: the server is asked with the mutex held.
GetMiss(p) ==
    /\ proc[p].pc = "get"
    /\ MuxFree
    /\ \/ /\ \A i \in DOMAIN cachedObjects : cachedObjects[i].key # proc[p].key
          /\ proc' = [proc EXCEPT ![p].pc = "fetch"]
       \/ \E i \in DOMAIN cachedObjects :
            /\ IsFirst(i, proc[p].key)
            /\ isExpired(cachedObjects[i])
            /\ proc' = [proc EXCEPT ![p].pc = "fetch", ![p].slot = i]
    /\ mux' = p
    /\ UNCHANGED <<now, written, live, cachedObjects, answer>>

\* The server answers with the object.
Fetch(p) ==
    /\ proc[p].pc = "fetch"
    /\ live[proc[p].key]
    /\ proc' = [proc EXCEPT ![p].pc = "store", ![p].ver = Version(proc[p].key),
                            ![p].read = now]
    /\ UNCHANGED <<now, written, live, cachedObjects, mux, answer>>

\* Mutant: the error is lost, and what the caller passed in is cached.
ErrorIgnored(p) ==
    /\ proc[p].pc = "fetch"
    /\ proc' = [proc EXCEPT ![p].pc = "store", ![p].read = now]
    /\ UNCHANGED <<now, written, live, cachedObjects, mux, answer>>

\* Mutant: the return after an error keeps the mutex.
ErrorKeepsMutex(p) ==
    /\ proc[p].pc = "fetch"
    /\ proc' = [proc EXCEPT ![p] = Idle]
    /\ UNCHANGED <<now, written, live, cachedObjects, mux, answer>>

\* Not found, or any other error: an expired entry stays where it is.
FetchFails(p) ==
    /\ proc[p].pc = "fetch"
    /\ proc' = [proc EXCEPT ![p] = Idle]
    /\ mux' = NoProc
    /\ UNCHANGED <<now, written, live, cachedObjects, answer>>

NewEntry(p) == [key |-> proc[p].key, ver |-> proc[p].ver,
                fetchUnixTime |-> now \div TicksPerSecond]

\* Mutant: an expired entry is not replaced.
AlwaysAppend(p) == Append(cachedObjects, NewEntry(p))

\* The answer goes into the slot of the expired entry, or to the end.
WithNewEntry(p) ==
    IF proc[p].slot # 0 THEN [cachedObjects EXCEPT ![proc[p].slot] = NewEntry(p)]
                        ELSE Append(cachedObjects, NewEntry(p))

Store(p) ==
    /\ proc[p].pc = "store"
    /\ cachedObjects' = WithNewEntry(p)
    /\ answer' = [answer EXCEPT ![proc[p].key] = proc[p].ver]
    /\ proc' = [proc EXCEPT ![p] = Idle]
    /\ mux' = NoProc
    /\ UNCHANGED <<now, written, live>>

----------------------------------------------------------------------------
(* Update, Patch and Delete.                                                *)

Change(p, k) ==
    /\ proc[p].pc = "idle"
    /\ proc' = [proc EXCEPT ![p] = [Idle EXCEPT !.pc = "change", !.key = k]]
    /\ UNCHANGED <<now, written, live, cachedObjects, mux, answer>>

removeObject(p) ==
    /\ proc[p].pc = "change"
    /\ MuxFree
    /\ \/ /\ \A i \in DOMAIN cachedObjects : cachedObjects[i].key # proc[p].key
          /\ UNCHANGED cachedObjects
       \/ \E i \in DOMAIN cachedObjects :
            /\ IsFirst(i, proc[p].key)
            /\ cachedObjects' = WithoutEntry(cachedObjects, i)
    /\ proc' = [proc EXCEPT ![p].pc = "write"]
    /\ UNCHANGED <<now, written, live, mux, answer>>

\* A write of k at the server: afterwards it exists, or it was deleted.
ServerWrite(k, exists) ==
    /\ Version(k) < MaxWrites
    /\ written' = [written EXCEPT ![k] = Append(@, now)]
    /\ live' = [live EXCEPT ![k] = exists]

\* An Update, a Patch or a Delete reaches the server, without the mutex.
Write(p) ==
    /\ proc[p].pc = "write"
    /\ live[proc[p].key]
    /\ \E exists \in BOOLEAN : ServerWrite(proc[p].key, exists)
    /\ proc' = [proc EXCEPT ![p] = Idle]
    /\ UNCHANGED <<now, cachedObjects, mux, answer>>

WriteFails(p) ==
    /\ proc[p].pc = "write"
    /\ proc' = [proc EXCEPT ![p] = Idle]
    /\ UNCHANGED <<now, written, live, cachedObjects, mux, answer>>

----------------------------------------------------------------------------
(* The environment.                                                         *)

\* Another client creates, changes or deletes the object.
OtherClient(k) ==
    /\ \E exists \in BOOLEAN : (exists \/ live[k]) /\ ServerWrite(k, exists)
    /\ UNCHANGED <<now, cachedObjects, mux, proc, answer>>

\* The container of the sidecar restarts with an empty cache.
Restart ==
    /\ cachedObjects' = <<>>
    /\ mux' = NoProc
    /\ proc' = [p \in Procs |-> Idle]
    /\ UNCHANGED <<now, written, live, answer>>

\* An answer of the server is on its way for at most CallTicks.
Tick ==
    /\ now < MaxTime
    /\ \A p \in Procs : proc[p].pc = "store" => now < proc[p].read + CallTicks
    /\ now' = now + 1
    /\ UNCHANGED <<written, live, cachedObjects, mux, proc, answer>>

Next ==
    \/ \E p \in Procs :
        \/ \E k \in Keys : Get(p, k) \/ Change(p, k)
        \/ GetFromCache(p) \/ GetMiss(p) \/ Fetch(p) \/ FetchFails(p) \/ Store(p)
        \/ removeObject(p) \/ Write(p) \/ WriteFails(p)
    \/ \E k \in Keys : OtherClient(k)
    \/ Restart
    \/ Tick

\* Calls to the server return.  sync.Mutex hands itself to a goroutine that has
\* waited for a millisecond, so a waiter that finds the mutex free again and again gets it.
Fairness ==
    \A p \in Procs :
        /\ WF_vars(Fetch(p) \/ FetchFails(p))
        /\ WF_vars(Store(p))
        /\ WF_vars(Write(p) \/ WriteFails(p))
        /\ SF_vars(GetFromCache(p) \/ GetMiss(p))
        /\ SF_vars(removeObject(p))

Spec == Init /\ [][Next]_vars /\ Fairness

----------------------------------------------------------------------------
(* Properties.                                                              *)

\* Version v of k was the one on the server at some moment from t on.
CurrentSince(k, v, t) == v < Version(k) => written[k][v + 1] >= t

\* However writes, expiry and requests interleave, a Get never answers with a version
\* that was replaced, or an object that was deleted, more than the time to live and the
\* way of one answer ago: rotated credentials are in use by then.  Cutting the fetch time
\* to seconds in getCachedObject may only shorten the life of an entry.
BoundedStaleness ==
    [][\A p \in Procs : GetFromCache(p) \/ Store(p) =>
        CurrentSince(proc[p].key, answer'[proc[p].key],
                     now - (TTLSeconds * TicksPerSecond + CallTicks))]_vars

\* getCachedObject keeps the mutex while the server is asked: of the answers of two
\* goroutines the older one cannot overwrite the newer, so that no Get answers with a
\* version older than an earlier Get of the same object did.
NeverBack == [][\A k \in Keys : answer'[k] >= answer[k]]_vars

\* An object has one entry.  removeObject stops at the first it finds, and so does Get:
\* a second one would outlive an Update.
OneEntry ==
    \A i, j \in DOMAIN cachedObjects :
        cachedObjects[i].key = cachedObjects[j].key => i = j

\* Every path out of getCachedObject and removeObject gives the mutex back: a call
\* returns whatever the server answers and whatever the other goroutines do.
CallsReturn == \A p \in Procs : proc[p].pc # "idle" ~> proc[p].pc = "idle"

=============================================================================
