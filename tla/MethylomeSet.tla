---------------------------- MODULE MethylomeSet ----------------------------
(***************************************************************************)
(* methylome_set, the server's cache of loaded methylomes, as spec section *)
(* 4.3 and section 5 describe it (its code is not under src/).  One mutex  *)
(* guards the LRU list, the accession map and the entry states; each       *)
(* action below that touches them is one critical section.  A miss        *)
(* inserts the entry in state "loading" and the loader reads the file      *)
(* outside the mutex; other gets of that accession wait on the entry's     *)
(* condition variable.  An entry is pinned by every handle and every       *)
(* waiter, and only an unpinned entry is evicted.  A get that finds the    *)
(* cache full of pinned entries is queued until a handle is released or   *)
(* its timeout returns SERVER_BUSY; a waiter's timeout ends its wait too.  *)
(***************************************************************************)
EXTENDS Naturals, Sequences, SequencesExt

CONSTANTS
  Threads,     \* request handlers calling get
  Accessions,  \* methylomes on disk
  Capacity,    \* N, the most methylomes resident at once
  None,        \* no accession / no handle
  MaxGets      \* bound on the number of gets in a behaviour

VARIABLES
  state,   \* accession -> "absent", "loading" or "resident"
  lru,     \* the resident accessions, least recently used first
  pins,    \* accession -> handles held plus gets waiting on its load
  tpc,     \* thread -> "idle", "loading", "waiting", "queued" or "using"
  want,    \* thread -> the accession its get asks for, or None
  held,    \* thread -> the accession whose handle it holds, or None
  gets     \* gets started so far

vars == <<state, lru, pins, tpc, want, held, gets>>

Init ==
  /\ state = [a \in Accessions |-> "absent"]
  /\ lru = <<>>
  /\ pins = [a \in Accessions |-> 0]
  /\ tpc = [t \in Threads |-> "idle"]
  /\ want = [t \in Threads |-> None]
  /\ held = [t \in Threads |-> None]
  /\ gets = 0

\* Entries that take a slot: resident or being loaded.
Occupied == Cardinality({a \in Accessions : state[a] # "absent"})

\* Mutation of the victim choice: the least recently used entry, pinned
\* or not.
VictimIgnoresPins == IF lru = <<>> THEN 0 ELSE 1

\* The position in lru of the least recently used unpinned entry, or 0.
VictimPos == SelectInSeq(lru, LAMBDA x : pins[x] = 0)

----------------------------------------------------------------------------
\* Hand thread t a handle to the resident entry a: it becomes the most
\* recently used.
Grant(t, a) ==
  /\ held' = [held EXCEPT ![t] = a]
  /\ tpc' = [tpc EXCEPT ![t] = "using"]
  /\ lru' = Append(Remove(lru, a), a)

\* Insert a in state "loading" with thread t as its loader, first evicting
\* the victim when every slot is taken.
StartLoad(t, a) ==
  /\ IF Occupied < Capacity
       THEN /\ state' = [state EXCEPT ![a] = "loading"]
            /\ UNCHANGED lru
       ELSE LET v == lru[VictimPos]
            IN /\ state' = [state EXCEPT ![a] = "loading", ![v] = "absent"]
               /\ lru' = Remove(lru, v)
  /\ pins' = [pins EXCEPT ![a] = 1]
  /\ tpc' = [tpc EXCEPT ![t] = "loading"]

\* Mutation of the check for a load in progress: it is never seen.
LoadInFlightIgnored(a) == FALSE

\* Another get is loading a.
LoadInFlight(a) == state[a] = "loading"

\* Mutation of the wait: a get waiting on a load does not pin the entry.
WaitUnpinned(t, a) ==
  /\ tpc' = [tpc EXCEPT ![t] = "waiting"]
  /\ UNCHANGED pins

\* Wait on the entry's condition variable, pinning it.
WaitOn(t, a) ==
  /\ pins' = [pins EXCEPT ![a] = @ + 1]
  /\ tpc' = [tpc EXCEPT ![t] = "waiting"]

\* get(a) under the mutex: hit, wait on a load in progress, start a load
\* (evicting if full), or queue when every entry is pinned.
Lookup(t, a) ==
  CASE state[a] = "resident" ->
         /\ pins' = [pins EXCEPT ![a] = @ + 1]
         /\ Grant(t, a)
         /\ UNCHANGED state
    [] LoadInFlight(a) ->
         /\ WaitOn(t, a)
         /\ UNCHANGED <<state, lru, held>>
    [] Occupied < Capacity \/ VictimPos # 0 ->
         /\ StartLoad(t, a)
         /\ UNCHANGED <<held>>
    [] OTHER ->
         /\ tpc' = [tpc EXCEPT ![t] = "queued"]
         /\ UNCHANGED <<state, lru, pins, held>>

\* The get would not be queued again.
Admissible(a) ==
  state[a] # "absent" \/ Occupied < Capacity \/ VictimPos # 0

----------------------------------------------------------------------------
(* Actions.                                                                *)

\* A handler calls get(a).
Get(t, a) ==
  /\ tpc[t] = "idle"
  /\ gets < MaxGets
  /\ gets' = gets + 1
  /\ want' = [want EXCEPT ![t] = a]
  /\ Lookup(t, a)

\* A queued get, notified that a handle was released or a load failed,
\* takes the mutex again and finds room.
Retry(t) ==
  /\ tpc[t] = "queued"
  /\ Admissible(want[t])
  /\ Lookup(t, want[t])
  /\ UNCHANGED <<want, gets>>

\* The loader's read of the methylome and its metadata, outside the mutex,
\* and its completion under it: on success the entry is resident and most
\* recently used and the loader holds a handle, and the waiters are
\* notified; on failure the entry is removed and the loader, every waiter
\* and the queued gets are notified, the waiters with the error.
LoadDone(t) ==
  /\ tpc[t] = "loading"
  /\ LET a == want[t]
         waiters == {u \in Threads : tpc[u] = "waiting" /\ want[u] = a}
     IN \/ /\ state' = [state EXCEPT ![a] = "resident"]
           /\ Grant(t, a)
           /\ UNCHANGED <<pins, want>>
        \/ /\ state' = [state EXCEPT ![a] = "absent"]
           /\ pins' = [pins EXCEPT ![a] = 0]
           /\ tpc' = [u \in Threads |->
                        IF u \in waiters \cup {t} THEN "idle" ELSE tpc[u]]
           /\ want' = [u \in Threads |->
                        IF u \in waiters \cup {t} THEN None ELSE want[u]]
           /\ UNCHANGED <<lru, held>>
  /\ UNCHANGED gets

\* A waiter wakes, takes the mutex and finds the entry resident: its pin
\* becomes its handle.
Wake(t) ==
  /\ tpc[t] = "waiting"
  /\ state[want[t]] = "resident"
  /\ Grant(t, want[t])
  /\ UNCHANGED <<state, pins, want, gets>>

\* The handle's last copy is dropped: the pin goes, queued gets are
\* notified.
Release(t) ==
  /\ tpc[t] = "using"
  /\ pins' = [pins EXCEPT ![held[t]] = @ - 1]
  /\ held' = [held EXCEPT ![t] = None]
  /\ tpc' = [tpc EXCEPT ![t] = "idle"]
  /\ want' = [want EXCEPT ![t] = None]
  /\ UNCHANGED <<state, lru, gets>>

\* The handler's deadline ends a queued get or a wait with SERVER_BUSY; a
\* waiter drops its pin.
Timeout(t) ==
  /\ tpc[t] \in {"queued", "waiting"}
  /\ pins' = IF tpc[t] = "waiting" THEN [pins EXCEPT ![want[t]] = @ - 1]
                                    ELSE pins
  /\ tpc' = [tpc EXCEPT ![t] = "idle"]
  /\ want' = [want EXCEPT ![t] = None]
  /\ UNCHANGED <<state, lru, held, gets>>

Next ==
  \/ \E t \in Threads, a \in Accessions : Get(t, a)
  \/ \E t \in Threads : Retry(t) \/ LoadDone(t) \/ Wake(t) \/ Release(t)
                         \/ Timeout(t)

\* A load, a woken waiter's re-lock, a notified retry and the end of a
\* handle's use all eventually happen; gets and timeouts are never forced.
Fairness ==
  \A t \in Threads : /\ WF_vars(LoadDone(t))
                     /\ WF_vars(Wake(t))
                     /\ WF_vars(Retry(t))
                     /\ WF_vars(Release(t))

Spec == Init /\ [][Next]_vars /\ Fairness

----------------------------------------------------------------------------
(* Properties.                                                             *)

Loaders(a) == {t \in Threads : tpc[t] = "loading" /\ want[t] = a}

\* Single flight (spec property 8): an accession being loaded has exactly
\* one loader, and every get waiting for it waits on that load, so any
\* number of concurrent gets of a missing accession cause one load.
SingleFlight ==
  \A a \in Accessions :
    /\ Cardinality(Loaders(a)) = IF state[a] = "loading" THEN 1 ELSE 0
    /\ \A t \in Threads :
         tpc[t] = "waiting" /\ want[t] = a => state[a] # "absent"

\* A get waiting on a load in progress is eventually handed the methylome
\* or the load's error, without relying on its own timeout.
WaitersServed == \A t \in Threads : tpc[t] = "waiting" ~> tpc[t] # "waiting"

\* The cache implements the contract of LruCache: at most N resident, a hit
\* only on a resident entry, no entry with a handle ever evicted.
LRU == INSTANCE LruCache WITH NoHandle <- None

Refines == LRU!Spec

=============================================================================
