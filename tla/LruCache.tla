------------------------------ MODULE LruCache ------------------------------
(***************************************************************************)
(* What the methylome-set cache promises its callers (spec section 4.3),   *)
(* with every get atomic: a get hits a resident methylome and makes it the *)
(* most recently used, or inserts the one it loaded while there is room;   *)
(* an entry leaves only when no handle holds it.  A get that ends in an    *)
(* error or SERVER_BUSY changes nothing here.                              *)
(*                                                                         *)
(*   lru  : the resident accessions, least recently used first             *)
(*   held : thread -> the accession whose handle it holds, or NoHandle     *)
(***************************************************************************)
EXTENDS Naturals, Sequences, SequencesExt

CONSTANTS
  Threads,     \* request handlers calling get
  Accessions,  \* methylomes on disk
  Capacity,    \* N, the most methylomes resident at once
  NoHandle     \* held by a thread without a handle

VARIABLES lru, held

Held == {held[t] : t \in Threads} \ {NoHandle}

Init ==
  /\ lru = <<>>
  /\ held = [t \in Threads |-> NoHandle]

\* get(a) on a resident methylome: a becomes the most recently used.
Hit(t, a) ==
  /\ held[t] = NoHandle
  /\ a \in ToSet(lru)
  /\ lru' = Append(Remove(lru, a), a)
  /\ held' = [held EXCEPT ![t] = a]

\* get(a) that loaded a: it is resident, most recently used, within N.
Insert(t, a) ==
  /\ held[t] = NoHandle
  /\ a \notin ToSet(lru)
  /\ Len(lru) < Capacity
  /\ lru' = Append(lru, a)
  /\ held' = [held EXCEPT ![t] = a]

\* An entry no handle holds leaves the cache.
Evict(a) ==
  /\ a \in ToSet(lru) \ Held
  /\ lru' = Remove(lru, a)
  /\ UNCHANGED held

\* The last use of a handle ends.
Release(t) ==
  /\ held[t] # NoHandle
  /\ held' = [held EXCEPT ![t] = NoHandle]
  /\ UNCHANGED lru

Next ==
  \/ \E t \in Threads, a \in Accessions : Hit(t, a) \/ Insert(t, a)
  \/ \E a \in Accessions : Evict(a)
  \/ \E t \in Threads : Release(t)

Spec == Init /\ [][Next]_<<lru, held>>

=============================================================================
