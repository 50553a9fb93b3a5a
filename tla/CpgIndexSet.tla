----------------------------- MODULE CpgIndexSet -----------------------------
(***************************************************************************)
(* cpg_index_set (cpg_index_set.cpp): the constructor walks the index      *)
(* directory in the order directory_iterator yields its entries, and for   *)
(* each file whose name matches <assembly>.<extension> reads the index,    *)
(* emplaces it under the assembly, reads its metadata and emplaces that.   *)
(* The first failed read clears both maps and returns.  The two lookups    *)
(* find an assembly in the maps.                                           *)
(*                                                                         *)
(* A directory entry is a model value.  What the model keeps of it is the  *)
(* assembly its name yields (the match of ^[_[:alnum:]]+, or "unmatched"   *)
(* when the whole name does not match the index filename pattern) and      *)
(* whether its index and its metadata can be read.  Two names may yield    *)
(* the same assembly.  A map value is the entry it was read from.          *)
(***************************************************************************)
EXTENDS FiniteSets, TLC

CONSTANTS
  Entries,    \* the files in the index directory
  Assemblies  \* the assembly names their file names may yield

VARIABLES
  name,     \* entry -> the assembly its name yields, or "unmatched"
  idx_ok,   \* entry -> cpg_index::read succeeds on it
  meta_ok,  \* entry -> cpg_index_meta::read succeeds on its metadata file
  pending,  \* entries directory_iterator has not yet yielded
  index,    \* assembly_to_cpg_index
  meta,     \* assembly_to_cpg_index_meta
  pc        \* "loading" in the constructor, "ready" once it has returned

vars == <<name, idx_ok, meta_ok, pending, index, meta, pc>>

\* An empty std::unordered_map.
EmptyMap == <<>>

\* The directory holds any files; the maps start empty.
Init ==
  /\ name \in [Entries -> Assemblies \cup {"unmatched"}]
  /\ idx_ok \in [Entries -> BOOLEAN]
  /\ meta_ok \in [Entries -> BOOLEAN]
  /\ pending = Entries
  /\ index = EmptyMap
  /\ meta = EmptyMap
  /\ pc = "loading"

\* unordered_map::emplace: inserts only when the key is absent.
Emplace(m, k, v) == IF k \in DOMAIN m THEN m ELSE m @@ (k :> v)

\* Mutation of a failed read: the maps are cleared but the loop goes on
\* to the next entry instead of returning.
AbandonContinue(f) ==
  /\ index' = EmptyMap
  /\ meta' = EmptyMap
  /\ pending' = pending \ {f}
  /\ UNCHANGED pc

\* Mutation of a failed read: only the index map is cleared.
AbandonKeepsMeta(f) ==
  /\ index' = EmptyMap
  /\ UNCHANGED meta
  /\ pc' = "ready"
  /\ UNCHANGED pending

\* A failed read of entry f: clear both maps and return.
Abandon(f) ==
  /\ index' = EmptyMap
  /\ meta' = EmptyMap
  /\ pc' = "ready"
  /\ UNCHANGED pending

----------------------------------------------------------------------------
\* One iteration of the directory loop, for the entry f the iterator
\* yields next: skip a name that does not match; otherwise read the index
\* (failure: abandon), emplace it, read the metadata (failure: abandon),
\* emplace it.
VisitEntry ==
  /\ pc = "loading"
  /\ \E f \in pending :
       \/ /\ name[f] = "unmatched"
          /\ pending' = pending \ {f}
          /\ UNCHANGED <<index, meta, pc>>
       \/ /\ name[f] # "unmatched"
          /\ ~idx_ok[f]
          /\ Abandon(f)
       \/ /\ name[f] # "unmatched"
          /\ idx_ok[f]
          /\ ~meta_ok[f]
          /\ Abandon(f)
       \/ /\ name[f] # "unmatched"
          /\ idx_ok[f]
          /\ meta_ok[f]
          /\ index' = Emplace(index, name[f], f)
          /\ meta' = Emplace(meta, name[f], f)
          /\ pending' = pending \ {f}
          /\ UNCHANGED pc
  /\ UNCHANGED <<name, idx_ok, meta_ok>>

\* The iterator reaches the end of the directory: the constructor returns.
EndOfDirectory ==
  /\ pc = "loading"
  /\ pending = {}
  /\ pc' = "ready"
  /\ UNCHANGED <<name, idx_ok, meta_ok, pending, index, meta>>

Next == VisitEntry \/ EndOfDirectory

\* The constructor runs on one thread and its loop visits every entry.
Spec == Init /\ [][Next]_vars /\ WF_vars(Next)

----------------------------------------------------------------------------
(* The lookups, on the constructed set.  A reference returned on an error  *)
(* path is bound to a temporary ({}) and dangles.                          *)

\* get_cpg_index_meta
GetCpgIndexMeta(a) ==
  IF a \in DOMAIN meta
    THEN [meta |-> meta[a], err |-> "none"]
    ELSE [meta |-> "dangling", err |-> "invalid_argument"]

\* get_cpg_index_with_meta: the index map first, then the metadata map.
GetCpgIndexWithMeta(a) ==
  IF a \in DOMAIN index /\ a \in DOMAIN meta
    THEN [index |-> index[a], meta |-> meta[a], err |-> "none"]
    ELSE [index |-> "dangling", meta |-> "dangling", err |-> "invalid_argument"]

----------------------------------------------------------------------------
Matched == {f \in Entries : name[f] # "unmatched"}

\* Some matching file, whatever its place in the directory order, cannot
\* be read.
SomeUnreadable == \E f \in Matched : ~idx_ok[f] \/ ~meta_ok[f]

\* Once constructed, the set is all or nothing, whatever order the
\* directory iterator yields the files in: empty when any matching file
\* or its metadata cannot be read, and otherwise holding every assembly a
\* matching file names, each from a file of that assembly.
LoadAllOrNothing ==
  pc = "ready" =>
    IF SomeUnreadable
      THEN DOMAIN index = {} /\ DOMAIN meta = {}
      ELSE /\ DOMAIN index = {name[f] : f \in Matched}
           /\ \A a \in DOMAIN index : name[index[a]] = a

\* The two lookups agree: get_cpg_index_meta succeeds for exactly the
\* assemblies get_cpg_index_with_meta succeeds for, and the index and the
\* metadata get_cpg_index_with_meta returns were read from the same file,
\* even when several files name one assembly.
LookupsAgree ==
  pc = "ready" =>
    \A a \in Assemblies :
      LET m == GetCpgIndexMeta(a)
          w == GetCpgIndexWithMeta(a)
      IN /\ m.err = w.err
         /\ w.err = "none" => w.index = w.meta /\ w.meta = m.meta

=============================================================================
