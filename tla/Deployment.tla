----------------------------- MODULE Deployment -----------------------------
(***************************************************************************)
(* The two programs that share the index directory: `xfrase index` runs    *)
(* (IndexCommand), one per index file, and one `xfrase server` process    *)
(* (ServerMain) whose constructor builds its cpg_index_set (CpgIndexSet)   *)
(* from the files in that directory.  The processes run concurrently; a   *)
(* server may scan the directory while an index is being written.         *)
(*                                                                         *)
(* The cpg_index_set sees a file through what the index commands left:    *)
(* directory_iterator yields only a present file (an absent one is        *)
(* skipped like a name that does not match), cpg_index::read succeeds on   *)
(* an "ok" index and cpg_index_meta::read on an "ok" metadata file.        *)
(***************************************************************************)
EXTENDS FiniteSets

CONSTANTS
  Files,       \* the index files the commands write, in the index directory
  Assemblies,  \* the assembly names those file names may yield
  YieldOf      \* file -> the assembly its name yields, or "unmatched"

VARIABLES
  ipc, iexit, idx_file, meta_file,  \* the index commands
  spc, sexit, daemon,               \* the server process
  pending, index, meta, set_pc,     \* its cpg_index_set
  scan_from  \* the index commands' exit statuses when the scan started

idx_vars == <<ipc, iexit, idx_file, meta_file>>
srv_vars == <<spc, sexit, daemon>>
set_vars == <<pending, index, meta, set_pc>>
vars == <<idx_vars, srv_vars, set_vars, scan_from>>

Idx == INSTANCE IndexCommand

Srv == INSTANCE ServerMain

\* What the directory scan finds of each file.
DirName == [f \in Files |-> IF idx_file[f] = "absent" THEN "unmatched"
                                                      ELSE YieldOf[f]]

IdxReadable == [f \in Files |-> idx_file[f] = "ok"]

MetaReadable == [f \in Files |-> meta_file[f] = "ok"]

Cpg == INSTANCE CpgIndexSet
         WITH Entries <- Files, name <- DirName, idx_ok <- IdxReadable,
              meta_ok <- MetaReadable, pc <- set_pc

Init ==
  /\ Idx!Init
  /\ Srv!Init
  /\ Cpg!Init
  /\ scan_from = [f \in Files |-> "none"]

\* A step of one index command.
IndexStep ==
  /\ \E f \in Files : Idx!Start(f) \/ Idx!WriteIndex(f) \/ Idx!WriteMeta(f)
  /\ UNCHANGED <<srv_vars, set_vars, scan_from>>

\* The server process starts, through either entry point; if it reaches
\* the constructor that takes the index directory, the scan begins.
ServerLaunch ==
  /\ Srv!Launch \/ Srv!LookupServerMain
  /\ scan_from' = IF spc' = "constructing" THEN iexit ELSE scan_from
  /\ UNCHANGED <<idx_vars, set_vars>>

\* A step of the cpg_index_set constructor inside the server's.
ScanStep ==
  /\ spc = "constructing"
  /\ UNCHANGED <<idx_vars, srv_vars, scan_from>>
  /\ Cpg!Next

\* The rest of the server's constructor, and what main does after it.
ServerConstructed ==
  /\ Srv!Constructed
  /\ UNCHANGED <<idx_vars, set_vars, scan_from>>

Next == IndexStep \/ ServerLaunch \/ ScanStep \/ ServerConstructed

\* Each process runs to its end; the server is not stopped.
Spec == Init /\ [][Next]_vars /\ WF_vars(Next)

----------------------------------------------------------------------------
(* Properties.                                                             *)

\* The index files present in the directory.
Written == {f \in Files : idx_file[f] # "absent"}

\* Every index command had returned when the server's scan started, so no
\* file changed under it.
ScanAfterIndexing == \A f \in Files : scan_from[f] # "none"

\* The index set's own guarantees hold whatever the index commands left in
\* the directory: all or nothing once the files stay put during the scan
\* (a file completed after the scan read it is not read again), and
\* lookups that agree in every case.
LoadAllOrNothing == ScanAfterIndexing => Cpg!LoadAllOrNothing

LookupsAgree == Cpg!LookupsAgree

\* A server whose scan began after every index command had returned
\* EXIT_SUCCESS serves the assembly of every index file they wrote, and
\* nothing else: exit status 0 from `xfrase index` means both files were
\* written (or none, for --help), and the server's description says an
\* index made by the 'index' command is what the server loads.
ServesWhatWasIndexed ==
  /\ set_pc = "ready"
  /\ \A f \in Files : scan_from[f] = "EXIT_SUCCESS"
  => DOMAIN index = {YieldOf[f] : f \in Written}

=============================================================================
