---------------------------- MODULE IndexCommand ----------------------------
(***************************************************************************)
(* command_index_main (lookup_server.cpp): one run of `xfrase index -x f`  *)
(* per index file f.  It parses its options (help and a bare command print *)
(* usage and succeed), starts the logger, checks that f ends in .cpg_idx,  *)
(* builds the index from the genome, writes the index to f and then its    *)
(* metadata to f's metadata file, returning EXIT_FAILURE at the first     *)
(* error.  The writes (cpg_index::write, cpg_index_meta::write) are not    *)
(* under src/: a failed one leaves no file or a partial one.               *)
(*                                                                         *)
(* A file is "absent", "partial" (present, cannot be read back) or "ok".   *)
(***************************************************************************)
CONSTANT Files  \* the index files the commands are asked to write

VARIABLES
  ipc,        \* file -> where the command writing it is
  iexit,      \* file -> its exit status, or "none" while it runs
  idx_file,   \* file -> the state of the index file
  meta_file   \* file -> the state of its metadata file

FileStates == {"absent", "partial", "ok"}

\* What a failed write leaves behind.
Torn == {"absent", "partial"}

Init ==
  /\ ipc = [f \in Files |-> "start"]
  /\ iexit = [f \in Files |-> "none"]
  /\ idx_file = [f \in Files |-> "absent"]
  /\ meta_file = [f \in Files |-> "absent"]

Exit(f, code) ==
  /\ ipc' = [ipc EXCEPT ![f] = "exited"]
  /\ iexit' = [iexit EXCEPT ![f] = code]

\* From the start to the first write: help or no arguments exit 0; an
\* option error, a failed logger, a wrong extension, a genome not found or
\* an error constructing the index exit 1; otherwise the index is built.
Start(f) ==
  /\ ipc[f] = "start"
  /\ \/ Exit(f, "EXIT_SUCCESS")
     \/ Exit(f, "EXIT_FAILURE")
     \/ /\ ipc' = [ipc EXCEPT ![f] = "write_index"]
        /\ UNCHANGED iexit
  /\ UNCHANGED <<idx_file, meta_file>>

\* Mutation of index.write: its error is logged but the command goes on.
WriteIndexErrorIgnored(f) ==
  /\ ipc[f] = "write_index"
  /\ \E s \in FileStates : idx_file' = [idx_file EXCEPT ![f] = s]
  /\ ipc' = [ipc EXCEPT ![f] = "write_meta"]
  /\ UNCHANGED <<iexit, meta_file>>

\* index.write(index_file): on error, exit 1.
WriteIndex(f) ==
  /\ ipc[f] = "write_index"
  /\ \/ /\ idx_file' = [idx_file EXCEPT ![f] = "ok"]
        /\ ipc' = [ipc EXCEPT ![f] = "write_meta"]
        /\ UNCHANGED iexit
     \/ /\ \E s \in Torn : idx_file' = [idx_file EXCEPT ![f] = s]
        /\ Exit(f, "EXIT_FAILURE")
  /\ UNCHANGED meta_file

\* cim.write(metadata_output): exit 1 on error, 0 otherwise.
WriteMeta(f) ==
  /\ ipc[f] = "write_meta"
  /\ \/ /\ meta_file' = [meta_file EXCEPT ![f] = "ok"]
        /\ Exit(f, "EXIT_SUCCESS")
     \/ /\ \E s \in Torn : meta_file' = [meta_file EXCEPT ![f] = s]
        /\ Exit(f, "EXIT_FAILURE")
  /\ UNCHANGED idx_file

Next == \E f \in Files : Start(f) \/ WriteIndex(f) \/ WriteMeta(f)

=============================================================================
