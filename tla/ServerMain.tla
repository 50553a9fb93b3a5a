----------------------------- MODULE ServerMain -----------------------------
(***************************************************************************)
(* command_server_main (command_server.cpp): `xfrase server` parses its    *)
(* options, writes a configuration file and returns when --make-config is  *)
(* given, starts the logger, makes the methylome directory canonical, then *)
(* constructs the server and runs it.  With -d the constructor's error     *)
(* code is checked before run(); without it, it is not.                    *)
(*                                                                         *)
(* The server's constructor (server.cpp, not under src/) first builds its  *)
(* cpg_index_set from the index directory (module CpgIndexSet, composed in *)
(* Deployment); what it does after that (methylome set, resolve, bind,     *)
(* listen, daemonize) is a choice between success and an error code.  A   *)
(* server that constructed without error serves until it is stopped; the  *)
(* model does not stop it.                                                 *)
(***************************************************************************)
VARIABLES
  spc,     \* "start", "constructing", "serving" or "exited"
  sexit,   \* its exit status, or "none"
  daemon,  \* the -d option
  set_pc   \* where the cpg_index_set constructor is (read only here)

\* The process has not been started.
Init ==
  /\ spc = "start"
  /\ sexit = "none"
  /\ daemon = FALSE

SExit(code) ==
  /\ spc' = "exited"
  /\ sexit' = code

\* s.run() on a constructed server: it serves.
Serve ==
  /\ spc' = "serving"
  /\ UNCHANGED sexit

\* Up to the server's construction: --help exits 0; an option error exits
\* 1; --make-config exits 0 or 1 as write_config_file fails or not; a
\* failed logger exits 1; a methylome directory std::filesystem::canonical
\* rejects or makes empty exits 1; otherwise the constructor starts,
\* with or without -d.
Launch ==
  /\ spc = "start"
  /\ \/ /\ SExit("EXIT_SUCCESS") /\ UNCHANGED daemon
     \/ /\ SExit("EXIT_FAILURE") /\ UNCHANGED daemon
     \/ /\ spc' = "constructing"
        /\ daemon' \in BOOLEAN
        /\ UNCHANGED sexit

\* The constructor returns, with ec set or not.  With -d an error exits 1
\* and no error runs the server; without -d, s.run() is called either way.
\* What run() does on a server whose constructor failed is in server.cpp:
\* it returns, and main returns EXIT_SUCCESS, or it serves.
Constructed ==
  /\ spc = "constructing"
  /\ set_pc = "ready"
  /\ \E ec \in BOOLEAN :
       CASE ~ec    -> Serve
         [] daemon -> SExit("EXIT_FAILURE")
         [] OTHER  -> SExit("EXIT_SUCCESS") \/ Serve
  /\ UNCHANGED daemon

\* lookup_server_main (lookup_server.cpp), the older entry point: --help
\* exits 0, an option error exits 1, a failed logger exits 1; otherwise it
\* constructs a server with no index directory and no error code and runs
\* it, so no cpg_index_set is built.
LookupServerMain ==
  /\ spc = "start"
  /\ \/ SExit("EXIT_SUCCESS")
     \/ SExit("EXIT_FAILURE")
     \/ Serve
  /\ UNCHANGED daemon

Next == Launch \/ LookupServerMain \/ Constructed

=============================================================================
