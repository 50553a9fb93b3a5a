--------------------------- MODULE MCServerConfig ---------------------------
(***************************************************************************)
(* Argsets for TLC: the defaults of every option but the two directories, *)
(* with and without a log file, one or four threads, with and without -d. *)
(***************************************************************************)
EXTENDS ServerConfig

MCArgSets ==
  { [m \in MemberSet |->
       CASE m = <<"hostname">> -> "localhost"
         [] m = <<"port">> -> "5000"
         [] m = <<"methylome", "_", "dir">> -> "methylomes"
         [] m = <<"index", "_", "dir">> -> "indexes"
         [] m = <<"log", "_", "filename">> -> lf
         [] m = <<"log", "_", "level">> -> "info"
         [] m = <<"n", "_", "threads">> -> nt
         [] m = <<"max", "_", "resident">> -> 32
         [] m = <<"daemonize">> -> d] :
    lf \in {"", "server.log"}, nt \in {1, 4}, d \in BOOLEAN }

MCUnknownKeyModes == {"error", "ignore"}

=============================================================================
