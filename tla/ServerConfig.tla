---------------------------- MODULE ServerConfig ----------------------------
(***************************************************************************)
(* `xfrase server --make-config F` (command_server_main with config_out    *)
(* set, write_config_file and format_as_config in config_file_utils.hpp)   *)
(* followed by `xfrase server -c F`, which reads F through the options of  *)
(* server_argset::set_common_opts_impl.                                    *)
(*                                                                         *)
(* A name is a sequence of tokens: words and the separators "_" and "-".  *)
(* format_as_config writes one line per member BOOST_DESCRIBE_STRUCT       *)
(* names, its key the member name with "_" replaced by "-"; the "{} = {}"  *)
(* layout is abstracted to a key and a value, and a value is read back as  *)
(* it was formatted.  How a config-file key no option names is treated is  *)
(* decided by argset_base (arguments.hpp, not under src/): an error, or    *)
(* ignored (`UnknownKeyModes`).                                            *)
(***************************************************************************)
EXTENDS Naturals, Sequences

CONSTANTS
  ArgSets,         \* the server_argset values the first run's options give
  UnknownKeyModes  \* "error" and/or "ignore"

VARIABLES
  made,   \* the argset --make-config was run with, or "none"
  mexit,  \* exit status of the --make-config run, or "none"
  file,   \* the configuration file: whether it exists, and its lines
  sargs,  \* the argset the -c run went on with, or "none"
  sexit   \* "none", "EXIT_FAILURE", or "started" (past option parsing)

vars == <<made, mexit, file, sargs, sexit>>

\* BOOST_DESCRIBE_STRUCT(server_argset, ...): the members format_as_config
\* visits, in order (config_out is not among them).
Members ==
  << <<"hostname">>, <<"port">>, <<"methylome", "_", "dir">>,
     <<"index", "_", "dir">>, <<"log", "_", "filename">>,
     <<"log", "_", "level">>, <<"n", "_", "threads">>,
     <<"max", "_", "resident">>, <<"daemonize">> >>

MemberSet == {Members[i] : i \in 1..Len(Members)}

\* The value a member has before any option sets it (its {} initializer).
Unset(m) ==
  CASE m \in {<<"n", "_", "threads">>, <<"max", "_", "resident">>} -> 0
    [] m = <<"daemonize">> -> FALSE
    [] OTHER -> ""

\* server_argset's *_default constants.
Default ==
  [hostname |-> "localhost", port |-> "5000", log_level |-> "info",
   n_threads |-> 1, max_resident |-> 32]

\* set_common_opts_impl: each option's name, the member it stores into,
\* and its default_value ({} when it has none).
Options ==
  { [name |-> <<"hostname">>, member |-> <<"hostname">>, dflt |-> {Default.hostname}],
    [name |-> <<"port">>, member |-> <<"port">>, dflt |-> {Default.port}],
    [name |-> <<"daemonize">>, member |-> <<"daemonize">>, dflt |-> {FALSE}],
    [name |-> <<"methylome", "-", "dir">>,
     member |-> <<"methylome", "_", "dir">>, dflt |-> {}],
    [name |-> <<"index", "-", "dir">>,
     member |-> <<"index", "_", "dir">>, dflt |-> {}],
    [name |-> <<"max", "-", "resident">>,
     member |-> <<"max", "_", "resident">>, dflt |-> {Default.max_resident}],
    [name |-> <<"threads">>, member |-> <<"n", "_", "threads">>, dflt |-> {Default.n_threads}],
    [name |-> <<"log", "-", "level">>,
     member |-> <<"log", "_", "level">>, dflt |-> {Default.log_level}],
    [name |-> <<"log", "-", "file">>,
     member |-> <<"log", "_", "filename">>, dflt |-> {}] }

\* The options marked ->required().
Required == {<<"methylome", "-", "dir">>, <<"index", "-", "dir">>}

OptionNames == {o.name : o \in Options}

\* std::ranges::replace(name, '_', '-')
ConfigKey(name) == [i \in DOMAIN name |-> IF name[i] = "_" THEN "-" ELSE name[i]]

\* format_as_config: "{name} = {value}\n" for each described member.
FormatAsConfig(args) ==
  [i \in 1..Len(Members) |-> [key |-> ConfigKey(Members[i]),
                              value |-> args[Members[i]]]]

\* Reading a config file with the "Command line or config file" options:
\* a key no option names is an error or is skipped; an option with no
\* line takes its default, fails when required, or leaves its member as
\* initialised.
ParseConfig(lines, mode) ==
  LET keys == {lines[i].key : i \in DOMAIN lines}
      ValueOf(o) ==
        LET given == {lines[i].value : i \in {j \in DOMAIN lines : lines[j].key = o.name}}
        IN  IF given # {} THEN given ELSE o.dflt
      MemberValue(m) ==
        IF \E o \in Options : o.member = m /\ ValueOf(o) # {}
          THEN CHOOSE v \in ValueOf(CHOOSE o \in Options : o.member = m) : TRUE
          ELSE Unset(m)
  IN  [ok |-> ~ \/ mode = "error" /\ keys \ OptionNames # {}
                \/ \E o \in Options : o.name \in Required /\ ValueOf(o) = {},
       args |-> [m \in MemberSet |-> MemberValue(m)]]

Init ==
  /\ made = "none"
  /\ mexit = "none"
  /\ file = [present |-> FALSE, lines |-> <<>>]
  /\ sargs = "none"
  /\ sexit = "none"

\* write_config_file: std::ofstream(config_out) creates or truncates the
\* file; a failed open leaves it as it was; a failed print leaves the
\* lines written before it.
WriteConfigFile(args) ==
  LET lines == FormatAsConfig(args)
  IN  \/ /\ file' = [present |-> TRUE, lines |-> lines]
         /\ mexit' = "EXIT_SUCCESS"
      \/ /\ UNCHANGED file
         /\ mexit' = "EXIT_FAILURE"
      \/ /\ \E k \in 0..(Len(lines) - 1) :
              file' = [present |-> TRUE, lines |-> SubSeq(lines, 1, k)]
         /\ mexit' = "EXIT_FAILURE"

\* command_server_main with --make-config: the options parsed, it writes
\* the file and returns before the logger or the server is started.
MakeConfig ==
  /\ mexit = "none"
  /\ \E a \in ArgSets :
       /\ made' = a
       /\ WriteConfigFile(a)
  /\ UNCHANGED <<sargs, sexit>>

\* command_server_main with -c F after the --make-config run: a missing
\* file or a parse error exits 1 at args.parse; otherwise main goes on
\* with the argset read.
StartFromConfig ==
  /\ mexit # "none"
  /\ sexit = "none"
  /\ \E mode \in UnknownKeyModes :
       LET r == ParseConfig(file.lines, mode)
       IN  IF file.present /\ r.ok THEN sexit' = "started" /\ sargs' = r.args
                                   ELSE sexit' = "EXIT_FAILURE" /\ UNCHANGED sargs
  /\ UNCHANGED <<made, mexit, file>>

Next == MakeConfig \/ StartFromConfig

Spec == Init /\ [][Next]_vars

----------------------------------------------------------------------------
\* A configuration that --make-config wrote without error, given back to
\* the server with -c, is read without error to the settings it was made
\* from: format_as_config's keys must be the names the options read.
ConfigRoundTrip ==
  mexit = "EXIT_SUCCESS" /\ sexit # "none" => sexit = "started" /\ sargs = made

=============================================================================
