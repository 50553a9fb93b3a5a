------------------------------ MODULE Session ------------------------------
(***************************************************************************)
(* One query end to end: the lookup client (LookupClient) and the server's *)
(* connection (Connection) on the two ends of one TCP socket, over a       *)
(* network that may reset the connection or silently stop delivering.     *)
(* The client runs its handlers on its own io_context thread, the server   *)
(* on its executor; steps of the two ends interleave arbitrarily.          *)
(***************************************************************************)
EXTENDS Naturals, Sequences

CONSTANTS
  KnownAccessions, \* accessions the server holds a methylome for
  StaleDecodes,    \* outcomes of from_chars on the never-written resp_buf
  Requests,        \* requests the client may send
  NetFailures      \* how the network may fail: subset of {"reset", "partitioned"}

VARIABLES
  stage, conn_req, resp_hdr, offset_remaining, offset_byte, resp, verdict,
  sent,
  client_op, status, deadline, deadline_wait, sock, counts, req,
  c2s, s2c, c2s_eof, s2c_eof, net, link

S == INSTANCE Connection
C == INSTANCE LookupClient

serverVars ==
  <<stage, conn_req, resp_hdr, offset_remaining, offset_byte, resp,
    verdict, sent>>
clientVars == <<client_op, status, deadline, deadline_wait, sock, counts, req>>
socketVars == <<c2s, s2c, c2s_eof, s2c_eof, net, link>>
vars == <<serverVars, clientVars, socketVars>>

Init ==
  /\ S!Init
  /\ C!Init
  /\ c2s = <<>>
  /\ s2c = <<>>
  /\ c2s_eof = FALSE
  /\ s2c_eof = FALSE
  /\ net = "up"
  /\ link = "none"

\* The network fails once: a reset reported to both ends, or a partition
\* after which nothing is delivered and nothing is reported.
NetFail ==
  /\ net = "up"
  /\ net' \in NetFailures
  /\ UNCHANGED <<serverVars, clientVars, c2s, s2c, c2s_eof, s2c_eof, link>>

ServerStep == S!Next /\ UNCHANGED clientVars
ClientStep == C!Next /\ UNCHANGED serverVars

Next == ServerStep \/ ClientStep \/ NetFail

\* Completion handlers run once their operation completes (asio runs every
\* queued handler), and an armed steady_timer expires.  Network failure is
\* never forced.
Fairness ==
  /\ WF_vars(ServerStep)
  /\ WF_vars(C!Transaction /\ UNCHANGED serverVars)
  /\ WF_vars(C!CheckDeadline /\ UNCHANGED serverVars)
  /\ WF_vars(C!Tick /\ UNCHANGED serverVars)

Spec == Init /\ [][Next]_vars /\ Fairness

----------------------------------------------------------------------------
Statuses == {"ok"} \cup S!ErrorStatuses
CountsRec == [acc : KnownAccessions \cup {"none"} \cup {r.acc : r \in Requests},
              read : Nat]
Item ==
  [kind : {"hdr"}, req : Requests] \cup [kind : {"off"}]
    \cup [kind : {"hdr"}, status : Statuses] \cup [kind : {"counts"}, counts : CountsRec]

TypeOK ==
  /\ stage \in S!Stages
  /\ conn_req \in Requests \cup {S!NoRequest}
  /\ resp_hdr \in Statuses
  /\ offset_remaining \in Nat /\ offset_byte \in Nat
  /\ resp \in CountsRec
  /\ verdict \in Statuses \cup {"none"}
  /\ client_op \in {"resolve", "connect", "write", "read_hdr", "read_counts", "idle"}
  /\ status \in Statuses \cup {"none", "resolve_error", "compose_error",
                               "aborted", "io_error", "eof", "timed_out"}
  /\ deadline \in {"armed", "expired", "max"}
  /\ deadline_wait \in {"waiting", "fired", "none"}
  /\ sock \in {"unopened", "open", "closed"}
  /\ counts \in CountsRec
  /\ req \in Requests
  /\ c2s \in Seq(Item) /\ s2c \in Seq(Item) /\ sent \in Seq(Item)
  /\ c2s_eof \in BOOLEAN /\ s2c_eof \in BOOLEAN
  /\ net \in {"up", "reset", "partitioned"}
  /\ link \in {"none", "established"}

----------------------------------------------------------------------------
(* Properties.                                                             *)

\* When the client ends without error having asked for intervals, the
\* counts it holds were computed by handle_get_counts for its accession over
\* all n_intervals offsets it sent (connection::read_offsets must not run
\* the kernel before offset_remaining reaches 0, and the client must not
\* report success on a truncated or missing counts payload).
ClientResultCorrect ==
  (C!ClientDone /\ status = "none" /\ req.n > 0)
    => counts = [acc |-> req.acc, read |-> req.n]

\* When the handler or a parser rejects the request (spec 4.4, scenario
\* S6), a client whose socket stayed healthy ends with that status
\* (connection::respond_with_error must put it on the wire).
ErrorReported ==
  (C!ClientDone /\ verdict \in S!ErrorStatuses /\ net = "up"
     /\ sock = "open")
    => status = verdict

\* Every client transaction ends: no socket operation stays pending forever
\* (the deadline timer bounds every stage after resolution).
ClientRequestCompletes == <>C!ClientDone

\* Once the client has ended, its io_context runs out of work, so
\* io_context.run() in lookup_client_main returns.
ClientIoDrains == <>(C!ClientDone /\ deadline_wait = "none")

\* Every accepted connection is eventually closed by the server (spec 4.4:
\* per-stage read timeouts and a whole-request deadline).
ServerConnectionCloses == (stage # "unaccepted") ~> (stage = "done")

\* Every accepted connection whose peer can compose its request, and so
\* writes it in full, is eventually closed by the server, whatever the
\* resets and the client's deadline closes do: read_offsets waits for
\* exactly the offsets the header announced and each response path ends in
\* a shutdown.
ServerClosesSentRequests ==
  (stage # "unaccepted" /\ req.form # "uncomposable") ~> (stage = "done")

=============================================================================
