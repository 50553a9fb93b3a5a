---------------------------- MODULE LookupClient ----------------------------
(***************************************************************************)
(* struct mc16_client (lookup_client.cpp): resolve, connect, write the     *)
(* request, read the response header, read the counts, each step a         *)
(* completion handler on one io_context thread, watched by a deadline      *)
(* timer whose handler check_deadline closes the socket when the deadline  *)
(* has passed.  The timer is modelled by                                   *)
(*   deadline      : "armed" (expires_after(read_timeout_seconds)),        *)
(*                   "expired" (that time has passed) or "max"             *)
(*                   (expires_at(time_point::max()))                       *)
(*   deadline_wait : "waiting" (async_wait pending), "fired" (the wait     *)
(*                   completed or was cancelled and check_deadline is      *)
(*                   queued) or "none" (no wait pending)                   *)
(* Setting the expiry cancels a pending wait, which queues check_deadline  *)
(* with operation_aborted; check_deadline ignores the error code.          *)
(***************************************************************************)
EXTENDS Naturals, Sequences

CONSTANT Requests   \* requests the client may be asked to send

VARIABLES
  client_op,     \* outstanding socket/resolver operation, or "idle"
  status,        \* mc16_client::status ("none" = no error)
  deadline,      \* expiry of mc16_client::deadline
  deadline_wait, \* state of the async_wait on the deadline
  sock,          \* mc16_client::socket: "unopened", "open" or "closed"
  counts,        \* mc16_client::resp.counts, as received
  req,           \* the request (header and offsets) this client sends
  c2s, s2c, c2s_eof, s2c_eof, net, link

clientVars == <<client_op, status, deadline, deadline_wait, sock, counts, req>>

NoCounts == [acc |-> "none", read |-> 0]

\* Mutation of compose_request/handle_connect: only the request buffer is
\* passed to async_write, the offsets buffer is left out.
RequestHeaderOnly(r) == <<[kind |-> "hdr", req |-> r]>>

\* The bytes the client writes: request buffer, then n offset pairs.
RequestBytes(r) ==
  <<[kind |-> "hdr", req |-> r]>> \o [i \in 1..r.n |-> [kind |-> "off"]]

\* Constructor: async_resolve, expires_after, async_wait(check_deadline).
Init ==
  /\ client_op = "resolve"
  /\ status = "none"
  /\ deadline = "armed"
  /\ deadline_wait = "waiting"
  /\ sock = "unopened"
  /\ counts = NoCounts
  /\ req \in Requests

----------------------------------------------------------------------------
\* deadline.expires_after(...) / expires_at(max()): cancels a pending wait.
SetDeadline(v) ==
  /\ deadline' = v
  /\ deadline_wait' = IF deadline_wait = "waiting" THEN "fired"
                                                    ELSE deadline_wait

\* A handler records an error and starts no further operation.
Fail(e) ==
  /\ status' = e
  /\ client_op' = "idle"

\* The error a pending socket operation completes with: a connect that is
\* never answered times out (ETIMEDOUT).
IoError ==
  IF sock = "closed" THEN "aborted"
  ELSE IF net = "reset" THEN "io_error"
  ELSE IF net = "partitioned" THEN "timed_out"
  ELSE "eof"

\* The next response item can be delivered to a pending read.
CanRead(kind) ==
  /\ sock = "open"
  /\ net # "partitioned"
  /\ s2c # <<>>
  /\ Head(s2c).kind = kind

\* A pending read completes with an error: also when request bytes the
\* server never received are still being retransmitted across a partition,
\* until the kernel gives up (ETIMEDOUT).  Once the server has the whole
\* request, nothing of the client's is unacknowledged and a read across a
\* partition waits for ever.
ReadFails ==
  \/ sock = "closed"
  \/ net = "reset"
  \/ (net = "up" /\ s2c = <<>> /\ s2c_eof)
  \/ (net = "partitioned" /\ c2s # <<>>)

----------------------------------------------------------------------------
\* handle_resolve: on success async_connect (which opens the socket), then
\* expires_after; on error record it.
HandleResolve ==
  /\ client_op = "resolve"
  /\ \/ /\ client_op' = "connect"
        /\ sock' = "open"
        /\ SetDeadline("armed")
        /\ UNCHANGED status
     \/ /\ Fail("resolve_error")
        /\ UNCHANGED <<sock, deadline, deadline_wait>>
  /\ UNCHANGED <<counts, req, c2s, s2c, c2s_eof, s2c_eof, net, link>>

\* handle_connect: expires_at(max); on success compose header and body and
\* async_write them, then expires_after; a compose error is recorded and
\* ends the transaction with the socket still open.  A connect whose SYN
\* is never answered (a partition) fails with ETIMEDOUT from the kernel.
HandleConnect ==
  /\ client_op = "connect"
  /\ \/ /\ sock = "open"
        /\ net = "up"
        /\ link' = "established"
        /\ IF req.form = "uncomposable"
             THEN /\ Fail("compose_error")
                  /\ SetDeadline("max")
                  /\ UNCHANGED c2s
             ELSE /\ c2s' = c2s \o RequestBytes(req)
                  /\ client_op' = "write"
                  /\ SetDeadline("armed")
                  /\ UNCHANGED status
     \/ /\ sock = "closed" \/ net # "up"
        /\ Fail(IoError)
        /\ SetDeadline("max")
        /\ UNCHANGED <<c2s, link>>
  /\ UNCHANGED <<sock, counts, req, s2c, c2s_eof, s2c_eof, net>>

\* handle_write_request: expires_at(max); on success async_read the
\* response header, then expires_after.
HandleWriteRequest ==
  /\ client_op = "write"
  /\ \/ /\ sock = "open"
        /\ net # "reset"
        /\ client_op' = "read_hdr"
        /\ SetDeadline("armed")
        /\ UNCHANGED status
     \/ /\ sock = "closed" \/ net = "reset"
        /\ Fail(IoError)
        /\ SetDeadline("max")
  /\ UNCHANGED <<sock, counts, req, c2s, s2c, c2s_eof, s2c_eof, net, link>>

\* handle_read_response_header: expires_at(max); parse the header; a
\* status other than ok is the parse's error and goes to do_finish;
\* otherwise do_read_counts: async_read(transfer_exactly(n_intervals
\* counts)), then expires_after.
HandleReadResponseHeader ==
  /\ client_op = "read_hdr"
  /\ \/ /\ CanRead("hdr")
        /\ s2c' = Tail(s2c)
        /\ LET st == Head(s2c).status
           IN IF st = "ok"
                THEN /\ client_op' = "read_counts"
                     /\ SetDeadline("armed")
                     /\ UNCHANGED status
                ELSE /\ Fail(st)
                     /\ SetDeadline("max")
     \/ /\ ReadFails
        /\ Fail(IoError)
        /\ SetDeadline("max")
        /\ UNCHANGED s2c
  /\ UNCHANGED <<sock, counts, req, c2s, c2s_eof, s2c_eof, net, link>>

\* Mutation of do_finish: the error code of the counts read is not recorded.
DoFinishDropsError ==
  /\ client_op = "read_counts"
  /\ \/ /\ req.n = 0
        /\ client_op' = "idle"
        /\ SetDeadline("max")
        /\ UNCHANGED <<status, counts, s2c>>
     \/ /\ req.n > 0
        /\ CanRead("counts")
        /\ s2c' = Tail(s2c)
        /\ counts' = Head(s2c).counts
        /\ client_op' = "idle"
        /\ SetDeadline("max")
        /\ UNCHANGED status
     \/ /\ req.n > 0
        /\ ReadFails
        /\ client_op' = "idle"
        /\ SetDeadline("max")
        /\ UNCHANGED <<status, counts, s2c>>
  /\ UNCHANGED <<sock, req, c2s, c2s_eof, s2c_eof, net, link>>

\* do_finish, the completion of the counts read: expires_at(max), record
\* an error.  Reading exactly zero bytes completes at once without error.
DoFinish ==
  /\ client_op = "read_counts"
  /\ \/ /\ req.n = 0
        /\ client_op' = "idle"
        /\ SetDeadline("max")
        /\ UNCHANGED <<status, counts, s2c>>
     \/ /\ req.n > 0
        /\ CanRead("counts")
        /\ s2c' = Tail(s2c)
        /\ counts' = Head(s2c).counts
        /\ client_op' = "idle"
        /\ SetDeadline("max")
        /\ UNCHANGED status
     \/ /\ req.n > 0
        /\ ReadFails
        /\ Fail(IoError)
        /\ SetDeadline("max")
        /\ UNCHANGED <<counts, s2c>>
  /\ UNCHANGED <<sock, req, c2s, c2s_eof, s2c_eof, net, link>>

\* check_deadline: return if the socket is not open (no new wait); if the
\* deadline has passed shut down and close the socket and set the expiry
\* to max; then async_wait again.
CheckDeadline ==
  /\ deadline_wait = "fired"
  /\ IF sock # "open"
       THEN /\ deadline_wait' = "none"
            /\ UNCHANGED <<deadline, sock, c2s_eof>>
       ELSE IF deadline = "expired"
       THEN /\ sock' = "closed"
            /\ c2s_eof' = TRUE
            /\ deadline' = "max"
            /\ deadline_wait' = "waiting"
       ELSE /\ deadline_wait' = "waiting"
            /\ UNCHANGED <<deadline, sock, c2s_eof>>
  /\ UNCHANGED <<client_op, status, counts, req, c2s, s2c, s2c_eof, net,
                 link>>

\* The steady clock passes an armed expiry; a pending wait completes.
Tick ==
  /\ deadline = "armed"
  /\ deadline' = "expired"
  /\ deadline_wait' = IF deadline_wait = "waiting" THEN "fired"
                                                    ELSE deadline_wait
  /\ UNCHANGED <<client_op, status, sock, counts, req, c2s, s2c, c2s_eof,
                 s2c_eof, net, link>>

\* The handlers that carry the transaction forward.
Transaction ==
  \/ HandleResolve
  \/ HandleConnect
  \/ HandleWriteRequest
  \/ HandleReadResponseHeader
  \/ DoFinish

Next == Transaction \/ CheckDeadline \/ Tick

\* The transaction has ended: no socket or resolver operation is pending.
ClientDone == client_op = "idle"

=============================================================================
