----------------------------- MODULE Connection -----------------------------
(***************************************************************************)
(* The server side of one query: struct connection (connection.hpp) and    *)
(* its chain of asio completion handlers (connection.cpp).  A connection   *)
(* has at most one outstanding async operation, so its handlers never run  *)
(* concurrently; `stage` names the outstanding operation.                  *)
(*                                                                         *)
(* The socket is shared with the peer (LookupClient) through               *)
(*   c2s, s2c     : bytes in flight in each direction, as items            *)
(*   c2s_eof      : the peer has shut down / closed its end                *)
(*   s2c_eof      : this connection has shut down / closed its end         *)
(*   net          : "up", "reset" (RST / I/O error) or "partitioned"       *)
(*                  (nothing is delivered and no error is reported)        *)
(*   link         : "established" once the peer's connect completed        *)
(***************************************************************************)
EXTENDS Naturals, Sequences, RequestHandler

CONSTANTS
  StaleDecodes  \* what from_chars can make of a response buffer that was
                \* never written: "parse_error" or a status it decodes to

VARIABLES
  stage,            \* outstanding operation of the connection, or "done"
  conn_req,         \* connection::req, the parsed request
  resp_hdr,         \* status held in connection::resp_hdr
  offset_remaining, \* connection::offset_remaining (in offset pairs)
  offset_byte,      \* connection::offset_byte (in offset pairs)
  resp,             \* connection::resp, the counts computed by the handler
  verdict,          \* history: the last status the handler/parsers decided
  sent,             \* history: every item this connection wrote
  c2s, s2c, c2s_eof, s2c_eof, net, link

serverVars ==
  <<stage, conn_req, resp_hdr, offset_remaining, offset_byte, resp,
    verdict, sent>>

Stages ==
  {"unaccepted", "read_request", "read_offsets", "write_header",
   "write_counts", "write_error", "done"}

NoCounts == [acc |-> "none", read |-> 0]

NoRequest == [form |-> "none", acc |-> "none", size |-> "none",
              offs |-> "none", n |-> 0]

Init ==
  /\ stage = "unaccepted"
  /\ conn_req = NoRequest
  /\ resp_hdr = "ok"
  /\ offset_remaining = 0
  /\ offset_byte = 0
  /\ resp = NoCounts
  /\ verdict = "none"
  /\ sent = <<>>

----------------------------------------------------------------------------
(* Socket conditions, as seen from this end.                               *)

\* Bytes from the peer can be delivered to a pending read.
PeerData == net = "up" /\ c2s # <<>>

\* A pending read completes with an error: reset, or EOF with nothing left.
ReadFails == net = "reset" \/ (net = "up" /\ c2s = <<>> /\ c2s_eof)

\* A write completes (the bytes fit in the send buffer) unless reset.
WriteSucceeds == net # "reset"

\* A write may fail once the peer has closed its socket, and must on reset.
WriteFails == net = "reset" \/ c2s_eof

\* Put an item on the wire (lost if the connection is reset).
Send(item) ==
  /\ s2c' = IF net = "reset" THEN s2c ELSE Append(s2c, item)
  /\ sent' = Append(sent, item)

\* socket.shutdown(shutdown_both), or the destructor of the last handler
\* closing the socket.  Closing with request bytes still unread makes the
\* kernel answer with RST instead of FIN.
Shutdown ==
  /\ stage' = "done"
  /\ s2c_eof' = TRUE
  /\ net' = IF net = "up" /\ c2s # <<>> THEN "reset" ELSE net

----------------------------------------------------------------------------
(* connection::respond_with_error: from_chars(resp_buf -> resp_hdr), then  *)
(* write resp_buf.  resp_buf is never written on this path, so what is     *)
(* parsed and sent is the buffer's initial contents (a choice over         *)
(* StaleDecodes), not the status the handler decided.                      *)
RespondWithError(decided) ==
  \E g \in StaleDecodes :
    /\ resp_hdr' = IF g = "parse_error" THEN decided ELSE g
    /\ IF g = "parse_error"
         THEN Shutdown /\ UNCHANGED <<s2c, sent>>
         ELSE /\ Send([kind |-> "hdr", status |-> g])
              /\ stage' = "write_error"
              /\ UNCHANGED <<s2c_eof, net>>

\* connection::respond_with_header: to_chars(resp_hdr -> resp_buf), then
\* write; if to_chars fails (its definition is not under src/), the socket
\* is shut down with nothing sent.
RespondWithHeader(st) ==
  \/ /\ Send([kind |-> "hdr", status |-> st])
     /\ stage' = "write_header"
     /\ UNCHANGED <<s2c_eof, net>>
  \/ /\ Shutdown
     /\ UNCHANGED <<s2c, sent>>

\* request::get_offsets_n_bytes: sizeof(offset_type) * size(offsets) as
\* uint32_t, counted here in 8-byte offset pairs, so it wraps at 2^29 pairs.
GetOffsetsNPairs(n) == n % 2^29

\* Mutations of prepare_to_read_offsets: a count of offset pairs one short,
\* and one too many.
PrepareToReadOffsetsShort(r) ==
  /\ offset_remaining' = r.n - 1
  /\ offset_byte' = 0

PrepareToReadOffsetsLong(r) ==
  /\ offset_remaining' = r.n + 1
  /\ offset_byte' = 0

\* connection::prepare_to_read_offsets
PrepareToReadOffsets(r) ==
  /\ offset_remaining' = GetOffsetsNPairs(r.n)
  /\ offset_byte' = 0

----------------------------------------------------------------------------
(* Actions: one per completion handler.                                    *)

\* The acceptor hands the socket to a new connection; start() calls
\* read_request().
Accept ==
  /\ stage = "unaccepted"
  /\ link = "established"
  /\ stage' = "read_request"
  /\ UNCHANGED <<conn_req, resp_hdr, offset_remaining, offset_byte, resp,
                 verdict, sent, c2s, s2c, c2s_eof, s2c_eof, net, link>>

\* Completion of async_read(transfer_exactly(request_buf_size)): parse the
\* header, handle_header, parse the body, then read the offsets.  On a
\* read error no new operation starts and the connection is destroyed.
ReadRequestDone ==
  /\ stage = "read_request"
  /\ \/ /\ PeerData
        /\ LET r == Head(c2s).req
               hs == HandleHeader(r)
           IN /\ c2s' = Tail(c2s)
              /\ conn_req' = r
              /\ UNCHANGED <<resp, c2s_eof, link>>
              /\ CASE r.form = "bad_header" ->
                        /\ verdict' = "bad_request"
                        /\ RespondWithError("bad_request")
                        /\ UNCHANGED <<offset_remaining, offset_byte>>
                   [] hs # "ok" ->
                        /\ verdict' = hs
                        /\ RespondWithError(hs)
                        /\ UNCHANGED <<offset_remaining, offset_byte>>
                   [] r.form = "bad_body" ->
                        /\ verdict' = "bad_request"
                        /\ RespondWithError("bad_request")
                        /\ UNCHANGED <<offset_remaining, offset_byte>>
                   [] OTHER ->
                        /\ resp_hdr' = hs
                        /\ PrepareToReadOffsets(r)
                        /\ stage' = "read_offsets"
                        /\ UNCHANGED <<verdict, sent, s2c, s2c_eof, net>>
     \/ /\ ReadFails
        /\ Shutdown
        /\ UNCHANGED <<conn_req, resp_hdr, offset_remaining, offset_byte,
                       resp, verdict, sent, c2s, s2c, c2s_eof, link>>

\* The offsets have been read: handle_get_counts, then respond_with_header
\* (whatever status handle_get_counts left in resp_hdr).
GotAllOffsets ==
  LET h == HandleGetCounts(conn_req, offset_byte')
  IN /\ resp_hdr' = h.status
     /\ resp' = h.counts
     /\ verdict' = h.status
     /\ RespondWithHeader(h.status)

\* Completion of async_read_some into the rest of the offsets buffer.  A
\* read of zero bytes (n_intervals = 0) completes at once without error.
ReadOffsetsDone ==
  /\ stage = "read_offsets"
  /\ UNCHANGED <<conn_req, c2s_eof, link>>
  /\ \/ /\ offset_remaining = 0
        /\ offset_byte' = offset_byte
        /\ offset_remaining' = 0
        /\ c2s' = c2s
        /\ GotAllOffsets
     \/ /\ offset_remaining > 0
        /\ PeerData
        /\ \E k \in 1..offset_remaining :
             /\ k <= Len(c2s)
             /\ c2s' = SubSeq(c2s, k + 1, Len(c2s))
             /\ offset_remaining' = offset_remaining - k
             /\ offset_byte' = offset_byte + k
             /\ IF offset_remaining' = 0
                  THEN GotAllOffsets
                  ELSE /\ stage' = "read_offsets"
                       /\ UNCHANGED <<resp_hdr, resp, verdict, sent, s2c,
                                      s2c_eof, net>>
     \/ /\ offset_remaining > 0
        /\ ReadFails
        /\ RespondWithError(resp_hdr)
        /\ UNCHANGED <<c2s, offset_remaining, offset_byte, resp, verdict>>

\* Completion of the write of the response header: on success write the
\* counts (respond_with_counts), on error shut down.  An empty resp.counts
\* is a write of zero bytes: it completes and puts nothing on the wire.
WriteHeaderDone ==
  /\ stage = "write_header"
  /\ \/ /\ WriteSucceeds
        /\ IF resp = NoCounts THEN UNCHANGED <<s2c, sent>>
                             ELSE Send([kind |-> "counts", counts |-> resp])
        /\ stage' = "write_counts"
        /\ UNCHANGED <<s2c_eof, net>>
     \/ /\ WriteFails
        /\ Shutdown
        /\ UNCHANGED <<s2c, sent>>
  /\ UNCHANGED <<conn_req, resp_hdr, offset_remaining, offset_byte, resp,
                 verdict, c2s, c2s_eof, link>>

\* Completion of the last write (counts, or error header): on success the
\* socket is shut down, on error the connection is destroyed; either way
\* this end is closed.
WriteLastDone ==
  /\ stage \in {"write_counts", "write_error"}
  /\ WriteSucceeds \/ WriteFails
  /\ Shutdown
  /\ UNCHANGED <<conn_req, resp_hdr, offset_remaining, offset_byte, resp,
                 verdict, sent, c2s, s2c, c2s_eof, link>>

Next ==
  \/ Accept
  \/ ReadRequestDone
  \/ ReadOffsetsDone
  \/ WriteHeaderDone
  \/ WriteLastDone

=============================================================================
