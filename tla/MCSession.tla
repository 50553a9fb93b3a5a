----------------------------- MODULE MCSession -----------------------------
(***************************************************************************)
(* Model-checking instance of Session: one known accession, requests that *)
(* reach every branch of connection::read_request and read_offsets.       *)
(***************************************************************************)
EXTENDS Session

MCKnownAccessions == {"acc1"}

\* A zero-filled resp_buf decodes as status 0 (ok) or fails to parse.
MCStaleDecodes == {"ok", "parse_error"}

Req(form, acc, size, offs, n) ==
  [form |-> form, acc |-> acc, size |-> size, offs |-> offs, n |-> n]

\* Requests a well-behaved peer sends: accepted ones with 0, 1 and 2
\* offset pairs, each rejection the handler or the parsers can make.
WellFormedRequests ==
  { Req("valid", "acc1", "match", "valid", 0),
    Req("valid", "acc1", "match", "valid", 2),
    Req("valid", "acc2", "match", "valid", 1),
    Req("valid", "acc1", "mismatch", "valid", 1),
    Req("valid", "acc1", "match", "invalid", 1),
    Req("bad_header", "acc1", "match", "valid", 1),
    Req("bad_body", "acc1", "match", "valid", 1) }

\* Adds a request the client cannot compose (it connects, then sends
\* nothing).
AllRequests == WellFormedRequests \cup { Req("uncomposable", "acc1", "match", "valid", 1) }

\* Requests whose rejection is decided with nothing left unread.
ZeroOffsetRejections ==
  { Req("valid", "acc2", "match", "valid", 0),
    Req("valid", "acc1", "mismatch", "valid", 0) }

\* Rejections with and without offsets left unread on the socket.
MCErrorRequests == WellFormedRequests \cup ZeroOffsetRejections
=============================================================================
