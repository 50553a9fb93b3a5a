--------------------------- MODULE RequestHandler ---------------------------
(***************************************************************************)
(* The request handler that connection.cpp calls (request_handler.hpp is   *)
(* not part of the sources; these operators follow spec.md 4.3-4.4).       *)
(* A request is abstracted to the fields the handler tells apart:          *)
(*   form : "valid", or how a peer's bytes fail to parse                   *)
(*   acc  : the accession named in the request header                      *)
(*   size : whether methylome_size matches the server's index              *)
(*   offs : whether the offset pairs are valid for the methylome           *)
(*   n    : n_intervals, the number of offset pairs that follow            *)
(***************************************************************************)
EXTENDS Naturals

CONSTANT KnownAccessions   \* accessions with a methylome on the server

\* Statuses the handler and the parsers may put in a response header.
ErrorStatuses ==
  {"bad_request", "unknown_accession", "methylome_size_mismatch",
   "invalid_offsets"}

\* handle_header(req_hdr, resp_hdr): resolve the accession (methylome-set
\* lookup) and compare methylome_size with the index's n_cpgs_total.
HandleHeader(r) ==
  IF r.acc \notin KnownAccessions THEN "unknown_accession"
  ELSE IF r.size # "match" THEN "methylome_size_mismatch"
  ELSE "ok"

\* handle_get_counts(req_hdr, req, resp_hdr, resp): run the interval kernel
\* over the offsets received so far.  The counts are abstracted to the
\* accession they were computed for and how many offsets they cover.  On
\* invalid offsets no counts are computed (spec 4.4: no count payload), so
\* resp.counts stays empty.
HandleGetCounts(r, nread) ==
  IF r.offs = "valid"
    THEN [status |-> "ok", counts |-> [acc |-> r.acc, read |-> nread]]
    ELSE [status |-> "invalid_offsets", counts |-> [acc |-> "none", read |-> 0]]

=============================================================================
