------------------------------ MODULE ZlibAdapter ------------------------------
(***************************************************************************)
(* zlib_adapter.hpp: compress and decompress.  Each makes one z_stream,   *)
(* calls zlib's init, one deflate or inflate with Z_FINISH, and end, and   *)
(* maps the first bad return code to a zlib_adapter_error.                 *)
(*                                                                         *)
(* A successful init allocates the stream's internal state; end frees it   *)
(* (`strm`).  What zlib returns is what its manual gives for the call and  *)
(* the stream: deflate into deflateBound bytes finishes in one call on an  *)
(* allocated stream and reports Z_STREAM_ERROR on one init never set up;  *)
(* inflate's code depends on the compressed input (`input`) and on        *)
(* whether it can allocate its window.  Code outside a switch reaches an   *)
(* assert: compiled in it aborts, with NDEBUG it is skipped (`ndebug`).    *)
(***************************************************************************)
CONSTANT Inputs  \* the kinds of compressed input decompress may be given

VARIABLES
  fn,      \* "compress" or "decompress"
  input,   \* the input decompress is given, against the size of out
  ndebug,  \* assert is compiled out
  zpc,     \* the zlib call the adapter makes next, or "returned"
  strm,    \* the z_stream's internal state: "none", "allocated", "freed"
  filled,  \* decompress: how much of out inflate wrote
  result   \* the zlib_adapter_error returned, "none" before, or "abort"

vars == <<fn, input, ndebug, zpc, strm, filled, result>>

\* enum class zlib_adapter_error, for the zlib codes a switch maps.
ErrorOf ==
  [Z_STREAM_ERROR |-> "z_stream_error", Z_NEED_DICT |-> "z_need_dict",
   Z_DATA_ERROR |-> "z_data_error", Z_MEM_ERROR |-> "z_mem_error",
   Z_BUF_ERROR |-> "z_buf_error", Z_VERSION_ERROR |-> "z_version_error"]

\* What inflate(Z_FINISH) returns, and how much of out it wrote, for each
\* kind of input: data that fills out exactly, that decompresses to fewer
\* bytes than out holds, to more, that ends early, that is corrupt, or
\* that asks for a preset dictionary.
InflateOn ==
  [exact     |-> [code |-> "Z_STREAM_END", out |-> "full"],
   short     |-> [code |-> "Z_STREAM_END", out |-> "partial"],
   long      |-> [code |-> "Z_BUF_ERROR", out |-> "full"],
   truncated |-> [code |-> "Z_BUF_ERROR", out |-> "partial"],
   corrupt   |-> [code |-> "Z_DATA_ERROR", out |-> "partial"],
   dict      |-> [code |-> "Z_NEED_DICT", out |-> "none"]]

Init ==
  /\ fn \in {"compress", "decompress"}
  /\ input \in Inputs
  /\ ndebug \in BOOLEAN
  /\ zpc = IF fn = "compress" THEN "deflate_init" ELSE "inflate_init"
  /\ strm = "none"
  /\ filled = "none"
  /\ result = "none"

Return(e) ==
  /\ result' = e
  /\ zpc' = "returned"

\* assert(ret == ...) on a code no switch case took.
AssertFails(next) ==
  IF ndebug THEN zpc' = next /\ UNCHANGED result
            ELSE Return("abort")

----------------------------------------------------------------------------
(* compress(in, out)                                                       *)

\* deflateInit2(Z_BEST_SPEED, Z_DEFLATED, MAX_WBITS, MAX_MEM_LEVEL,
\* Z_RLE): the switch returns on Z_VERSION_ERROR and Z_STREAM_ERROR (the
\* parameters are valid, so not the latter); Z_MEM_ERROR reaches the
\* assert.
DeflateInit ==
  /\ zpc = "deflate_init"
  /\ \/ /\ strm' = "allocated"
        /\ zpc' = "deflate"
        /\ UNCHANGED result
     \/ /\ Return(ErrorOf.Z_VERSION_ERROR)
        /\ UNCHANGED strm
     \/ /\ AssertFails("deflate")
        /\ UNCHANGED strm
  /\ UNCHANGED <<fn, input, ndebug, filled>>

\* out.resize(deflateBound(...)); deflate(&strm, Z_FINISH): Z_STREAM_ERROR
\* and Z_BUF_ERROR return at once.
Deflate ==
  /\ zpc = "deflate"
  /\ IF strm = "allocated" THEN zpc' = "deflate_end" /\ UNCHANGED result
                           ELSE Return(ErrorOf.Z_STREAM_ERROR)
  /\ UNCHANGED <<fn, input, ndebug, strm, filled>>

\* deflateEnd frees the state (Z_OK after a finished stream), then
\* out.resize(strm.total_out) and ok.
DeflateEnd ==
  /\ zpc = "deflate_end"
  /\ strm' = "freed"
  /\ Return("ok")
  /\ UNCHANGED <<fn, input, ndebug, filled>>

----------------------------------------------------------------------------
(* decompress(in, out)                                                     *)

\* inflateInit: Z_VERSION_ERROR, Z_STREAM_ERROR and Z_MEM_ERROR return.
InflateInit ==
  /\ zpc = "inflate_init"
  /\ \/ /\ strm' = "allocated"
        /\ zpc' = "inflate"
        /\ UNCHANGED result
     \/ /\ \E c \in {"Z_VERSION_ERROR", "Z_MEM_ERROR"} : Return(ErrorOf[c])
        /\ UNCHANGED strm
  /\ UNCHANGED <<fn, input, ndebug, filled>>

\* inflateEnd(&strm) before the switch, for these codes only.
InflateEndsOn(code) == code \in {"Z_NEED_DICT", "Z_MEM_ERROR", "Z_DATA_ERROR"}

\* inflate(&strm, Z_FINISH), with Z_MEM_ERROR when the window cannot be
\* allocated; the switch returns on every error, and Z_STREAM_END goes on.
Inflate ==
  /\ zpc = "inflate"
  /\ \E o \in {InflateOn[input], [code |-> "Z_MEM_ERROR", out |-> "none"]} :
       /\ filled' = o.out
       /\ strm' = IF InflateEndsOn(o.code) THEN "freed" ELSE strm
       /\ IF o.code = "Z_STREAM_END" THEN zpc' = "inflate_end" /\ UNCHANGED result
                                     ELSE Return(ErrorOf[o.code])
  /\ UNCHANGED <<fn, input, ndebug>>

\* inflateEnd frees the state; ok, without comparing strm.total_out with
\* the size of out.
InflateEnd ==
  /\ zpc = "inflate_end"
  /\ strm' = "freed"
  /\ Return("ok")
  /\ UNCHANGED <<fn, input, ndebug, filled>>

Next ==
  \/ DeflateInit \/ Deflate \/ DeflateEnd
  \/ InflateInit \/ Inflate \/ InflateEnd

Spec == Init /\ [][Next]_vars

----------------------------------------------------------------------------
\* Neither function leaks the stream: once compress or decompress has
\* returned, the state zlib allocated at init has been freed by deflateEnd
\* or inflateEnd, on the error paths after a successful init too.
StreamReleased ==
  zpc = "returned" /\ result # "abort" => strm # "allocated"

=============================================================================
