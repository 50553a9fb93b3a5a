------------------------------ MODULE Download ------------------------------
(***************************************************************************)
(* download.cpp: download() checks that the output directory exists (or    *)
(* creates it) and that the output file can be written, then runs the      *)
(* coroutine do_download on an io_context: open the file body, resolve,   *)
(* connect (10 s timeout), write the GET request, read the response into   *)
(* the file (240 s timeout), shut the socket down and fill the header      *)
(* map.  Every failing step after the body is opened removes the output    *)
(* file.  A timeout is a failure of the step it bounds.                    *)
(*                                                                         *)
(*   outdir : "absent", "dir" or "file" (exists and is not a directory)    *)
(*   file   : the output file on disk: "absent", "old" (left by an earlier *)
(*            run), "empty", "partial" (body being received) or "complete" *)
(***************************************************************************)
EXTENDS Naturals

CONSTANT BodyChunks  \* pieces in which the response body reaches the file

VARIABLES
  pc,      \* where download() / do_download is
  outdir,  \* the output directory
  file,    \* the output file
  ec,      \* the error code do_download leaves in download()'s ec
  header,  \* the header map: "empty" or "filled" (Status, Reason, fields)
  result,  \* the error code download() returns, once it has returned
  received \* body pieces written to the file so far

vars == <<pc, outdir, file, ec, header, result, received>>

Errors == {"none", "error", "not_connected", "invalid_argument"}

\* A previous run may have left the file in an existing directory.
Init ==
  /\ pc = "check_outdir"
  /\ outdir \in {"absent", "dir", "file"}
  /\ file \in IF outdir = "dir" THEN {"absent", "old"} ELSE {"absent"}
  /\ ec = "none"
  /\ header = "empty"
  /\ result = "none"
  /\ received = 0

\* download() returns {header, e}.
Return(e) ==
  /\ result' = e
  /\ pc' = "returned"

\* do_download returns after a failed step, having set ec and removed the
\* output file; ioc.run() then returns to download().  The throwing
\* overload of std::filesystem::remove is used: if it throws, the
\* exception leaves the coroutine, spawn's completion handler rethrows it
\* and it propagates out of ioc.run() and download().
FailStep ==
  /\ ec' = "error"
  /\ \/ /\ file' = "absent"
        /\ pc' = "after_run"
     \/ /\ pc' = "thrown"
        /\ UNCHANGED file

----------------------------------------------------------------------------
(* download(): the checks before the transfer.                             *)

\* exists && !is_directory: file_exists; !exists: create_directories.
CheckOutdir ==
  /\ pc = "check_outdir"
  /\ \/ /\ outdir = "file"
        /\ Return("error")
        /\ UNCHANGED outdir
     \/ /\ outdir = "absent"
        /\ \/ /\ outdir' = "dir"
              /\ pc' = "test_write"
              /\ UNCHANGED result
           \/ /\ Return("error")
              /\ UNCHANGED outdir
     \/ /\ outdir = "dir"
        /\ pc' = "test_write"
        /\ UNCHANGED <<outdir, result>>
  /\ UNCHANGED <<file, ec, header, received>>

\* std::ofstream out_test(outfile): creates or truncates the file.
TestWrite ==
  /\ pc = "test_write"
  /\ \/ /\ file' = "empty"
        /\ pc' = "remove_test"
        /\ UNCHANGED result
     \/ /\ Return("error")
        /\ UNCHANGED file
  /\ UNCHANGED <<outdir, ec, header, received>>

\* std::filesystem::remove(outfile, out_ec): !is_removed returns out_ec.
RemoveTest ==
  /\ pc = "remove_test"
  /\ \/ /\ file' = "absent"
        /\ pc' = "open_body"
        /\ UNCHANGED result
     \/ /\ Return("error")
        /\ UNCHANGED file
  /\ UNCHANGED <<outdir, ec, header, received>>

----------------------------------------------------------------------------
(* do_download, on the io_context.                                         *)

\* body.open(outfile, write): on error return with ec set, nothing to remove.
OpenBody ==
  /\ pc = "open_body"
  /\ \/ /\ file' = "empty"
        /\ pc' = "resolve"
        /\ UNCHANGED ec
     \/ /\ ec' = "error"
        /\ pc' = "after_run"
        /\ UNCHANGED file
  /\ UNCHANGED <<outdir, header, result, received>>

\* async_resolve, async_connect (bounded by the connect timeout) and
\* async_write of the request: each either completes or sets ec, removes
\* the file and returns.
AsyncStep(from, to) ==
  /\ pc = from
  /\ \/ /\ pc' = to
        /\ UNCHANGED <<file, ec>>
     \/ FailStep
  /\ UNCHANGED <<outdir, header, result, received>>

\* The eager parser writes each piece of the body to the file as it
\* arrives, before async_read completes.
ReceiveBody ==
  /\ pc = "read"
  /\ received < BodyChunks
  /\ received' = received + 1
  /\ file' = "partial"
  /\ UNCHANGED <<pc, outdir, ec, header, result>>

\* async_read of the response (bounded by the download timeout): complete
\* once the whole body is in, or set ec, remove the file and return.
ReadResponse ==
  /\ pc = "read"
  /\ \/ /\ received = BodyChunks
        /\ file' = "complete"
        /\ pc' = "shutdown"
        /\ UNCHANGED ec
     \/ FailStep
  /\ UNCHANGED <<outdir, header, result, received>>

\* socket().shutdown(shutdown_both, ec): an error other than not_connected
\* removes the file and returns; not_connected is let through, and stays
\* in ec.
Shutdown ==
  /\ pc = "shutdown"
  /\ \/ /\ ec' \in {"none", "not_connected"}
        /\ pc' = "fill_header"
        /\ UNCHANGED file
     \/ FailStep
  /\ UNCHANGED <<outdir, header, result, received>>

\* header.clear(); emplace Status, Reason and every response field.
FillHeader ==
  /\ pc = "fill_header"
  /\ header' = "filled"
  /\ pc' = "after_run"
  /\ UNCHANGED <<outdir, file, ec, result, received>>

\* After ioc.run(): without an error the header must hold Status and
\* Reason, else invalid_argument; return {header, ec}.
AfterRun ==
  /\ pc = "after_run"
  /\ Return(IF ec = "none" /\ header # "filled" THEN "invalid_argument"
                                                ELSE ec)
  /\ UNCHANGED <<outdir, file, ec, header, received>>

Next ==
  \/ CheckOutdir
  \/ TestWrite
  \/ RemoveTest
  \/ OpenBody
  \/ AsyncStep("resolve", "connect")
  \/ AsyncStep("connect", "write")
  \/ AsyncStep("write", "read")
  \/ ReceiveBody
  \/ ReadResponse
  \/ Shutdown
  \/ FillHeader
  \/ AfterRun

\* The coroutine runs alone on its io_context; every started operation
\* completes (the timeouts bound connect and read).
Spec == Init /\ [][Next]_vars /\ WF_vars(Next)

----------------------------------------------------------------------------
\* A download whose body arrived completely and whose socket shut down
\* without a real error is reported as a success: do_download lets
\* not_connected from shutdown through like success.
TransferredReportsSuccess ==
  (pc = "returned" /\ file = "complete") => result = "none"

=============================================================================
