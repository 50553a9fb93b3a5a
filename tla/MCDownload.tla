----------------------------- MODULE MCDownload -----------------------------
(* download() for TLC: a response body that reaches the file in two pieces. *)
EXTENDS Download

MCBodyChunks == 2

=============================================================================
