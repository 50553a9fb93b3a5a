--------------------------- MODULE MCZlibAdapter ---------------------------
(* One call of compress or decompress for TLC, on every kind of input.     *)
EXTENDS ZlibAdapter

MCInputs == {"exact", "short", "long", "truncated", "corrupt", "dict"}

=============================================================================
