\* Every outcome of every step, with the body arriving in two pieces.
CONSTANT BodyChunks <- MCBodyChunks
SPECIFICATION Spec
INVARIANT TransferredReportsSuccess
\* download() returns or throws: its final states have no successor.
CHECK_DEADLOCK FALSE
