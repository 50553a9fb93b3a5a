\* Every kind of compressed input, with and without NDEBUG.
CONSTANT Inputs <- MCInputs
SPECIFICATION Spec
INVARIANT StreamReleased
\* compress and decompress return: their final states have no successor.
CHECK_DEADLOCK FALSE
