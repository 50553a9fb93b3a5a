\* --make-config with each argset, then -c on the file it wrote, under
\* either treatment of a key no option names.
CONSTANTS
  ArgSets <- MCArgSets
  UnknownKeyModes <- MCUnknownKeyModes
SPECIFICATION Spec
INVARIANT ConfigRoundTrip
\* Both runs end: the final states have no successor.
CHECK_DEADLOCK FALSE
