\* Three index commands and one server; the third index file is h.cpg_idx.
CONSTANTS
  f1 = f1
  f2 = f2
  f3 = f3
  hg38 = hg38
  mm39 = mm39
  Files <- MCFiles
  Assemblies <- MCAssemblies
  YieldOf <- MCYieldOf
SPECIFICATION Spec
INVARIANT ServesWhatWasIndexed
\* The commands exit and the server, once serving, is never stopped: the
\* final states have no successor.
CHECK_DEADLOCK FALSE
