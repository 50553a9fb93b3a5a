\* Three index commands and one server, started in any order.
CONSTANTS
  f1 = f1
  f2 = f2
  f3 = f3
  hg38 = hg38
  mm39 = mm39
  Files <- MCFiles
  Assemblies <- MCAssemblies
  YieldOf <- MCYieldOfMatched
SPECIFICATION Spec
INVARIANTS LoadAllOrNothing LookupsAgree ServesWhatWasIndexed
\* The commands exit and the server, once serving, is never stopped: the
\* final states have no successor.
CHECK_DEADLOCK FALSE
