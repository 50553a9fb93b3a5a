\* Every bin size from 1 to larger than every chromosome, over indexes with
\* empty, edge and ordinary chromosomes; no uint32_t value wraps at W = 5.
CONSTANTS
  W = 5
  Indexes <- MCIndexes
  CountVals <- MCCountVals
  BinSizes = {1, 3, 4, 9}
  MaxResults = 10
SPECIFICATION Spec
INVARIANTS TypeOK BinsCorrect WriteBinsConsumesResults
\* bins_main returns: its final states have no successor.
CHECK_DEADLOCK FALSE
