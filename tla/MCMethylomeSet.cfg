CONSTANTS
  t1 = t1
  t2 = t2
  t3 = t3
  accA = accA
  accB = accB
  accC = accC
  None = None
  Threads <- MCThreads
  Accessions <- MCAccessions
  Capacity = 2
  MaxGets = 5
SPECIFICATION Spec
INVARIANT SingleFlight
PROPERTIES WaitersServed Refines
CHECK_DEADLOCK FALSE
