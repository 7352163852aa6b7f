\* Four rows, one of them refused; a life of the process with any set of faults.
SPECIFICATION FairSpec
CHECK_DEADLOCK FALSE
CONSTANTS
  a = a
  b = b
  c = c
  d = d
  Rows = {a, b, c, d}
  Refused = {a}
  MaxQueue = 3
  MaxBatch = 2
  Retries = 1
  Faults = {"down", "lie", "break", "timeout"}
INVARIANTS
  Accounted
  WrittenTrue
PROPERTIES
  StopEnds
  RowsKept
