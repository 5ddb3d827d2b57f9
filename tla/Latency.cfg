\* Three filled orders, or two threads that record four spans.
CONSTANTS
  MaxTime = 4
  MaxFills = 3
  one = one
  two = two
  Recorders = {one, two}
  Spans = {1, 2, 3}
  MaxRecords = 4
  Sessions = {10, 99, 100, 101}
SPECIFICATION MCSpec
INVARIANTS WholeCoversParts QuietIsExact
PROPERTIES PercentilesAreRanks RecordsEnd
\* The records are bounded.
CHECK_DEADLOCK FALSE
