SPECIFICATION OutputSpec
CONSTANTS
  Rows <- MCRows
  MaxBatch = 2
  MaxRows = 3
  MaxRuns = 2
INVARIANTS
  MetaIsCommit
  RowsInPlace
