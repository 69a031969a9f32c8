SPECIFICATION StreamSpec
CONSTANTS
  StreamKeys = {k1, k2}
  Byte = {a, b}
  SegPayloads <- MCPayloads
  SeqSpace = 6
  MaxStreams = 1
  MaxStreamBytes = 4
  MaxPending = 2
  MaxSegments = 4
SYMMETRY Symmetric
INVARIANTS
  StreamsBounded
  BufIsReceived
  GapsAreExplained
  UncountedLossIsOverflow
PROPERTIES
  PrefixIsStable
CHECK_DEADLOCK FALSE
