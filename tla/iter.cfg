SPECIFICATION IterSpec
CONSTANTS
  NBatches = 5
  QueueSize = 2
INVARIANTS
  InOrder
  NoSilentTruncation
  Bounded
PROPERTIES
  NextReturns
CHECK_DEADLOCK FALSE
