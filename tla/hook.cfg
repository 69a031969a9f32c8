SPECIFICATION HookSpec
CONSTANTS
  Threads = {t1, t2, t3}
  RunsPerThread = 2
INVARIANTS
  RestoredUnlessRaced
  SilencedInFlight
PROPERTIES
  RunsEnd
CHECK_DEADLOCK FALSE
