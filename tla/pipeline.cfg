SPECIFICATION Spec
CONSTANTS
  plain = plain
  bug = bug
  late = late
  MaxNg = 4
  MaxLegacy = 5
  Packets <- MCPackets
  Panics <- MCPanics
  PanicsLate <- MCPanicsLate
  LinkTypes <- MCLinkTypes
  Files <- MCFiles
  BatchSize = 2
  Threads = 2
  Threshold = 2
INVARIANTS
  BatchesAreFull
  StatsMatchRows
PROPERTIES
  ImplementsSerial
  FailureIsFinal
CHECK_DEADLOCK FALSE
