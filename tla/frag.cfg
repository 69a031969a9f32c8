SPECIFICATION FragSpec
CONSTANTS
  FragKeys = {k1, k2}
  FragByte = {a, b}
  FragPayloads <- MCPayloads
  Offsets = {0, 1, 2}
  MaxSets = 1
  MaxFragBytes = 4
  MaxFragments = 4
INVARIANTS
  SetsBounded
  NeverHalfParsed
  LossIsCounted
  AssemblyMatchesLoop
CHECK_DEADLOCK FALSE
