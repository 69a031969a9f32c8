SPECIFICATION Spec
CONSTANTS
  Payloads <- MCPayloads
  Lens = {0, 1, 2, 5, 7, 12}
  MaxNest = 3
  NameGuard = 4
  MaxJumps = 2
INVARIANTS
  Confined
  InStep
PROPERTIES
  Ends
CHECK_DEADLOCK FALSE
