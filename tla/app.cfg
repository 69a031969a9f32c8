SPECIFICATION Spec
INVARIANTS
  ForeignColumnsExplained
  LabelledIsListed
CHECK_DEADLOCK FALSE
