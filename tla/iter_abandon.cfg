SPECIFICATION IterSpec
CONSTANTS
  NBatches = 5
  QueueSize = 2
PROPERTY
  AbandonStopsWorker
CHECK_DEADLOCK FALSE
