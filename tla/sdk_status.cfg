SPECIFICATION Spec
CONSTANTS
  MaxCaptures = 1
  QueueSize = 1
  PipeSize = 2
  MaxFaults = 0
  Untimely = FALSE
INVARIANT RunningMeansConnected
CHECK_DEADLOCK FALSE
