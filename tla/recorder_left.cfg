SPECIFICATION Spec
CONSTANTS
  Episodes = {e1}
  Devices = {d1}
  MaxRecordings = 2
  MaxTime = 2
  MaxRevision = 1
  MaxUnhandled = 2
  MaxFaults = 1
CHECK_DEADLOCK FALSE
PROPERTY NothingLeftBehind
