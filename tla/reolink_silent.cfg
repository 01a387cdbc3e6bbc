SPECIFICATION FairSpec
CONSTANTS
  MaxTries = 1
  MaxRetries = 2
  MaxFaults = 1
  MaxSnapshots = 1
PROPERTY EventsResume
CHECK_DEADLOCK FALSE
