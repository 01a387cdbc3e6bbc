SPECIFICATION Spec
CONSTANTS
  Items = {"i1", "i2"}
  Pictures = {"i2"}
  Failing = {}
  Episodes = {"ep1"}
  MaxCrashes = 0
INVARIANT ExpiredBytesAreGone
CHECK_DEADLOCK FALSE
