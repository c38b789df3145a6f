SPECIFICATION Spec
CONSTANTS
  Searches = {}
  MaxNotifies = 0
  MayFail = TRUE
INVARIANT CbThreadStopped
CHECK_DEADLOCK FALSE
