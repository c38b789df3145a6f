SPECIFICATION Spec
CONSTANTS
  s1 = s1
  Searches = {s1}
  MaxNotifies = 0
  MayFail = FALSE
INVARIANT QueryIntact
CHECK_DEADLOCK FALSE
