SPECIFICATION FairSpec
CONSTANTS
  i1 = i1  w1 = w1  g1 = g1
  Invocations = {i1}
  Waits = {}
  Gets = {g1}
  MayCancel = FALSE
PROPERTY GetReturns
CHECK_DEADLOCK FALSE
