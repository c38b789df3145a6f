SPECIFICATION FairSpec
CONSTANTS
  i1 = i1  w1 = w1  g1 = g1
  Invocations = {i1}
  Waits = {w1}
  Gets = {}
  MayCancel = TRUE
PROPERTY CancelReleasesWaiters
CHECK_DEADLOCK FALSE
