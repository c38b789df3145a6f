SPECIFICATION FairSpec
CONSTANTS
  i1 = i1  i2 = i2  w1 = w1  w2 = w2  g1 = g1
  Invocations = {i1, i2}
  Waits = {w1, w2}
  Gets = {g1}
  MayCancel = TRUE
INVARIANTS
  TypeOK
  OutcomeIsTrue
  CancelExcludesRun
  FinishedHasOutcome
  ContinuationBeforeResult
  AlreadyCalledIsTrue
PROPERTY SleeperWoken
CHECK_DEADLOCK FALSE
