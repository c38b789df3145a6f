SPECIFICATION FairSpec
CONSTANTS
  t1 = t1  t2 = t2  s1 = s1  s2 = s2
  Tasks = {t1, t2}
  StopTasks = {s1, s2}
  Delays = {0, 1}
  MaxTime = 2
INVARIANTS
  TypeOK
  StopSettles
  FreshLoop
  RunInOrder
  StartSynchronised
PROPERTIES
  StopReturns
  TaskSettles
  IsWorker
CHECK_DEADLOCK FALSE
