SPECIFICATION FairSpec
CONSTANTS
  t1 = t1  t2 = t2  c1 = c1
  Tasks = {t1, t2}
  Consumers = {c1}
  Delays = {0, 1, 2}
  MaxTime = 2
  FirstCapacity = 0
  Garbage <- AnyTimeOrNever
  MayClear = FALSE
PROPERTY EveryTaskTaken
