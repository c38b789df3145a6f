SPECIFICATION FairSpec
CONSTANTS
  s1 = s1
  Searches = {s1}
  MaxNotifies = 2
  MayFail = TRUE
INVARIANTS
  TypeOK
  OnePump
  SessionSettled
  CallbacksHaveThread
PROPERTIES
  NotifyHeard
  DestructionEnds
  EventsKeepComing
CHECK_DEADLOCK FALSE
