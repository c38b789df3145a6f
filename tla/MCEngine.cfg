SPECIFICATION FairSpec
CONSTANTS
  s1 = s1  p1 = p1
  Searches = {s1}
  Plays = {p1}
  MaxFrames = 2
INVARIANTS
  TypeOK
  NothingDropped
  QueryFindsSearch
  PlaysInTime
  FramesInOrder
  ReleasedByLast
  NoCircularWait
PROPERTIES
  PostsFindThread
  TeardownEnds
CHECK_DEADLOCK FALSE
