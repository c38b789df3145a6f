SPECIFICATION FairSpec
CONSTANTS
  w1 = w1  w2 = w2  r1 = r1  r2 = r2  s1 = s1  s2 = s2  s3 = s3
  Waits = {w1, w2}
  Resets = {r1, r2}
  Signals = {s1, s2, s3}
INVARIANTS
  TypeOK
  SignalTakenOnce
  NobodyStranded
PROPERTIES
  SignalIsSeen
CHECK_DEADLOCK FALSE
