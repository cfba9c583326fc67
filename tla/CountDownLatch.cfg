SPECIFICATION FairSpec
CONSTANTS
  Waiters = {w1, w2}
  Counters = {c1, c2, c3}
  Count = 2
PROPERTIES
  LatchOpens
CHECK_DEADLOCK FALSE
