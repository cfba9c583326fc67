SPECIFICATION LibrarySpec
CONSTANTS
  b1 = b1
  b2 = b2
  b3 = b3
  c1 = c1
  c2 = c2
  c3 = c3
  t1 = t1
  t2 = t2
  w1 = w1
  Bufs <- SomeBufs
  Caps <- TwoCaps
  FirstBufs <- InPool
  Sizes <- SomeSizes
  MEM_LIMIT = 6
  Delays <- MCDelays
  MaxTimers = 4
  MaxTime = 2
INVARIANTS
  TimersKept
  BuffersKept
PROPERTIES
  RemovedStaysSilent
  EveryTimerLeaves
  LatchOpens
  PushedTasksRun
CHECK_DEADLOCK FALSE
