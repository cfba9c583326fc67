SPECIFICATION FairSpec
CONSTANTS
  w1 = w1
  w2 = w2
  c1 = c1
  c2 = c2
  t1 = t1
  t2 = t2
  t3 = t3
  None = None
  Workers <- MCWorkers
  Clients <- MCClients
  Tasks <- MCTasks
INVARIANTS
  Custody
  StopIsFinal
  NoLostWakeup
  ShutdownIsComplete
PROPERTIES
  FutureResolved
  ShutdownReturns
  ImplementsTaskPool
CHECK_DEADLOCK FALSE
