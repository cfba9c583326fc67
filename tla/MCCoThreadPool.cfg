SPECIFICATION FairSpec
CONSTANTS
  c1 = c1
  h1 = h1
  h2 = h2
  h3 = h3
  ThreadNum = 2
  Clients <- MCClients
  Coros <- MCCoros
  None = None
  EnableWorkSteal = TRUE
INVARIANTS
  OnePlace
  BoundToThread
  OwnerAwake
  DrainedAtEnd
PROPERTIES
  QueuedIsResumed
  DtorReturns
CHECK_DEADLOCK FALSE
