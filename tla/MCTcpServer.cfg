SPECIFICATION FairSpec
CONSTANTS
  k1 = k1
  k2 = k2
  k3 = k3
  Clients <- MCClients
  Tick = Tick
  AcceptLoop = AcceptLoop
  None = None
  ThreadNum = 2
  Early = FALSE
INVARIANTS
  NoConnectionDropped
PROPERTIES
  StopsAccepting
  ClientServed
  ServerShutdownReturns
CHECK_DEADLOCK FALSE
