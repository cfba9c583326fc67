SPECIFICATION ReactorSpec
CONSTANTS
  k1 = k1
  k2 = k2
  Conns <- TwoConns
  Reactor = Reactor
  MsgLimit = 3
  BufSize = 2
  SndBuf = 1
  InitSize = 1
  Window = TRUE
  Closes = TRUE
  Faults = TRUE
INVARIANTS
  EchoConserved
  OneRunner
  ResumeMatchesWait
  ApartNoCrash
PROPERTIES
  ApartEchoed
  ApartReleased
CHECK_DEADLOCK FALSE
