SPECIFICATION FairSpec
CONSTANTS
  Conns = {k1}
  Reactor = Reactor
  MsgLimit = 2
  BufSize = 2
  SndBuf = 1
  InitSize = 1
  Window = TRUE
  Closes = FALSE
  Faults = FALSE
PROPERTIES
  EverythingEchoed
CHECK_DEADLOCK FALSE
