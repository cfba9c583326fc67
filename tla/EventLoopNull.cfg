SPECIFICATION Spec
CONSTANTS
  Conns = {k1}
  Reactor = Reactor
  MsgLimit = 1
  BufSize = 2
  SndBuf = 1
  InitSize = 1
  Window = TRUE
  Closes = FALSE
  Faults = FALSE
INVARIANTS
  NoNullResume
CHECK_DEADLOCK FALSE
