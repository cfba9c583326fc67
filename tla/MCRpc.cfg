SPECIFICATION RpcSpec
CONSTANTS
  Names <- BothNames
  Bound <- BoundNames
  CallLimit = 2
  Retries = 2
  SndBuf = 6
  Leftovers <- SomeLengths
  Cuts <- Half
INVARIANTS
  AnswersMatchCalls
  SerializerRoundTrip
  TinyPBRoundTrip
PROPERTIES
  CallReturns
  HandlerLeaves
CHECK_DEADLOCK FALSE
