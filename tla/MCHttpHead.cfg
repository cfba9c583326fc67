SPECIFICATION HttpSpec
CONSTANTS
  Routes <- ProgramRoutes
  Sessions <- ClientSessions
  RequestLimit = 2
  TimerLimit = 3
  MAX_REQUEST_SIZE = 4
INVARIANTS
  HeadAsCommented
CHECK_DEADLOCK FALSE
