SPECIFICATION SessSpec
CONSTANTS
  Tids = 65536
  PerFragment = 100
  MaxFragments = 3
  MaxCalls = 1
  MaxSessions = 1
INVARIANT CountIsSum
CHECK_DEADLOCK FALSE
