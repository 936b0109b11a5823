SPECIFICATION SessSpec
CONSTANTS
  Tids = 4
  PerFragment = 80
  MaxFragments = 2
  MaxCalls = 3
  MaxSessions = 2
INVARIANTS
  WholeAnswerInOrder
  ToldOnce
  RecordMatchesServer
PROPERTY CallsReturn
CHECK_DEADLOCK FALSE
