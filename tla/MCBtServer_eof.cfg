CONSTANTS
  SlotCount = 1
  Fds = {f1, f2}
  EMPTY_SOCKET = EMPTY_SOCKET
  BadFd = BadFd
  Clients = {c1, c2}
  NoClient = NoClient
  Threads = {t1, t2}
  Backlog = 1
  Ends = {"eof"}
  StartsWithinSleep = TRUE
SPECIFICATION FairSpec
PROPERTIES
  DepartedReclaimed
CHECK_DEADLOCK FALSE
