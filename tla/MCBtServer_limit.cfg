CONSTANTS
  SlotCount = 2
  Fds = {f1, f2, f3}
  EMPTY_SOCKET = EMPTY_SOCKET
  BadFd = BadFd
  Clients = {c1, c2, c3}
  NoClient = NoClient
  Threads = {t1, t2, t3}
  Backlog = 1
  Ends = {"reset"}
  StartsWithinSleep = TRUE
SPECIFICATION Spec
SYMMETRY Symmetry
INVARIANTS
  ServedWithinLimit
CHECK_DEADLOCK FALSE
