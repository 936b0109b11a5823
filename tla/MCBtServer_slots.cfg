CONSTANTS
  SlotCount = 2
  Fds = {f1, f2, f3}
  EMPTY_SOCKET = EMPTY_SOCKET
  BadFd = BadFd
  Clients = {c1, c2, c3}
  NoClient = NoClient
  Threads = {t1, t2}
  Backlog = 1
  Ends = {"reset", "eof"}
  StartsWithinSleep = TRUE
SPECIFICATION Spec
SYMMETRY Symmetry
INVARIANTS
  TypeOK
  SlotHasServer
  OwnDescriptor
CHECK_DEADLOCK FALSE
