CONSTANTS
  Fds = {3, 4, 5}
  Clients = {c1, c2}
  NoOne = NoOne
  Listener = Listener
  Backlog = 2
  MaxUnread = 1
SPECIFICATION FairSpec
PROPERTIES
  SilentClientsDelayNobody
CHECK_DEADLOCK FALSE
