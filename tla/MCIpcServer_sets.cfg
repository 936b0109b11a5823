CONSTANTS
  Fds = {3, 4, 6, 7}
  Clients = {c1, c2, c3}
  NoOne = NoOne
  Listener = Listener
  Backlog = 2
  MaxUnread = 1
SYMMETRY Symmetry
SPECIFICATION Spec
INVARIANTS
  TypeOK
  WatchedAreOpen
  MaxIsWatched
  ReadyStaysOpen
  NothingLeftOpen
CHECK_DEADLOCK FALSE
