CONSTANTS
  Fds = {3, 4, 6, 7}
  Clients = {c1, c2}
  NoOne = NoOne
  Listener = Listener
  Backlog = 2
  MaxUnread = 1
SPECIFICATION FairSpec
INVARIANTS
  MaxIsWatched
  WatchedAreOpen
  ReadyStaysOpen
  NothingLeftOpen
PROPERTIES
  ServedUnlessClientStays
  EndsUnlessClientStays
CHECK_DEADLOCK FALSE
