CONSTANTS
  Main = Main
  Ipc = Ipc
  Uart = Uart
  BtThreads = {b1}
  ValidLists = {v1, v2}
  InvalidLists = {w}
  Empty = Empty
  Torn = Torn
  CommandLines <- MCCommandLines
SPECIFICATION Spec
INVARIANTS
  CleanRelease
  NothingLeaks
  ReadyIsComplete
  LateThreadsHaveOption
CHECK_DEADLOCK FALSE
