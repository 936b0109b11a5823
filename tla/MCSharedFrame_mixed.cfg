CONSTANTS
  FrameLen = 3
  Bytes = {a, b}
  EndSymbol = EndSymbol
  Zero = Zero
  Threads = {t1, t2}
  MaxReceived = 4
SPECIFICATION Spec
PROPERTIES
  ShiftKeepsRest
CHECK_DEADLOCK FALSE
