CONSTANTS
  FrameLen = 3
  Bytes = {a, b}
  EndSymbol = EndSymbol
  Zero = Zero
  Threads = {t1, t2}
  MaxReceived = 4
SYMMETRY Symmetry
SPECIFICATION Spec
INVARIANTS
  BuffersFit
PROPERTIES
  EachFramesItsStream
CHECK_DEADLOCK FALSE
