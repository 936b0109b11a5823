CONSTANTS
  FrameLen = 3
  Bytes = {a, b}
  EndSymbol = EndSymbol
  MaxReceived = 9
SPECIFICATION Spec
INVARIANTS
  RecvFitsBuffer
PROPERTIES
  PlaysTheStream
CHECK_DEADLOCK FALSE
