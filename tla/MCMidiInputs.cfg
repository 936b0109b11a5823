CONSTANTS
  NOTE_FRAME_DATA_NUMBER = 2
  Sendings <- MCSendings
  MaxSendings = 3
  MaxEmptyReads = 1
  Callers = {p1, p2}
  Polite = {p1}
  Commands <- MCCommands
  BufferPieces = 4
  MaxCommands = 2
  MaxInputs = 3
SPECIFICATION Spec
INVARIANTS
  FramesPlayTheirNote
  PoliteCommandsExecuted
  NeverInvented
  OnlyImpoliteStray
CHECK_DEADLOCK FALSE
