SPECIFICATION ConverterSpec
CONSTANTS
  Absent = Absent
  Records <- RecordsBound
  Declared <- DeclaredBound
  MaxRecords <- RecordBound
  SequenceSpace = 8
  StreamLimit = 5
  CanvasCells = {1, 2}
  CanvasFrames <- FramesBound
  EchoPackets <- EchoesBound
INVARIANTS
  ReassembliesAreSound
  WindowsAreExact
  AccountsAreComplete
  EchoesArePaired
  CanvasIsLatest
CHECK_DEADLOCK FALSE
