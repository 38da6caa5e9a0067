SPECIFICATION Spec
CONSTANTS
  Absent = Absent
  MaxRecords <- RecordBound
  EventRecords <- Records
  EventDeclarations <- Declared
  Blank = ""
  Sentinel <- Sentinel_1
  MatchRows <- SomeMatchRows
  Declarations <- SomeDeclarations
  MaxMatchRows = 4
INVARIANTS
  MatchesAreSound
  ConclusionsAreSound
  ScansAreExact
CHECK_DEADLOCK FALSE
