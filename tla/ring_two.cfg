SPECIFICATION Spec
CONSTANTS
  CAPACITY = 4
  WriteSizes = {1, 2, 4}
  Readers <- MCReaders
  MaxWords <- MCMaxWords
  MaxAttempts = 2
  MaxStream = 8
INVARIANTS NoTornRead LapsCostAQuarter DiscardsAreLaps
PROPERTY ImplementsStream
