SPECIFICATION WorkersFairSpec
CONSTANTS
  CAPACITY = 8
  WriteSizes = {2}
  Readers <- MCReaders
  MaxWords <- MCMaxWords
  MaxAttempts = 1
  MaxStream = 12
INVARIANTS ChannelAligned CursorBehindHead WholeBlocks CountersAreHonest
PROPERTIES LapsReported WorkersDrain
