SPECIFICATION LatencySpec
CONSTANTS
  MONITOR_WORDS = 8
  ChunkSizes = {2, 4, 6}
  CHUNK_WORDS = 2
  MaxSkew = 3
  MaxPriming = 2
  MaxFrames = 12
INVARIANTS FramesAddUp ChannelsKept StarvesOnlyPriming
PROPERTIES ImplementsQueue WaitsForSkew
CHECK_DEADLOCK FALSE
