SPECIFICATION MeterSpec
CONSTANTS
  HALF_RANGE = 128
  SHIFT = 16
  Words = {0, 3, 127, 128, 255, 2049, 4095}
  WINDOW_FRAMES = 2
  MaxWindows = 3
INVARIANTS PercentInRange NoStalePeak
