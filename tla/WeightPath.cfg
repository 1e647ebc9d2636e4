CONSTANTS
  COLS = 2
  Epoch = {0, 1, 2}
  NoData = NoData
  BEATS = 2
  FIFO_DEPTH = 8
  Layer <- MCLayer
SPECIFICATION LiveSpec
INVARIANTS WeightsSafe
PROPERTIES LayersEnd
