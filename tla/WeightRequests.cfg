CONSTANTS
  COLS = 2
  Epoch = {0, 1}
  NoData = NoData
  FIFO_DEPTH = 4
  TileMod = 4
SPECIFICATION Spec
INVARIANTS IInv WeightsComplete
PROPERTIES FailsClosed
