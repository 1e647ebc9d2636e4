CONSTANTS
  DEPTH = 2
  MaxAddr = 2
  MaxCount = 3
  Epoch = {0, 1}
  Context = {0, 1, 2, 3, 4, 5}
  Requests = {}
  Chains <- MCChains
  QUEUE_DEPTH = 2
  OutputRoom = 2
  FAST_HANDOFF = TRUE
  CTX_DEPTH = 2
  COLUMN_DEPTH = 2
  AddrMod = 4
  Epochs = {0, 1, 2}
  PixelCounts = {0, 3}
  NoDescriptor = NoDescriptor
SPECIFICATION LiveSpec
INVARIANTS FeedbackSafe
PROPERTIES AllCollected LoopNeverStops
