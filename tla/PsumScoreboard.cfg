CONSTANTS
  DEPTH = 2
  MaxAddr = 2
  MaxCount = 3
  Epoch = {0, 1}
  Context = {0, 1}
  Requests <- MCTraffic
  MaxChannels = 2
SPECIFICATION MCSpec
INVARIANTS IInv LegalAccessesDiffer
PROPERTIES FailStopFreezes OwnershipSpec
