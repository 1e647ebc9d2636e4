CONSTANTS
  K_TILE = 2
  COUT_TILE = 2
  CoutMod = 8
  Builds = {TRUE, FALSE}
  MaxPixels = 2
  Uncollected = 4
  Layers <- MCLayers
SPECIFICATION FairSpec
INVARIANTS SchedulerSafe
PROPERTIES LoopSpec LayersEnd
