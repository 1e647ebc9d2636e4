CONSTANTS
  DEPTH = 2
  EpochCount = 2
  CTX_DEPTH = 2
  COLLECTOR_SLOTS = 3
  Vector <- MCVector
  ZeroVector = ZeroVector
  Payload <- MCPayload
SPECIFICATION FairSpec
INVARIANTS VectorsSafe
PROPERTIES StreamSpec BanksCycle
VIEW Live
