CONSTANTS
  DEPTH = 3
  EventDepth = 4
  Desc = {d1, d2}
  NoDesc = NoDesc
  REGISTERED_HEAD = TRUE
  CountMod = 5
SPECIFICATION QueuesSpec
INVARIANTS QueuesConsistent
PROPERTIES FifoSpec EventFifoSpec
