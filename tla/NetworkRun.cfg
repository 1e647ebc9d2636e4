SPECIFICATION RunSpec
CONSTANTS
    Conns = {1, 2}
    MaxChunk = 2
    Bindings = {1, 2}
    BoardBinding = {1, 2}
    MaxFaults = 1
    DataSet <- Pictures
    Arguments <- Calls5
INVARIANTS
    SummaryTrue
    CheckpointCovered
    CleanRunsPass
PROPERTIES
    Settles
CHECK_DEADLOCK FALSE
