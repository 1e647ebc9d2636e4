SPECIFICATION ArtifactsSpec
CONSTANTS
    Limits <- SmallLimits
    Geometries <- SmallLayers
    Plan <- SmallPlan
    Expected <- SmallTotals
    Alignment = 8
    Trees <- SmallTrees
    NoFile = NoFile
    Unfinished = Unfinished
    Zero = Zero
    Wrong = Wrong
    MaxTrouble = 1
    Lists <- SmallLists
    Target = 2
    MaxShards = 3
    MaxMishaps = 1
    Gone = Gone
    WORKERS = 2
    GenMod = 3
    PoolChannels = {3}
    ConvChannels = {9}
INVARIANTS
    PlanSound
    AcceptedFeedsArray
    AcceptedSetWhole
    MadeIsAccepted
    ChainIsOneInference
    LogsJudgedRight
    AnswersSafe
    SignalsKept
CHECK_DEADLOCK FALSE
