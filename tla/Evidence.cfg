SPECIFICATION EvidenceSpec
CONSTANTS
    Threads = {t1, t2}
    Images = {i1, i2}
    Stamps = {1}
    Absent = Absent
    Nobody = Nobody
    MaxPosts = 2
    MaxDeploys = 2
    MaxKills = 1
    Free = Free
    None = None
    Begun = Begun
    Torn = Torn
    Builds = {1, 2}
    Sets = {1, 2, 3}
    Domain <- SetDomain
    Packages <- SdPackages
    Selections = {"first 128"}
    Nothing = Nothing
    MaxCommands = 4
    MaxChanges = 2
    MaxCuts = 1
    MaxRuns = 2
INVARIANTS
    AppTrue
    CardTrue
    ReleasesTrue
    EvidenceJudgedRight
PROPERTIES
    LockComesBack
CHECK_DEADLOCK FALSE
