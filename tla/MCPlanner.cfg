SPECIFICATION PlannerSpec
CONSTANTS
    l1 = l1
    c1 = c1
    c2 = c2
    s1 = s1
    s2 = s2
    Sweeper = {s1, s2}
    Lineage = {l1}
    Commit = {c1, c2}
    NoCommit = NoCommit
    Modes <- MCModes
    MinGap = 1
    Cells = 2
    MaxPlans = 3
    Manual = TRUE
    Crashing = {s2}
    CrashUntil = 1
    Server = {"x", "y"}
    Contents <- ScheduleFiles
    Unnamed = ""
    Sound = {"v1", "v2"}
    Unsound = {"empty"}
    Garbled = "word"
    MaxConfigs = 2
    MaxEdits = 2
INVARIANTS
    LedgerMeansComplete
    OncePerSweeper
    ConfigsFollowFiles
PROPERTY HeadIsPlanned
CHECK_DEADLOCK FALSE
