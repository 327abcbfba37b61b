SPECIFICATION Spec
CONSTANTS
    Process = {"s1", "s2"}
    Starts <- NewOrOld
    MaxLocks = 1
    Worker = {"w1", "w2", "w3"}
    Targets = {0, 2}
    Most = 2
    MaxTasks = 1
    Run = {"r1", "r2"}
    Bench = {"r1"}
    MaxAborts = 1
    PollLimit = 2
    MaxEvents = 5
    Agent = {"cli", "http", "webhook"}
    Trigger <- HowTriggered
    RouteName = {"sampled", "rest"}
    Target = {"cli", "http", "webhook", "absent", "none"}
    None = "none"
    Pr = {"p", "q"}
    Command = {"review", "ask"}
    FileRoutes <- TableOfFile
    RouteEdit <- Edits
    MaxJobs = 2
    MaxChanges = 2
    Interval = 3
    Limit = 7
    MaxStall = 8
INVARIANTS
    ServicesTypeOK
    ReopenedIsUsable
    WithinTarget
    EndShowsAll
    WebhookKept
PROPERTIES
    TasksAreServed
    RowsAreHonest
    RunsPagesAndJobsEnd
CHECK_DEADLOCK FALSE
