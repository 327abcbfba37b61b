SPECIFICATION Spec
CONSTANTS
    RootCall = {"r1"}
    ChildCall = {"c1"}
    NoClone = "none"
    MaxPushes = 1
    MaxId = 4
    Length <- OneEach
    ThreadCap = 1
    PageSize = 1
    Own = "own"
    Other = "other"
    RootPost = {"p1"}
    ChildPost = {"p2"}
    Attempts = 2
    NoVerdict = "none"
    Writer = {1, 2, 3}
    Missing = 0
    MaxActive = 2
    FirstIds = {9}
    AutoFloor = 10
    MaxComments = 2
    MaxInvocations = 2
    MaxChanges = 1
    Attempt = {"a1", "a2"}
    Task = {"t1"}
    TaskOf <- OneTask
    Slots = 2
    NoRow = "none"
    Plain = "code"
    Dashes = "--"
    SymbolName = {"f"}
    EndNote = "note"
    MaxRaw = 5
    WindowSize = 2
    MaxHits = 2
    RowsPerPage = 1
    LastPath = 2
    Vendored = {}
    Unit = {1, 2, 3}
    Session = {"s1", "s2"}
    SessionOf <- TwoSessions
    PairOf <- SamePair
    ProviderOf <- SamePair
    Target <- SamePair
    Marked = {3}
    ModesOf <- ModesOfSession
    Watched = {"s1"}
    MaxPerProvider = 2
    PageLimit = 2
    MaxRefused = 1
INVARIANTS
    ExitClosesTheRow
CHECK_DEADLOCK FALSE
