SPECIFICATION WSpec
CONSTANTS
    a1 = a1
    a2 = a2
    p1 = p1
    w1 = w1
    w2 = w2
    qa = qa
    Agent = {a1, a2}
    Plan = {p1}
    NoPlan = NoPlan
    PlanOf <- MCPlanOf
    Worker = {w1}
    None = None
    Queue = {qa}
    QueueOf <- MCQueueOf
    Priority <- MCPriority
    NotBefore <- MCNotBefore
    MaxRetries <- MCMaxRetries
    LeaseTicks = 4
    Graces = {0, 1, 6}
    StaleAfter = 3
    GcAfter = 5
    Subscribes <- MCSubscribes
    JoinTimesOut = TRUE
    Timely = TRUE
    MaxLag = 1
    Crashes = {}
    Leavers = {}
    Admin = FALSE
    Sleeps = FALSE
PROPERTIES
    TimelyNeverReaped
