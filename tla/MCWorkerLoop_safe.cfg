SPECIFICATION WSpec
CONSTANTS
    a1 = a1
    a2 = a2
    p1 = p1
    w1 = w1
    w2 = w2
    qa = qa
    Agent = {a1, a2}
    Plan = {p1}
    NoPlan = NoPlan
    PlanOf <- MCPlanOf
    Worker = {w1}
    None = None
    Queue = {qa}
    QueueOf <- MCQueueOf
    Priority <- MCPriority
    NotBefore <- MCNotBefore
    MaxRetries <- MCMaxRetries
    LeaseTicks = 1
    Graces = {0}
    StaleAfter = 0
    GcAfter = 0
    Subscribes <- MCSubscribes
    JoinTimesOut = TRUE
    Timely = FALSE
    MaxLag = 0
    Crashes = {w1}
    Leavers = {w1}
    Admin = TRUE
    Sleeps = TRUE
INVARIANTS
    NoForgottenLease
