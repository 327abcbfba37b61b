SPECIFICATION AuditSpec
CONSTANTS
    a1 = a1
    a2 = a2
    a3 = a3
    p1 = p1
    w1 = w1
    w2 = w2
    qa = qa
    Agent = {a1, a2}
    Plan = {p1}
    NoPlan = NoPlan
    PlanOf <- MCPlanOf
    Worker = {w1}
    None = None
    Queue = {qa}
    QueueOf <- MCQueueOf
    Priority <- MCPriority
    NotBefore <- MCNotBefore
    MaxRetries <- MCMaxRetries
    LeaseTicks = 1
    Graces = {}
    StaleAfter = 0
    GcAfter = 0
INVARIANTS
    TypeOK
    OwnerMatchesState
    DoneMeansDrained
    RunningPlanWillSettle
    JudgedAgentSucceeded
