SPECIFICATION Spec
CONSTANTS
    Text = {"t1", "t2"}
    NoText = "none"
    MaxQuestion = 2
    Confidence = {"low", "high"}
    MaxItems = 2
    MaxAnswers = 1
    MaxReflects = 3
    Strategy = {"llm_summary", "sliding_window", "drop_tool_results", "hybrid"}
    PreserveLast = 3
    Trigger = 8
    Long = 3
    Short = 1
    MaxChat = 4
    MaxToolCalls = 2
    Agent = {"root", "a1", "a2", "a3", "a4", "a5"}
    Root = "root"
    Parent <- AParent
    MaxDepth = 2
    Meta = {"a1"}
    Mocks <- AMocks
    Matched = {"a1"}
    MaxServed = 3
    Caller = {"a", "c", "d"}
    Signature <- ASignature
    Key = {"k", "l"}
    Nobody = "nobody"
    MaxLog = 3
    Kind = {"rev", "inv", "met"}
    RootKind = "rev"
    BaseTools <- ABaseTools
    UserTools <- AUserTools
    MetaKinds = {"met"}
    DepthLimit = 2
    MaxAgents = 4
    Child = {"c1", "c2", "c3"}
    Callback = {"c1", "c2"}
    Fails = {"c1", "c2"}
    Call = {"i1", "i2"}
    MaxChildSteps = 2
    Tool = {"done", "answer", "reflect", "search", "agent_spawn"}
    NoRequired = {}
    Chain <- MCChain
    Toolset = {"done", "answer", "reflect", "search", "agent_spawn"}
    Guarded = {"search"}
    TextGuard = TRUE
    Reply <- MCReply
    MaxCalls = 2
    Usage <- MCUsage
    MaxSteps = 10
    MaxTokens = 6
    MaxContext = 4
    MaxWall = 2
    Interval = 2
    MaxRequests = 2
INVARIANTS
    PartsTypeOK
    QuestionsKept
    DelegationKept
    ToolsKnowTheirCaller
    ResultsReportedOnce
    GuardsRespected
PROPERTIES
    HistoryKept
    BudgetIsTold
    AgentEnds
CHECK_DEADLOCK FALSE
