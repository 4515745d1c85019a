SPECIFICATION RequestSpec
CONSTANTS
    NoAnswer = NoAnswer
    NoWant = NoWant
    r1 = r1
    r2 = r2
    k1 = k1
    k2 = k2
    Requests = {r1}
    Keys = {k1}
    Near <- ExactOnly
    Wants <- EveryWant
    Configs <- EveryConfig
    Replies <- EveryReply
    Legacy <- OldEntries
    Options <- Everything
    Faults <- AllFaults
    MaxTiers = 2
    a1 = a1
    a2 = a2
    a3 = a3
    None = None
    Routings = {a1, a2, a3}
    Tenants = {"ta", "tb"}
    Models <- MCModels
    Ask <- MCAsk
    Arrives <- MCArrives
    Provider <- MCProvider
    Cost <- MCCost
    Reasoning = {"large"}
    Configured = {"mini", "mid", "large"}
    DefaultModel = "mini"
    PlatformKeys = {"p", "q"}
    OwnKeys <- MCOwnKeys
    Strict = {"ta"}
    MaxRules = 3
    Hold = 2
    MaxRouteTime = 1
    MaxLatency = 1
    Floor = 4
    Margin = 1
    Rates <- MCRates
    Assumed = 1
    MaxSeen = 3
    SystemSizes = {2, 6}
    ToolSizes = {0, 2}
    OtherSize = 2
    ToolNames = {"f", "g"}
    Denied = {"g"}
    MaxText = 2
    MaxCalls = 2
    MaxArgs = 1
    MaxInbound = 3
    Absent = Absent
    Callable = {"claude", "haiku", "gemini", "o4", "gpt", "custom"}
    Family <- MCFamily
    Able = {"claude", "haiku", "gemini", "o4", "custom"}
    Named = {"claude", "gemini", "o4", "custom"}
    GenericMaps = {2, 3}
    Budget <- MCBudget
    MinThinking = 3
    Allowance <- MCAllowance
    AnswerFloor = 1
    OutputCap = 8
    ProbeCap = 2
    CallerParams <- MCCaller
    Controls <- MCControls
    MaxPlaced = 2
    Sayings = {"x", "y"}
    WindowKeep = 4
    WindowShown = 3
    BudgetKeep = 2
    Trigger = 5
    Target = 4
    SummaryTurns = 4
    SummaryInput = 7
    Lookback = 3
    MaxMessages = 5
    Plans <- MCPlans
INVARIANTS
    PromptsAreClean
    AnsweredOnceAndPriced
    WithinCost
    DisclosedIsServed
    RotationIsFair
    WireIsFaithful
    ReasoningIsSound
    HistoryHolds
PROPERTIES ShrinksPayOff
CHECK_DEADLOCK FALSE
