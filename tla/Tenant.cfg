SPECIFICATION TenantSpec
CONSTANTS
    r1 = r1
    r2 = r2
    r3 = r3
    r4 = r4
    r5 = r5
    Requests = {r1, r2}
    Impersonated = {}
    Gates = {"trial", "quota", "spend"}
    HasPrefix = TRUE
    TrialStatus = "active"
    TrialDays = 2
    TrialMax = 2
    TrialWarn = {50}
    QuotaCap = 1
    SpendCap = 2
    SpendWarn = 1
    Costs = {1}
    Unit = 2
    Cap <- SmallCap
    Rate <- SmallRate
    Ttl = 4
    Scripting = TRUE
    MaxAtGate = 3
    MaxDelay = 0
    MonthLen = 2
    MaxTime = 2
    FaultKinds = {"read", "task"}
    MaxFaults = 1
    MaxStops = 1
    a1 = a1
    a2 = a2
    CapTurns = {a1, a2}
    AnswerSizes = {1, 3, 6}
    ModelLimit = 9
    Multiplier = 2
    Backoff = 2
    QuantileOf <- NinetyFifth
    MinEntries = 2
    MaxEntries = 2
    SaneCap = 2
    FallbackCaps = {0, 2}
    ValidateModes = {"off", "flag", "repair", "block"}
    MaxCapTurns = 5
    MaxCapFaults = 1
    RefTurns = {a1, a2}
    i1 = i1
    i2 = i2
    Instances = {i1, i2}
    MaxRefTurns = 5
    MaxRefFaults = 1
    LoopTurns = {a1, a2}
    MaxIterations = 2
    WallClock = 2
    KeyTtl = 3
    MaxClock = 6
    MaxLoopTurns = 5
    MemTurns = {a1, a2}
    MaxSaid = 4
    MemTenants <- ClashingTenants
    Users <- ClashingUsers
    MaxPending = 2
    MaxStores = 3
    MaxSessionFaults = 1
SYMMETRY Interchangeable
INVARIANTS
    QuotaOvershootBounded
    CountersMirrorRows
    OneShotEvents
    CutsHeal
    IgnoredMeansFull
    LoopIsStopped
    MemoryIsOwnAndWhole
CHECK_DEADLOCK FALSE
