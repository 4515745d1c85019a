SPECIFICATION Spec
CONSTANTS
    r1 = r1
    r2 = r2
    r3 = r3
    r4 = r4
    r5 = r5
    Requests = {r1, r2, r3, r4, r5}
    Impersonated = {}
    Gates = {"bucket"}
    HasPrefix = TRUE
    TrialStatus = "none"
    TrialDays = 0
    TrialMax = 0
    TrialWarn = {}
    QuotaCap = 1
    SpendCap = 1
    SpendWarn = 0
    Costs = {}
    Unit = 2
    Cap <- SmallCap
    Rate <- SmallRate
    Ttl = 4
    Scripting = TRUE
    MaxAtGate = 5
    MaxDelay = 2
    MonthLen = 10
    MaxTime = 6
    FaultKinds = {"bucket"}
    MaxFaults = 1
    MaxStops = 0
SYMMETRY Symmetry
INVARIANT Conserved
INVARIANT RefusedTakesNothing
CHECK_DEADLOCK FALSE
