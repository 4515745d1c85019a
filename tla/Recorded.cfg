SPECIFICATION FairSpec
CONSTANTS
    r1 = r1
    r2 = r2
    r3 = r3
    r4 = r4
    r5 = r5
    Requests = {r1, r2}
    Impersonated = {r2}
    Gates = {"trial", "quota", "spend", "bucket"}
    HasPrefix = TRUE
    TrialStatus = "active"
    TrialDays = 1
    TrialMax = 2
    TrialWarn = {50}
    QuotaCap = 1
    SpendCap = 2
    SpendWarn = 1
    Costs = {0, 1}
    Unit = 2
    Cap <- SmallCap
    Rate <- SmallRate
    Ttl = 4
    Scripting = FALSE
    MaxAtGate = 3
    MaxDelay = 0
    MonthLen = 2
    MaxTime = 1
    FaultKinds = {"read", "flag", "bucket", "task"}
    MaxFaults = 1
    MaxStops = 1
PROPERTIES
    EveryRequestRecorded
CHECK_DEADLOCK FALSE
