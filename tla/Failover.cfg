SPECIFICATION Spec
CONSTANTS
    r1 = r1
    r2 = r2
    o1 = o1
    ta = ta
    tb = tb
    Nobody = Nobody
    Requests = {r1, r2}
    Outside = {o1}
    Tenants = {ta, tb}
    Providers = {"pm", "pn"}
    JevProvider = "pm"
    Models <- MCModels
    ProviderOf <- MCProviderOf
    Chains <- FailoverChains
    Configs <- FailoverConfigs
    MaxTime = 3
SYMMETRY Symmetry
INVARIANTS
    TypeOK
    GatesNeverStarve
    BreakerCountsHealth
    TrailIsTrue
PROPERTIES
    ProbesSpaced
CHECK_DEADLOCK FALSE
