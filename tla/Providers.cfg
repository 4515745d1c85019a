SPECIFICATION FairSpec
CONSTANTS
    r1 = r1
    r2 = r2
    o1 = o1
    ta = ta
    tb = tb
    Nobody = Nobody
    Requests = {r1, r2}
    Outside = {}
    Tenants = {ta}
    Providers = {"pm", "pn"}
    JevProvider = "pm"
    Models <- MCModels
    ProviderOf <- MCProviderOf
    Chains <- SharedChains
    Configs <- SharedConfigs
    MaxTime = 3
PROPERTIES
    LockoutIsFiner
    EveryCallEnds
CHECK_DEADLOCK FALSE
