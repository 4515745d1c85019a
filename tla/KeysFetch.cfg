SPECIFICATION Spec
CONSTANTS
    i1 = i1
    i2 = i2
    l1 = l1
    l2 = l2
    w1 = w1
    w2 = w2
    k1 = k1
    k2 = k2
    k3 = k3
    k4 = k4
    t1 = t1
    t2 = t2
    c1 = c1
    Nobody = Nobody
    None = None
    Instances = {i1, i2}
    Lookups = {l1}
    Writers = {w1}
    Keys = {k1, k2, k3, k4}
    Tenants = {t1, t2}
    Cidrs = {c1}
    Stamps = {0, 1, 2, 3}
    Backends = {"secret"}
    WritersAt <- OneBlobWriter
    FreshKey <- Fresh
    FirstStore <- TwoTenantStore
    FirstStamp = 1
    Warm = {i2}
    LookedUp = {k1}
    Changes <- EveryChange
    CacheTtl = 1
    CheckInterval = 1
    ForcedInterval = 1
    MaxTime = 2
    FaultKinds = {"write_fetch"}
    MaxFaults = 1
PROPERTY OtherTenantsKept
CHECK_DEADLOCK FALSE
