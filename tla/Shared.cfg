SPECIFICATION SharedSpec
CONSTANTS
    NoAnswer = NoAnswer
    NoWant = NoWant
    r1 = r1
    r2 = r2
    k1 = k1
    k2 = k2
    Requests = {r1, r2}
    Keys = {k1, k2}
    Near <- AllNear
    Wants <- SharedWants
    Configs <- SharedConfigs
    Replies <- SharedReplies
    Legacy <- OldEntries
    Options = {"agent", "reconfigure"}
    Faults = {}
    MaxTiers = 1
    w1 = w1
    w2 = w2
    RegistryTools = {"t"}
    ToolRequests = {"r"}
    Replicas = {w1, w2}
    Window = 1
    UsageTtl = 3
    MaxDay = 4
    MaxToolFaults = 1
    v1 = v1
    v2 = v2
    Sections = {"groups", "rate_limit"}
    Readers = {v1, v2}
    CacheTtl = 2
    BootAttempts = 3
    MaxMoment = 3
    MaxVersions = 2
    MaxWrites = 2
    Visits = {v1, v2}
    Deployments <- MCDeployments
    Connections <- MCConnections
    CertsLast = 5
    RefetchAfter = 2
    RetryAfter = 1
    MaxSigner = 2
    MaxInstant = 3
    MaxVisits = 3
    Callers = {v1, v2}
    Asks <- MCAsks
    CacheScopes = {{}, {"model", "system"}}
    DefaultModel = "d"
    Ttl <- MCTtl
    MinMultiplier = 1
    MaxMultiplier = 8
    EnoughLookups = 2
    StatsWindow = 1
    PurgeInterval = 1
    PurgeBatch = 1
    Builders = {w1, w2}
    MaxClock = 1
    MaxCacheFaults = 1
SYMMETRY Swaps
INVARIANTS
    ServedIsSafe
    SettingsHold
    AddressIsSound
PROPERTIES
    CacheIsSound
    JudgedAfresh
CHECK_DEADLOCK FALSE
