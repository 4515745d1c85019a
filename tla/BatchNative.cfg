SPECIFICATION FairSpec
CONSTANTS
    q1 = q1
    q2 = q2
    w1 = w1
    w2 = w2
    Requests = {q1}
    Placings <- JustOneStream
    Workers = {w1, w2}
    Native = TRUE
    MaxBacklog = 2
    MaxBatch = 2
    MaxAttempts = 2
    Stale = 2
    MaxEntries = 1
    FaultKinds = {"store", "record", "xadd_late", "ack", "poll"}
    MaxFaults = 1
    MaxCrashes = 1
    MaxTrouble <- OneTrouble
PROPERTY AnswerStays
PROPERTY EveryDeferredAnswered
CHECK_DEADLOCK FALSE
