SPECIFICATION Spec
CONSTANTS
    q1 = q1
    q2 = q2
    w1 = w1
    w2 = w2
    Requests = {q1, q2}
    Placings <- OneOrTwoStreams
    Workers = {w1, w2}
    Native = FALSE
    MaxBacklog = 2
    MaxBatch = 2
    MaxAttempts = 2
    Stale = 3
    MaxEntries = 2
    FaultKinds <- LoopFaults
    MaxFaults = 2
    MaxCrashes = 1
    MaxTrouble <- FewerApart
SYMMETRY Symmetries
INVARIANT NothingForgotten
INVARIANT RunsAreBounded
INVARIANT ResultsAreAccounted
INVARIANT StreamIsBacklog
CHECK_DEADLOCK FALSE
