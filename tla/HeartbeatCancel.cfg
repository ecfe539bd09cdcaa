\* One store error is enough.
CONSTANTS
    Root = {r1}
    Package = {p1, p2}
    Session <- MCSession
    MaxAttempts = 1
    NoJob = NoJob
    Worker = {w1, w2}
    Concurrency = 1
    Api = {api}
    MaxFaults = 1
    MaxCrashes = 1
    MaxTerms = 1
SPECIFICATION WSpec
CHECK_DEADLOCK FALSE
INVARIANT CancelledMeansRequested
