\* One audit with one package and up to two attempts per job, one worker process
\* with one slot.  No symmetry: the properties are temporal.
CONSTANTS
    Root = {r1}
    Package = {p1}
    Session <- MCSession
    MaxAttempts = 2
    NoJob = NoJob
    Worker = {w1}
    Concurrency = 1
    Api = {api}
    MaxFaults = 1
    MaxCrashes = 1
    MaxTerms = 1
SPECIFICATION FairSpec
CHECK_DEADLOCK FALSE
PROPERTIES JobsSettle DrainEnds ImplementsStore
