\* One audit with two packages, two worker processes with one slot each.  No
\* symmetry: the property is temporal.
CONSTANTS
    Root = {r1}
    Package = {p1, p2}
    Session <- MCSession
    MaxAttempts = 1
    NoJob = NoJob
    Worker = {w1, w2}
    Concurrency = 1
    Api = {api}
    MaxFaults = 0
    MaxCrashes = 1
    MaxTerms = 0
SPECIFICATION FairSpec
CHECK_DEADLOCK FALSE
PROPERTY AuditsSettle
