\* One audit with two packages, two worker processes with one slot each.
CONSTANTS
    Root = {r1}
    Package = {p1, p2}
    Session <- MCSession
    MaxAttempts = 1
    NoJob = NoJob
    Worker = {w1, w2}
    Concurrency = 1
    Api = {api}
    MaxFaults = 1
    MaxCrashes = 1
    MaxTerms = 1
SPECIFICATION WSpec
SYMMETRY Symmetry
CHECK_DEADLOCK FALSE
INVARIANTS WTypeOK LeaseHolder CancelledOnRequest
