\* Cancellation of an audit while one of its jobs completes.
CONSTANTS
    Root = {r1}
    Package = {p1, p2}
    Session = {s1, s2}
    MaxAttempts = 1
    NoJob = NoJob
SPECIFICATION Spec
CHECK_DEADLOCK FALSE
PROPERTY CancelledAuditStopsGrowing
