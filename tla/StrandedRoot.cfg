\* Two packages and two sessions: the last two children end concurrently.
CONSTANTS
    Root = {r1}
    Package = {p1, p2}
    Session = {s1, s2}
    MaxAttempts = 2
    NoJob = NoJob
SPECIFICATION Spec
CHECK_DEADLOCK FALSE
INVARIANT WaitingRootHasWork
