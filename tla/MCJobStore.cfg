\* One audit with up to two packages, or two jobs without children, and two
\* concurrent transactions.
CONSTANTS
    Root = {r1, r2}
    Package = {p1, p2}
    Session = {s1, s2}
    MaxAttempts = 2
    NoJob = NoJob
SPECIFICATION Spec
SYMMETRY Symmetry
CONSTRAINT RootsOrChildren
CHECK_DEADLOCK FALSE
INVARIANTS TypeOK AttemptBudget LeaseDiscipline AttemptLedger DeadLetterOnce AuditOutcomeSound ResultsSound EventTrail
PROPERTIES TerminalIsFinal HistoryImmutable ImplementsLifecycle
