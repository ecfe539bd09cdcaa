\* Three public jobs; two clients that share an idempotency key, a client and a
\* pager that asks for pages of one or two, or a client and two replayers.
CONSTANTS
    Job = {j1, j2, j3}
    Rank <- MCRank
    c1 = c1
    c2 = c2
    o1 = o1
    o2 = o2
    pager = pager
    k1 = k1
    Workers = Workers
    Client = {c1, c2}
    Replayer = {o1, o2}
    Pager = {pager}
    Population <- MCPopulation
    Key = {k1}
    NoKey = NoKey
    NoJob = NoJob
    Body = {b1, b2}
    MaxAttempts = 1
    DefaultMax = 1
    Limit = {1, 2}
    MaxClock = 1
SPECIFICATION Spec
SYMMETRY Symmetry
CONSTRAINT ReplaysAtOnce
CHECK_DEADLOCK FALSE
INVARIANTS ATypeOK SubmitOnce ReplayOnce PagesExact
