\* A chunk of two jobs whose handlers return one child, one failing store call.
\* No symmetry: two of the properties are temporal.
CONSTANTS
    Seed = {j1, j2}
    Kid = {k1}
    Worker = {w1, w2}
    ChunkSize = 2
    BufferSize = 2
    MaxAttempts = 2
    MaxFaults = 1
    MaxRestarts = 0
    NoJob = NoJob
SPECIFICATION FairSpec
CHECK_DEADLOCK FALSE
INVARIANTS DoneQuiescent
PROPERTIES ChunkEnds ShutdownDrains
