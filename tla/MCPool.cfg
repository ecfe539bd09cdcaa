\* Chunks of two jobs before and after a restart, two workers, one failing store call.
CONSTANTS
    Seed = {j1, j2, j3, j4}
    Kid = {}
    Worker = {w1, w2}
    ChunkSize = 2
    BufferSize = 2
    MaxAttempts = 2
    MaxFaults = 1
    MaxRestarts = 1
    NoJob = NoJob
SPECIFICATION Spec
SYMMETRY Symmetry
CHECK_DEADLOCK FALSE
INVARIANTS PTypeOK OneHolder OutstandingHeld Quarantine
