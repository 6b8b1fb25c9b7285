SPECIFICATION CallSpec
CONSTANTS
    Jobs = {j1}
    Batches = {b1}
    Aligns = {a1}
    MaxRestarts = 1
    MaxPollFailures = 2
    MaxLost = 2
INVARIANTS
    ClientTypeOK
    NoSpuriousError
    ServerLeftClean
PROPERTY KeepsPromise
CHECK_DEADLOCK FALSE
