SPECIFICATION CallSpec
CONSTANTS
    Jobs = {j1}
    Batches = {}
    Aligns = {a1}
    MaxRestarts = 0
    MaxPollFailures = 2
    MaxLost = 0
INVARIANT SlowGpuNeverTimesOut
CHECK_DEADLOCK FALSE
