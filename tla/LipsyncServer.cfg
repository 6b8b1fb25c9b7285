SPECIFICATION FairSpec
CONSTANTS
    Jobs = {j1, j2}
    Batches = {b1}
    Aligns = {a1}
    MaxRestarts = 1
INVARIANTS
    TypeOK
    GpuExclusive
    VramHandoff
    ResultAvailable
    NoLeftovers
PROPERTIES
    CancelWins
    TerminalStable
    JobSettles
CHECK_DEADLOCK FALSE
