SPECIFICATION FairSpec
CONSTANTS
    r1 = r1
    r2 = r2
    r3 = r3
    r4 = r4
    va = va
    vb = vb
    Requests <- MCRequests
    Voices <- MCVoices
    Voice <- MCVoice
    None = None
    Error = Error
    MaxBatch = 2
    HasWindow = TRUE
    MaxOthers = 2
INVARIANTS
    TypeOK
PROPERTY Transparent
CHECK_DEADLOCK FALSE
