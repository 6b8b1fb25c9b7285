SPECIFICATION Spec
CONSTANTS
    t1 = t1
    t2 = t2
    t3 = t3
    Texts <- MCTexts
    None = None
    MaxChunks = 2
    Requests <- MCReaderThenMp4
    MaxRuns = 2
    MaxTorn = 0
INVARIANT ContentChangesInvalidate
CHECK_DEADLOCK FALSE
