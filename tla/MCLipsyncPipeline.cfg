SPECIFICATION FairSpec
CONSTANTS
    t1 = t1
    t2 = t2
    t3 = t3
    Texts <- MCTexts
    None = None
    MaxChunks = 2
    Requests <- MCOneContent
    MaxRuns = 3
    MaxTorn = 1
INVARIANTS
    TypeOK
    TrackerTruthful
    AllSpoken
    RerunRetries
    ClipsInStep
    OutputMatches
    OutputWhole
PROPERTY RunsEnd
CHECK_DEADLOCK FALSE
