SPECIFICATION FairSpec
CONSTANTS
    c1 = c1
    c2 = c2
    Kinds <- MCKinds
    Calls <- MCCalls
    KindOf <- MCKindOf
    MaxStops = 1
    MaxCrashes = 1
INVARIANTS
    TypeOK
    DownloadsExist
    EventTellsTheTruth
PROPERTY JobSettles
CHECK_DEADLOCK FALSE
