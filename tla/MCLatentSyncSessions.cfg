SPECIFICATION FairSpec
CONSTANTS
    small = small
    quality = quality
    c1 = c1
    c2 = c2
    Presets <- MCPresets
    Calls <- MCCalls
    PresetOf <- MCPresetOf
    Tickers = {k1}
    None = None
    MaxDeaths = 1
INVARIANTS
    TypeOK
    OwnReply
    NoLostWorker
PROPERTIES
    ClosedOutOfUse
    WorkersEnd
CHECK_DEADLOCK FALSE
