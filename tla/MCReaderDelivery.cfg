SPECIFICATION Spec
CONSTANTS
    Letters <- AllLetters
    Size <- ByteSize
    And <- AndWord
    Comma <- CommaWord
    Vocabulary <- Misheard
    MaxFlaws = 1
    MaxRun = 4
    LongSentence = 8
    MaxTts = 14
    SentenceWarn = 10
    LookAhead = 3
    WordWidth <- PixelWidth
    SpaceWidth = 10
    LineHeight = 45
    Margin = 40
    Requests <- AllRequests
    Pictures <- AllPictures
    PageSize <- Page
    MaxWorkerDeaths = 1
    MaxApiDeaths = 1
    MaxClicks = 2
INVARIANTS
    TypeOK
    TextSpoken
    ChunksAccepted
    NeverAhead
    ReadersAgree
    PresenterClear
    DeliveredWhole
    DeletedIsGone
PROPERTY PageLearnsExport
CHECK_DEADLOCK FALSE
