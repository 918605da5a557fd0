SPECIFICATION ReadsSpec
CONSTANTS
    Walks <- BlockWalks
    MaxHeight = 5
    MaxPerHeight = 1
    RawLimit = 0
    DefaultLimit = 2
    MaxLimit = 2
    Backfill = TRUE
    Client = {c1, c2}
    CountsTTL = 2
    ResponseTTL = 2
    MaxDelay = 1
    MaxTime = 5
INVARIANTS
    TypeOK
    NoRepeat
    NothingMissed
    AnswersRecent
    MissingOnlyAfterOnePeriod
PROPERTIES
    WalkEnds
CHECK_DEADLOCK FALSE
