SPECIFICATION ReadsSpec
CONSTANTS
    Walks <- CursorWalk
    MaxHeight = 3
    MaxPerHeight = 2
    RawLimit = 2
    DefaultLimit = 2
    MaxLimit = 2
    Backfill = FALSE
    Client = {c1}
    CountsTTL = 2
    ResponseTTL = 2
    MaxDelay = 1
    MaxTime = 1
INVARIANTS
    NothingMissed
CHECK_DEADLOCK FALSE
