SPECIFICATION FairSpec
CONSTANTS
    MsgType = {m1}
    Worker = {w1, w2}
    MaxHeight = 3
    MaxMsgs = 1
    MaxDays = 3
    MaxFailures = 1
    MaxCrashes = 1
CONSTRAINT OneMessage
INVARIANTS
    TypeOK
    EveryMessageStored
    HandledAtMostOnce
    YesterdayComplete
PROPERTIES
    QueuedBlocksStored
CHECK_DEADLOCK FALSE
