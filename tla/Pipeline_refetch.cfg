SPECIFICATION Spec
CONSTANTS
    MsgType = {m1}
    Worker = {w1}
    MaxHeight = 3
    MaxMsgs = 1
    MaxDays = 3
    MaxFailures = 0
    MaxCrashes = 1
INVARIANTS
    RefetchedBlocksHaveMessages
CHECK_DEADLOCK FALSE
