SPECIFICATION Spec
CONSTANTS
    Pair = {k1, k2}
    Worker = {w1}
    MaxHeight = 3
    MaxMsgs = 2
    MaxSkips = 1
    MaxFailures = 1
    MaxParses = 1
    NoRow = NoRow
SYMMETRY Symmetry
CONSTRAINT Bounds
INVARIANTS
    TypeOK
    MirrorsChain
    NewestGrantPresent
CHECK_DEADLOCK FALSE
