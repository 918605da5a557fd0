SPECIFICATION OneTableSpec
CONSTANTS
    Tables <- EveryTable
    Proc = {p1, p2}
    MaxHeight = 2
    MaxCrashes = 1
    KeepRecent = 1
    NoRow = NoRow
INVARIANTS
    TypeOK
    LatestWins
    RowsBelong
    RowsNotAheadOfBlocks
PROPERTIES
    TablesAreRegisters
    PeriodicTableCatchesUp
CHECK_DEADLOCK FALSE
