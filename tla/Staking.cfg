SPECIFICATION PartSpec
CONSTANTS
    v1 = v1
    v2 = v2
    w = w
    Validator <- MCValidator
    Operator <- MCOperator
    ChainState <- MCChainState
    Vote <- MCVote
    Evidence <- MCEvidence
    Proposal = {pr}
    Proc = {p, q}
    Routine = {r1, r2}
    MaxHeight = 3
    MaxFailures = 1
    KeepRecent = 1
    Nobody = Nobody
    NoRow = NoRow
SYMMETRY Interchangeable
INVARIANTS
    TypeOK
    RowsBelong
    InfosFollowBlocks
    UpdatesReachRows
    EvidenceOfHandledBlocks
PROPERTY
    ValidatorTablesAreRegisters
CHECK_DEADLOCK FALSE
